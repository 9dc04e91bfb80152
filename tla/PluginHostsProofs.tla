-------------------------- MODULE PluginHostsProofs --------------------------
(***************************************************************************)
(* Proofs about PluginHosts, for any callers, accounts, numbers of         *)
(* processes and commands, and every mishap: no caller waits on a dead     *)
(* pipe, an answer reaches the call it was given for, one process runs     *)
(* unless a probe has given one up, and the auth file keeps every update.  *)
(***************************************************************************)
EXTENDS PluginHosts, FiniteSetTheorems, SequenceTheorems, TLAPS

(***************************************************************************)
(* The inductive invariant.                                                *)
(***************************************************************************)
Ats == {"idle", "probe", "lock", "reprobe", "spawn", "init", "call", "ask", "callback", "remove"}
Tags == Callers \X (0..MaxCommands) \X Ats
Line == [id : Nat, for : Tags, op : Ops, at : Ats, key : Keys]
Response == [id : Nat, for : Tags, result : {"ok", "err"}]
HostRecord ==
  [child : {"none", "up", "dead"}, in : Seq(Line), out : Seq(Response),
   reader : {"off", "on", "eof", "done"}, gone : BOOLEAN, pending : SUBSET (Nat \X Tags),
   sessions : SUBSET (0..MaxCommands), signins : SUBSET (0..MaxCommands),
   loaders : [Keys -> (0..Before) \cup {None}], dirty : SUBSET Keys, given_up : BOOLEAN]
CallerRecord ==
  [at : Ats, op : Ops \cup {None}, key : Keys \cup {None}, n : 0..MaxCommands,
   host : Hosts \cup {None}, io : {"none", "ok", "err", "gone", "checked", "waiting"},
   got : Tags \cup {None}, asked : BOOLEAN]
WriterRecord ==
  [pc : {"off", "want", "locked", "over", "failed"}, set : SUBSET Keys, value : 0..Before,
   map : Entries]

Types ==
  /\ host \in [Hosts -> HostRecord] /\ caller \in [Callers -> CallerRecord]
  /\ writer \in [Actors -> WriterRecord]
  /\ cached \in Hosts \cup {None} /\ starter \in Callers \cup {None}
  /\ models \subseteq Keys /\ known \in {None, "served", "error"}
  /\ file \in {Bad} \cup {Whole(m) : m \in Entries} /\ bak \in {None, Bad} \cup {Whole(m) : m \in Entries}
  /\ lock \in Actors \cup {None} /\ count \in 0..MaxCommands /\ truth \in Entries
  /\ excused \in BOOLEAN

\* The lines of a pipe.
Lines(s) == {s[i] : i \in DOMAIN s}

\* One transport: a call in flight has an id of its own, and what the child has
\* or will answer under that id was asked by that call.
PipeOK(x) ==
  /\ x.gone <=> x.reader \in {"eof", "done"}
  /\ x.child = "up" => x.reader = "on"
  /\ x.child = "none" => x.reader = "off"
  /\ x.child # "up" => x.in = <<>> /\ \A k \in Keys : x.loaders[k] = None
  /\ x.reader = "done" => x.pending = {}
  /\ IsFiniteSet(x.pending)
  /\ \A p, q \in x.pending : p[1] = q[1] => p = q
  /\ \A p \in x.pending : \A e \in Lines(x.in) \cup Lines(x.out) : e.id = p[1] => e.for = p[2]
Pipes == \A h \in Hosts : PipeOK(host[h])

\* One request: what it holds at each point, and who is registered for it.
Free == {"idle", "lock", "spawn"}
Starting == {"reprobe", "spawn", "init"}
CallerOK(c) ==
  /\ caller[c].at \in Free => caller[c].host = None /\ caller[c].io = "none"
  /\ caller[c].at \notin Free => caller[c].host \in Hosts /\ host[caller[c].host].child # "none"
  /\ caller[c].at # "idle" => caller[c].op \in Ops /\ caller[c].key \in Keys
  /\ caller[c].io \in {"ok", "err"} => caller[c].got = Tag(c)
  /\ caller[c].io = "waiting" => \E p \in host[caller[c].host].pending : p[2] = Tag(c)
Waiters == \A c \in Callers : CallerOK(c)

\* Starting is single-flight: who is at it holds the lock, and the cache is
\* what the starter has seen.
StarterOK(c) ==
  /\ caller[c].at \in Starting <=> starter = c
  /\ caller[c].at = "reprobe" => caller[c].host = cached
  /\ caller[c].at \in {"spawn", "init"} => cached = None
  /\ caller[c].at = "init" => \A d \in Callers \ {c} : caller[d].host # caller[c].host
Starters == \A c \in Callers : StarterOK(c)

\* Processes are started in order; a running one that no probe has given up
\* is the cached one or one that is starting.
Processes ==
  /\ cached # None => host[cached].child # "none"
  /\ \A g, h \in Hosts : g < h /\ host[h].child # "none" => host[g].child # "none"
  /\ \A h \in Hosts : host[h].child = "up" /\ ~host[h].given_up =>
       cached = h \/ \E c \in Callers : caller[c].at = "init" /\ caller[c].host = h

\* A handler updates the auth file for the request it handles.
Handlers ==
  /\ \A h \in Hosts : writer[h].pc # "off" =>
       /\ Handling(h) /\ Updates(Request(h))
       /\ writer[h].pc # "over" => writer[h].set = UpdatedKeys(Request(h))
  /\ \A c \in Callers : writer[c].value = 0

\* Until an update is excused, who is in the lock has the lock file and has
\* read what the file should say, and the file says it.
Alone ==
  ~excused => /\ \A w \in Actors : InLock(w) => lock = w /\ writer[w].map = truth
              /\ file.is = "whole" => file.map = truth

\* Cached options follow the file, until the handler that has just written it
\* drops them.
Loaders ==
  ~excused => \A h \in Hosts, k \in Keys :
    (host[h].child = "up" /\ k \notin host[h].dirty /\ host[h].loaders[k] # None) =>
      \/ host[h].loaders[k] = truth[k]
      \/ writer[h].pc = "over" /\ Handling(h) /\ k \in ClearsLoader(Request(h))

IInv == /\ Types /\ Pipes /\ Waiters /\ Starters /\ Processes /\ NoProcessLeftBehind /\ OneProcess
        /\ Handlers /\ Alone /\ Loaders

(***************************************************************************)
(* The lines of a pipe, and what an update does to one transport.          *)
(***************************************************************************)

\* A function has finitely many values on a finite set.
LEMMA FiniteImage ==
  ASSUME NEW S, IsFiniteSet(S), NEW f, NEW T, f \in [S -> T], \A y \in T : \E x \in S : f[x] = y
  PROVE  IsFiniteSet(T)
<1>1. f \in Surjection(S, T)
  BY DEF Surjection
<1> QED BY <1>1, FS_Surjection

\* Writing adds a line, reading takes the first one.
LEMMA LinesFacts ==
  ASSUME NEW S, NEW s \in Seq(S), NEW e \in S
  PROVE  /\ Lines(Append(s, e)) = Lines(s) \cup {e} /\ Append(s, e) \in Seq(S)
         /\ Lines(<<>>) = {}
         /\ s # <<>> => /\ Head(s) \in Lines(s) /\ Head(s) \in S
                        /\ Tail(s) \in Seq(S) /\ Lines(Tail(s)) \subseteq Lines(s)
         /\ Lines(s) \subseteq S /\ IsFiniteSet(Lines(s))
<1>1. Lines(Append(s, e)) = Lines(s) \cup {e}
  <2>1. /\ DOMAIN s = 1..Len(s) /\ DOMAIN Append(s, e) = 1..(Len(s) + 1) /\ Len(s) \in Nat
        /\ \A i \in 1..Len(s) : Append(s, e)[i] = s[i]
        /\ Append(s, e)[Len(s) + 1] = e
    OBVIOUS
  <2>2. ASSUME NEW x \in Lines(Append(s, e)) PROVE x \in Lines(s) \cup {e}
    <3>1. PICK i \in 1..(Len(s) + 1) : x = Append(s, e)[i]
      BY <2>1 DEF Lines
    <3>2. i \in 1..Len(s) \/ i = Len(s) + 1
      BY <2>1
    <3> QED BY <2>1, <3>1, <3>2 DEF Lines
  <2>3. ASSUME NEW x \in Lines(s) \cup {e} PROVE x \in Lines(Append(s, e))
    <3>1. CASE x = e
      BY <2>1, <3>1 DEF Lines
    <3>2. CASE x \in Lines(s)
      <4>1. PICK i \in 1..Len(s) : x = s[i]
        BY <2>1, <3>2 DEF Lines
      <4>2. i \in 1..(Len(s) + 1)
        BY <2>1
      <4> QED BY <2>1, <4>1, <4>2 DEF Lines
    <3> QED BY <3>1, <3>2
  <2> QED BY <2>2, <2>3
<1>2. Lines(<<>>) = {}
  BY DEF Lines
<1>3. s # <<>> => Head(s) \in Lines(s) /\ Head(s) \in S /\ Lines(Tail(s)) \subseteq Lines(s)
  BY DEF Lines
<1>4. Lines(s) \subseteq S
  BY DEF Lines
<1>5. IsFiniteSet(Lines(s))
  <2>1. Len(s) \in Nat /\ DOMAIN s = 1..Len(s)
    OBVIOUS
  <2>2. IsFiniteSet(1..Len(s))
    BY <2>1, FS_Interval
  <2>3. s \in [1..Len(s) -> Lines(s)] /\ \A y \in Lines(s) : \E i \in 1..Len(s) : s[i] = y
    BY <2>1 DEF Lines
  <2> QED BY <2>2, <2>3, FiniteImage
<1> QED BY <1>1, <1>2, <1>3, <1>4, <1>5

\* The id of a new call is in nobody's way: one of any n + 1 numbers is free.
LEMMA FreshId ==
  ASSUME NEW h \in Hosts, host[h] \in HostRecord, PipeOK(host[h])
  PROVE  /\ NextId(h) \in Nat
         /\ \A p \in host[h].pending : p[1] # NextId(h)
         /\ \A e \in Lines(host[h].in) \cup Lines(host[h].out) : e.id # NextId(h)
<1> DEFINE P == {p[1] : p \in host[h].pending}
           I == {host[h].in[i].id : i \in DOMAIN host[h].in}
           O == {host[h].out[i].id : i \in DOMAIN host[h].out}
           busy == P \cup I \cup O
<1>1. IsFiniteSet(P)
  <2> DEFINE f == [p \in host[h].pending |-> p[1]]
  <2>1. f \in [host[h].pending -> P] /\ \A y \in P : \E p \in host[h].pending : f[p] = y
    OBVIOUS
  <2> HIDE DEF f
  <2> QED BY <2>1, FiniteImage DEF PipeOK
<1>2. IsFiniteSet(I)
  <2>1. IsFiniteSet(DOMAIN host[h].in)
    BY FS_Interval DEF HostRecord
  <2> DEFINE f == [i \in DOMAIN host[h].in |-> host[h].in[i].id]
  <2>2. f \in [DOMAIN host[h].in -> I] /\ \A y \in I : \E i \in DOMAIN host[h].in : f[i] = y
    OBVIOUS
  <2> HIDE DEF f
  <2> QED BY <2>1, <2>2, FiniteImage
<1>3. IsFiniteSet(O)
  <2>1. IsFiniteSet(DOMAIN host[h].out)
    BY FS_Interval DEF HostRecord
  <2> DEFINE f == [i \in DOMAIN host[h].out |-> host[h].out[i].id]
  <2>2. f \in [DOMAIN host[h].out -> O] /\ \A y \in O : \E i \in DOMAIN host[h].out : f[i] = y
    OBVIOUS
  <2> HIDE DEF f
  <2> QED BY <2>1, <2>2, FiniteImage
<1>4. IsFiniteSet(busy)
  <2>1. IsFiniteSet(P \cup I)
    BY <1>1, <1>2, FS_Union
  <2> QED BY <1>3, <2>1, FS_Union
<1>5. Cardinality(busy) \in Nat
  BY <1>4, FS_CardinalityType
<1> DEFINE n == Cardinality(busy) + 1
<1>6. \E i \in 1..n : i \notin busy
  <2> SUFFICES ASSUME 1..n \subseteq busy PROVE FALSE
    OBVIOUS
  <2>1. Cardinality(1..n) = n
    <3> HIDE DEF busy
    <3> QED BY <1>5, FS_Interval
  <2>2. Cardinality(1..n) <= Cardinality(busy)
    BY <1>4, FS_Subset
  <2> HIDE DEF busy
  <2> QED BY <1>5, <2>1, <2>2
<1>7. NextId(h) \in 1..n /\ NextId(h) \notin busy
  <2>1. NextId(h) = CHOOSE i \in 1..n : i \notin busy
    BY DEF NextId
  <2> HIDE DEF busy
  <2> QED BY <1>6, <2>1
<1>8. NextId(h) \in Nat
  <2> HIDE DEF busy
  <2> QED BY <1>5, <1>7
<1>9. \A e \in Lines(host[h].in) \cup Lines(host[h].out) : e.id \in busy
  BY DEF Lines
<1> QED BY <1>7, <1>8, <1>9

\* What only touches what the child or the server remembers leaves the pipe alone.
LEMMA PipeAlone ==
  ASSUME NEW x \in HostRecord, NEW y \in HostRecord, PipeOK(x),
         y.child = x.child, y.in = x.in, y.out = x.out, y.reader = x.reader, y.gone = x.gone,
         y.pending = x.pending, x.child = "up" \/ y.loaders = x.loaders
  PROVE  PipeOK(y)
BY DEF PipeOK

LEMMA GivenUpOK ==
  ASSUME NEW x \in HostRecord, PipeOK(x), NEW y, y = [x EXCEPT !.given_up = TRUE]
  PROVE  /\ y \in HostRecord /\ PipeOK(y) /\ y.given_up = TRUE /\ y.child = x.child /\ y.in = x.in
         /\ y.out = x.out /\ y.reader = x.reader /\ y.gone = x.gone /\ y.pending = x.pending
         /\ y.loaders = x.loaders /\ y.dirty = x.dirty
<1>1. /\ y \in HostRecord /\ y.given_up = TRUE /\ y.child = x.child /\ y.in = x.in
      /\ y.out = x.out /\ y.reader = x.reader /\ y.gone = x.gone /\ y.pending = x.pending
      /\ y.loaders = x.loaders /\ y.dirty = x.dirty
  BY DEF HostRecord
<1> QED BY <1>1, PipeAlone

LEMMA SessionsOK ==
  ASSUME NEW x \in HostRecord, PipeOK(x), NEW S \in SUBSET (0..MaxCommands),
         NEW y, y = [x EXCEPT !.sessions = S]
  PROVE  /\ y \in HostRecord /\ PipeOK(y) /\ y.child = x.child /\ y.in = x.in
         /\ y.pending = x.pending /\ y.given_up = x.given_up
         /\ y.loaders = x.loaders /\ y.dirty = x.dirty
<1>1. /\ y \in HostRecord /\ y.given_up = x.given_up /\ y.child = x.child /\ y.in = x.in
      /\ y.out = x.out /\ y.reader = x.reader /\ y.gone = x.gone /\ y.pending = x.pending
      /\ y.loaders = x.loaders /\ y.dirty = x.dirty
  BY DEF HostRecord
<1> QED BY <1>1, PipeAlone

\* The end of the process.
LEMMA EndedOK ==
  ASSUME NEW x \in HostRecord, PipeOK(x)
  PROVE  /\ Ended(x) \in HostRecord /\ PipeOK(Ended(x))
         /\ Ended(x).child = "dead" /\ Ended(x).pending = x.pending /\ Ended(x).given_up = x.given_up
<1>1. Ended(x) \in HostRecord
  <2>1. [k \in Keys |-> None] \in [Keys -> (0..Before) \cup {None}]
    OBVIOUS
  <2>2. <<>> \in Seq(Line)
    OBVIOUS
  <2> QED BY <2>1, <2>2 DEF Ended, HostRecord
<1>2. Lines(<<>>) = {}
  BY DEF Lines
<1> QED BY <1>1, <1>2 DEF Ended, HostRecord, PipeOK

\* A call registers its waiter under a free id and writes its line.
LEMMA CallOK ==
  ASSUME NEW x \in HostRecord, PipeOK(x), NEW l \in Line, x.child = "up",
         \A p \in x.pending : p[1] # l.id,
         NEW y, y = [x EXCEPT !.pending = {p \in @ : p[1] # l.id} \cup {<<l.id, l.for>>},
                              !.in = Append(@, l)]
  PROVE  y \in HostRecord /\ y.pending = x.pending \cup {<<l.id, l.for>>}
<1>1. y.pending = x.pending \cup {<<l.id, l.for>>} /\ y.in = Append(x.in, l)
  BY DEF HostRecord
<1>2. x.pending \cup {<<l.id, l.for>>} \in SUBSET (Nat \X Tags)
  BY DEF HostRecord, Line
<1>3. Append(x.in, l) \in Seq(Line)
  BY DEF HostRecord
<1> QED BY <1>1, <1>2, <1>3 DEF HostRecord

LEMMA CallPipeOK ==
  ASSUME NEW x \in HostRecord, PipeOK(x), NEW l \in Line, x.child = "up",
         \A p \in x.pending : p[1] # l.id,
         \A e \in Lines(x.in) \cup Lines(x.out) : e.id # l.id,
         NEW y \in HostRecord, y.pending = x.pending \cup {<<l.id, l.for>>}, y.in = Append(x.in, l),
         y.child = x.child, y.out = x.out, y.reader = x.reader, y.gone = x.gone,
         y.loaders = x.loaders
  PROVE  PipeOK(y)
<1>1. Lines(y.in) = Lines(x.in) \cup {l}
  <2>1. x.in \in Seq(Line)
    BY DEF HostRecord
  <2> QED BY <2>1, LinesFacts
<1>2. IsFiniteSet(y.pending)
  BY FS_AddElement DEF PipeOK
<1>3. \A p, q \in y.pending : p[1] = q[1] => p = q
  BY DEF PipeOK
<1>4. \A p \in y.pending : \A e \in Lines(y.in) \cup Lines(y.out) : e.id = p[1] => e.for = p[2]
  BY <1>1 DEF PipeOK
<1> QED BY <1>2, <1>3, <1>4 DEF PipeOK

\* The reader takes a reply and the waiters of its id.
LEMMA TakenOK ==
  ASSUME NEW x \in HostRecord, PipeOK(x), x.out # <<>>, x.reader = "on", NEW F,
         NEW y, y = [x EXCEPT !.out = Tail(@), !.pending = @ \ F]
  PROVE  y \in HostRecord /\ PipeOK(y)
<1>1. x.out \in Seq(Response) /\ Tail(x.out) \in Seq(Response) /\ Lines(Tail(x.out)) \subseteq Lines(x.out)
  BY LinesFacts DEF HostRecord
<1>2. y \in HostRecord
  BY <1>1 DEF HostRecord
<1>3. /\ y.pending = x.pending \ F /\ y.out = Tail(x.out) /\ y.in = x.in /\ y.child = x.child
      /\ y.reader = x.reader /\ y.gone = x.gone /\ y.loaders = x.loaders
  BY DEF HostRecord
<1>4. IsFiniteSet(y.pending)
  BY <1>3, FS_Subset DEF PipeOK
<1> QED BY <1>1, <1>2, <1>3, <1>4 DEF PipeOK

\* The child answers its first line under that line's id.
LEMMA ReplyOK ==
  ASSUME NEW h \in Hosts, host[h] \in HostRecord, PipeOK(host[h]), Handling(h),
         NEW x \in HostRecord, PipeOK(x), NEW res \in {"ok", "err"},
         x.child = host[h].child, x.in = host[h].in
  PROVE  /\ Reply(h, x, res) \in HostRecord /\ PipeOK(Reply(h, x, res))
         /\ Reply(h, x, res).child = x.child /\ Reply(h, x, res).pending = x.pending
         /\ Reply(h, x, res).given_up = x.given_up /\ Reply(h, x, res).loaders = x.loaders
         /\ Reply(h, x, res).dirty = x.dirty /\ Reply(h, x, res).in = Tail(x.in)
<1> DEFINE r == [id |-> Request(h).id, for |-> Request(h).for, result |-> res]
           y == Reply(h, x, res)
<1>1. x.in \in Seq(Line) /\ x.out \in Seq(Response) /\ x.in # <<>>
  BY DEF HostRecord, Handling
<1>2. Request(h) \in Line /\ Request(h) \in Lines(x.in)
  BY <1>1, LinesFacts DEF Request
<1>3. r \in Response
  BY <1>2 DEF Line, Response
<1>4. /\ y.in = Tail(x.in) /\ y.out = Append(x.out, r) /\ y.pending = x.pending /\ y.child = x.child
      /\ y.reader = x.reader /\ y.gone = x.gone /\ y.given_up = x.given_up
      /\ y.loaders = x.loaders /\ y.dirty = x.dirty
  BY DEF Reply, HostRecord
<1>5. /\ Tail(x.in) \in Seq(Line) /\ Lines(Tail(x.in)) \subseteq Lines(x.in)
      /\ Append(x.out, r) \in Seq(Response) /\ Lines(Append(x.out, r)) = Lines(x.out) \cup {r}
  <2>1. Append(x.out, r) \in Seq(Response) /\ Lines(Append(x.out, r)) = Lines(x.out) \cup {r}
    BY <1>1, <1>3, LinesFacts
  <2> QED BY <1>1, <1>2, <2>1, LinesFacts
<1>6. y \in HostRecord
  BY <1>5 DEF Reply, HostRecord
<1>7. \A p \in y.pending : \A e \in Lines(y.in) \cup Lines(y.out) : e.id = p[1] => e.for = p[2]
  BY <1>2, <1>4, <1>5 DEF PipeOK
<1>8. PipeOK(y)
  <2> HIDE DEF y
  <2> QED BY <1>4, <1>7 DEF PipeOK, Handling
<1> QED BY <1>4, <1>6, <1>8

(***************************************************************************)
(* Steps that leave a part of the state alone.                             *)
(***************************************************************************)
People == Waiters /\ Starters /\ Processes /\ NoProcessLeftBehind /\ OneProcess
Auth == Handlers /\ Alone /\ Loaders

\* The empty records have their types.
LEMMA EmptyTypes ==
  /\ NoEntries \in Entries /\ NoWriter \in WriterRecord /\ Idle \in CallerRecord
  /\ NoWriter.pc = "off" /\ NoWriter.value = 0
  /\ Idle.at = "idle" /\ Idle.host = None /\ Idle.io = "none"
<1>1. Before \in Nat /\ 0 \in 0..Before /\ 0 \in 0..MaxCommands
  BY PluginAssumption DEF Before
<1>2. NoEntries \in Entries
  BY <1>1 DEF NoEntries, Entries
<1>3. NoWriter \in WriterRecord /\ NoWriter.pc = "off" /\ NoWriter.value = 0
  BY <1>1, <1>2 DEF NoWriter, WriterRecord
<1>4. Idle \in CallerRecord /\ Idle.at = "idle" /\ Idle.host = None /\ Idle.io = "none"
  BY <1>1 DEF Idle, CallerRecord, Ats
<1> QED BY <1>2, <1>3, <1>4

\* A step of a handler or of the auth file is nothing to the requests.
LEMMA SamePeople ==
  ASSUME IInv, UNCHANGED <<cached, starter, caller>>,
         \A h \in Hosts : /\ host'[h].child = host[h].child /\ host'[h].pending = host[h].pending
                          /\ host'[h].given_up = host[h].given_up
  PROVE  People'
<1>1. Waiters'
  BY DEF IInv, Waiters, CallerOK, Tag
<1>2. Starters'
  BY DEF IInv, Starters, StarterOK
<1>3. Processes'
  BY DEF IInv, Types, Processes
<1>4. NoProcessLeftBehind' /\ OneProcess'
  BY DEF IInv, NoProcessLeftBehind, OneProcess, References
<1> QED BY <1>1, <1>2, <1>3, <1>4 DEF People

\* A step of a request that leaves what the child remembers, and the line it
\* is at, is nothing to the auth file.
LEMMA SameAuth ==
  ASSUME IInv, UNCHANGED auths,
         \A h \in Hosts : /\ host'[h].child = host[h].child /\ host'[h].loaders = host[h].loaders
                          /\ host'[h].dirty = host[h].dirty
                          /\ host[h].in # <<>> => host'[h].in # <<>> /\ Head(host'[h].in) = Head(host[h].in)
  PROVE  Auth'
<1>1. \A h \in Hosts : Handling(h) => Handling(h)' /\ Request(h)' = Request(h)
  BY DEF Handling, Request
<1>2. Handlers'
  BY <1>1 DEF IInv, Handlers, auths, Updates, UpdatedKeys, Method
<1>3. Alone'
  BY DEF IInv, Alone, InLock, auths
<1>4. Loaders'
  BY <1>1 DEF IInv, Loaders, auths, ClearsLoader, UpdatedKeys, Method
<1> QED BY <1>2, <1>3, <1>4 DEF Auth

\* Dropping the last reference kills the child and changes nothing else.
LEMMA DroppedFacts ==
  ASSUME NEW hs \in [Hosts -> HostRecord], \A h \in Hosts : PipeOK(hs[h]), NEW cch, NEW cs,
         NEW D, D = Dropped(hs, cch, cs)
  PROVE  /\ D \in [Hosts -> HostRecord]
         /\ \A h \in Hosts :
              /\ PipeOK(D[h]) /\ D[h].pending = hs[h].pending
              /\ D[h].child = "none" <=> hs[h].child = "none"
              /\ D[h].child = "up" => D[h] = hs[h] /\ References(h, cch, cs)
<1>1. ASSUME NEW h \in Hosts
      PROVE  /\ D[h] \in HostRecord /\ PipeOK(D[h]) /\ D[h].pending = hs[h].pending
             /\ D[h].child = "none" <=> hs[h].child = "none"
             /\ D[h].child = "up" => D[h] = hs[h] /\ References(h, cch, cs)
  <2> DEFINE E == Ended(hs[h])
             y == [E EXCEPT !.sessions = {}, !.given_up = FALSE]
  <2>1. E \in HostRecord /\ PipeOK(E) /\ E.child = "dead" /\ E.pending = hs[h].pending
    BY EndedOK
  <2> HIDE DEF E
  <2>2. /\ y \in HostRecord /\ y.child = E.child /\ y.in = E.in /\ y.out = E.out
        /\ y.reader = E.reader /\ y.gone = E.gone /\ y.pending = E.pending /\ y.loaders = E.loaders
    BY <2>1 DEF HostRecord
  <2> HIDE DEF y
  <2>3. PipeOK(y)
    BY <2>1, <2>2, PipeAlone
  <2>4. CASE hs[h].child # "none" /\ ~References(h, cch, cs)
    <3>1. D[h] = y
      BY <2>4 DEF Dropped, y, E
    <3> QED BY <2>1, <2>2, <2>3, <2>4, <3>1
  <2>5. CASE hs[h].child = "none" \/ References(h, cch, cs)
    <3>1. D[h] = hs[h]
      BY <2>5 DEF Dropped
    <3> QED BY <2>5, <3>1
  <2> QED BY <2>4, <2>5
<1>2. D \in [Hosts -> HostRecord]
  <2>1. D = [h \in Hosts |-> D[h]]
    BY DEF Dropped
  <2> QED BY <1>1, <2>1
<1> QED BY <1>1, <1>2

\* hs is the hosts with some children ended and some given up.
Heir(hs) ==
  /\ hs \in [Hosts -> HostRecord]
  /\ \A h \in Hosts :
       /\ PipeOK(hs[h]) /\ (hs[h].child = "none" <=> host[h].child = "none")
       /\ hs[h].child = "up" =>
            /\ host[h].child = "up" /\ hs[h].in = host[h].in /\ hs[h].loaders = host[h].loaders
            /\ hs[h].dirty = host[h].dirty /\ (host[h].given_up => hs[h].given_up)

LEMMA DropCore ==
  ASSUME IInv, NEW hs, Heir(hs), host' = Dropped(hs, cached', caller'),
         writer' \in [Actors -> WriterRecord],
         \A w \in Actors : writer'[w] = NoWriter \/ writer'[w] = writer[w],
         \A h \in Hosts : host'[h].child = "dead" => writer'[h].pc = "off",
         \A h \in Hosts : host'[h].child # "dead" => writer'[h] = writer[h],
         UNCHANGED <<file, bak, lock, truth, excused>>
  PROVE  Heir(host') /\ Pipes' /\ NoProcessLeftBehind' /\ OneProcess' /\ Auth'
<1>1. /\ host' \in [Hosts -> HostRecord]
      /\ \A h \in Hosts :
           /\ PipeOK(host'[h])
           /\ host'[h].child = "none" <=> hs[h].child = "none"
           /\ host'[h].child = "up" => host'[h] = hs[h] /\ References(h, cached', caller')
  BY DroppedFacts DEF Heir
<1>2. Heir(host')
  BY <1>1 DEF Heir
<1>3. Pipes'
  BY <1>1 DEF Pipes, PipeOK
<1>4. NoProcessLeftBehind'
  BY <1>1 DEF NoProcessLeftBehind, References
<1>5. OneProcess'
  BY <1>2 DEF OneProcess, Heir, IInv
<1>6. \A h \in Hosts : writer'[h].pc # "off" => host'[h].child = "up"
  <2> SUFFICES ASSUME NEW h \in Hosts, writer'[h].pc # "off" PROVE host'[h].child = "up"
    OBVIOUS
  <2>1. host'[h].child # "dead" /\ writer'[h] = writer[h]
    OBVIOUS
  <2>2. host[h].child = "up"
    BY <2>1 DEF IInv, Handlers, Handling
  <2>3. host'[h].child \in {"none", "up", "dead"} /\ host'[h].child # "none"
    BY <1>1, <1>2, <2>2 DEF Heir, HostRecord
  <2> QED BY <2>1, <2>3
<1>7. \A h \in Hosts : host'[h].child = "up" =>
         /\ host[h].child = "up" /\ host'[h].in = host[h].in /\ writer'[h] = writer[h]
         /\ Handling(h)' = Handling(h) /\ Request(h)' = Request(h)
  BY <1>2 DEF Heir, Handling, Request
<1>8. Handlers'
  <2>1. ASSUME NEW h \in Hosts, writer'[h].pc # "off"
        PROVE  /\ Handling(h)' /\ Updates(Request(h))'
               /\ writer'[h].pc # "over" => writer'[h].set = UpdatedKeys(Request(h))'
    <3>1. host'[h].child = "up" /\ writer'[h] = writer[h] /\ Handling(h)' = Handling(h) /\ Request(h)' = Request(h)
      BY <1>6, <1>7, <2>1
    <3> QED BY <2>1, <3>1 DEF IInv, Handlers, Updates, UpdatedKeys, Method
  <2>2. ASSUME NEW d \in Callers PROVE writer'[d].value = 0
    BY EmptyTypes DEF IInv, Handlers, Actors
  <2> QED BY <2>1, <2>2 DEF Handlers
<1>9. Alone'
  BY EmptyTypes DEF IInv, Alone, InLock
<1>10. Loaders'
  BY <1>2, <1>7 DEF IInv, Loaders, Heir, ClearsLoader, UpdatedKeys, Method
<1> QED BY <1>2, <1>3, <1>4, <1>5, <1>8, <1>9, <1>10 DEF Auth

LEMMA DropKeeps ==
  ASSUME IInv, NEW c \in Callers, NEW hs, Heir(hs), host' = Dropped(hs, cached', caller'),
         writer' = Killed(host') \/ writer' = [Killed(host') EXCEPT ![c] = NoWriter],
         UNCHANGED <<file, bak, lock, truth, excused>>
  PROVE  /\ Heir(host') /\ Pipes' /\ NoProcessLeftBehind' /\ OneProcess'
         /\ writer' \in [Actors -> WriterRecord] /\ Auth'
<1>1. /\ writer' \in [Actors -> WriterRecord]
      /\ \A w \in Actors : writer'[w] = NoWriter \/ writer'[w] = writer[w]
  BY EmptyTypes DEF IInv, Types, Killed, Actors
<1>2. \A h \in Hosts : host'[h].child = "dead" => writer'[h] = NoWriter
  BY PluginAssumption, EmptyTypes DEF Killed, Actors, IInv, Types
<1>3. \A h \in Hosts : host'[h].child # "dead" => writer'[h] = writer[h]
  BY PluginAssumption, EmptyTypes DEF Killed, Actors, IInv, Types
<1> QED BY <1>1, <1>2, <1>3, EmptyTypes, DropCore

(***************************************************************************)
(* A request that ends.                                                    *)
(***************************************************************************)
LEMMA HostsAreHeirs == IInv => Heir(host)
BY DEF IInv, Types, Pipes, Heir

\* What a request lets go of when it is over, whatever it was at.
LEMMA ReturnsKeeps ==
  ASSUME IInv, NEW c \in Callers, NEW hs, Heir(hs),
         \A h \in Hosts : hs[h].pending = host[h].pending \/ (caller[c].at = "init" /\ h = caller[c].host),
         Returns(c, hs, cached'),
         cached' = cached \/ (caller[c].at = "init" /\ cached' = caller[c].host),
         models' \subseteq Keys, known' \in {None, "served", "error"},
         UNCHANGED <<file, bak, lock, truth, excused, count>>
  PROVE  IInv'
<1> USE DEF Returns
<1>1. /\ Heir(host') /\ Pipes' /\ NoProcessLeftBehind' /\ OneProcess'
      /\ writer' \in [Actors -> WriterRecord] /\ Auth'
  BY DropKeeps
<1>2. \A h \in Hosts : /\ host'[h].pending = hs[h].pending
                       /\ host'[h].child = "up" => References(h, cached', caller')
  BY DroppedFacts DEF Heir
<1>3. /\ caller' \in [Callers -> CallerRecord] /\ caller'[c] = Idle
      /\ \A d \in Callers \ {c} : caller'[d] = caller[d]
  BY EmptyTypes DEF IInv, Types
<1>4. starter' \in Callers \cup {None} /\ cached' \in Hosts \cup {None}
  BY DEF IInv, Types, Waiters, CallerOK, Free
<1>5. Types'
  BY <1>1, <1>3, <1>4 DEF IInv, Types, Heir
<1>6. Waiters'
  <2>1. CallerOK(c)'
    BY <1>3, EmptyTypes DEF CallerOK, Free
  <2>2. ASSUME NEW d \in Callers \ {c} PROVE CallerOK(d)'
    <3>1. CallerOK(d) /\ caller'[d] = caller[d] /\ Tag(d)' = Tag(d)
      BY <1>3 DEF IInv, Waiters, Tag
    <3>2. CASE caller[d].at \in Free
      BY <3>1, <3>2 DEF CallerOK, Free
    <3>3. CASE caller[d].at \notin Free
      <4>1. caller[d].host \in Hosts /\ host[caller[d].host].child # "none"
        BY <3>1, <3>3 DEF CallerOK
      <4>2. host'[caller[d].host].child # "none"
        BY <1>1, <4>1 DEF Heir
      <4>3. ~(caller[c].at = "init" /\ caller[d].host = caller[c].host)
        BY DEF IInv, Starters, StarterOK
      <4>4. host'[caller[d].host].pending = host[caller[d].host].pending
        BY <1>2, <4>1, <4>3
      <4> QED BY <3>1, <3>3, <4>1, <4>2, <4>4 DEF CallerOK
    <3> QED BY <3>2, <3>3
  <2> QED BY <2>1, <2>2 DEF Waiters
<1>7. Starters'
  <2>1. StarterOK(c)'
    BY <1>3, EmptyTypes, PluginAssumption DEF IInv, Types, StarterOK, Starting
  <2>2. ASSUME NEW d \in Callers \ {c} PROVE StarterOK(d)'
    <3>1. StarterOK(d) /\ StarterOK(c) /\ caller'[d] = caller[d] /\ caller'[c].host = None
      BY <1>3, EmptyTypes DEF IInv, Starters
    <3>2. starter' = d <=> starter = d
      BY PluginAssumption
    <3>3. caller[d].at \in Starting => cached' = cached
      BY <3>1 DEF StarterOK, Starting
    <3>4. caller[d].at = "init" => caller[d].host # None
      BY PluginAssumption DEF IInv, Waiters, CallerOK, Free, Hosts
    <3> QED BY <1>3, <3>1, <3>2, <3>3, <3>4 DEF StarterOK, Starting
  <2> QED BY <2>1, <2>2 DEF Starters
<1>8. Processes'
  <2>1. cached' # None => host'[cached'].child # "none"
    <3>1. cached' # None => cached' \in Hosts /\ host[cached'].child # "none"
      BY <1>4 DEF IInv, Types, Processes, Waiters, CallerOK, Free
    <3> QED BY <1>1, <3>1 DEF Heir
  <2>2. \A g, h \in Hosts : g < h /\ host'[h].child # "none" => host'[g].child # "none"
    BY <1>1 DEF IInv, Processes, Heir
  <2>3. ASSUME NEW h \in Hosts, host'[h].child = "up", ~host'[h].given_up
        PROVE  cached' = h \/ \E d \in Callers : caller'[d].at = "init" /\ caller'[d].host = h
    <3>1. host[h].child = "up" /\ ~host[h].given_up
      BY <1>1, <2>3 DEF Heir
    <3>2. CASE cached = h
      BY <3>2, PluginAssumption DEF IInv, Starters, StarterOK, Hosts
    <3>3. ASSUME NEW d \in Callers, caller[d].at = "init", caller[d].host = h
          PROVE  cached' = h \/ \E e \in Callers : caller'[e].at = "init" /\ caller'[e].host = h
      <4>1. CASE d # c
        BY <1>3, <3>3, <4>1
      <4>2. CASE d = c
        <5>1. \A e \in Callers : caller'[e].host # h
          BY <1>3, <3>3, <4>2, EmptyTypes, PluginAssumption DEF IInv, Starters, StarterOK, Hosts
        <5> QED BY <1>2, <2>3, <5>1 DEF References
      <4> QED BY <4>1, <4>2
    <3> QED BY <3>1, <3>2, <3>3 DEF IInv, Processes
  <2> QED BY <2>1, <2>2, <2>3 DEF Processes
<1> QED BY <1>1, <1>5, <1>6, <1>7, <1>8 DEF IInv, Auth

LEMMA PlainReturn ==
  ASSUME IInv, NEW c \in Callers, Returns(c, host, cached),
         models' \subseteq Keys, known' \in {None, "served", "error"},
         UNCHANGED <<cached, file, bak, lock, truth, excused, count>>
  PROVE  IInv'
<1>1. Returns(c, host, cached')
  BY DEF Returns
<1> QED BY <1>1, HostsAreHeirs, ReturnsKeeps

LEMMA FailedKeeps ==
  ASSUME IInv, NEW c \in Callers, Failed(c)
  PROVE  IInv'
BY PlainReturn DEF Failed, IInv, Types

LEMMA SignedOutKeeps ==
  ASSUME IInv, NEW c \in Callers, SignedOut(c)
  PROVE  IInv'
BY PlainReturn DEF SignedOut, IInv, Types

LEMMA CancelledKeeps ==
  ASSUME IInv, NEW c \in Callers, Cancelled(c)
  PROVE  IInv'
BY PlainReturn DEF Cancelled, IInv, Types

LEMMA SpawnFailsKeeps ==
  ASSUME IInv, NEW c \in Callers, SpawnFails(c)
  PROVE  IInv'
BY PlainReturn DEF SpawnFails, Remembers, remember, IInv, Types

\* The host whose handshake failed has no other user, so its pipe may be shut.
LEMMA StartFailsKeeps ==
  ASSUME IInv, NEW c \in Callers, StartFails(c)
  PROVE  IInv'
<1> DEFINE h == caller[c].host
           x == Ended(host[h])
           y == [x EXCEPT !.out = <<>>, !.reader = "done", !.gone = TRUE, !.pending = {}]
           hs == try_shutdown(h)
<1>1. caller[c].at = "init" /\ h \in Hosts /\ host[h].child # "none" /\ host[h] \in HostRecord /\ PipeOK(host[h])
  BY DEF StartFails, IInv, Types, Pipes, Waiters, CallerOK, Free
<1>2. x \in HostRecord /\ PipeOK(x) /\ x.child = "dead" /\ x.in = <<>> /\ \A k \in Keys : x.loaders[k] = None
  BY <1>1, EndedOK DEF Ended, HostRecord
<1> HIDE DEF x
<1>3. y \in HostRecord /\ y.child = "dead" /\ PipeOK(y)
  <2>1. <<>> \in Seq(Response)
    OBVIOUS
  <2>2. y \in HostRecord
    BY <1>2, <2>1 DEF HostRecord
  <2>3. /\ y.child = "dead" /\ y.in = <<>> /\ y.out = <<>> /\ y.reader = "done" /\ y.gone = TRUE /\ y.pending = {}
        /\ y.loaders = x.loaders
    BY <1>2 DEF HostRecord
  <2> HIDE DEF y
  <2> QED BY <1>2, <2>2, <2>3, FS_EmptySet DEF PipeOK
<1>4. hs = [host EXCEPT ![h] = y]
  BY DEF try_shutdown, x
<1> HIDE DEF y, h
<1>5. \A g \in Hosts : hs[g] = IF g = h THEN y ELSE host[g]
  BY <1>1, <1>4 DEF IInv, Types
<1>6. Heir(hs)
  <2>1. hs \in [Hosts -> HostRecord]
    BY <1>1, <1>3, <1>4 DEF IInv, Types
  <2> QED BY <2>1, <1>1, <1>3, <1>5 DEF Heir, IInv, Pipes
<1>7. Returns(c, hs, cached') /\ cached' = cached
  BY DEF StartFails, h, Returns
<1>8. known' \in {None, "served", "error"} /\ models' \subseteq Keys
  BY DEF StartFails, Remembers, remember, IInv, Types
<1>9. \A g \in Hosts : hs[g].pending = host[g].pending \/ (caller[c].at = "init" /\ g = caller[c].host)
  BY <1>1, <1>5 DEF h
<1> HIDE DEF hs
<1> QED BY <1>6, <1>7, <1>8, <1>9, ReturnsKeeps DEF StartFails

(***************************************************************************)
(* A request that goes on.                                                 *)
(***************************************************************************)

\* A request moves to its next point y with the host it had, or with the cached
\* one when it had none; a starter that has started caches its host.
MovesTo(c, y) ==
  /\ y \in CallerRecord /\ caller' = [caller EXCEPT ![c] = y]
  /\ y.at \in Free => y.host = None /\ y.io = "none"
  /\ y.at \notin Free => y.host \in Hosts /\ host[y.host].child # "none"
  /\ y.at # "idle" => y.op \in Ops /\ y.key \in Keys
  /\ y.io \notin {"ok", "err", "waiting"}
  /\ y.host = caller[c].host \/ (caller[c].host = None /\ y.host \in {cached, None})
  /\ y.at = "init" => caller[c].at = "init"
  /\ caller[c].at = "init" => y.at = "init" \/ cached' = caller[c].host
  /\ cached' = cached \/ (caller[c].at = "init" /\ cached' = caller[c].host)
  /\ starter' \in Callers \cup {None}
  /\ y.at \in Starting <=> starter' = c
  /\ \A d \in Callers \ {c} : starter' = d <=> starter = d
  /\ y.at = "reprobe" => y.host = cached'
  /\ y.at \in {"spawn", "init"} => cached' = None

LEMMA MoveKeeps ==
  ASSUME IInv, NEW c \in Callers, NEW y, MovesTo(c, y), host' \in [Hosts -> HostRecord],
         \A h \in Hosts : /\ host'[h].child = host[h].child /\ host'[h].pending = host[h].pending
                          /\ host'[h].given_up = host[h].given_up
  PROVE  People' /\ caller' \in [Callers -> CallerRecord] /\ cached' \in Hosts \cup {None}
<1>1. /\ caller' \in [Callers -> CallerRecord] /\ caller'[c] = y
      /\ \A d \in Callers \ {c} : caller'[d] = caller[d]
  BY DEF MovesTo, IInv, Types
<1>2. cached' \in Hosts \cup {None}
  BY DEF MovesTo, IInv, Types, Waiters, CallerOK, Free
<1>3. None \notin Hosts
  BY PluginAssumption DEF Hosts
<1>4. \A d \in Callers \ {c} : caller[d].at \in Starting => starter # c /\ caller[c].at \notin Starting /\ cached' = cached
  BY DEF MovesTo, IInv, Starters, StarterOK, Starting
<1>5. Waiters'
  <2>1. CallerOK(c)'
    BY <1>1 DEF MovesTo, CallerOK, Free
  <2>2. ASSUME NEW d \in Callers \ {c} PROVE CallerOK(d)'
    <3>1. CallerOK(d) /\ caller'[d] = caller[d] /\ Tag(d)' = Tag(d)
      BY <1>1 DEF IInv, Waiters, Tag
    <3>2. caller[d].host \in Hosts => /\ host'[caller[d].host].child = host[caller[d].host].child
                                      /\ host'[caller[d].host].pending = host[caller[d].host].pending
      OBVIOUS
    <3> QED BY <3>1, <3>2 DEF CallerOK, Free
  <2> QED BY <2>1, <2>2 DEF Waiters
<1>6. Starters'
  <2>1. StarterOK(c)'
    <3>1. y.at = "init" => \A d \in Callers \ {c} : caller'[d].host # y.host
      <4>1. y.at = "init" => caller[c].at = "init" /\ y.host = caller[c].host
        BY <1>3 DEF MovesTo, IInv, Waiters, CallerOK, Free
      <4> QED BY <1>1, <4>1 DEF IInv, Starters, StarterOK
    <3> QED BY <1>1, <3>1 DEF MovesTo, StarterOK
  <2>2. ASSUME NEW d \in Callers \ {c} PROVE StarterOK(d)'
    <3>1. StarterOK(d) /\ caller'[d] = caller[d]
      BY <1>1 DEF IInv, Starters
    <3>2. starter' = d <=> starter = d
      BY DEF MovesTo
    <3>3. caller[d].at \in Starting => cached' = cached
      BY <1>4
    <3>4. caller[d].at = "init" => y.host # caller[d].host
      <4>1. caller[d].at = "init" => caller[d].host \in Hosts /\ cached = None /\ caller[c].host # caller[d].host
        BY <3>1 DEF IInv, Waiters, CallerOK, StarterOK, Free
      <4> QED BY <1>3, <4>1 DEF MovesTo
    <3> QED BY <1>1, <3>1, <3>2, <3>3, <3>4 DEF StarterOK, Starting
  <2> QED BY <2>1, <2>2 DEF Starters
<1>7. Processes'
  <2>1. cached' # None => host'[cached'].child # "none"
    <3>1. cached' # None => cached' \in Hosts /\ host[cached'].child # "none"
      BY <1>2 DEF MovesTo, IInv, Types, Processes, Waiters, CallerOK, Free
    <3> QED BY <3>1
  <2>2. \A g, h \in Hosts : g < h /\ host'[h].child # "none" => host'[g].child # "none"
    BY DEF IInv, Processes
  <2>3. ASSUME NEW h \in Hosts, host'[h].child = "up", ~host'[h].given_up
        PROVE  cached' = h \/ \E d \in Callers : caller'[d].at = "init" /\ caller'[d].host = h
    <3>1. cached = h \/ \E d \in Callers : caller[d].at = "init" /\ caller[d].host = h
      BY <2>3 DEF IInv, Processes
    <3>2. CASE cached = h
      BY <1>3, <3>2 DEF MovesTo, IInv, Starters, StarterOK
    <3>3. ASSUME NEW d \in Callers, caller[d].at = "init", caller[d].host = h
          PROVE  cached' = h \/ \E e \in Callers : caller'[e].at = "init" /\ caller'[e].host = h
      <4>1. CASE d # c
        BY <1>1, <3>3, <4>1
      <4>2. CASE d = c
        BY <1>1, <1>3, <3>3, <4>2 DEF MovesTo
      <4> QED BY <4>1, <4>2
    <3> QED BY <3>1, <3>2, <3>3
  <2> QED BY <2>1, <2>2, <2>3 DEF Processes
<1>8. NoProcessLeftBehind'
  <2> SUFFICES ASSUME NEW h \in Hosts, host'[h].child = "up" PROVE References(h, cached, caller)'
    BY DEF NoProcessLeftBehind
  <2>1. cached = h \/ \E d \in Callers : caller[d].host = h
    BY DEF IInv, NoProcessLeftBehind, References
  <2>2. CASE cached = h
    BY <1>3, <2>2 DEF MovesTo, IInv, Starters, StarterOK, References
  <2>3. ASSUME NEW d \in Callers, caller[d].host = h PROVE caller'[d].host = h
    BY <1>1, <1>3, <2>3 DEF MovesTo
  <2> QED BY <2>1, <2>2, <2>3 DEF References
<1>9. OneProcess'
  BY DEF IInv, OneProcess
<1> QED BY <1>1, <1>2, <1>5, <1>6, <1>7, <1>8, <1>9 DEF People

\* The same when nothing but the request, the start lock and the server's own
\* notes change.
LEMMA MoveAlone ==
  ASSUME IInv, NEW c \in Callers, NEW y, MovesTo(c, y), UNCHANGED <<host, auths>>,
         models' \subseteq Keys, known' \in {None, "served", "error"}, count' \in 0..MaxCommands
  PROVE  IInv'
<1>1. People' /\ caller' \in [Callers -> CallerRecord] /\ cached' \in Hosts \cup {None}
  BY MoveKeeps DEF IInv, Types
<1>2. Auth'
  BY SameAuth
<1>3. Types'
  BY <1>1 DEF IInv, Types, auths, MovesTo
<1>4. Pipes'
  BY DEF IInv, Pipes, PipeOK
<1> QED BY <1>1, <1>2, <1>3, <1>4 DEF IInv, People, Auth

\* A request at its next call.
LEMMA CallingType ==
  ASSUME IInv, NEW cl \in CallerRecord, NEW at \in Ats, NEW h \in Hosts
  PROVE  /\ Calling(cl, at, h) \in CallerRecord
         /\ Calling(cl, at, h).at = at /\ Calling(cl, at, h).host = h
         /\ Calling(cl, at, h).op = cl.op /\ Calling(cl, at, h).key = cl.key
         /\ Calling(cl, at, h).io \in {"gone", "checked"}
BY DEF Calling, CallerRecord

LEMMA BeginKeeps ==
  ASSUME IInv, NEW c \in Callers, NEW op \in Operations \ {"invalidate"}, NEW k \in Keys, Begin(c, op, k)
  PROVE  IInv'
<1> DEFINE x == [Idle EXCEPT !.op = op, !.key = k, !.n = count + 1]
           y == host_for(x)
<1>1. count' \in 0..MaxCommands /\ count + 1 \in 0..MaxCommands
  BY PluginAssumption DEF Begin, IInv, Types
<1>2. /\ x \in CallerRecord /\ x.at = "idle" /\ x.host = None /\ x.io = "none"
      /\ x.op \in Ops /\ x.key \in Keys
  BY <1>1, EmptyTypes, PluginAssumption DEF CallerRecord
<1>3. caller[c].at = "idle" /\ caller[c].host = None /\ starter # c
  BY DEF Begin, IInv, Waiters, CallerOK, Free, Starters, StarterOK, Starting
<1> HIDE DEF x
<1>4. MovesTo(c, y)
  <2>1. caller' = [caller EXCEPT ![c] = y] /\ UNCHANGED <<cached, starter>>
    BY DEF Begin, x
  <2>2. CASE cached # None
    <3>1. cached \in Hosts /\ host[cached].child # "none"
      BY <2>2 DEF IInv, Types, Processes
    <3>2. y = Calling(x, "probe", cached)
      BY <2>2 DEF host_for
    <3>3. /\ y \in CallerRecord /\ y.at = "probe" /\ y.host = cached /\ y.op \in Ops /\ y.key \in Keys
          /\ y.io \in {"gone", "checked"}
      <4>1. "probe" \in Ats
        BY DEF Ats
      <4> QED BY <1>2, <3>1, <3>2, <4>1, CallingType
    <3> HIDE DEF y
    <3> QED BY <1>3, <2>1, <3>1, <3>3 DEF MovesTo, Free, Starting, IInv, Types
  <2>3. CASE cached = None
    <3>1. y = [x EXCEPT !.at = "lock"]
      BY <2>3 DEF host_for
    <3>2. /\ y \in CallerRecord /\ y.at = "lock" /\ y.host = None /\ y.op \in Ops /\ y.key \in Keys
          /\ y.io = "none"
      BY <1>2, <3>1 DEF CallerRecord, Ats
    <3> HIDE DEF y
    <3> QED BY <1>3, <2>1, <3>2 DEF MovesTo, Free, Starting, IInv, Types
  <2> QED BY <2>2, <2>3
<1> HIDE DEF y
<1> QED BY <1>1, <1>4, MoveAlone DEF Begin, IInv, Types

LEMMA StartLockKeeps ==
  ASSUME IInv, NEW c \in Callers, StartLock(c)
  PROVE  IInv'
<1>1. /\ caller[c] \in CallerRecord /\ caller[c].at = "lock" /\ caller[c].host = None
      /\ caller[c].op \in Ops /\ caller[c].key \in Keys /\ starter = None /\ starter' = c /\ cached' = cached
  BY DEF StartLock, IInv, Types, Waiters, CallerOK, Free
<1>2. \A d \in Callers : d # None
  BY PluginAssumption
<1>3. \E y : MovesTo(c, y)
  <2>1. CASE cached # None
    <3> DEFINE y == Calling(caller[c], "reprobe", cached)
    <3>1. cached \in Hosts /\ host[cached].child # "none"
      BY <2>1 DEF IInv, Types, Processes
    <3>2. /\ y \in CallerRecord /\ y.at = "reprobe" /\ y.host = cached /\ y.op \in Ops /\ y.key \in Keys
          /\ y.io \in {"gone", "checked"}
      <4>1. "reprobe" \in Ats
        BY DEF Ats
      <4> QED BY <1>1, <3>1, <4>1, CallingType
    <3>3. caller' = [caller EXCEPT ![c] = y]
      BY <2>1 DEF StartLock, Calls, IInv, Types
    <3> HIDE DEF y
    <3>4. MovesTo(c, y)
      BY <1>1, <1>2, <3>1, <3>2, <3>3 DEF MovesTo, Free, Starting
    <3> QED BY <3>4
  <2>2. CASE cached = None
    <3> DEFINE y == [caller[c] EXCEPT !.at = "spawn", !.io = "none", !.got = None]
    <3>1. /\ y \in CallerRecord /\ y.at = "spawn" /\ y.host = None /\ y.op \in Ops /\ y.key \in Keys
          /\ y.io = "none"
      BY <1>1 DEF CallerRecord, Ats
    <3>2. caller' = [caller EXCEPT ![c] = y]
      BY <2>2 DEF StartLock, Goes, IInv, Types
    <3> HIDE DEF y
    <3>3. MovesTo(c, y)
      BY <1>1, <1>2, <2>2, <3>1, <3>2 DEF MovesTo, Free, Starting
    <3> QED BY <3>3
  <2> QED BY <2>1, <2>2
<1> QED BY <1>3, MoveAlone DEF StartLock, IInv, Types

\* The host is found: the request makes its call there, or has its answer.
LEMMA UsesKeeps ==
  ASSUME IInv, NEW c \in Callers, Uses(c, caller[c].host, cached'),
         caller[c].at \in {"probe", "reprobe", "init"},
         IF caller[c].at = "init" THEN cached' = caller[c].host ELSE cached' = cached,
         UNCHANGED <<models, file, bak, lock, truth, excused, count>>
  PROVE  IInv'
<1> DEFINE h == caller[c].host
<1>1. /\ h \in Hosts /\ host[h].child # "none" /\ caller[c] \in CallerRecord
      /\ caller[c].op \in Ops /\ caller[c].key \in Keys
  BY DEF IInv, Types, Waiters, CallerOK, Free
<1>2. CASE caller[c].op = "list"
  <2>1. Returns(c, host, cached') /\ known' \in {known, "served"}
    BY <1>2 DEF Uses, remember
  <2> QED BY <2>1, HostsAreHeirs, ReturnsKeeps DEF IInv, Types
<1>3. CASE caller[c].op # "list"
  <2> DEFINE y == Calling(caller[c], "call", h)
  <2>1. /\ caller' = [caller EXCEPT ![c] = y] /\ starter' = (IF starter = c THEN None ELSE starter)
        /\ UNCHANGED <<host, writer, known>>
    BY <1>3 DEF Uses, Calls, IInv, Types
  <2>2. /\ y \in CallerRecord /\ y.at = "call" /\ y.host = h /\ y.op \in Ops /\ y.key \in Keys
        /\ y.io \in {"gone", "checked"}
    <3>1. "call" \in Ats
      BY DEF Ats
    <3> QED BY <1>1, <3>1, CallingType
  <2>3. \A d \in Callers : d # None
    BY PluginAssumption
  <2> HIDE DEF y
  <2>4. MovesTo(c, y)
    BY <1>1, <2>1, <2>2, <2>3 DEF MovesTo, Free, Starting, IInv, Types
  <2> QED BY <2>1, <2>4, MoveAlone DEF IInv, Types, auths
<1> QED BY <1>2, <1>3

\* A probe that fails lets the host go; under the start lock it is given up.
LEMMA LetGoKeeps ==
  ASSUME IInv, NEW c \in Callers, NEW hs, Heir(hs), NEW y \in CallerRecord,
         \A h \in Hosts : hs[h].pending = host[h].pending,
         caller' = [caller EXCEPT ![c] = y], y.host = None, y.io = "none", y.op \in Ops, y.key \in Keys,
         host' = Dropped(hs, cached', caller'), writer' = Killed(host'),
         \/ caller[c].at = "probe" /\ y.at = "lock" /\ cached' = cached
         \/ /\ caller[c].at = "reprobe" /\ y.at = "spawn" /\ cached' = None
            /\ hs[caller[c].host].given_up,
         UNCHANGED <<starter, models, known, file, bak, lock, truth, excused, count>>
  PROVE  IInv'
<1>1. /\ Heir(host') /\ Pipes' /\ NoProcessLeftBehind' /\ OneProcess'
      /\ writer' \in [Actors -> WriterRecord] /\ Auth'
  BY DropKeeps
<1>2. \A h \in Hosts : /\ host'[h].pending = host[h].pending
                       /\ host'[h].child = "up" => host'[h] = hs[h]
  BY DroppedFacts DEF Heir
<1>3. /\ caller' \in [Callers -> CallerRecord] /\ caller'[c] = y
      /\ \A d \in Callers \ {c} : caller'[d] = caller[d]
  BY DEF IInv, Types
<1>4. Types'
  BY <1>1, <1>3 DEF IInv, Types, Heir
<1>5. Waiters'
  <2>1. CallerOK(c)'
    BY <1>3 DEF CallerOK, Free
  <2>2. ASSUME NEW d \in Callers \ {c} PROVE CallerOK(d)'
    <3>1. CallerOK(d) /\ caller'[d] = caller[d] /\ Tag(d)' = Tag(d)
      BY <1>3 DEF IInv, Waiters, Tag
    <3>2. caller[d].host \in Hosts => /\ host'[caller[d].host].pending = host[caller[d].host].pending
                                      /\ host'[caller[d].host].child = "none" <=> host[caller[d].host].child = "none"
      BY <1>1, <1>2 DEF Heir
    <3> QED BY <3>1, <3>2 DEF CallerOK, Free
  <2> QED BY <2>1, <2>2 DEF Waiters
<1>6. None \notin Hosts
  BY PluginAssumption DEF Hosts
<1>7. \A d \in Callers \ {c} : caller[d].at \in Starting => cached' = cached
  BY DEF IInv, Starters, StarterOK, Starting
<1>8. Starters'
  <2>1. StarterOK(c)'
    BY <1>3 DEF IInv, Starters, StarterOK, Starting
  <2>2. ASSUME NEW d \in Callers \ {c} PROVE StarterOK(d)'
    <3>1. StarterOK(d) /\ caller'[d] = caller[d] /\ caller'[c].host = None
      BY <1>3 DEF IInv, Starters
    <3>2. caller[d].at = "init" => caller[d].host # None
      BY <1>6 DEF IInv, Waiters, CallerOK, Free
    <3> QED BY <1>3, <1>7, <3>1, <3>2 DEF StarterOK, Starting
  <2> QED BY <2>1, <2>2 DEF Starters
<1>9. Processes'
  <2>1. cached' # None => host'[cached'].child # "none"
    <3>1. cached' # None => cached' \in Hosts /\ host[cached'].child # "none"
      BY DEF IInv, Types, Processes
    <3> QED BY <1>1, <3>1 DEF Heir
  <2>2. \A g, h \in Hosts : g < h /\ host'[h].child # "none" => host'[g].child # "none"
    BY <1>1 DEF IInv, Processes, Heir
  <2>3. ASSUME NEW h \in Hosts, host'[h].child = "up", ~host'[h].given_up
        PROVE  cached' = h \/ \E d \in Callers : caller'[d].at = "init" /\ caller'[d].host = h
    <3>1. host[h].child = "up" /\ ~host[h].given_up /\ ~hs[h].given_up
      BY <1>1, <1>2, <2>3 DEF Heir
    <3>2. CASE cached = h
      BY <3>1, <3>2 DEF IInv, Starters, StarterOK
    <3>3. ASSUME NEW d \in Callers, caller[d].at = "init", caller[d].host = h
          PROVE  cached' = h \/ \E e \in Callers : caller'[e].at = "init" /\ caller'[e].host = h
      BY <1>3, <3>3
    <3> QED BY <3>1, <3>2, <3>3 DEF IInv, Processes
  <2> QED BY <2>1, <2>2, <2>3 DEF Processes
<1> QED BY <1>1, <1>4, <1>5, <1>8, <1>9 DEF IInv, Auth

LEMMA ProbedKeeps ==
  ASSUME IInv, NEW c \in Callers, Probed(c)
  PROVE  IInv'
<1>1. /\ caller[c].at = "probe" /\ caller[c] \in CallerRecord /\ cached' = cached
      /\ caller[c].op \in Ops /\ caller[c].key \in Keys
  BY DEF Probed, IInv, Types, Waiters, CallerOK
<1>2. CASE caller[c].io = "ok"
  <2>1. Uses(c, caller[c].host, cached')
    BY <1>1, <1>2 DEF Probed, Uses, remember, Returns
  <2> QED BY <1>1, <2>1, UsesKeeps DEF Probed
<1>3. CASE caller[c].io # "ok"
  <2> DEFINE y == [caller[c] EXCEPT !.at = "lock", !.io = "none", !.host = None, !.got = None]
  <2>1. y \in CallerRecord /\ y.at = "lock" /\ y.host = None /\ y.io = "none" /\ y.op \in Ops /\ y.key \in Keys
    BY <1>1 DEF CallerRecord, Ats
  <2>2. caller' = [caller EXCEPT ![c] = y]
    BY <1>3 DEF Probed, IInv, Types
  <2>3. host' = Dropped(host, cached', caller') /\ writer' = Killed(host')
    BY <1>1, <1>3 DEF Probed
  <2> HIDE DEF y
  <2> QED BY <1>1, <1>3, <2>1, <2>2, <2>3, HostsAreHeirs, LetGoKeeps DEF Probed
<1> QED BY <1>2, <1>3

LEMMA ReprobedKeeps ==
  ASSUME IInv, NEW c \in Callers, Reprobed(c)
  PROVE  IInv'
<1> DEFINE h == caller[c].host
<1>1. /\ caller[c].at = "reprobe" /\ caller[c] \in CallerRecord /\ h \in Hosts
      /\ caller[c].op \in Ops /\ caller[c].key \in Keys
  BY DEF Reprobed, IInv, Types, Waiters, CallerOK, Free
<1>2. CASE caller[c].io = "ok"
  <2>1. Uses(c, h, cached') /\ cached' = cached
    BY <1>1, <1>2 DEF Reprobed, Uses, remember, Returns
  <2> QED BY <1>1, <2>1, UsesKeeps DEF Reprobed
<1>3. CASE caller[c].io # "ok"
  <2> DEFINE y == [caller[c] EXCEPT !.at = "spawn", !.io = "none", !.host = None, !.got = None]
             x == [host[h] EXCEPT !.given_up = TRUE]
             hs == [host EXCEPT ![h] = x]
  <2>1. y \in CallerRecord /\ y.at = "spawn" /\ y.host = None /\ y.io = "none" /\ y.op \in Ops /\ y.key \in Keys
    BY <1>1 DEF CallerRecord, Ats
  <2>2. caller' = [caller EXCEPT ![c] = y]
    BY <1>3 DEF Reprobed, IInv, Types
  <2>3. host' = Dropped(hs, cached', caller') /\ writer' = Killed(host') /\ cached' = None
    BY <1>3 DEF Reprobed
  <2> HIDE DEF y
  <2>10. host[h] \in HostRecord /\ PipeOK(host[h])
    BY <1>1 DEF IInv, Types, Pipes
  <2>4. /\ x \in HostRecord /\ x.given_up = TRUE /\ x.child = host[h].child /\ x.in = host[h].in
        /\ x.out = host[h].out /\ x.reader = host[h].reader /\ x.gone = host[h].gone
        /\ x.pending = host[h].pending /\ x.loaders = host[h].loaders /\ x.dirty = host[h].dirty
    BY <2>10, GivenUpOK
  <2>5. PipeOK(x)
    BY <2>10, GivenUpOK
  <2>6. hs \in [Hosts -> HostRecord] /\ \A g \in Hosts : hs[g] = IF g = h THEN x ELSE host[g]
    BY <1>1, <2>4 DEF IInv, Types
  <2> HIDE DEF x, hs
  <2>7. Heir(hs)
    BY <1>1, <2>4, <2>5, <2>6 DEF Heir, IInv, Pipes
  <2>8. \A g \in Hosts : hs[g].pending = host[g].pending
    BY <2>4, <2>6
  <2>9. hs[caller[c].host].given_up
    BY <1>1, <2>4, <2>6
  <2> QED BY <1>1, <1>3, <2>1, <2>2, <2>3, <2>7, <2>8, <2>9, LetGoKeeps DEF Reprobed
<1> QED BY <1>2, <1>3

LEMMA StartedKeeps ==
  ASSUME IInv, NEW c \in Callers, Started(c)
  PROVE  IInv'
<1>1. caller[c].at = "init" /\ cached' = caller[c].host /\ Uses(c, caller[c].host, cached')
  BY DEF Started
<1> QED BY <1>1, UsesKeeps DEF Started

\* A new process: the cache is empty and nobody else is starting, so every
\* other process that runs has been given up.
LEMMA SpawnHostKeeps ==
  ASSUME IInv, NEW c \in Callers, SpawnHost(c)
  PROVE  IInv'
<1>1. PICK h \in Hosts :
        /\ host[h].child = "none" /\ \A g \in Hosts : g < h => host[g].child # "none"
        /\ host' = [host EXCEPT ![h].child = "up", ![h].reader = "on"]
        /\ Calls(c, "init", h)
  BY DEF SpawnHost
<1> DEFINE x == host[h]
           z == [x EXCEPT !.child = "up", !.reader = "on"]
           y == Calling(caller[c], "init", h)
<1>2. /\ caller[c].at = "spawn" /\ caller[c] \in CallerRecord /\ caller[c].op \in Ops /\ caller[c].key \in Keys
      /\ caller[c].host = None /\ starter = c /\ cached = None
  BY DEF SpawnHost, IInv, Types, Waiters, CallerOK, Free, Starters, StarterOK, Starting
<1>3. None \notin Hosts
  BY PluginAssumption DEF Hosts
<1>4. x \in HostRecord /\ PipeOK(x) /\ x.child = "none"
  BY <1>1 DEF IInv, Types, Pipes
<1>5. x.reader = "off" /\ ~x.gone /\ \A k \in Keys : x.loaders[k] = None
  BY <1>4 DEF PipeOK
<1> HIDE DEF x
<1>6. /\ z \in HostRecord /\ z.child = "up" /\ z.reader = "on" /\ z.in = x.in /\ z.out = x.out
      /\ z.gone = x.gone /\ z.pending = x.pending /\ z.given_up = x.given_up
      /\ z.loaders = x.loaders /\ z.dirty = x.dirty
  BY <1>4 DEF HostRecord
<1> HIDE DEF z
<1>7. PipeOK(z)
  BY <1>4, <1>5, <1>6 DEF PipeOK
<1>8. /\ host' \in [Hosts -> HostRecord] /\ \A g \in Hosts : host'[g] = IF g = h THEN z ELSE host[g]
  BY <1>1, <1>6 DEF IInv, Types, z, x
<1>9. /\ y \in CallerRecord /\ y.at = "init" /\ y.host = h /\ y.op \in Ops /\ y.key \in Keys
      /\ y.io \in {"gone", "checked"}
  <2>1. "init" \in Ats
    BY DEF Ats
  <2> QED BY <1>2, <2>1, CallingType
<1>10. /\ caller' \in [Callers -> CallerRecord] /\ caller'[c] = y
       /\ \A d \in Callers \ {c} : caller'[d] = caller[d]
  BY <1>1, <1>9 DEF Calls, IInv, Types
<1> HIDE DEF y
<1>11. UNCHANGED <<cached, starter, models, known, auths, count>>
  BY DEF SpawnHost
<1>12. Types'
  BY <1>8, <1>10, <1>11 DEF IInv, Types, auths
<1>13. Pipes'
  BY <1>7, <1>8 DEF IInv, Pipes, PipeOK
<1>14. \A d \in Callers \ {c} : caller[d].host # h
  BY <1>1, <1>3 DEF IInv, Waiters, CallerOK
<1>15. Waiters'
  <2>1. CallerOK(c)'
    BY <1>6, <1>8, <1>9, <1>10 DEF CallerOK, Free
  <2>2. ASSUME NEW d \in Callers \ {c} PROVE CallerOK(d)'
    <3>1. CallerOK(d) /\ caller'[d] = caller[d] /\ Tag(d)' = Tag(d)
      BY <1>10 DEF IInv, Waiters, Tag
    <3>2. caller[d].host \in Hosts => host'[caller[d].host] = host[caller[d].host]
      BY <1>8, <1>14
    <3> QED BY <3>1, <3>2 DEF CallerOK, Free
  <2> QED BY <2>1, <2>2 DEF Waiters
<1>16. Starters'
  <2>1. StarterOK(c)'
    BY <1>2, <1>9, <1>10, <1>11, <1>14 DEF StarterOK, Starting
  <2>2. ASSUME NEW d \in Callers \ {c} PROVE StarterOK(d)'
    BY <1>2, <1>10, <1>11 DEF IInv, Starters, StarterOK, Starting
  <2> QED BY <2>1, <2>2 DEF Starters
<1>17. \A g \in Hosts : host[g].child = "up" => host[g].given_up
  BY <1>2, <1>3 DEF IInv, Processes, Starters, StarterOK, Starting
<1>18. Processes'
  <2>1. \A g, k \in Hosts : g < k /\ host'[k].child # "none" => host'[g].child # "none"
    BY <1>1, <1>6, <1>8 DEF IInv, Processes
  <2>2. ASSUME NEW g \in Hosts, host'[g].child = "up", ~host'[g].given_up
        PROVE  \E d \in Callers : caller'[d].at = "init" /\ caller'[d].host = g
    BY <1>8, <1>9, <1>10, <1>17, <2>2
  <2> QED BY <1>2, <1>11, <2>1, <2>2 DEF Processes
<1>19. NoProcessLeftBehind'
  <2> SUFFICES ASSUME NEW g \in Hosts, host'[g].child = "up" PROVE References(g, cached, caller)'
    BY DEF NoProcessLeftBehind
  <2>1. CASE g = h
    BY <1>9, <1>10, <2>1 DEF References
  <2>2. CASE g # h
    <3>1. PICK d \in Callers : caller[d].host = g
      BY <1>2, <1>3, <1>8, <2>2 DEF IInv, NoProcessLeftBehind, References
    <3>2. d # c
      BY <1>2, <1>3, <3>1
    <3> QED BY <1>10, <3>1, <3>2 DEF References
  <2> QED BY <2>1, <2>2
<1>20. OneProcess'
  <2> SUFFICES ASSUME NEW g \in Hosts, NEW k \in Hosts, g < k, host'[g].child = "up", host'[k].child = "up"
               PROVE  host'[g].given_up
    BY DEF OneProcess
  <2>1. CASE g = h
    BY <1>1, <1>8, <2>1 DEF IInv, Processes, Hosts
  <2>2. CASE g # h
    BY <1>8, <1>17, <2>2
  <2> QED BY <2>1, <2>2
<1>21. Auth'
  <2>1. \A g \in Hosts \ {h} : host'[g] = host[g]
    BY <1>8
  <2>2. host'[h] = z /\ writer' = writer /\ writer[h].pc = "off"
    BY <1>4, <1>8, <1>11 DEF IInv, Handlers, Handling, auths, x
  <2>3. \A k \in Keys : z.loaders[k] = None
    BY <1>5, <1>6
  <2>4. \A g \in Hosts : writer[g].pc # "off" => Handling(g)' /\ Request(g)' = Request(g)
    BY <2>1, <2>2 DEF IInv, Handlers, Handling, Request
  <2>5. Handlers'
    BY <2>2, <2>4 DEF IInv, Handlers, Updates, UpdatedKeys, Method
  <2>6. Alone'
    BY <1>11 DEF IInv, Alone, InLock, auths
  <2>7. Loaders'
    <3> SUFFICES ASSUME ~excused', NEW g \in Hosts, NEW k \in Keys,
                        host'[g].child = "up", k \notin host'[g].dirty, host'[g].loaders[k] # None
                 PROVE  \/ host'[g].loaders[k] = truth'[k]
                        \/ writer'[g].pc = "over" /\ Handling(g)' /\ k \in ClearsLoader(Request(g))'
      BY DEF Loaders
    <3>1. g # h
      BY <2>2, <2>3
    <3> QED BY <1>11, <2>1, <2>2, <2>4, <3>1 DEF IInv, Loaders, auths, ClearsLoader, UpdatedKeys, Method
  <2> QED BY <2>5, <2>6, <2>7 DEF Auth
<1> QED BY <1>12, <1>13, <1>15, <1>16, <1>18, <1>19, <1>20, <1>21 DEF IInv, Auth

(***************************************************************************)
(* The transport.                                                          *)
(***************************************************************************)

\* A step of the transport moves no request to another point or host.
LEMMA SameSeats ==
  ASSUME IInv, UNCHANGED <<cached, starter>>,
         \A d \in Callers : caller'[d].at = caller[d].at /\ caller'[d].host = caller[d].host,
         \A h \in Hosts : host'[h].child = host[h].child /\ host'[h].given_up = host[h].given_up
  PROVE  Starters' /\ Processes' /\ NoProcessLeftBehind' /\ OneProcess'
<1>1. Starters'
  BY DEF IInv, Starters, StarterOK
<1>2. Processes'
  BY DEF IInv, Types, Processes
<1>3. NoProcessLeftBehind' /\ OneProcess'
  BY DEF IInv, NoProcessLeftBehind, OneProcess, References
<1> QED BY <1>1, <1>2, <1>3

LEMMA CallWritesKeeps ==
  ASSUME IInv, NEW c \in Callers, CallWrites(c)
  PROVE  IInv'
<1> DEFINE h == caller[c].host
           x == host[h]
<1>1. /\ caller[c].io = "checked" /\ caller[c] \in CallerRecord /\ h \in Hosts /\ x.child # "none"
      /\ caller[c].op \in Ops /\ caller[c].key \in Keys /\ caller[c].at \notin Free
      /\ x \in HostRecord /\ PipeOK(x) /\ Tag(c) \in Tags
  BY DEF CallWrites, IInv, Types, Pipes, Waiters, CallerOK, CallerRecord, Tag, Tags, Free
<1>2. UNCHANGED <<cached, starter, models, known, auths, count>>
  BY DEF CallWrites
<1>3. CASE x.child = "up"
  <2> DEFINE l == [id |-> NextId(h), for |-> Tag(c), op |-> caller[c].op, at |-> caller[c].at, key |-> caller[c].key]
             z == [x EXCEPT !.pending = {p \in @ : p[1] # l.id} \cup {<<l.id, l.for>>},
                            !.in = Append(@, l)]
             y == [caller[c] EXCEPT !.io = "waiting"]
  <2>1. /\ NextId(h) \in Nat
        /\ \A p \in x.pending : p[1] # NextId(h)
        /\ \A e \in Lines(x.in) \cup Lines(x.out) : e.id # NextId(h)
    BY <1>1, FreshId
  <2>2. l \in Line /\ l.id = NextId(h) /\ l.for = Tag(c)
    BY <1>1, <2>1 DEF Line, CallerRecord
  <2>3. host' = [host EXCEPT ![h] = z] /\ caller' = [caller EXCEPT ![c] = y]
    BY <1>1, <1>3 DEF CallWrites, IInv, Types
  <2> HIDE DEF l
  <2>4. /\ z \in HostRecord /\ z.pending = x.pending \cup {<<l.id, l.for>>}
    BY <1>1, <1>3, <2>1, <2>2, CallOK
  <2>5. /\ z.in = Append(x.in, l) /\ z.child = x.child /\ z.out = x.out /\ z.reader = x.reader
        /\ z.gone = x.gone /\ z.loaders = x.loaders /\ z.dirty = x.dirty /\ z.given_up = x.given_up
    BY <1>1 DEF HostRecord
  <2>6. y \in CallerRecord /\ y.at = caller[c].at /\ y.host = h /\ y.io = "waiting" /\ y.n = caller[c].n
        /\ y.op = caller[c].op /\ y.key = caller[c].key
    BY <1>1 DEF CallerRecord
  <2> HIDE DEF z, y, x
  <2>7. PipeOK(z)
    BY <1>1, <1>3, <2>1, <2>2, <2>4, <2>5, CallPipeOK
  <2>8. host' \in [Hosts -> HostRecord] /\ \A g \in Hosts : host'[g] = IF g = h THEN z ELSE host[g]
    BY <1>1, <2>3, <2>4 DEF IInv, Types
  <2>9. /\ caller' \in [Callers -> CallerRecord] /\ caller'[c] = y
        /\ \A d \in Callers \ {c} : caller'[d] = caller[d]
    BY <2>3, <2>6 DEF IInv, Types
  <2>10. Types'
    BY <1>2, <2>8, <2>9 DEF IInv, Types, auths
  <2>11. Pipes'
    BY <2>7, <2>8 DEF IInv, Pipes, PipeOK
  <2>12. \A g \in Hosts : host[g].pending \subseteq host'[g].pending /\ host'[g].child = host[g].child
    BY <2>4, <2>5, <2>8 DEF x
  <2>13. Waiters'
    <3>1. CallerOK(c)'
      <4>1. Tag(c)' = Tag(c) /\ <<l.id, l.for>> \in host'[h].pending
        BY <2>4, <2>6, <2>8, <2>9, <1>1 DEF Tag
      <4> QED BY <1>1, <2>2, <2>5, <2>6, <2>8, <2>9, <4>1 DEF CallerOK, Free, x
    <3>2. ASSUME NEW d \in Callers \ {c} PROVE CallerOK(d)'
      <4>1. CallerOK(d) /\ caller'[d] = caller[d] /\ Tag(d)' = Tag(d)
        BY <2>9 DEF IInv, Waiters, Tag
      <4> QED BY <2>12, <4>1 DEF CallerOK, Free
    <3> QED BY <3>1, <3>2 DEF Waiters
  <2>14. Starters' /\ Processes' /\ NoProcessLeftBehind' /\ OneProcess'
    BY <1>2, <2>5, <2>6, <2>8, <2>9, SameSeats DEF x
  <2>15. Auth'
    <3>1. \A g \in Hosts : host[g].in # <<>> => host'[g].in # <<>> /\ Head(host'[g].in) = Head(host[g].in)
      <4>1. x.in \in Seq(Line)
        BY <1>1 DEF HostRecord
      <4>2. x.in # <<>> => Append(x.in, l) # <<>> /\ Head(Append(x.in, l)) = Head(x.in)
        BY <2>2, <4>1
      <4> QED BY <2>5, <2>8, <4>2 DEF x
    <3>2. \A g \in Hosts : /\ host'[g].child = host[g].child /\ host'[g].loaders = host[g].loaders
                           /\ host'[g].dirty = host[g].dirty
      BY <2>5, <2>8 DEF x
    <3> QED BY <1>2, <3>1, <3>2, SameAuth
  <2> QED BY <2>10, <2>11, <2>13, <2>14, <2>15 DEF IInv, Auth
<1>4. CASE x.child # "up"
  <2> DEFINE y == [caller[c] EXCEPT !.io = "gone"]
  <2>1. caller' = [caller EXCEPT ![c] = y] /\ UNCHANGED host
    BY <1>1, <1>4 DEF CallWrites, IInv, Types
  <2>2. y \in CallerRecord /\ y.at = caller[c].at /\ y.host = h /\ y.io = "gone"
        /\ y.op = caller[c].op /\ y.key = caller[c].key
    BY <1>1 DEF CallerRecord
  <2> HIDE DEF y
  <2>3. MovesTo(c, y)
    BY <1>1, <1>2, <2>1, <2>2 DEF MovesTo, IInv, Types, Starters, StarterOK, Free
  <2> QED BY <1>2, <2>1, <2>3, MoveAlone DEF IInv, Types
<1> QED BY <1>3, <1>4

LEMMA dispatch_responseKeeps ==
  ASSUME IInv, NEW h \in Hosts, dispatch_response(h)
  PROVE  IInv'
<1> DEFINE x == host[h]
           r == Head(x.out)
           found == {p \in x.pending : p[1] = r.id}
           to == {c \in Callers : \E p \in found : caller[c].io = "waiting" /\ caller[c].host = h /\ Tag(c) = p[2]}
           z == [x EXCEPT !.out = Tail(@), !.pending = @ \ found]
<1>1. /\ x.reader = "on" /\ x.out # <<>> /\ host' = [host EXCEPT ![h] = z]
      /\ caller' = [c \in Callers |-> IF c \in to THEN [caller[c] EXCEPT !.io = r.result, !.got = r.for]
                                     ELSE caller[c]]
      /\ UNCHANGED <<cached, starter, models, known, auths, count>>
  BY DEF dispatch_response, IInv, Types
<1>2. x \in HostRecord /\ PipeOK(x)
  BY DEF IInv, Types, Pipes
<1>3. r \in Response /\ r \in Lines(x.out)
  <2>1. x.out \in Seq(Response)
    BY <1>2 DEF HostRecord
  <2>2. x.out # <<>>
    BY <1>1
  <2> HIDE DEF x
  <2>3. Head(x.out) \in Response
    BY <2>1, <2>2
  <2> QED BY <2>1, <2>2, <2>3, LinesFacts
<1> HIDE DEF r
<1>4. z \in HostRecord /\ PipeOK(z)
  BY <1>1, <1>2, TakenOK
<1>5. /\ z.child = x.child /\ z.in = x.in /\ z.pending = x.pending \ found
      /\ z.loaders = x.loaders /\ z.dirty = x.dirty /\ z.given_up = x.given_up
  BY <1>2 DEF HostRecord
<1> HIDE DEF z
<1>6. host' \in [Hosts -> HostRecord] /\ \A g \in Hosts : host'[g] = IF g = h THEN z ELSE host[g]
  BY <1>1, <1>4 DEF IInv, Types
<1>7. \A c \in to : r.for = Tag(c)
  BY <1>2, <1>3 DEF PipeOK
<1>8. ASSUME NEW c \in Callers
      PROVE  /\ caller'[c] \in CallerRecord /\ caller'[c].at = caller[c].at
             /\ caller'[c].host = caller[c].host /\ caller'[c].n = caller[c].n
             /\ caller'[c].op = caller[c].op /\ caller'[c].key = caller[c].key
             /\ c \in to => caller'[c].io \in {"ok", "err"} /\ caller'[c].got = Tag(c)
             /\ c \notin to => caller'[c] = caller[c]
  <2>1. caller[c] \in CallerRecord
    BY DEF IInv, Types
  <2>2. CASE c \in to
    <3>1. caller'[c] = [caller[c] EXCEPT !.io = r.result, !.got = r.for]
      BY <1>1, <2>2
    <3>2. r.for = Tag(c) /\ r.for \in Tags /\ r.result \in {"ok", "err"}
      BY <1>3, <1>7, <2>2 DEF Response
    <3> HIDE DEF to
    <3> QED BY <2>1, <2>2, <3>1, <3>2 DEF CallerRecord
  <2>3. CASE c \notin to
    BY <1>1, <2>1, <2>3
  <2> QED BY <2>2, <2>3
<1>9. caller' \in [Callers -> CallerRecord]
  <2>1. caller' = [c \in Callers |-> caller'[c]]
    BY <1>1
  <2> QED BY <1>8, <2>1
<1>10. Types'
  BY <1>1, <1>6, <1>9 DEF IInv, Types, auths
<1>11. Pipes'
  BY <1>4, <1>6 DEF IInv, Pipes, PipeOK
<1>12. Waiters'
  <2> SUFFICES ASSUME NEW c \in Callers PROVE CallerOK(c)'
    BY DEF Waiters
  <2>1. CallerOK(c) /\ Tag(c)' = Tag(c)
    BY <1>8 DEF IInv, Waiters, Tag
  <2>2. \A g \in Hosts : host'[g].child = host[g].child
    BY <1>5, <1>6
  <2>3. CASE c \in to
    <3>1. caller[c].io = "waiting"
      BY <2>3
    <3> HIDE DEF to
    <3> QED BY <1>8, <2>1, <2>2, <2>3, <3>1 DEF CallerOK, Free
  <2>4. CASE c \notin to
    <3>1. caller[c].io = "waiting" => \E p \in host'[caller[c].host].pending : p[2] = Tag(c)
      <4> SUFFICES ASSUME caller[c].io = "waiting"
                   PROVE  \E p \in host'[caller[c].host].pending : p[2] = Tag(c)
        OBVIOUS
      <4>1. caller[c].host \in Hosts
        BY <2>1 DEF CallerOK, Free
      <4>2. PICK p \in host[caller[c].host].pending : p[2] = Tag(c)
        BY <2>1 DEF CallerOK
      <4>3. CASE caller[c].host # h
        BY <1>6, <4>1, <4>2, <4>3
      <4>4. CASE caller[c].host = h
        <5>1. p \notin found
          BY <2>4, <4>2, <4>4
        <5> HIDE DEF found, to
        <5> QED BY <1>5, <1>6, <4>2, <4>4, <5>1
      <4> QED BY <4>3, <4>4
    <3> HIDE DEF to
    <3> QED BY <1>8, <2>1, <2>2, <2>4, <3>1 DEF CallerOK, Free
  <2> QED BY <2>3, <2>4
<1>13. Starters' /\ Processes' /\ NoProcessLeftBehind' /\ OneProcess'
  <2> HIDE DEF to, found
  <2> QED BY <1>1, <1>5, <1>6, <1>8, SameSeats
<1>14. Auth'
  <2>1. \A g \in Hosts : /\ host'[g].child = host[g].child /\ host'[g].loaders = host[g].loaders
                         /\ host'[g].dirty = host[g].dirty /\ host'[g].in = host[g].in
    BY <1>5, <1>6
  <2> HIDE DEF to, found
  <2> QED BY <1>1, <2>1, SameAuth
<1> QED BY <1>10, <1>11, <1>12, <1>13, <1>14 DEF IInv, Auth

LEMMA ReaderEndsKeeps ==
  ASSUME IInv, NEW h \in Hosts, ReaderEnds(h)
  PROVE  IInv'
<1> DEFINE x == host[h]
           z == [x EXCEPT !.reader = "eof", !.gone = TRUE]
<1>1. /\ x.reader = "on" /\ x.child = "dead" /\ host' = [host EXCEPT ![h] = z]
      /\ UNCHANGED <<cached, starter, models, known, caller, auths, count>>
  BY DEF ReaderEnds, IInv, Types
<1>2. x \in HostRecord /\ PipeOK(x)
  BY DEF IInv, Types, Pipes
<1> HIDE DEF x
<1>3. /\ z \in HostRecord /\ z.reader = "eof" /\ z.gone = TRUE /\ z.child = x.child /\ z.in = x.in
      /\ z.out = x.out /\ z.pending = x.pending /\ z.loaders = x.loaders /\ z.dirty = x.dirty
      /\ z.given_up = x.given_up
  BY <1>2 DEF HostRecord
<1> HIDE DEF z
<1>4. PipeOK(z)
  BY <1>1, <1>2, <1>3 DEF PipeOK
<1>5. host' \in [Hosts -> HostRecord] /\ \A g \in Hosts : host'[g] = IF g = h THEN z ELSE host[g]
  BY <1>1, <1>3 DEF IInv, Types
<1>6. Types' /\ Pipes'
  BY <1>1, <1>4, <1>5 DEF IInv, Types, Pipes, PipeOK, auths
<1>7. People'
  BY <1>1, <1>3, <1>5, SamePeople DEF x
<1>8. Auth'
  BY <1>1, <1>3, <1>5, SameAuth DEF x
<1> QED BY <1>6, <1>7, <1>8 DEF IInv, People, Auth

LEMMA ReaderClearsKeeps ==
  ASSUME IInv, NEW h \in Hosts, ReaderClears(h)
  PROVE  IInv'
<1> DEFINE x == host[h]
           z == [x EXCEPT !.reader = "done", !.pending = {}]
           told(c) == caller[c].io = "waiting" /\ \E p \in x.pending : p[2] = Tag(c)
<1>1. /\ x.reader = "eof" /\ host' = [host EXCEPT ![h] = z]
      /\ caller' = [c \in Callers |-> IF told(c) THEN [caller[c] EXCEPT !.io = "gone"] ELSE caller[c]]
      /\ UNCHANGED <<cached, starter, models, known, auths, count>>
  BY DEF ReaderClears, IInv, Types
<1>2. x \in HostRecord /\ PipeOK(x)
  BY DEF IInv, Types, Pipes
<1>3. /\ z \in HostRecord /\ z.reader = "done" /\ z.gone = x.gone /\ z.child = x.child /\ z.in = x.in
      /\ z.out = x.out /\ z.pending = {} /\ z.loaders = x.loaders /\ z.dirty = x.dirty
      /\ z.given_up = x.given_up
  BY <1>2 DEF HostRecord
<1> HIDE DEF z
<1>4. PipeOK(z)
  BY <1>1, <1>2, <1>3, FS_EmptySet DEF PipeOK
<1>5. host' \in [Hosts -> HostRecord] /\ \A g \in Hosts : host'[g] = IF g = h THEN z ELSE host[g]
  BY <1>1, <1>3 DEF IInv, Types
<1>6. ASSUME NEW c \in Callers
      PROVE  /\ caller'[c] \in CallerRecord /\ caller'[c].at = caller[c].at
             /\ caller'[c].host = caller[c].host /\ caller'[c].n = caller[c].n
             /\ caller'[c].op = caller[c].op /\ caller'[c].key = caller[c].key
             /\ told(c) => caller'[c].io = "gone"
             /\ ~told(c) => caller'[c] = caller[c]
  <2>1. caller[c] \in CallerRecord
    BY DEF IInv, Types
  <2>2. CASE told(c)
    <3>1. caller'[c] = [caller[c] EXCEPT !.io = "gone"]
      BY <1>1, <2>2
    <3> QED BY <2>1, <2>2, <3>1 DEF CallerRecord
  <2>3. CASE ~told(c)
    <3>1. caller'[c] = caller[c]
      BY <1>1, <2>3
    <3> QED BY <2>1, <2>3, <3>1
  <2> QED BY <2>2, <2>3
<1>7. caller' \in [Callers -> CallerRecord]
  <2>1. caller' = [c \in Callers |-> caller'[c]]
    BY <1>1
  <2> QED BY <1>6, <2>1
<1>8. Types' /\ Pipes'
  BY <1>1, <1>4, <1>5, <1>7 DEF IInv, Types, Pipes, PipeOK, auths
<1>9. Waiters'
  <2> SUFFICES ASSUME NEW c \in Callers PROVE CallerOK(c)'
    BY DEF Waiters
  <2>1. CallerOK(c) /\ Tag(c)' = Tag(c)
    BY <1>6 DEF IInv, Waiters, Tag
  <2>2. \A g \in Hosts : host'[g].child = host[g].child
    BY <1>3, <1>5
  <2>3. CASE told(c)
    BY <1>6, <2>1, <2>2, <2>3 DEF CallerOK, Free
  <2>4. CASE ~told(c)
    <3>1. caller[c].io = "waiting" => caller[c].host \in Hosts \ {h}
      BY <2>1, <2>4 DEF CallerOK, Free
    <3> QED BY <1>5, <1>6, <2>1, <2>2, <2>4, <3>1 DEF CallerOK, Free
  <2> QED BY <2>3, <2>4
<1>10. Starters' /\ Processes' /\ NoProcessLeftBehind' /\ OneProcess'
  BY <1>1, <1>3, <1>5, <1>6, SameSeats
<1>11. Auth'
  BY <1>1, <1>3, <1>5, SameAuth
<1> QED BY <1>8, <1>9, <1>10, <1>11 DEF IInv, Auth

(***************************************************************************)
(* The operations on the host.                                             *)
(***************************************************************************)
LEMMA MoveWithSessions ==
  ASSUME IInv, NEW c \in Callers, NEW y, MovesTo(c, y), NEW h \in Hosts,
         NEW S \in SUBSET (0..MaxCommands), host' = [host EXCEPT ![h].sessions = S],
         UNCHANGED <<models, known, auths, count>>
  PROVE  IInv'
<1> DEFINE z == [host[h] EXCEPT !.sessions = S]
<1>1. /\ z \in HostRecord /\ PipeOK(z) /\ z.child = host[h].child /\ z.in = host[h].in
      /\ z.pending = host[h].pending /\ z.given_up = host[h].given_up
      /\ z.loaders = host[h].loaders /\ z.dirty = host[h].dirty
  BY SessionsOK DEF IInv, Types, Pipes
<1>2. host' = [host EXCEPT ![h] = z]
  BY DEF IInv, Types
<1> HIDE DEF z
<1>3. host' \in [Hosts -> HostRecord] /\ \A g \in Hosts : host'[g] = IF g = h THEN z ELSE host[g]
  BY <1>1, <1>2 DEF IInv, Types
<1>4. People' /\ caller' \in [Callers -> CallerRecord] /\ cached' \in Hosts \cup {None}
  BY <1>1, <1>3, MoveKeeps
<1>5. Auth'
  BY <1>1, <1>3, SameAuth
<1>6. Types' /\ Pipes'
  BY <1>1, <1>3, <1>4 DEF IInv, Types, Pipes, PipeOK, auths, MovesTo
<1> QED BY <1>4, <1>5, <1>6 DEF IInv, People, Auth

\* A request that has its host goes on without a call.
LEMMA StepOn ==
  ASSUME IInv, NEW c \in Callers, caller[c].at \in {"call", "callback"}, UNCHANGED <<cached, starter>>,
         NEW y \in CallerRecord, caller' = [caller EXCEPT ![c] = y],
         y.at \in {"ask", "remove"}, y.io = "none", y.host = caller[c].host,
         y.op = caller[c].op, y.key = caller[c].key
  PROVE  MovesTo(c, y)
BY DEF MovesTo, IInv, Types, Waiters, CallerOK, Free, Starters, StarterOK, Starting

LEMMA AnsweredKeeps ==
  ASSUME IInv, NEW c \in Callers, Answered(c)
  PROVE  IInv'
<1> DEFINE h == caller[c].host
<1>1. /\ caller[c].at = "call" /\ caller[c] \in CallerRecord /\ h \in Hosts
      /\ caller[c].op \in Ops /\ caller[c].key \in Keys /\ host[h] \in HostRecord
  BY DEF Answered, IInv, Types, Waiters, CallerOK, Free
<1>2. UNCHANGED <<cached, known, file, bak, lock, truth, excused, count>>
  BY DEF Answered
<1>3. CASE caller[c].op = "signin"
  <2> DEFINE y == [caller[c] EXCEPT !.at = "ask", !.io = "none", !.got = None]
             S == host[h].sessions \cup {caller[c].n}
  <2>1. /\ host' = [host EXCEPT ![h].sessions = S] /\ caller' = [caller EXCEPT ![c] = y]
        /\ UNCHANGED <<starter, writer, models>>
    BY <1>1, <1>3 DEF Answered, Goes, IInv, Types
  <2>2. /\ y \in CallerRecord /\ y.at = "ask" /\ y.io = "none" /\ y.host = caller[c].host
        /\ y.op = caller[c].op /\ y.key = caller[c].key
    BY <1>1 DEF CallerRecord, Ats
  <2>3. S \in SUBSET (0..MaxCommands)
    BY <1>1 DEF CallerRecord, HostRecord
  <2> HIDE DEF y, S
  <2>4. MovesTo(c, y)
    BY <1>1, <1>2, <2>1, <2>2, StepOn
  <2> QED BY <1>1, <1>2, <2>1, <2>3, <2>4, MoveWithSessions DEF auths
<1>4. CASE caller[c].op \in {"signout", "signoutall"}
  <2> DEFINE y == [caller[c] EXCEPT !.at = "remove", !.io = "none", !.got = None]
             S == IF caller[c].op = "signout" THEN {caller[c].key} ELSE Keys
             v == [NoWriter EXCEPT !.pc = "want", !.set = S]
  <2>1. /\ writer' = [writer EXCEPT ![c] = v] /\ caller' = [caller EXCEPT ![c] = y]
        /\ UNCHANGED <<host, starter, models>>
    BY <1>1, <1>4 DEF Answered, Goes, IInv, Types
  <2>2. /\ y \in CallerRecord /\ y.at = "remove" /\ y.io = "none" /\ y.host = caller[c].host
        /\ y.op = caller[c].op /\ y.key = caller[c].key
    BY <1>1 DEF CallerRecord, Ats
  <2>3. S \in SUBSET Keys
    BY <1>1
  <2> HIDE DEF S
  <2>4. v \in WriterRecord /\ v.pc = "want" /\ v.value = 0
    BY <2>3, EmptyTypes DEF WriterRecord
  <2> HIDE DEF y, v
  <2>5. MovesTo(c, y)
    BY <1>1, <1>2, <2>1, <2>2, StepOn
  <2>6. People' /\ caller' \in [Callers -> CallerRecord] /\ cached' \in Hosts \cup {None}
    BY <2>1, <2>5, MoveKeeps DEF IInv, Types
  <2>7. /\ writer' \in [Actors -> WriterRecord] /\ writer'[c] = v
        /\ \A w \in Actors \ {c} : writer'[w] = writer[w]
    BY <2>1, <2>4 DEF IInv, Types, Actors
  <2>8. \A g \in Hosts : writer'[g] = writer[g]
    BY <2>7, PluginAssumption DEF Actors
  <2>9. Types' /\ Pipes'
    BY <1>2, <2>1, <2>6, <2>7 DEF IInv, Types, Pipes, PipeOK
  <2>10. Handlers'
    <3>1. \A d \in Callers : writer'[d].value = 0
      BY <2>4, <2>7 DEF IInv, Handlers, Actors
    <3> QED BY <2>1, <2>8, <3>1 DEF IInv, Handlers, Handling, Request, Updates, UpdatedKeys, Method
  <2>11. Alone'
    BY <1>2, <2>4, <2>7 DEF IInv, Alone, InLock
  <2>12. Loaders'
    BY <1>2, <2>1, <2>8 DEF IInv, Loaders, Handling, Request, ClearsLoader, UpdatedKeys, Method
  <2> QED BY <2>6, <2>9, <2>10, <2>11, <2>12 DEF IInv, People
<1>5. CASE caller[c].op = "models"
  <2>1. models' = models \cup {caller[c].key} /\ Returns(c, host, cached)
    BY <1>5 DEF Answered
  <2> QED BY <1>1, <1>2, <2>1, PlainReturn DEF IInv, Types
<1>6. CASE caller[c].op \notin {"signin", "signout", "signoutall", "models"}
  <2>1. Returns(c, host, cached) /\ UNCHANGED models
    BY <1>6 DEF Answered
  <2> QED BY <1>2, <2>1, PlainReturn DEF IInv, Types
<1> QED BY <1>3, <1>4, <1>5, <1>6

LEMMA callbackKeeps ==
  ASSUME IInv, NEW c \in Callers, callback(c)
  PROVE  IInv'
<1> DEFINE h == caller[c].host
<1>1. /\ caller[c].at = "ask" /\ caller[c] \in CallerRecord /\ h \in Hosts /\ host[h].child # "none"
      /\ caller[c].op \in Ops /\ caller[c].key \in Keys /\ host[h] \in HostRecord
      /\ starter # c
  BY DEF callback, IInv, Types, Waiters, CallerOK, Free, Starters, StarterOK, Starting
<1>2. UNCHANGED <<cached, models, known, file, bak, lock, truth, excused, count>>
  BY DEF callback
<1>3. CASE caller[c].n \in host[h].sessions
  <2> DEFINE y == Calling(caller[c], "callback", h)
             S == host[h].sessions \ {caller[c].n}
  <2>1. /\ host' = [host EXCEPT ![h].sessions = S] /\ caller' = [caller EXCEPT ![c] = y]
        /\ UNCHANGED <<starter, writer>>
    BY <1>1, <1>3 DEF callback, Calls, IInv, Types
  <2>2. /\ y \in CallerRecord /\ y.at = "callback" /\ y.host = h /\ y.op \in Ops /\ y.key \in Keys
        /\ y.io \in {"gone", "checked"}
    <3>1. "callback" \in Ats
      BY DEF Ats
    <3> QED BY <1>1, <3>1, CallingType
  <2>3. S \in SUBSET (0..MaxCommands)
    BY <1>1 DEF HostRecord
  <2> HIDE DEF y, S
  <2>4. MovesTo(c, y)
    BY <1>1, <1>2, <2>1, <2>2 DEF MovesTo, Free, Starting, IInv, Types
  <2> QED BY <1>1, <1>2, <2>1, <2>3, <2>4, MoveWithSessions DEF auths
<1>4. CASE caller[c].n \notin host[h].sessions
  <2>1. Returns(c, host, cached)
    BY <1>4 DEF callback
  <2> QED BY <1>2, <2>1, PlainReturn DEF IInv, Types
<1> QED BY <1>3, <1>4

LEMMA CallbackAnsweredKeeps ==
  ASSUME IInv, NEW c \in Callers, CallbackAnswered(c)
  PROVE  IInv'
<1>1. caller[c].at = "callback" /\ caller[c] \in CallerRecord
  BY DEF CallbackAnswered, IInv, Types
<1>2. UNCHANGED <<cached, models, known, file, bak, lock, truth, excused, count>>
  BY DEF CallbackAnswered
<1>3. CASE caller[c].io = "err" /\ ~caller[c].asked
  <2> DEFINE y == [caller[c] EXCEPT !.at = "ask", !.io = "none", !.got = None, !.asked = TRUE]
  <2>1. caller' = [caller EXCEPT ![c] = y] /\ UNCHANGED <<host, starter, writer>>
    BY <1>3 DEF CallbackAnswered, IInv, Types
  <2>2. /\ y \in CallerRecord /\ y.at = "ask" /\ y.io = "none" /\ y.host = caller[c].host
        /\ y.op = caller[c].op /\ y.key = caller[c].key
    BY <1>1 DEF CallerRecord, Ats
  <2> HIDE DEF y
  <2>3. MovesTo(c, y)
    BY <1>1, <1>2, <2>1, <2>2, StepOn
  <2> QED BY <1>2, <2>1, <2>3, MoveAlone DEF IInv, Types, auths
<1>4. CASE ~(caller[c].io = "err" /\ ~caller[c].asked)
  <2>1. Returns(c, host, cached)
    BY <1>4 DEF CallbackAnswered
  <2> QED BY <1>2, <2>1, PlainReturn DEF IInv, Types
<1> QED BY <1>3, <1>4

\* The server's notes on models are nobody else's.
LEMMA NotesKeep ==
  ASSUME IInv, models' \subseteq Keys, count' \in 0..MaxCommands,
         UNCHANGED <<host, cached, starter, known, caller, auths>>
  PROVE  IInv'
<1>1. People'
  BY SamePeople
<1>2. Auth'
  BY SameAuth
<1>3. Types' /\ Pipes'
  BY DEF IInv, Types, Pipes, PipeOK, auths
<1> QED BY <1>1, <1>2, <1>3 DEF IInv, People, Auth

LEMMA NoteStepsKeep ==
  ASSUME IInv, (\E k \in Keys \cup {None} : invalidate(k)) \/ \E k \in Keys : ModelsExpire(k)
  PROVE  IInv'
<1>1. models' \subseteq Keys /\ count' \in 0..MaxCommands
  BY PluginAssumption DEF invalidate, ModelsExpire, IInv, Types
<1> QED BY <1>1, NotesKeep DEF invalidate, ModelsExpire


(***************************************************************************)
(* The auth file.                                                          *)
(***************************************************************************)
LEMMA CorruptsKeeps ==
  ASSUME IInv, Corrupts
  PROVE  IInv'
<1>1. /\ file' = Bad /\ UNCHANGED <<host, cached, starter, models, known, caller, count>>
      /\ UNCHANGED <<bak, lock, writer, truth, excused>>
  BY DEF Corrupts, rest
<1>2. People'
  BY <1>1, SamePeople
<1>3. Types' /\ Pipes'
  BY <1>1 DEF IInv, Types, Pipes, PipeOK
<1>4. Handlers'
  BY <1>1 DEF IInv, Handlers, Handling, Request, Updates, UpdatedKeys, Method
<1>5. Alone'
  BY <1>1 DEF IInv, Alone, InLock, Bad
<1>6. Loaders'
  BY <1>1 DEF IInv, Loaders, Handling, Request, ClearsLoader, UpdatedKeys, Method
<1> QED BY <1>2, <1>3, <1>4, <1>5, <1>6 DEF IInv, People

\* One actor moves on in its update; nobody who is in the lock loses it, but
\* for one who is excused.
LEMMA WriterMoves ==
  ASSUME IInv, NEW w \in Actors, NEW v \in WriterRecord, writer' = [writer EXCEPT ![w] = v],
         UNCHANGED <<rest, file, bak, truth>>,
         lock' \in Actors \cup {None}, excused' \in BOOLEAN, excused => excused',
         w \in Hosts => /\ writer[w].pc # "over" /\ Handling(w) /\ Updates(Request(w))
                        /\ v.set = UpdatedKeys(Request(w)),
         w \in Callers => v.value = 0,
         ~excused' => /\ v.pc = "locked" => lock' = w /\ v.map = truth
                      /\ \A u \in Actors \ {w} : InLock(u) => lock' = lock
  PROVE  IInv'
<1>1. UNCHANGED <<host, cached, starter, models, known, caller, count>>
  BY DEF rest
<1>2. /\ writer' \in [Actors -> WriterRecord] /\ writer'[w] = v
      /\ \A u \in Actors \ {w} : writer'[u] = writer[u]
  BY DEF IInv, Types
<1>3. People'
  BY <1>1, SamePeople
<1>4. Types' /\ Pipes'
  BY <1>1, <1>2 DEF IInv, Types, Pipes, PipeOK
<1>5. Handlers'
  <2>1. ASSUME NEW h \in Hosts, writer'[h].pc # "off"
        PROVE  /\ Handling(h) /\ Updates(Request(h))
               /\ writer'[h].pc # "over" => writer'[h].set = UpdatedKeys(Request(h))
    <3>1. CASE h = w
      BY <1>2, <3>1
    <3>2. CASE h # w
      BY <1>2, <2>1, <3>2 DEF IInv, Handlers, Actors
    <3> QED BY <3>1, <3>2
  <2>2. \A c \in Callers : writer'[c].value = 0
    BY <1>2 DEF IInv, Handlers, Actors
  <2> QED BY <1>1, <2>1, <2>2 DEF Handlers, Handling, Request, Updates, UpdatedKeys, Method
<1>6. Alone'
  BY <1>1, <1>2 DEF IInv, Alone, InLock
<1>7. Loaders'
  <2>1. \A h \in Hosts : writer[h].pc = "over" => writer'[h].pc = "over"
    BY <1>2 DEF Actors
  <2> QED BY <1>1, <2>1 DEF IInv, Loaders, Handling, Request, ClearsLoader, UpdatedKeys, Method
<1> QED BY <1>3, <1>4, <1>5, <1>6, <1>7 DEF IInv, People

\* What a handler that has begun an update is at.
LEMMA WriterIsAt ==
  ASSUME IInv, NEW w \in Actors, writer[w].pc \in {"want", "locked"}
  PROVE  /\ writer[w] \in WriterRecord /\ None \notin Actors
         /\ w \in Hosts => /\ Handling(w) /\ Updates(Request(w))
                           /\ writer[w].set = UpdatedKeys(Request(w))
         /\ w \in Callers => writer[w].value = 0
<1>1. writer[w] \in WriterRecord
  BY DEF IInv, Types
<1>2. None \notin Actors
  BY PluginAssumption DEF Actors, Hosts
<1> QED BY <1>1, <1>2 DEF IInv, Handlers

LEMMA LinesRequest ==
  ASSUME IInv, NEW h \in Hosts, Handling(h)
  PROVE  host[h] \in HostRecord /\ PipeOK(host[h]) /\ host[h].child = "up" /\ Request(h) \in Line
<1>1. host[h] \in HostRecord /\ PipeOK(host[h]) /\ host[h].child = "up"
  BY DEF IInv, Types, Pipes, Handling
<1>2. host[h].in \in Seq(Line) /\ host[h].in # <<>>
  BY <1>1 DEF HostRecord, Handling
<1>3. Request(h) \in Line
  BY <1>2 DEF Request
<1> QED BY <1>1, <1>3

LEMMA HandlerStoresKeeps ==
  ASSUME IInv, NEW h \in Hosts, HandlerStores(h)
  PROVE  IInv'
<1> DEFINE r == Request(h)
           n == IF Method(r) \in {"callback", "apikey"} THEN r.for[2] ELSE 0
           S == UpdatedKeys(r)
           v == [NoWriter EXCEPT !.pc = "want", !.set = S, !.value = n]
<1>1. Handling(h) /\ Updates(r) /\ writer[h].pc = "off" /\ writer' = [writer EXCEPT ![h] = v]
  BY DEF HandlerStores
<1>2. UNCHANGED <<rest, file, bak, lock, truth, excused>>
  BY DEF HandlerStores, rest
<1>3. r \in Line
  BY <1>1, LinesRequest
<1>4. S \in SUBSET Keys
  BY <1>3 DEF UpdatedKeys, Line
<1>5. n \in 0..Before
  BY <1>3, PluginAssumption DEF Line, Tags, Before
<1> HIDE DEF n
<1>6. v \in WriterRecord /\ v.pc = "want" /\ v.set = S
  <2> HIDE DEF S
  <2> QED BY <1>4, <1>5, EmptyTypes DEF WriterRecord
<1> HIDE DEF v
<1>7. h \in Actors /\ h \notin Callers
  BY PluginAssumption DEF Actors
<1>8. lock \in Actors \cup {None} /\ excused \in BOOLEAN
  BY DEF IInv, Types
<1> QED BY <1>1, <1>2, <1>6, <1>7, <1>8, WriterMoves

LEMMA with_lockKeeps ==
  ASSUME IInv, NEW w \in Actors, with_lock(w)
  PROVE  IInv'
<1>1. writer[w].pc = "want" /\ lock = None /\ UNCHANGED <<rest, file, bak, truth>>
  BY DEF with_lock
<1>2. /\ writer[w] \in WriterRecord /\ None \notin Actors
      /\ w \in Hosts => /\ Handling(w) /\ Updates(Request(w))
                        /\ writer[w].set = UpdatedKeys(Request(w))
      /\ w \in Callers => writer[w].value = 0
  BY <1>1, WriterIsAt
<1>3. ~excused => \A u \in Actors : ~InLock(u)
  BY <1>1, <1>2 DEF IInv, Alone
<1>4. excused \in BOOLEAN
  BY DEF IInv, Types
<1>5. CASE Loads(w)
  <2> DEFINE L == load(w)
             v == [writer[w] EXCEPT !.pc = "locked", !.map = L]
  <2>1. lock' = w /\ writer' = [writer EXCEPT ![w] = v] /\ excused' = (excused \/ file.is = "bad")
    BY <1>5 DEF with_lock, IInv, Types
  <2>2. file.is \in {"whole", "bad"} /\ (file.is = "whole" => file.map \in Entries)
    BY DEF IInv, Types, Whole, Bad
  <2>3. bak # None => (bak.is = "whole" => bak.map \in Entries)
    BY DEF IInv, Types, Whole, Bad
  <2>4. L \in Entries
    BY <1>5, <2>2, <2>3, EmptyTypes DEF Loads, load
  <2>5. ~excused' => ~excused /\ L = truth
    <3> SUFFICES ASSUME ~excused' PROVE ~excused /\ L = truth
      OBVIOUS
    <3>1. ~excused /\ file.is # "bad"
      BY <1>4, <2>1
    <3>2. file.is = "whole"
      BY <2>2, <3>1
    <3>3. file.map = truth
      BY <3>1, <3>2 DEF IInv, Alone
    <3> QED BY <3>1, <3>2, <3>3 DEF load
  <2> HIDE DEF L
  <2>6. /\ v \in WriterRecord /\ v.set = writer[w].set /\ v.value = writer[w].value
        /\ v.map = L
    BY <1>2, <2>4 DEF WriterRecord
  <2> HIDE DEF v
  <2>7. excused' \in BOOLEAN /\ (excused => excused')
    BY <1>4, <2>1
  <2>8. ~excused' => /\ v.pc = "locked" => lock' = w /\ v.map = truth
                     /\ \A u \in Actors \ {w} : InLock(u) => lock' = lock
    BY <1>3, <2>1, <2>5, <2>6
  <2>9. w \in Hosts => /\ writer[w].pc # "over" /\ Handling(w) /\ Updates(Request(w))
                       /\ v.set = UpdatedKeys(Request(w))
    BY <1>1, <1>2, <2>6
  <2> QED BY <1>1, <1>2, <2>1, <2>6, <2>7, <2>8, <2>9, WriterMoves
<1>6. CASE ~Loads(w)
  <2> DEFINE v == [writer[w] EXCEPT !.pc = "failed"]
  <2>1. writer' = [writer EXCEPT ![w] = v] /\ UNCHANGED <<lock, excused>>
    BY <1>6 DEF with_lock, IInv, Types
  <2>2. v \in WriterRecord /\ v.pc = "failed" /\ v.set = writer[w].set /\ v.value = writer[w].value
    BY <1>2 DEF WriterRecord
  <2> HIDE DEF v
  <2>3. w \in Hosts => /\ writer[w].pc # "over" /\ Handling(w) /\ Updates(Request(w))
                       /\ v.set = UpdatedKeys(Request(w))
    BY <1>1, <1>2, <2>2
  <2> QED BY <1>1, <1>2, <1>4, <2>1, <2>2, <2>3, WriterMoves
<1> QED BY <1>5, <1>6

LEMMA TakesOverKeeps ==
  ASSUME IInv, NEW w \in Actors, TakesOver(w)
  PROVE  IInv'
<1> DEFINE v == writer[w]
<1>1. /\ v.pc = "want" /\ lock' = None /\ excused' = (excused \/ InLock(lock))
      /\ UNCHANGED <<rest, file, bak, writer, truth>>
  BY DEF TakesOver
<1>2. /\ v \in WriterRecord
      /\ w \in Hosts => /\ Handling(w) /\ Updates(Request(w)) /\ v.set = UpdatedKeys(Request(w))
      /\ w \in Callers => v.value = 0
  BY <1>1, WriterIsAt
<1>3. writer' = [writer EXCEPT ![w] = v]
  BY <1>1 DEF IInv, Types
<1>4. excused' \in BOOLEAN /\ (excused => excused')
  BY <1>1 DEF IInv, Types, InLock
<1>5. ~excused' => \A u \in Actors : ~InLock(u)
  BY <1>1 DEF IInv, Alone
<1> QED BY <1>1, <1>2, <1>3, <1>4, <1>5, WriterMoves

LEMMA LockTimesOutKeeps ==
  ASSUME IInv, NEW w \in Actors, LockTimesOut(w)
  PROVE  IInv'
<1> DEFINE v == [writer[w] EXCEPT !.pc = "failed"]
<1>1. /\ writer[w].pc = "want" /\ writer' = [writer EXCEPT ![w] = v]
      /\ UNCHANGED <<rest, file, bak, lock, truth, excused>>
  BY DEF LockTimesOut, IInv, Types
<1>2. /\ writer[w] \in WriterRecord
      /\ w \in Hosts => /\ Handling(w) /\ Updates(Request(w))
                        /\ writer[w].set = UpdatedKeys(Request(w))
      /\ w \in Callers => writer[w].value = 0
  BY <1>1, WriterIsAt
<1>3. v \in WriterRecord /\ v.pc = "failed" /\ v.set = writer[w].set /\ v.value = writer[w].value
  BY <1>2 DEF WriterRecord
<1> HIDE DEF v
<1>4. lock \in Actors \cup {None} /\ excused \in BOOLEAN
  BY DEF IInv, Types
<1> QED BY <1>1, <1>2, <1>3, <1>4, WriterMoves

(***************************************************************************)
(* The end of an update, and the handler's answer.                         *)
(***************************************************************************)

\* The hosts as an update leaves them: some cached options are known to be old.
LEMMA DirtiedFacts ==
  ASSUME IInv, NEW w \in Actors, writer[w] \in WriterRecord, NEW D, D = Dirtied(w)
  PROVE  /\ D \in [Hosts -> HostRecord]
         /\ \A h \in Hosts :
              /\ PipeOK(D[h]) /\ D[h].child = host[h].child /\ D[h].in = host[h].in
              /\ D[h].pending = host[h].pending /\ D[h].given_up = host[h].given_up
              /\ D[h].loaders = host[h].loaders /\ host[h].dirty \subseteq D[h].dirty
              /\ \/ h = w /\ Method(Request(h)) # "callback"
                 \/ \A k \in writer[w].set : host[h].loaders[k] # None => k \in D[h].dirty
<1>1. ASSUME NEW h \in Hosts
      PROVE  /\ D[h] \in HostRecord
             /\ PipeOK(D[h]) /\ D[h].child = host[h].child /\ D[h].in = host[h].in
             /\ D[h].pending = host[h].pending /\ D[h].given_up = host[h].given_up
             /\ D[h].loaders = host[h].loaders /\ host[h].dirty \subseteq D[h].dirty
             /\ \/ h = w /\ Method(Request(h)) # "callback"
                \/ \A k \in writer[w].set : host[h].loaders[k] # None => k \in D[h].dirty
  <2> DEFINE S == {k \in writer[w].set : host[h].loaders[k] # None}
             y == [host[h] EXCEPT !.dirty = @ \cup S]
  <2>1. host[h] \in HostRecord /\ PipeOK(host[h])
    BY DEF IInv, Types, Pipes
  <2>2. S \in SUBSET Keys
    BY DEF WriterRecord
  <2>3. CASE h = w /\ Method(Request(h)) # "callback"
    <3>1. D[h] = host[h]
      BY <2>3 DEF Dirtied
    <3> QED BY <2>1, <2>3, <3>1
  <2>4. CASE ~(h = w /\ Method(Request(h)) # "callback")
    <3>1. D[h] = y
      BY <2>4 DEF Dirtied
    <3> HIDE DEF S
    <3>2. /\ y \in HostRecord /\ y.child = host[h].child /\ y.in = host[h].in /\ y.out = host[h].out
          /\ y.reader = host[h].reader /\ y.gone = host[h].gone /\ y.pending = host[h].pending
          /\ y.given_up = host[h].given_up /\ y.loaders = host[h].loaders
          /\ y.dirty = host[h].dirty \cup S
      BY <2>1, <2>2 DEF HostRecord
    <3> HIDE DEF y
    <3>3. PipeOK(y)
      BY <2>1, <3>2, PipeAlone
    <3>4. \A k \in writer[w].set : host[h].loaders[k] # None => k \in y.dirty
      BY <3>2 DEF S
    <3> QED BY <3>1, <3>2, <3>3, <3>4
  <2> QED BY <2>3, <2>4
<1>2. D = [h \in Hosts |-> D[h]]
  BY DEF Dirtied
<1> QED BY <1>1, <1>2

LEMMA saveKeeps ==
  ASSUME IInv, NEW w \in Actors, save(w)
  PROVE  IInv'
<1> DEFINE v == [NoWriter EXCEPT !.pc = "over"]
           none == w \in Callers /\ \A k \in writer[w].set : writer[w].map[k] = 0
<1>1. /\ writer[w].pc = "locked" /\ truth' = Applied(truth, w) /\ lock' = None
      /\ writer' = [writer EXCEPT ![w] = v]
      /\ UNCHANGED <<cached, starter, models, known, caller, count, excused>>
  BY DEF save
<1>2. /\ none => UNCHANGED <<file, bak, host>>
      /\ ~none => bak' = file /\ file' = Whole(Applied(writer[w].map, w)) /\ host' = Dirtied(w)
  BY DEF save
<1>3. /\ writer[w] \in WriterRecord /\ None \notin Actors
      /\ w \in Hosts => /\ Handling(w) /\ Updates(Request(w))
                        /\ writer[w].set = UpdatedKeys(Request(w))
      /\ w \in Callers => writer[w].value = 0
  BY <1>1, WriterIsAt
<1>4. v \in WriterRecord /\ v.pc = "over" /\ v.value = 0
  BY EmptyTypes DEF WriterRecord
<1> HIDE DEF v
<1>5. /\ writer' \in [Actors -> WriterRecord] /\ writer'[w] = v
      /\ \A u \in Actors \ {w} : writer'[u] = writer[u]
  BY <1>1, <1>4 DEF IInv, Types
<1>6. /\ host' \in [Hosts -> HostRecord]
      /\ \A h \in Hosts :
           /\ PipeOK(host'[h]) /\ host'[h].child = host[h].child /\ host'[h].in = host[h].in
           /\ host'[h].pending = host[h].pending /\ host'[h].given_up = host[h].given_up
           /\ host'[h].loaders = host[h].loaders /\ host[h].dirty \subseteq host'[h].dirty
           /\ \/ none
              \/ h = w /\ Method(Request(h)) # "callback"
              \/ \A k \in writer[w].set : host[h].loaders[k] # None => k \in host'[h].dirty
  <2>1. CASE none
    BY <1>2, <2>1 DEF IInv, Types, Pipes
  <2>2. CASE ~none
    BY <1>2, <1>3, <2>2, DirtiedFacts
  <2> QED BY <2>1, <2>2
<1>7. \A m \in Entries : Applied(m, w) \in Entries
  BY <1>3 DEF Applied, Entries, WriterRecord
<1>8. Types'
  <2>1. truth' \in Entries
    BY <1>1, <1>7 DEF IInv, Types
  <2>2. file' \in {Bad} \cup {Whole(m) : m \in Entries} /\ bak' \in {None, Bad} \cup {Whole(m) : m \in Entries}
    BY <1>2, <1>3, <1>7 DEF IInv, Types, WriterRecord
  <2> QED BY <1>1, <1>5, <1>6, <2>1, <2>2 DEF IInv, Types
<1>9. Pipes'
  BY <1>6 DEF Pipes, PipeOK
<1>10. People'
  BY <1>1, <1>6, SamePeople
<1>11. \A h \in Hosts : Handling(h)' = Handling(h) /\ Request(h)' = Request(h)
  BY <1>6 DEF Handling, Request
<1>12. Handlers'
  <2>1. ASSUME NEW h \in Hosts, writer'[h].pc # "off"
        PROVE  /\ Handling(h) /\ Updates(Request(h))
               /\ writer'[h].pc # "over" => writer'[h].set = UpdatedKeys(Request(h))
    <3>1. CASE h = w
      BY <1>3, <1>4, <1>5, <3>1
    <3>2. CASE h # w
      BY <1>5, <2>1, <3>2 DEF IInv, Handlers, Actors
    <3> QED BY <3>1, <3>2
  <2>2. \A c \in Callers : writer'[c].value = 0
    BY <1>4, <1>5 DEF IInv, Handlers, Actors
  <2> QED BY <1>11, <2>1, <2>2 DEF Handlers, Updates, UpdatedKeys, Method
<1>13. ~excused => /\ writer[w].map = truth /\ \A u \in Actors \ {w} : ~InLock(u)
                   /\ file.is = "whole" => file.map = truth
  BY <1>1 DEF IInv, Alone, InLock
<1>14. ~excused /\ none => truth' = truth
  <2> SUFFICES ASSUME ~excused, none PROVE truth' = truth
    OBVIOUS
  <2>1. truth \in Entries /\ writer[w].map = truth /\ writer[w].value = 0
    BY <1>3, <1>13 DEF IInv, Types
  <2> QED BY <1>1, <2>1 DEF Applied, Entries
<1>15. Alone'
  <2> SUFFICES ASSUME ~excused'
               PROVE  (\A u \in Actors : ~InLock(u)') /\ (file'.is = "whole" => file'.map = truth')
    BY DEF Alone
  <2>1. ~excused
    BY <1>1
  <2>2. \A u \in Actors : ~InLock(u)'
    BY <1>4, <1>5, <1>13, <2>1 DEF InLock
  <2>3. file'.is = "whole" => file'.map = truth'
    <3>1. CASE none
      BY <1>2, <1>13, <1>14, <2>1, <3>1
    <3>2. CASE ~none
      BY <1>1, <1>2, <1>13, <2>1, <3>2 DEF Whole
    <3> QED BY <3>1, <3>2
  <2> QED BY <2>2, <2>3
<1>16. Loaders'
  <2> SUFFICES ASSUME ~excused', NEW h \in Hosts, NEW k \in Keys, host'[h].child = "up",
                      k \notin host'[h].dirty, host'[h].loaders[k] # None
               PROVE  \/ host'[h].loaders[k] = truth'[k]
                      \/ writer'[h].pc = "over" /\ Handling(h)' /\ k \in ClearsLoader(Request(h))'
    BY DEF Loaders
  <2>1. ~excused /\ host[h].child = "up" /\ k \notin host[h].dirty /\ host[h].loaders[k] # None
    BY <1>1, <1>6
  <2>2. \/ host[h].loaders[k] = truth[k]
        \/ writer[h].pc = "over" /\ Handling(h) /\ k \in ClearsLoader(Request(h))
    BY <2>1 DEF IInv, Loaders
  <2>3. writer[h].pc = "over" => writer'[h].pc = "over"
    BY <1>1, <1>5 DEF Actors
  <2>4. ClearsLoader(Request(h))' = ClearsLoader(Request(h))
    BY <1>11 DEF ClearsLoader, UpdatedKeys, Method
  <2>5. CASE none
    BY <1>6, <1>11, <1>14, <2>1, <2>2, <2>3, <2>4, <2>5
  <2>6. CASE k \notin writer[w].set
    <3>1. truth'[k] = truth[k]
      BY <1>1, <2>6 DEF Applied
    <3> QED BY <1>6, <1>11, <2>2, <2>3, <2>4, <3>1
  <2>7. CASE ~none /\ k \in writer[w].set
    <3>1. h = w /\ Method(Request(h)) # "callback"
      BY <1>6, <2>1, <2>7
    <3>2. Handling(h) /\ Updates(Request(h)) /\ k \in UpdatedKeys(Request(h))
      BY <1>3, <2>7, <3>1
    <3>3. k \in ClearsLoader(Request(h))
      BY <3>1, <3>2 DEF Updates, ClearsLoader
    <3> QED BY <1>4, <1>5, <1>11, <2>4, <3>1, <3>2, <3>3
  <2> QED BY <2>5, <2>6, <2>7
<1> QED BY <1>8, <1>9, <1>10, <1>12, <1>15, <1>16 DEF IInv, People

\* A handler answers, the process as x says, and its update is over.
LEMMA Replies ==
  ASSUME IInv, NEW h \in Hosts, Handling(h), NEW x \in HostRecord, PipeOK(x),
         x.child = host[h].child, x.in = host[h].in, x.pending = host[h].pending,
         x.given_up = host[h].given_up, NEW res \in {"ok", "err"},
         host' = [host EXCEPT ![h] = Reply(h, x, res)], writer' = [writer EXCEPT ![h] = NoWriter],
         UNCHANGED <<cached, starter, models, known, caller, file, bak, lock, truth, excused, count>>,
         ~excused => \A k \in Keys : (k \notin x.dirty /\ x.loaders[k] # None) => x.loaders[k] = truth[k]
  PROVE  IInv'
<1> DEFINE z == Reply(h, x, res)
<1>1. host[h] \in HostRecord /\ PipeOK(host[h])
  BY DEF IInv, Types, Pipes
<1>2. /\ z \in HostRecord /\ PipeOK(z) /\ z.child = x.child /\ z.pending = x.pending
      /\ z.given_up = x.given_up /\ z.loaders = x.loaders /\ z.dirty = x.dirty
  BY <1>1, ReplyOK
<1> HIDE DEF z
<1>3. host' \in [Hosts -> HostRecord] /\ \A g \in Hosts : host'[g] = IF g = h THEN z ELSE host[g]
  BY <1>2 DEF IInv, Types, z
<1>4. /\ writer' \in [Actors -> WriterRecord] /\ writer'[h] = NoWriter
      /\ \A u \in Actors \ {h} : writer'[u] = writer[u]
  BY EmptyTypes DEF IInv, Types, Actors
<1>5. Types' /\ Pipes'
  BY <1>2, <1>3, <1>4 DEF IInv, Types, Pipes, PipeOK
<1>6. People'
  BY <1>2, <1>3, SamePeople
<1>7. \A g \in Hosts \ {h} : /\ Handling(g)' = Handling(g) /\ Request(g)' = Request(g)
                             /\ writer'[g] = writer[g] /\ host'[g] = host[g]
  BY <1>3, <1>4 DEF Handling, Request, Actors
<1>8. Handlers'
  <2>1. \A c \in Callers : writer'[c].value = 0
    BY <1>4, PluginAssumption DEF IInv, Handlers, Actors
  <2> QED BY <1>4, <1>7, <2>1, EmptyTypes DEF IInv, Handlers, Updates, UpdatedKeys, Method
<1>9. Alone'
  BY <1>4, EmptyTypes DEF IInv, Alone, InLock
<1>10. Loaders'
  <2> SUFFICES ASSUME ~excused, NEW g \in Hosts, NEW k \in Keys, host'[g].child = "up",
                      k \notin host'[g].dirty, host'[g].loaders[k] # None
               PROVE  \/ host'[g].loaders[k] = truth[k]
                      \/ writer'[g].pc = "over" /\ Handling(g)' /\ k \in ClearsLoader(Request(g))'
    BY DEF Loaders
  <2>1. CASE g = h
    BY <1>2, <1>3, <2>1
  <2>2. CASE g # h
    BY <1>7, <2>2 DEF IInv, Loaders, ClearsLoader, UpdatedKeys, Method
  <2> QED BY <2>1, <2>2
<1> QED BY <1>5, <1>6, <1>8, <1>9, <1>10 DEF IInv, People

\* Before an update is over, cached options that are not known to be old are
\* those of the file; after it, those the handler does not drop.
LEMMA LoadersAreTrue ==
  ASSUME IInv, NEW h \in Hosts, Handling(h), ~excused, NEW k \in Keys,
         k \notin host[h].dirty, host[h].loaders[k] # None,
         writer[h].pc # "over" \/ k \notin ClearsLoader(Request(h))
  PROVE  host[h].loaders[k] = truth[k]
BY DEF IInv, Loaders, Handling

LEMMA HandlerFailsKeeps ==
  ASSUME IInv, NEW h \in Hosts, HandlerFails(h)
  PROVE  IInv'
<1> DEFINE x == host[h]
<1>1. /\ Handling(h) /\ writer[h].pc \in {"off", "failed"}
      /\ host' = [host EXCEPT ![h] = Reply(h, x, "err")] /\ writer' = [writer EXCEPT ![h] = NoWriter]
      /\ UNCHANGED <<cached, starter, models, known, caller, file, bak, lock, truth, excused, count>>
  BY DEF HandlerFails, IInv, Types
<1>2. x \in HostRecord /\ PipeOK(x)
  BY <1>1, LinesRequest
<1>3. ~excused => \A k \in Keys : (k \notin x.dirty /\ x.loaders[k] # None) => x.loaders[k] = truth[k]
  BY <1>1, LoadersAreTrue
<1> HIDE DEF x
<1> QED BY <1>1, <1>2, <1>3, Replies DEF x

\* The sign-ins a process knows of are nothing to its pipe and its options.
LEMMA SigninsOK ==
  ASSUME NEW x \in HostRecord, PipeOK(x), NEW S \in SUBSET (0..MaxCommands),
         NEW y, y = [x EXCEPT !.signins = S]
  PROVE  /\ y \in HostRecord /\ PipeOK(y) /\ y.child = x.child /\ y.in = x.in
         /\ y.pending = x.pending /\ y.given_up = x.given_up
         /\ y.loaders = x.loaders /\ y.dirty = x.dirty
<1>1. /\ y \in HostRecord /\ y.given_up = x.given_up /\ y.child = x.child /\ y.in = x.in
      /\ y.out = x.out /\ y.reader = x.reader /\ y.gone = x.gone /\ y.pending = x.pending
      /\ y.loaders = x.loaders /\ y.dirty = x.dirty
  BY DEF HostRecord
<1> QED BY <1>1, PipeAlone

\* The loader reads the file as it is, or is known to be old.
LEMMA LoadedFacts ==
  ASSUME IInv, NEW h \in Hosts, Handling(h), NEW k \in Keys, NEW y, y = Loaded(host[h], k)
  PROVE  /\ y \in HostRecord /\ PipeOK(y) /\ y.child = host[h].child /\ y.in = host[h].in
         /\ y.pending = host[h].pending /\ y.given_up = host[h].given_up
         /\ ~excused => \A j \in Keys : (j \notin y.dirty /\ y.loaders[j] # None) =>
              \/ y.loaders[j] = truth[j]
              \/ j \notin host[h].dirty /\ y.loaders[j] = host[h].loaders[j]
<1> DEFINE x == host[h]
           n == IF file.is = "whole" THEN file.map[k] ELSE 0
           L == [x.loaders EXCEPT ![k] = n]
           S == IF file.is = "whole" THEN x.dirty \ {k} ELSE x.dirty \cup {k}
<1>1. x \in HostRecord /\ PipeOK(x) /\ x.child = "up"
  BY LinesRequest
<1>2. CASE x.loaders[k] # None
  <2>1. y = x
    BY <1>2 DEF Loaded
  <2> QED BY <1>1, <2>1
<1>3. CASE x.loaders[k] = None
  <2>1. y = [x EXCEPT !.loaders = L, !.dirty = S]
    BY <1>1, <1>3 DEF Loaded, HostRecord
  <2>2. n \in 0..Before
    BY PluginAssumption DEF IInv, Types, Whole, Bad, Entries, NoEntries, Before
  <2>3. ~excused /\ file.is = "whole" => n = truth[k]
    BY DEF IInv, Alone
  <2> HIDE DEF n
  <2>4. S \in SUBSET Keys /\ x.loaders \in [Keys -> (0..Before) \cup {None}]
    BY <1>1 DEF HostRecord
  <2>5. L \in [Keys -> (0..Before) \cup {None}]
    BY <2>2, <2>4
  <2>6. /\ y \in HostRecord /\ PipeOK(y) /\ y.child = x.child /\ y.in = x.in
        /\ y.pending = x.pending /\ y.given_up = x.given_up /\ y.loaders = L /\ y.dirty = S
    <3> HIDE DEF L, S, x
    <3>1. /\ y \in HostRecord /\ y.child = x.child /\ y.in = x.in /\ y.out = x.out
          /\ y.reader = x.reader /\ y.gone = x.gone /\ y.pending = x.pending
          /\ y.given_up = x.given_up /\ y.loaders = L /\ y.dirty = S
      BY <1>1, <2>1, <2>4, <2>5 DEF HostRecord
    <3> QED BY <1>1, <3>1, PipeAlone
  <2>7. ASSUME ~excused, NEW j \in Keys, j \notin S, L[j] # None
        PROVE  L[j] = truth[j] \/ (j \notin x.dirty /\ L[j] = x.loaders[j])
    <3>1. CASE j = k
      <4>1. file.is = "whole" /\ L[j] = n
        BY <2>4, <2>7, <3>1
      <4> QED BY <2>3, <2>7, <3>1, <4>1
    <3>2. CASE j # k
      BY <2>4, <2>7, <3>2
    <3> QED BY <3>1, <3>2
  <2> QED BY <2>6, <2>7
<1> QED BY <1>2, <1>3

LEMMA HandlerAnswersKeeps ==
  ASSUME IInv, NEW h \in Hosts, HandlerAnswers(h)
  PROVE  IInv'
<1> DEFINE hst == host[h]
           r == Request(h)
           m == Method(r)
           C == ClearsLoader(r)
<1>1. /\ Handling(h) /\ (Updates(r) => writer[h].pc = "over") /\ writer' = [writer EXCEPT ![h] = NoWriter]
      /\ UNCHANGED <<cached, starter, models, known, caller, file, bak, lock, truth, excused, count>>
  BY DEF HandlerAnswers
<1>2. hst \in HostRecord /\ PipeOK(hst) /\ hst.child = "up" /\ r \in Line
  BY <1>1, LinesRequest
<1>3. r.key \in Keys /\ r.for[2] \in 0..MaxCommands
  BY <1>2 DEF Line, Tags
<1>4. ~Updates(r) => writer[h].pc = "off"
  BY DEF IInv, Handlers
<1>5. ASSUME ~excused, NEW k \in Keys, k \notin hst.dirty, hst.loaders[k] # None,
             ~Updates(r) \/ k \notin C
      PROVE  hst.loaders[k] = truth[k]
  BY <1>1, <1>4, <1>5, LoadersAreTrue
<1>6. CASE m = "load"
  <2> DEFINE x == Loaded(hst, r.key)
  <2>1. host' = [host EXCEPT ![h] = Reply(h, x, "ok")] /\ ~Updates(r)
    BY <1>6 DEF HandlerAnswers, Updates
  <2>2. /\ x \in HostRecord /\ PipeOK(x) /\ x.child = host[h].child /\ x.in = host[h].in
        /\ x.pending = host[h].pending /\ x.given_up = host[h].given_up
        /\ ~excused => \A j \in Keys : (j \notin x.dirty /\ x.loaders[j] # None) =>
             \/ x.loaders[j] = truth[j]
             \/ j \notin host[h].dirty /\ x.loaders[j] = host[h].loaders[j]
    BY <1>1, <1>3, LoadedFacts
  <2> HIDE DEF x, C
  <2>3. ~excused => \A k \in Keys : (k \notin x.dirty /\ x.loaders[k] # None) => x.loaders[k] = truth[k]
    BY <1>5, <2>1, <2>2
  <2> QED BY <1>1, <2>1, <2>2, <2>3, Replies
<1>7. CASE m \in {"signin", "callback"}
  <2> DEFINE S == IF m = "signin" THEN hst.signins \cup {r.for[2]} ELSE hst.signins \ {r.for[2]}
             x == [hst EXCEPT !.signins = S]
  <2>1. host' = [host EXCEPT ![h] = Reply(h, x, "ok")]
    <3>1. CASE m = "signin"
      BY <3>1 DEF HandlerAnswers, Updates
    <3>2. CASE m = "callback"
      BY <3>2 DEF HandlerAnswers, Updates
    <3> QED BY <1>7, <3>1, <3>2
  <2>2. S \in SUBSET (0..MaxCommands)
    BY <1>2, <1>3 DEF HostRecord
  <2> HIDE DEF S
  <2>3. /\ x \in HostRecord /\ PipeOK(x) /\ x.child = host[h].child /\ x.in = host[h].in
        /\ x.pending = host[h].pending /\ x.given_up = host[h].given_up
        /\ x.loaders = hst.loaders /\ x.dirty = hst.dirty
    BY <1>2, <2>2, SigninsOK
  <2>4. C = {}
    BY <1>7 DEF ClearsLoader
  <2> HIDE DEF x, C
  <2>5. ~excused => \A k \in Keys : (k \notin x.dirty /\ x.loaders[k] # None) => x.loaders[k] = truth[k]
    BY <1>5, <2>3, <2>4
  <2> QED BY <1>1, <2>1, <2>3, <2>5, Replies
<1>8. CASE Updates(r) /\ m # "callback"
  <2> DEFINE L == [k \in Keys |-> IF k \in C THEN None ELSE hst.loaders[k]]
             S == hst.dirty \ C
             x == [hst EXCEPT !.loaders = L, !.dirty = S]
  <2>1. host' = [host EXCEPT ![h] = Reply(h, x, "ok")]
    <3>1. m \notin {"load", "signin", "callback"}
      BY <1>8 DEF Updates
    <3> QED BY <1>2, <1>8, <3>1 DEF HandlerAnswers, HostRecord
  <2> HIDE DEF C
  <2>2. L \in [Keys -> (0..Before) \cup {None}] /\ S \in SUBSET Keys
    BY <1>2 DEF HostRecord
  <2>3. ASSUME ~excused, NEW k \in Keys, k \notin S, L[k] # None PROVE L[k] = truth[k]
    BY <1>5, <2>3
  <2> HIDE DEF L, S, hst
  <2>4. /\ x \in HostRecord /\ x.child = hst.child /\ x.in = hst.in /\ x.out = hst.out
        /\ x.reader = hst.reader /\ x.gone = hst.gone /\ x.pending = hst.pending
        /\ x.given_up = hst.given_up /\ x.loaders = L /\ x.dirty = S
    BY <1>2, <2>2 DEF HostRecord
  <2> HIDE DEF x
  <2>5. PipeOK(x)
    BY <1>2, <2>4, PipeAlone
  <2> QED BY <1>1, <2>1, <2>3, <2>4, <2>5, Replies DEF hst
<1>9. CASE m \notin {"load", "signin", "callback"} /\ ~Updates(r)
  <2>1. host' = [host EXCEPT ![h] = Reply(h, hst, "ok")]
    BY <1>9 DEF HandlerAnswers
  <2>2. ~excused => \A k \in Keys : (k \notin hst.dirty /\ hst.loaders[k] # None) => hst.loaders[k] = truth[k]
    BY <1>5, <1>9
  <2> HIDE DEF hst
  <2> QED BY <1>1, <1>2, <2>1, <2>2, Replies DEF hst
<1> QED BY <1>6, <1>7, <1>8, <1>9

(***************************************************************************)
(* The process dies on its own.                                            *)
(***************************************************************************)
LEMMA DiesKeeps ==
  ASSUME IInv, NEW h \in Hosts, Dies(h)
  PROVE  IInv'
<1> DEFINE x == Ended(host[h])
           hs == [host EXCEPT ![h] = x]
<1>1. /\ host[h].child = "up" /\ host' = Dropped(hs, cached, caller) /\ writer' = [writer EXCEPT ![h] = NoWriter]
      /\ UNCHANGED <<cached, starter, models, known, caller, file, bak, lock, truth, excused, count>>
  BY DEF Dies, IInv, Types
<1>2. x \in HostRecord /\ PipeOK(x) /\ x.child = "dead" /\ x.pending = host[h].pending
  BY EndedOK DEF IInv, Types, Pipes
<1> HIDE DEF x
<1>3. hs \in [Hosts -> HostRecord] /\ \A g \in Hosts : hs[g] = IF g = h THEN x ELSE host[g]
  BY <1>2 DEF IInv, Types
<1> HIDE DEF hs
<1>4. \A g \in Hosts : PipeOK(hs[g]) /\ hs[g].pending = host[g].pending
  BY <1>2, <1>3 DEF IInv, Pipes
<1>5. Heir(hs)
  BY <1>1, <1>2, <1>3, <1>4 DEF Heir
<1>6. /\ host' \in [Hosts -> HostRecord]
      /\ \A g \in Hosts : /\ host'[g].pending = host[g].pending
                          /\ host'[g].child = "none" <=> hs[g].child = "none"
                          /\ host'[g].child = "up" => host'[g] = hs[g]
  <2> DEFINE D == Dropped(hs, cached, caller)
  <2>1. /\ D \in [Hosts -> HostRecord]
        /\ \A g \in Hosts : /\ D[g].pending = hs[g].pending
                            /\ D[g].child = "none" <=> hs[g].child = "none"
                            /\ D[g].child = "up" => D[g] = hs[g]
    BY <1>3, <1>4, DroppedFacts
  <2> QED BY <1>1, <1>4, <2>1
<1>7. \A g \in Hosts \ {h} : host[g].child = "up" => host'[g] = host[g]
  <2> SUFFICES ASSUME NEW g \in Hosts \ {h}, host[g].child = "up" PROVE host'[g] = host[g]
    OBVIOUS
  <2>1. References(g, cached, caller)
    BY DEF IInv, NoProcessLeftBehind
  <2>2. host'[g] = hs[g]
    BY <1>1, <2>1 DEF Dropped
  <2> QED BY <1>3, <2>2
<1>8. writer' \in [Actors -> WriterRecord] /\ writer'[h] = NoWriter /\ \A u \in Actors \ {h} : writer'[u] = writer[u]
  BY <1>1, EmptyTypes DEF IInv, Types, Actors
<1>9. \A g \in Hosts : host'[g].child = "dead" => writer'[g].pc = "off"
  <2> SUFFICES ASSUME NEW g \in Hosts, g # h, host'[g].child = "dead" PROVE writer[g].pc = "off"
    BY <1>8, EmptyTypes DEF Actors
  <2>1. host[g].child # "up"
    BY <1>7
  <2> QED BY <2>1 DEF IInv, Handlers, Handling
<1>10. \A g \in Hosts : host'[g].child # "dead" => writer'[g] = writer[g]
  <2>1. host'[h].child = "dead"
    <3>1. host'[h].child \in {"none", "up", "dead"}
      BY <1>6 DEF HostRecord
    <3> QED BY <1>2, <1>3, <1>6, <3>1
  <2> QED BY <1>8, <2>1 DEF Actors
<1>11. Heir(host') /\ Pipes' /\ NoProcessLeftBehind' /\ OneProcess' /\ Auth'
  <2>1. host' = Dropped(hs, cached', caller')
    BY <1>1
  <2>2. \A w \in Actors : writer'[w] = NoWriter \/ writer'[w] = writer[w]
    BY <1>8
  <2> QED BY <1>1, <1>5, <1>8, <1>9, <1>10, <2>1, <2>2, DropCore
<1>12. Types'
  BY <1>1, <1>6, <1>8 DEF IInv, Types
<1>13. Waiters'
  <2> SUFFICES ASSUME NEW c \in Callers PROVE CallerOK(c)'
    BY DEF Waiters
  <2>1. CallerOK(c) /\ caller' = caller /\ Tag(c)' = Tag(c)
    BY <1>1 DEF IInv, Waiters, Tag
  <2>2. caller[c].io = "waiting" => caller[c].host \in Hosts
    BY <2>1 DEF CallerOK, Free
  <2>3. \A g \in Hosts : host[g].child # "none" => host'[g].child # "none"
    BY <1>11 DEF Heir
  <2> QED BY <1>6, <2>1, <2>2, <2>3 DEF CallerOK
<1>14. Starters'
  BY <1>1 DEF IInv, Starters, StarterOK
<1>15. Processes'
  BY <1>1, <1>11 DEF IInv, Types, Processes, Heir
<1> QED BY <1>11, <1>12, <1>13, <1>14, <1>15 DEF IInv, Auth

(***************************************************************************)
(* The theorems.                                                           *)
(***************************************************************************)
LEMMA InitIInv == Init => IInv
<1> SUFFICES ASSUME Init PROVE IInv
  OBVIOUS
<1>1. NoHost \in HostRecord /\ PipeOK(NoHost) /\ NoHost.child = "none"
  <2>1. <<>> \in Seq(Line) /\ <<>> \in Seq(Response) /\ Lines(<<>>) = {}
    BY DEF Lines
  <2>2. NoHost \in HostRecord
    BY <2>1 DEF NoHost, HostRecord
  <2> QED BY <2>1, <2>2, FS_EmptySet DEF NoHost, PipeOK
<1>2. truth \in Entries /\ file = Whole(truth)
  BY PluginAssumption DEF Init, Entries, Before
<1>3. None \notin Actors
  BY PluginAssumption DEF Actors, Hosts
<1>4. Types
  <2>1. host \in [Hosts -> HostRecord]
    BY <1>1 DEF Init
  <2>2. caller \in [Callers -> CallerRecord] /\ writer \in [Actors -> WriterRecord]
    BY EmptyTypes DEF Init
  <2>3. file \in {Bad} \cup {Whole(m) : m \in Entries} /\ bak \in {None, Bad} \cup {Whole(m) : m \in Entries}
    BY <1>2 DEF Init
  <2>4. count \in 0..MaxCommands
    BY PluginAssumption DEF Init
  <2> QED BY <1>2, <2>1, <2>2, <2>3, <2>4 DEF Init, Types
<1>5. Pipes
  BY <1>1 DEF Init, Pipes
<1>6. Waiters
  BY EmptyTypes DEF Init, Waiters, CallerOK, Free
<1>7. Starters
  BY EmptyTypes, PluginAssumption DEF Init, Starters, StarterOK, Starting
<1>8. Processes /\ NoProcessLeftBehind /\ OneProcess
  BY <1>1 DEF Init, Processes, NoProcessLeftBehind, OneProcess
<1>9. Handlers
  BY EmptyTypes DEF Init, Handlers, Actors
<1>10. Alone
  BY <1>2, EmptyTypes DEF Init, Alone, InLock, Whole
<1>11. Loaders
  BY <1>1 DEF Init, Loaders
<1> QED BY <1>4, <1>5, <1>6, <1>7, <1>8, <1>9, <1>10, <1>11 DEF IInv

LEMMA NextKeeps ==
  ASSUME IInv, [Next]_vars
  PROVE  IInv'
<1>1. CASE UNCHANGED vars
  BY <1>1, NotesKeep DEF vars, IInv, Types
<1>2. ASSUME NEW c \in Callers, Requests(c) \/ Cancelled(c) PROVE IInv'
  <2>1. CASE CallWrites(c) \/ Cancelled(c)
    BY <2>1, CallWritesKeeps, CancelledKeeps
  <2>2. CASE HostSteps(c)
    BY <2>2, ProbedKeeps, StartLockKeeps, ReprobedKeeps, SpawnHostKeeps, SpawnFailsKeeps,
       StartedKeeps, StartFailsKeeps DEF HostSteps
  <2>3. CASE UseSteps(c)
    BY <2>3, FailedKeeps, AnsweredKeeps, callbackKeeps, CallbackAnsweredKeeps, SignedOutKeeps DEF UseSteps
  <2> QED BY <1>2, <2>1, <2>2, <2>3 DEF Requests
<1>3. ASSUME NEW c \in Callers, NEW op \in Operations \ {"invalidate"}, NEW k \in Keys, Begin(c, op, k)
      PROVE  IInv'
  BY <1>3, BeginKeeps, PluginAssumption
<1>4. ASSUME NEW h \in Hosts, Reads(h) \/ Handles(h) \/ Dies(h) PROVE IInv'
  BY <1>4, dispatch_responseKeeps, ReaderEndsKeeps, ReaderClearsKeeps, HandlerStoresKeeps,
     HandlerAnswersKeeps, HandlerFailsKeeps, DiesKeeps DEF Reads, Handles
<1>5. ASSUME NEW w \in Actors, Stores(w) PROVE IInv'
  BY <1>5, with_lockKeeps, TakesOverKeeps, LockTimesOutKeeps, saveKeeps DEF Stores
<1>6. CASE (\E k \in Keys \cup {None} : invalidate(k)) \/ \E k \in Keys : ModelsExpire(k)
  BY <1>6, NoteStepsKeep
<1>7. CASE Corrupts
  BY <1>7, CorruptsKeeps
<1> QED BY <1>1, <1>2, <1>3, <1>4, <1>5, <1>6, <1>7 DEF Next

\* The inductive invariant holds in every reachable state.
THEOREM Invariance == Spec => []IInv
<1>1. IInv /\ [Next]_vars => IInv'
  BY NextKeeps
<1> QED BY <1>1, InitIInv, PTL DEF Spec

\* A request that waits for an answer is on a pipe whose reader still runs, so
\* it is answered or told that the process is gone (PluginTransport::call and
\* its reader thread).
THEOREM DeadHostFreesCallersAlways == Spec => []DeadHostFreesCallers
<1>1. IInv => DeadHostFreesCallers
  <2> SUFFICES ASSUME IInv, NEW c \in Callers, caller[c].io = "waiting"
               PROVE  host[caller[c].host].reader # "done"
    BY DEF DeadHostFreesCallers
  <2>1. caller[c].host \in Hosts /\ host[caller[c].host].pending # {}
    BY DEF IInv, Waiters, CallerOK, Free
  <2> QED BY <2>1 DEF IInv, Pipes, PipeOK
<1> QED BY <1>1, Invariance, PTL

\* The answer a request goes on with was given for its own call, whatever was
\* abandoned before it (dispatch_response matches by id).
THEOREM OwnReplyAlways == Spec => []OwnReply
<1>1. IInv => OwnReply
  BY DEF IInv, Waiters, CallerOK, OwnReply
<1> QED BY <1>1, Invariance, PTL

\* One process of a package runs, unless a probe has given one up, and none
\* runs that nobody has a reference to (ManagedHosts::host_for, Drop).
THEOREM ProcessesAgreeAlways == Spec => []ProcessesAgree
<1>1. IInv => TypeOK
  BY DEF IInv, Types, Pipes, PipeOK, TypeOK, HostRecord, CallerRecord, WriterRecord, Ats, Waiting
<1>2. IInv => ProcessesAgree
  BY <1>1 DEF IInv, ProcessesAgree
<1> QED BY <1>2, Invariance, PTL

\* Server and plugin keep each other's updates of the auth file, and the
\* plugin's cached options are those of the file (with_lock and save;
\* withAuthLock and clearLoaderCache on the plugin's side).
THEOREM AuthIsOneAlways == Spec => []AuthIsOne
<1>1. IInv => AuthKept
  BY DEF IInv, Alone, AuthKept
<1>2. IInv => LoaderFollowsSignOut
  BY DEF IInv, Alone, Loaders, LoaderFollowsSignOut
<1>3. IInv => AuthIsOne
  BY <1>1, <1>2 DEF AuthIsOne
<1> QED BY <1>3, Invariance, PTL
===============================================================================
