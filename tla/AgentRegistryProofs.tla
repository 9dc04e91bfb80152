-------------------------- MODULE AgentRegistryProofs --------------------------
(***************************************************************************)
(* Proofs about the wiring of an agent for any number of calls, failures,  *)
(* restarts, edits, keys, catalogs and user values.                        *)
(***************************************************************************)
EXTENDS AgentRegistry, TLAPS

\* The four specifications list the same files for backup and for writing.
LEMMA SpecFacts ==
  ASSUME NEW a \in Agents
  PROVE  /\ Len(spec_for[a].files) \in 1..3
         /\ \A i \in 1..Len(spec_for[a].files) :
              /\ spec_for[a].files[i] \in File
              /\ spec_for[a].writes[i] \in File
              /\ \E j \in 1..Len(spec_for[a].files) : spec_for[a].files[j] = spec_for[a].writes[i]
<1> DEFINE F == spec_for[a].files
           W == spec_for[a].writes
<1>0. a \in {"claude", "codex", "gemini", "pi"}
  BY DEF Agents, spec_for
<1>1. \/ F = <<"main">> /\ W = F
      \/ F = <<"main", "keys", "models">> /\ W = F
      \/ F = <<"keys", "main">> /\ W = F
      \/ F = <<"main", "models">> /\ W = <<"models", "main">>
  BY <1>0 DEF spec_for, ClaudeSpec, CodexSpec, GeminiSpec, PiSpec
<1> HIDE DEF F, W
<1>2. CASE F = <<"main">> /\ W = F
  BY <1>2 DEF File, F, W
<1>3. CASE F = <<"main", "keys", "models">> /\ W = F
  <2>1. Len(F) = 3 /\ F[1] = "main" /\ F[2] = "keys" /\ F[3] = "models"
    BY <1>3
  <2>2. \A i \in 1..3 : F[i] \in File
    BY <2>1 DEF File
  <2> QED BY <1>3, <2>1, <2>2 DEF F, W
<1>4. CASE F = <<"keys", "main">> /\ W = F
  <2>1. Len(F) = 2 /\ F[1] = "keys" /\ F[2] = "main"
    BY <1>4
  <2>2. \A i \in 1..2 : F[i] \in File
    BY <2>1 DEF File
  <2> QED BY <1>4, <2>1, <2>2 DEF F, W
<1>5. CASE F = <<"main", "models">> /\ W = <<"models", "main">>
  <2>1. Len(F) = 2 /\ F[1] = "main" /\ F[2] = "models" /\ W[1] = "models" /\ W[2] = "main"
    BY <1>5
  <2>2. \A i \in 1..2 : F[i] \in File /\ W[i] \in File /\ \E j \in 1..2 : F[j] = W[i]
    BY <2>1 DEF File
  <2> QED BY <2>1, <2>2 DEF F, W
<1> QED BY <1>1, <1>2, <1>3, <1>4, <1>5

\* The values connect writes are values of the gateway or of the document.
LEMMA WiredValueType ==
  ASSUME NEW r \in Roles, NEW v \in Values, NEW k \in 1..MaxKeys, NEW c \in 1..MaxCats
  PROVE  WiredValue(r, v, k, c) \in Values
<1>1. Gateway(k, c) \in Values /\ None \in Values /\ OurType \in Values
  BY DEF Values, GatewayValues, Gateway
<1>2. v \in UserValues => Appended(v) \in Values
  BY DEF Values, GatewayValues
<1> QED BY <1>1, <1>2 DEF WiredValue, Roles

\* The document connect writes is a document.
LEMMA WiredType ==
  ASSUME NEW s, NEW f \in File, NEW d \in Docs, NEW k \in 1..MaxKeys, NEW c \in 1..MaxCats
  PROVE  WellFormed(Wired(s, f, d, k, c))
<1> DEFINE w == [r \in Roles |-> IF <<f, r>> \in s.owns
                                   THEN WiredValue(r, d.vals[r], k, c) ELSE d.vals[r]]
<1>1. \A r \in Roles : d.vals[r] \in Values
  BY DEF Docs
<1>2. w \in [Roles -> Values]
  BY <1>1, WiredValueType
<1>3. 0 \in 0..MaxRest
  BY BoundsAssumption
<1> HIDE DEF w
<1>4. \A x \in [Roles -> Values] :
        [there |-> TRUE, own |-> FALSE, vals |-> x,
         rest |-> IF f \in s.whole THEN 0 ELSE d.rest] \in Docs
  BY <1>3 DEF Docs
<1>5. Wired(s, f, d, k, c) = [there |-> TRUE, own |-> FALSE, vals |-> w,
                              rest |-> IF f \in s.whole THEN 0 ELSE d.rest]
  BY DEF Wired, w
<1> QED BY <1>2, <1>4, <1>5 DEF WellFormed

\* Nothing in a file is a document.
LEMMA AbsentType == WellFormed(AbsentDoc) /\ AbsentDoc.there = FALSE /\ Clean(AbsentDoc.vals)
<1>1. AbsentDoc \in Docs
  BY BoundsAssumption DEF AbsentDoc, Docs, NoValues, Values
<1> QED BY <1>1, ValuesAssumption DEF WellFormed, AbsentDoc, NoValues, Clean

\* Extraction restores what the stash holds and adds nothing of ours.
LEMMA ExtractedFacts ==
  ASSUME NEW s, NEW f \in File, NEW d, WellFormed(d), NEW old \in [Roles -> Values]
  PROVE  /\ WellFormed(Extracted(s, f, d, old))
         /\ Clean(d.vals) /\ Clean(old) => Clean(Extracted(s, f, d, old).vals)
<1> DEFINE w == [r \in Roles |-> IF <<f, r>> \in s.owns
                                   THEN ExtractedValue(r, d.vals[r], old[r]) ELSE d.vals[r]]
<1>0. d \in Docs /\ \A r \in Roles : d.vals[r] \in Values
  BY DEF Docs, WellFormed
<1>1. \A v : v \in {Appended(u) : u \in UserValues} => v[2] \in UserValues
  BY DEF Appended
<1>2. None \in Values /\ UserValues \subseteq Values
  BY DEF Values
<1>3. \A r \in Roles : /\ ExtractedValue(r, d.vals[r], old[r]) \in Values
                       /\ (d.vals[r] \notin GatewayValues /\ old[r] \notin GatewayValues)
                            => ExtractedValue(r, d.vals[r], old[r]) \notin GatewayValues
  BY <1>0, <1>1, <1>2, ValuesAssumption DEF ExtractedValue, Roles, RestoredRoles
<1>4. w \in [Roles -> Values]
  BY <1>0, <1>3
<1>5. Clean(d.vals) /\ Clean(old) => Clean(w)
  BY <1>3 DEF Clean
<1>6. CASE ~d.there \/ f \in s.whole
  BY <1>6, AbsentType DEF Extracted
<1>7. CASE ~(~d.there \/ f \in s.whole)
  <2> HIDE DEF w
  <2>1. Extracted(s, f, d, old) = [d EXCEPT !.vals = w, !.own = d.own /\ w = d.vals]
    BY <1>7 DEF Extracted, w
  <2>2. [d EXCEPT !.vals = w, !.own = d.own /\ w = d.vals] \in Docs
    BY <1>0, <1>4 DEF Docs
  <2>3. Extracted(s, f, d, old).vals = w /\ Extracted(s, f, d, old).there
    BY <1>0, <1>7, <2>1 DEF Docs
  <2> QED BY <1>5, <2>1, <2>2, <2>3 DEF WellFormed
<1> QED BY <1>6, <1>7

\* The stash connect plans is a stash.
LEMMA RecordedType ==
  ASSUME NEW s, NEW st \in [File -> [Roles -> Values]], NEW docs \in [File -> Docs]
  PROVE  Recorded(s, st, docs) \in [File -> [Roles -> Values]]
<1>1. \A f \in File, r \in Roles : docs[f].vals[r] \in Values /\ st[f][r] \in Values
  BY DEF Docs
<1> QED BY <1>1 DEF Recorded

LEMMA AppliedType ==
  ASSUME NEW s, NEW docs \in [File -> Docs]
  PROVE  applied_values(s, docs) \in [File -> [Roles -> Values]]
<1>1. \A f \in File, r \in Roles : docs[f].vals[r] \in Values
  BY DEF Docs
<1> QED BY <1>1 DEF applied_values, Values

-----------------------------------------------------------------------------
\* A call that writes has a key.
Writing == {"take", "read", "write", "stash", "audit", "commit"}
KeyHeld == op.at \in Writing => op.key # 0

TypeInv == TypeOK /\ KeyHeld

\* The call in progress is a call; it is about one of the agent's files.
OpOK ==
  /\ op \in [call : {"idle", "connect", "sync", "rotate", "disconnect"}, at : Steps,
             i : 1..3, key : 0..MaxKeys, docs : [File -> Docs],
             plan : [File -> [Roles -> Values]]]
  /\ op.i <= Count
  /\ KeyHeld

LEMMA IdleType == ASSUME agent \in AgentsUsed, op = Idle PROVE OpOK
<1>1. Idle \in [call : {"idle", "connect", "sync", "rotate", "disconnect"}, at : Steps,
                i : 1..3, key : 0..MaxKeys, docs : [File -> Docs],
                plan : [File -> [Roles -> Values]]]
  BY AbsentType, BoundsAssumption DEF Idle, Steps, NoDocs, NoAudit, NoValues, Values, WellFormed
<1>2. Count \in 1..3
  BY SpecFacts, AgentsAssumption DEF Count, spec
<1> QED BY <1>1, <1>2 DEF OpOK, KeyHeld, Writing, Idle

\* The other parts of the type invariant.
Stashes == [File -> [Roles -> Values]]
FileOK == file \in [File -> Docs] /\ \A f \in File : WellFormed(file[f])
BackupOK ==
  /\ backup \in [File -> [kind : {"none", "marker", "bytes"}, doc : Docs]]
  /\ \A f \in File : WellFormed(backup[f].doc)
StoreOK == stash \in Stashes /\ audit \in Stashes /\ key \in 0..MaxKeys /\ saved \in Entries
MemOK == mem \in [key : 0..MaxKeys, entry : Entries] /\ catalog \in 1..MaxCats
PollOK == poll \in [at : {"idle", "look", "mark"}, audit : Stashes]
SpentOK == spent \in [calls : 0..MaxCalls, upsets : 0..MaxUpsets, keys : 0..MaxKeys]
HistOK ==
  /\ was \in [File -> Docs] /\ marks \in [File -> SUBSET Marks]
  /\ mine \in [File -> 0..MaxRest] /\ torn \in BOOLEAN

LEMMA TypeParts ==
  TypeInv <=> /\ agent \in AgentsUsed /\ FileOK /\ BackupOK /\ StoreOK /\ MemOK
              /\ OpOK /\ PollOK /\ SpentOK /\ HistOK
BY DEF TypeInv, TypeOK, FileOK, BackupOK, StoreOK, MemOK, OpOK, PollOK, SpentOK, HistOK, Stashes

LEMMA TypePartsPrime ==
  TypeInv' <=> /\ agent' \in AgentsUsed /\ FileOK' /\ BackupOK' /\ StoreOK' /\ MemOK'
               /\ OpOK' /\ PollOK' /\ SpentOK' /\ HistOK'
BY DEF TypeInv, TypeOK, FileOK, BackupOK, StoreOK, MemOK, OpOK, PollOK, SpentOK, HistOK, Stashes

LEMMA NoAuditType == NoAudit \in Stashes
BY DEF NoAudit, NoValues, Values, Stashes

-----------------------------------------------------------------------------
\* How the steps of a call move it.

LEMMA CountType ==
  ASSUME agent \in AgentsUsed
  PROVE  /\ Count \in 1..3
         /\ \A i \in 1..Count : spec.files[i] \in File /\ spec.writes[i] \in File
BY SpecFacts, AgentsAssumption DEF Count, spec

LEMMA IdleOp ==
  ASSUME agent \in AgentsUsed, agent' = agent, op' = Idle
  PROVE  OpOK'
<1>1. Idle \in [call : {"idle", "connect", "sync", "rotate", "disconnect"}, at : Steps,
                i : 1..3, key : 0..MaxKeys, docs : [File -> Docs],
                plan : [File -> [Roles -> Values]]]
  BY AbsentType, BoundsAssumption DEF Idle, Steps, NoDocs, NoAudit, NoValues, Values, WellFormed
<1>2. Count' \in 1..3
  BY CountType DEF Count, spec
<1>3. Idle.i = 1 /\ Idle.at \notin Writing
  BY DEF Idle, Writing
<1> QED BY <1>1, <1>2, <1>3 DEF OpOK, KeyHeld

LEMMA GotoOp ==
  ASSUME OpOK, agent \in AgentsUsed, agent' = agent, NEW at \in Steps, Goto(at),
         at \in Writing => op.key # 0
  PROVE  OpOK'
<1>1. Count \in 1..3 /\ Count' = Count
  BY CountType DEF Count, spec
<1>2. /\ op' = [op EXCEPT !.at = at, !.i = 1]
      /\ 1 \in 1..3 /\ op.key \in 0..MaxKeys
  BY DEF Goto, OpOK
<1>3. op'.i = 1 /\ op'.at = at /\ op'.key = op.key
  BY <1>2 DEF OpOK
<1>4. op' \in [call : {"idle", "connect", "sync", "rotate", "disconnect"}, at : Steps,
               i : 1..3, key : 0..MaxKeys, docs : [File -> Docs],
               plan : [File -> [Roles -> Values]]]
  BY <1>2 DEF OpOK
<1> QED BY <1>1, <1>3, <1>4 DEF OpOK, KeyHeld

LEMMA NextFileOp ==
  ASSUME OpOK, agent \in AgentsUsed, agent' = agent, op.i < Count,
         op' = [op EXCEPT !.i = @ + 1]
  PROVE  OpOK'
<1>1. Count \in 1..3 /\ Count' = Count
  BY CountType DEF Count, spec
<1> QED BY <1>1 DEF OpOK, KeyHeld

LEMMA AdvanceOp ==
  ASSUME OpOK, agent \in AgentsUsed, agent' = agent, NEW at \in Steps, Advance(at),
         at \in Writing => op.key # 0
  PROVE  OpOK'
BY GotoOp, NextFileOp DEF Advance

LEMMA EnterOp ==
  ASSUME agent \in AgentsUsed, agent' = agent, NEW k \in 0..MaxKeys, NEW at \in Steps,
         NEW call \in {"idle", "connect", "sync", "rotate", "disconnect"},
         Enter(call, k, at), at \in Writing => k # 0
  PROVE  OpOK'
<1>1. Idle \in [call : {"idle", "connect", "sync", "rotate", "disconnect"}, at : Steps,
                i : 1..3, key : 0..MaxKeys, docs : [File -> Docs],
                plan : [File -> [Roles -> Values]]]
  BY AbsentType, BoundsAssumption DEF Idle, Steps, NoDocs, NoAudit, NoValues, Values, WellFormed
<1>2. Count' \in 1..3
  BY CountType DEF Count, spec
<1>3. Idle.i = 1
  BY DEF Idle
<1>4. op' = [Idle EXCEPT !.call = call, !.key = k, !.at = at]
  BY DEF Enter
<1>5. op'.i = 1 /\ op'.at = at /\ op'.key = k
  BY <1>1, <1>3, <1>4
<1>6. op' \in [call : {"idle", "connect", "sync", "rotate", "disconnect"}, at : Steps,
               i : 1..3, key : 0..MaxKeys, docs : [File -> Docs],
               plan : [File -> [Roles -> Values]]]
  BY <1>1, <1>4
<1> QED BY <1>2, <1>5, <1>6 DEF OpOK, KeyHeld

\* Marks and counters stay in their sets.
LEMMA HurtType ==
  ASSUME NEW S, marks \in [File -> SUBSET Marks], Hurt(S)
  PROVE  marks' \in [File -> SUBSET Marks]
BY DEF Hurt, Marks

LEMMA AgainType ==
  ASSUME NEW S, marks \in [File -> SUBSET Marks], Again(S)
  PROVE  marks' \in [File -> SUBSET Marks]
BY DEF Again, Marks

LEMMA UpsetType == ASSUME SpentOK, Upset PROVE SpentOK'
BY BoundsAssumption DEF SpentOK, Upset

LEMMA CallType == ASSUME SpentOK, Call PROVE SpentOK'
BY BoundsAssumption DEF SpentOK, Call

LEMMA NewKeyType ==
  ASSUME SpentOK, agent \in AgentsUsed, agent' = agent,
         NEW call \in {"connect", "rotate"}, NewKey(call)
  PROVE  SpentOK' /\ key' \in 0..MaxKeys /\ OpOK'
<1>0. /\ spent.calls \in 0..MaxCalls /\ spent.keys \in 0..MaxKeys
      /\ spent.calls < MaxCalls /\ spent.keys < MaxKeys /\ key' = spent.keys + 1
      /\ spent' = [spent EXCEPT !.calls = @ + 1, !.keys = @ + 1]
  BY DEF SpentOK, NewKey
<1>a. spent.calls + 1 \in 0..MaxCalls /\ spent.keys + 1 \in 0..MaxKeys /\ key' \in 1..MaxKeys
  BY <1>0, BoundsAssumption
<1>1. SpentOK' /\ key' \in 1..MaxKeys
  BY <1>0, <1>a DEF SpentOK
<1>2. Enter(call, key', "take") /\ "take" \in Steps
  BY DEF NewKey, Steps
<1>3. key' \in 0..MaxKeys /\ key' # 0
  BY <1>1, BoundsAssumption
<1> QED BY <1>1, <1>2, <1>3, EnterOp

\* Every step keeps the types, and a call that writes has a key.
LEMMA TypeInvariant == Spec => []TypeInv
<1>1. Init => TypeInv
  <2> SUFFICES ASSUME Init PROVE TypeInv
    OBVIOUS
  <2>1. OpOK
    BY IdleType DEF Init
  <2>2. \A f \in File : WellFormed(file[f])
    <3> SUFFICES ASSUME NEW f \in File PROVE WellFormed(file[f])
      OBVIOUS
    <3>1. file[f] \in UserDocs(f)
      BY DEF Init
    <3>2. CASE file[f] = AbsentDoc
      BY <3>2, AbsentType
    <3>3. CASE file[f] # AbsentDoc
      <4>1. PICK v \in [Roles -> UserValues \cup {None}] :
              file[f] = [there |-> TRUE, own |-> TRUE, rest |-> 1, vals |-> v]
        BY <3>1, <3>3 DEF UserDocs
      <4>2. v \in [Roles -> Values]
        BY DEF Values
      <4> QED BY <4>1, <4>2, BoundsAssumption DEF WellFormed, Docs
    <3> QED BY <3>2, <3>3
  <2>3. FileOK
    <3>1. file = [f \in File |-> file[f]]
      BY DEF Init
    <3> QED BY <2>2, <3>1 DEF WellFormed, FileOK
  <2>4. BackupOK
    BY AbsentType DEF Init, NoBackup, WellFormed, BackupOK
  <2>5. StoreOK /\ MemOK /\ PollOK /\ SpentOK
    BY NoAuditType, BoundsAssumption
       DEF Init, StoreOK, MemOK, PollOK, SpentOK, NoEntry, Entries
  <2>6. HistOK
    BY <2>3 DEF Init, HistOK, FileOK, Docs
  <2> QED BY <2>1, <2>3, <2>4, <2>5, <2>6, TypeParts DEF Init
<1>2. TypeInv /\ [Next]_vars => TypeInv'
  <2> SUFFICES ASSUME TypeInv, [Next]_vars PROVE TypeInv'
    OBVIOUS
  <2>0. /\ agent \in AgentsUsed /\ FileOK /\ BackupOK /\ StoreOK /\ MemOK
        /\ OpOK /\ PollOK /\ SpentOK /\ HistOK
    BY TypeParts
  <2>s. /\ Count \in 1..3
        /\ \A i \in 1..Count : spec.files[i] \in File /\ spec.writes[i] \in File
    BY <2>0, CountType
  <2>i. op.i \in 1..Count /\ op.docs \in [File -> Docs] /\ op.plan \in Stashes
    BY <2>0, <2>s DEF OpOK, Stashes
  <2>m. marks \in [File -> SUBSET Marks] /\ was \in [File -> Docs] /\ mine \in [File -> 0..MaxRest]
    BY <2>0 DEF HistOK
  <2> USE TypePartsPrime
  <2>1. CASE Connect
    <3>1. mem.key \in 0..MaxKeys /\ "take" \in Steps /\ agent' = agent
      BY <2>0, <2>1 DEF MemOK, Steps, Connect
    <3>2. SpentOK' /\ key' \in 0..MaxKeys /\ OpOK'
      BY <2>0, <2>1, <3>1, NewKeyType, CallType, EnterOp DEF Connect, StoreOK
    <3> QED BY <2>0, <2>1, <3>2
          DEF Connect, FileOK, BackupOK, StoreOK, MemOK, PollOK, HistOK, hist
  <2>2. CASE Sync
    <3>1. mem.key \in 0..MaxKeys /\ "take" \in Steps /\ agent' = agent
      BY <2>0, <2>2 DEF MemOK, Steps, Sync
    <3>2. SpentOK' /\ OpOK'
      BY <2>0, <2>2, <3>1, CallType, EnterOp DEF Sync
    <3> QED BY <2>0, <2>2, <3>2
          DEF Sync, FileOK, BackupOK, StoreOK, MemOK, PollOK, HistOK, hist, disk
  <2>3. CASE Rotate
    <3>2. SpentOK' /\ key' \in 0..MaxKeys /\ OpOK'
      BY <2>0, <2>3, NewKeyType DEF Rotate
    <3> QED BY <2>0, <2>3, <3>2
          DEF Rotate, FileOK, BackupOK, StoreOK, MemOK, PollOK, HistOK, hist
  <2>4. CASE Disconnect
    <3>1. 0 \in 0..MaxKeys /\ "extract" \in Steps /\ "extract" \notin Writing
      BY BoundsAssumption DEF Steps, Writing
    <3>2. SpentOK' /\ OpOK'
      BY <2>0, <2>4, <3>1, CallType, EnterOp DEF Disconnect
    <3>3. marks' \in [File -> SUBSET Marks]
      BY <2>4, <2>m, AgainType DEF Disconnect
    <3> QED BY <2>0, <2>4, <3>2, <3>3
          DEF Disconnect, FileOK, BackupOK, StoreOK, MemOK, PollOK, HistOK, disk
  <2>5. CASE TakeBackup
    <3>1. "read" \in Steps /\ op.key # 0 /\ spec.files[op.i] \in File
      BY <2>0, <2>5, <2>s, <2>i DEF TakeBackup, Steps, OpOK, KeyHeld, Writing
    <3>2. OpOK'
      BY <2>0, <2>5, <3>1, AdvanceOp DEF TakeBackup
    <3>3. BackupOK'
      BY <2>0, <2>5, <3>1, AbsentType DEF TakeBackup, BackupOK, FileOK, Bytes, Marker, WellFormed
    <3>4. HistOK'
      <4>1. file[spec.files[op.i]] \in Docs /\ file[spec.files[op.i]].rest \in 0..MaxRest
        BY <2>0, <3>1 DEF FileOK, Docs
      <4> QED BY <2>0, <2>5, <3>1, <4>1 DEF TakeBackup, HistOK, Marks
    <3> QED BY <2>0, <2>5, <3>2, <3>3, <3>4
          DEF TakeBackup, FileOK, StoreOK, MemOK, PollOK, SpentOK
  <2>6. CASE ReadFiles
    <3>1. op.at = "read" /\ op.key # 0 /\ agent' = agent
      BY <2>0, <2>6 DEF ReadFiles, OpOK, KeyHeld, Writing
    <3>2. Recorded(spec, stash, file) \in [File -> [Roles -> Values]]
      BY <2>0, RecordedType DEF StoreOK, FileOK, Stashes
    <3>3. op' = [op EXCEPT !.at = "write", !.docs = file, !.plan = Recorded(spec, stash, file)]
      BY <2>6 DEF ReadFiles
    <3>4. OpOK'
      BY <2>0, <2>s, <3>1, <3>2, <3>3 DEF OpOK, KeyHeld, Count, spec, FileOK, Steps
    <3>5. marks' \in [File -> SUBSET Marks]
      BY <2>6, <2>m DEF ReadFiles, Marks
    <3> QED BY <2>0, <2>6, <3>4, <3>5
          DEF ReadFiles, FileOK, BackupOK, StoreOK, MemOK, PollOK, SpentOK, HistOK, disk
  <2>7. CASE WriteFile
    <3>1. "stash" \in Steps /\ op.key \in 1..MaxKeys /\ spec.writes[op.i] \in File
      BY <2>0, <2>7, <2>s, <2>i, BoundsAssumption DEF WriteFile, Steps, OpOK, KeyHeld, Writing
    <3>2. OpOK'
      BY <2>0, <2>7, <3>1, AdvanceOp DEF WriteFile
    <3> DEFINE f == spec.writes[op.i]
               w == Wired(spec, f, op.docs[f], op.key, catalog)
    <3>3. WellFormed(w)
      BY <2>0, <2>i, <3>1, WiredType DEF MemOK
    <3> HIDE DEF w
    <3>4. file' = file \/ file' = [file EXCEPT ![f] = w]
      BY <2>7 DEF WriteFile, w
    <3>5. FileOK'
      BY <2>0, <3>1, <3>3, <3>4 DEF FileOK, WellFormed
    <3>6. marks' \in [File -> SUBSET Marks]
      BY <2>7, <2>m, <3>1 DEF WriteFile
    <3> QED BY <2>0, <2>7, <3>2, <3>5, <3>6
          DEF WriteFile, BackupOK, StoreOK, MemOK, PollOK, SpentOK, HistOK
  <2>8. CASE SaveStash
    <3>1. "audit" \in Steps /\ op.key # 0
      BY <2>0, <2>8 DEF SaveStash, Steps, OpOK, KeyHeld, Writing
    <3>2. OpOK'
      BY <2>0, <2>8, <3>1, GotoOp DEF SaveStash
    <3> QED BY <2>0, <2>8, <2>i, <3>2
          DEF SaveStash, FileOK, BackupOK, StoreOK, MemOK, PollOK, SpentOK, HistOK, hist
  <2>9. CASE SaveAudit
    <3>1. "commit" \in Steps /\ op.key # 0
      BY <2>0, <2>9 DEF SaveAudit, Steps, OpOK, KeyHeld, Writing
    <3>2. OpOK'
      BY <2>0, <2>9, <3>1, GotoOp DEF SaveAudit
    <3>3. /\ applied_values(spec, file) \in [File -> [Roles -> Values]]
          /\ audit \in [File -> [Roles -> Values]]
      BY <2>0, AppliedType DEF FileOK, StoreOK, Stashes
    <3>4. audit' \in Stashes
      BY <2>9, <3>3 DEF SaveAudit, Stashes
    <3>5. marks' \in [File -> SUBSET Marks]
      BY <2>9, <2>m DEF SaveAudit, Marks
    <3> QED BY <2>0, <2>9, <3>2, <3>4, <3>5
          DEF SaveAudit, FileOK, BackupOK, StoreOK, MemOK, PollOK, SpentOK, HistOK
  <2>10. CASE Commit
    <3>1. OpOK'
      BY <2>0, <2>10, IdleOp DEF Commit
    <3>2. mem' \in [key : 0..MaxKeys, entry : Entries] /\ mem'.entry \in Entries
      BY <2>0, <2>10, BoundsAssumption DEF Commit, OpOK, MemOK, Entries
    <3> QED BY <2>0, <2>10, <3>1, <3>2
          DEF Commit, FileOK, BackupOK, StoreOK, MemOK, PollOK, SpentOK, HistOK
  <2>11. CASE UndoFile
    <3>1. spec.files[op.i] \in File
      BY <2>s, <2>i
    <3>2. OpOK'
      BY <2>0, <2>11, IdleOp, NextFileOp DEF UndoFile
    <3>3. FileOK'
      BY <2>0, <2>11, <3>1 DEF UndoFile, FileOK, BackupOK, WellFormed
    <3>4. marks' \in [File -> SUBSET Marks]
      BY <2>11, <2>m, <3>1 DEF UndoFile, Marks
    <3> QED BY <2>0, <2>11, <3>2, <3>3, <3>4
          DEF UndoFile, BackupOK, StoreOK, MemOK, PollOK, SpentOK, HistOK
  <2>12. CASE ExtractFile
    <3>1. "drop" \in Steps /\ "drop" \notin Writing /\ spec.writes[op.i] \in File
      BY <2>s, <2>i DEF Steps, Writing
    <3>2. OpOK'
      BY <2>0, <2>12, <3>1, AdvanceOp DEF ExtractFile
    <3> DEFINE f == spec.writes[op.i]
               w == Extracted(spec, f, file[f], stash[f])
    <3>3. WellFormed(w)
      BY <2>0, <3>1, ExtractedFacts DEF FileOK, StoreOK, Stashes
    <3> HIDE DEF w
    <3>4. file' = [file EXCEPT ![f] = w]
      BY <2>12 DEF ExtractFile, w
    <3>5. FileOK'
      BY <2>0, <3>1, <3>3, <3>4 DEF FileOK, WellFormed
    <3> QED BY <2>0, <2>12, <3>2, <3>5
          DEF ExtractFile, BackupOK, StoreOK, MemOK, PollOK, SpentOK, HistOK, hist
  <2>13. CASE DropStash
    <3>1. "decide" \in Steps /\ "decide" \notin Writing
      BY DEF Steps, Writing
    <3>2. OpOK'
      BY <2>0, <2>13, <3>1, GotoOp DEF DropStash
    <3> QED BY <2>0, <2>13, <3>2, NoAuditType
          DEF DropStash, FileOK, BackupOK, StoreOK, MemOK, PollOK, SpentOK, HistOK, hist
  <2>14. CASE DecideFile
    <3>1. "forget" \in Steps /\ "forget" \notin Writing /\ spec.files[op.i] \in File
      BY <2>s, <2>i DEF Steps, Writing
    <3>2. OpOK'
      BY <2>0, <2>14, <3>1, AdvanceOp DEF DecideFile
    <3> DEFINE f == spec.files[op.i]
    <3>3. \/ file' = file /\ backup' = backup
          \/ file' = [file EXCEPT ![f] = backup[f].doc] /\ backup' = [backup EXCEPT ![f] = NoBackup]
      BY <2>14 DEF DecideFile
    <3>4. NoBackup \in [kind : {"none", "marker", "bytes"}, doc : Docs] /\ WellFormed(NoBackup.doc)
      BY AbsentType DEF NoBackup, WellFormed
    <3> HIDE DEF f
    <3>5. FileOK' /\ BackupOK'
      BY <2>0, <3>1, <3>3, <3>4 DEF FileOK, BackupOK, WellFormed, f
    <3> QED BY <2>0, <2>14, <3>2, <3>5
          DEF DecideFile, StoreOK, MemOK, PollOK, SpentOK, HistOK, hist
  <2>15. CASE ForgetAudit
    <3>1. "finish" \in Steps /\ "finish" \notin Writing
      BY DEF Steps, Writing
    <3>2. OpOK'
      BY <2>0, <2>15, <3>1, GotoOp DEF ForgetAudit
    <3> QED BY <2>0, <2>15, <3>2, NoAuditType
          DEF ForgetAudit, FileOK, BackupOK, StoreOK, MemOK, PollOK, SpentOK, HistOK, hist
  <2>16. CASE Finish
    <3>1. OpOK'
      BY <2>0, <2>16, IdleOp DEF Finish
    <3>2. mem' \in [key : 0..MaxKeys, entry : Entries] /\ mem'.entry \in Entries
      BY <2>0, <2>16 DEF Finish, MemOK, Entries
    <3> QED BY <2>0, <2>16, <3>1, <3>2
          DEF Finish, FileOK, BackupOK, StoreOK, MemOK, PollOK, SpentOK, HistOK, hist
  <2>17. CASE GiveUp
    <3>1. OpOK' /\ SpentOK'
      BY <2>0, <2>17, IdleOp, UpsetType DEF GiveUp
    <3>2. marks' \in [File -> SUBSET Marks]
      BY <2>17, <2>m, HurtType DEF GiveUp
    <3> QED BY <2>0, <2>17, <3>1, <3>2
          DEF GiveUp, FileOK, BackupOK, StoreOK, MemOK, PollOK, HistOK, disk
  <2>18. CASE FailConnect
    <3>1. "undo" \in Steps /\ "undo" \notin Writing
      BY DEF Steps, Writing
    <3>2. OpOK' /\ SpentOK'
      BY <2>0, <2>18, <3>1, GotoOp, UpsetType DEF FailConnect
    <3> QED BY <2>0, <2>18, <3>2
          DEF FailConnect, FileOK, BackupOK, StoreOK, MemOK, PollOK, HistOK, disk
  <2>19. CASE SkipUndo
    <3>1. OpOK' /\ SpentOK'
      BY <2>0, <2>19, IdleOp, NextFileOp DEF SkipUndo, SpentOK
    <3>2. marks' \in [File -> SUBSET Marks]
      BY <2>19, <2>m, HurtType DEF SkipUndo
    <3> QED BY <2>0, <2>19, <3>1, <3>2
          DEF SkipUndo, FileOK, BackupOK, StoreOK, MemOK, PollOK, HistOK, disk
  <2>20. CASE SaveStateFails
    <3>1. OpOK' /\ SpentOK'
      BY <2>0, <2>20, IdleOp, UpsetType DEF SaveStateFails
    <3>2. mem' \in [key : 0..MaxKeys, entry : Entries]
      <4>1. /\ mem.key \in 0..MaxKeys /\ mem.entry \in Entries
            /\ op.key \in 0..MaxKeys /\ catalog \in 0..MaxCats
        BY <2>0, BoundsAssumption DEF MemOK, OpOK
      <4> QED BY <2>0, <2>20, <4>1 DEF SaveStateFails, MemOK, Entries
    <3>3. marks' \in [File -> SUBSET Marks]
      BY <2>20, <2>m, HurtType DEF SaveStateFails
    <3> QED BY <2>0, <2>20, <3>1, <3>2, <3>3
          DEF SaveStateFails, FileOK, BackupOK, StoreOK, MemOK, PollOK, HistOK, disk
  <2>21. CASE Restart
    <3>1. OpOK' /\ SpentOK'
      BY <2>0, <2>21, IdleOp, UpsetType DEF Restart
    <3>2. MemOK'
      BY <2>0, <2>21, BoundsAssumption DEF Restart, MemOK, StoreOK
    <3>3. marks' \in [File -> SUBSET Marks]
      BY <2>21, <2>m, HurtType DEF Restart
    <3>4. torn' \in BOOLEAN
      BY <2>0, <2>21 DEF Restart, HistOK
    <3> QED BY <2>0, <2>21, <3>1, <3>2, <3>3, <3>4, NoAuditType
          DEF Restart, FileOK, BackupOK, StoreOK, PollOK, HistOK, disk
  <2>22. CASE PollRead
    <3>1. SpentOK'
      BY <2>0, <2>22, CallType DEF PollRead
    <3>2. PollOK'
      BY <2>0, <2>22 DEF PollRead, PollOK, StoreOK
    <3> QED BY <2>0, <2>22, <3>1, <3>2
          DEF PollRead, FileOK, BackupOK, StoreOK, MemOK, OpOK, KeyHeld, Count, spec,
              HistOK, disk, hist
  <2>23. CASE PollLook
    <3>1. PollOK'
      BY <2>0, <2>23, NoAuditType DEF PollLook, PollOK
    <3> QED BY <2>0, <2>23, <3>1
          DEF PollLook, FileOK, BackupOK, StoreOK, MemOK, OpOK, KeyHeld, Count, spec,
              SpentOK, HistOK, disk, hist
  <2>24. CASE PollMark
    <3>1. PollOK'
      BY <2>0, <2>24, NoAuditType DEF PollMark, PollOK
    <3>2. mem' \in [key : 0..MaxKeys, entry : Entries] /\ mem'.entry \in Entries
      BY <2>0, <2>24 DEF PollMark, MemOK, Entries
    <3>3. SpentOK' /\ torn' \in BOOLEAN
      BY <2>0, <2>24, UpsetType DEF PollMark, SpentOK, HistOK
    <3>4. marks' \in [File -> SUBSET Marks]
      BY <2>24, <2>m, AgainType DEF PollMark
    <3> QED BY <2>0, <2>24, <3>1, <3>2, <3>3, <3>4
          DEF PollMark, FileOK, BackupOK, StoreOK, MemOK, OpOK, KeyHeld, Count, spec, HistOK
  <2>25. CASE Edit
    <3>1. PICK i \in 1..Count : \E d \in Edited(spec.files[i]) :
            /\ file' = [file EXCEPT ![spec.files[i]] = d]
            /\ mine' = [mine EXCEPT ![spec.files[i]] = d.rest]
            /\ marks' = [marks EXCEPT ![spec.files[i]] =
                 @ \cup {"edited", "loose"} \cup (IF op.at = "write" THEN {"raced"} ELSE {})]
      BY <2>25 DEF Edit
    <3> DEFINE f == spec.files[i]
    <3>2. f \in File
      BY <2>s
    <3> HIDE DEF f
    <3>3. PICK d \in Edited(f) :
            /\ file' = [file EXCEPT ![f] = d]
            /\ mine' = [mine EXCEPT ![f] = d.rest]
            /\ marks' = [marks EXCEPT ![f] =
                 @ \cup {"edited", "loose"} \cup (IF op.at = "write" THEN {"raced"} ELSE {})]
      BY <3>1 DEF f
    <3>4. WellFormed(d)
      <4>0. file[f] \in Docs
        BY <2>0, <3>2 DEF FileOK
      <4>1. CASE \E n \in 0..MaxRest : d = [file[f] EXCEPT !.there = TRUE, !.rest = n]
        BY <4>0, <4>1 DEF WellFormed, Docs
      <4>2. CASE \E e \in Roles \X (UserValues \cup {None}) :
                   file[f].there /\ d = [file[f] EXCEPT !.vals[e[1]] = e[2]]
        <5>1. \A v \in UserValues \cup {None} : v \in Values
          BY DEF Values
        <5> QED BY <4>0, <4>2, <5>1 DEF WellFormed, Docs
      <4> QED BY <3>3, <4>1, <4>2, AbsentType DEF Edited
    <3>5. FileOK'
      BY <2>0, <3>2, <3>3, <3>4 DEF FileOK, WellFormed
    <3>6. marks' \in [File -> SUBSET Marks]
      BY <2>m, <3>2, <3>3 DEF Marks
    <3>7. mine' \in [File -> 0..MaxRest]
      BY <2>m, <3>2, <3>3, <3>4 DEF WellFormed, Docs
    <3>8. SpentOK'
      BY <2>0, <2>25, UpsetType DEF Edit
    <3> QED BY <2>0, <2>25, <3>5, <3>6, <3>7, <3>8
          DEF Edit, BackupOK, StoreOK, MemOK, OpOK, KeyHeld, Count, spec, PollOK, HistOK
  <2>26. CASE UNCHANGED vars
    BY <2>0, <2>26 DEF vars, disk, hist, FileOK, BackupOK, StoreOK, MemOK, OpOK, KeyHeld,
         Count, spec, PollOK, SpentOK, HistOK
  <2> QED BY <2>1, <2>2, <2>3, <2>4, <2>5, <2>6, <2>7, <2>8, <2>9, <2>10, <2>11, <2>12, <2>13,
       <2>14, <2>15, <2>16, <2>17, <2>18, <2>19, <2>20, <2>21, <2>22, <2>23, <2>24, <2>25, <2>26
       DEF Next
<1> QED BY <1>1, <1>2, PTL DEF Spec

\* Every reachable state of the registry and of the files is well typed: no
\* call, failure, restart or edit leaves a file that is absent and yet has
\* something in it, or a loop over the files beyond its last one.
THEOREM AgentTypeCorrect == Spec => []TypeOK
BY TypeInvariant, PTL DEF TypeInv

-----------------------------------------------------------------------------
\* Why a backup is the user's.

Backed(f) == backup[f] # NoBackup
AllBacked == \A i \in 1..Count : Backed(spec.files[i])

\* A file with a value of the gateway in it has its backup.
DirtyIsBacked == \A f \in File : Clean(file[f].vals) \/ Backed(f)

\* A stash with a value of the gateway in it (a second connect, or a sync, puts
\* one there) is only there while every file has its backup: extraction may
\* then bring the value back into a file.
StashIsBacked == (\A f \in File : Clean(stash[f])) \/ AllBacked

\* A call that has taken its backups has them; one that lets backups go has
\* no stash.
CallIsBacked ==
  /\ op.at \in {"read", "write", "stash", "undo", "audit", "commit"} => AllBacked
  /\ op.at = "take" => \A j \in 1..(op.i - 1) : Backed(spec.files[j])
  /\ op.at \in {"decide", "forget", "finish"} => \A f \in File : Clean(stash[f])

BackupInv == BackupsAreTheUsers /\ DirtyIsBacked /\ StashIsBacked /\ CallIsBacked

\* A step that touches neither the files nor the backups nor the stash only has
\* to account for where the call now is.
LEMMA Quiet ==
  ASSUME BackupInv, UNCHANGED <<agent, file, backup, stash>>, CallIsBacked'
  PROVE  BackupInv'
BY DEF BackupInv, BackupsAreTheUsers, DirtyIsBacked, StashIsBacked, AllBacked, Backed, Count, spec

LEMMA QuietIdle ==
  ASSUME BackupInv, UNCHANGED <<agent, file, backup, stash>>, op' = Idle
  PROVE  BackupInv'
<1>1. CallIsBacked'
  BY DEF CallIsBacked, Idle
<1> QED BY <1>1, Quiet

LEMMA QuietSame ==
  ASSUME BackupInv, UNCHANGED <<agent, file, backup, stash, op>>
  PROVE  BackupInv'
<1>1. CallIsBacked'
  BY DEF BackupInv, CallIsBacked, AllBacked, Backed, Count, spec
<1> QED BY <1>1, Quiet

\* Nothing stashed is nothing of ours stashed.
LEMMA NoAuditClean == \A f \in File : Clean(NoAudit[f])
BY ValuesAssumption DEF NoAudit, NoValues, Clean

LEMMA BackupInvariant == Spec => []BackupInv
<1>1. Init => BackupInv
  <2> SUFFICES ASSUME Init PROVE BackupInv
    OBVIOUS
  <2>1. /\ op.at = "start"
        /\ \A f \in File : backup[f].doc = AbsentDoc /\ stash[f] = NoAudit[f]
    BY DEF Init, NoBackup, Idle
  <2>2. \A f \in File : Clean(file[f].vals)
    <3> SUFFICES ASSUME NEW f \in File PROVE Clean(file[f].vals)
      OBVIOUS
    <3>1. file[f] \in UserDocs(f)
      BY DEF Init
    <3>2. CASE file[f] # AbsentDoc
      <4>1. PICK v \in [Roles -> UserValues \cup {None}] :
              file[f] = [there |-> TRUE, own |-> TRUE, rest |-> 1, vals |-> v]
        BY <3>1, <3>2 DEF UserDocs
      <4> QED BY <4>1, ValuesAssumption DEF Clean
    <3> QED BY <3>2, AbsentType
  <2> QED BY <2>1, <2>2, AbsentType, NoAuditClean
        DEF BackupInv, BackupsAreTheUsers, DirtyIsBacked, StashIsBacked, CallIsBacked
<1>2. TypeInv /\ BackupInv /\ [Next]_vars => BackupInv'
  <2> SUFFICES ASSUME TypeInv, BackupInv, [Next]_vars PROVE BackupInv'
    OBVIOUS
  <2>0. /\ agent \in AgentsUsed /\ FileOK /\ BackupOK /\ StoreOK /\ OpOK
        /\ BackupsAreTheUsers /\ DirtyIsBacked /\ StashIsBacked /\ CallIsBacked
    BY TypeParts DEF BackupInv
  <2>s. /\ Count \in 1..3 /\ op.i \in 1..Count
        /\ \A i \in 1..Count : /\ spec.files[i] \in File /\ spec.writes[i] \in File
                               /\ \E j \in 1..Count : spec.files[j] = spec.writes[i]
    BY <2>0, SpecFacts, AgentsAssumption DEF Count, spec, OpOK
  <2>a. agent' = agent => spec' = spec /\ Count' = Count
    BY DEF Count, spec
  <2>t. CASE Connect \/ Sync \/ Rotate
    <3>1. op'.at = "take" /\ op'.i = 1 /\ UNCHANGED <<agent, file, backup, stash>>
      BY <2>t DEF Connect, Sync, Rotate, NewKey, Enter, Idle, disk
    <3>2. CallIsBacked'
      BY <3>1 DEF CallIsBacked
    <3> QED BY <3>1, <3>2, Quiet
  <2>d. CASE Disconnect
    <3>1. op'.at = "extract" /\ UNCHANGED <<agent, file, backup, stash>>
      BY <2>d DEF Disconnect, Enter, Idle, disk
    <3>2. CallIsBacked'
      BY <3>1 DEF CallIsBacked
    <3> QED BY <3>1, <3>2, Quiet
  <2>i. CASE Commit \/ Finish \/ GiveUp \/ SaveStateFails \/ Restart
    BY <2>i, QuietIdle DEF Commit, Finish, GiveUp, SaveStateFails, Restart, disk
  <2>p. CASE PollRead \/ PollLook \/ PollMark
    BY <2>p, QuietSame DEF PollRead, PollLook, PollMark, disk
  <2>q. CASE ReadFiles \/ SaveAudit \/ FailConnect
    <3>1. /\ op.at \in {"read", "write", "stash", "audit"}
          /\ op'.at \in {"write", "commit", "undo"}
          /\ UNCHANGED <<agent, file, backup, stash>>
      BY <2>0, <2>q DEF ReadFiles, SaveAudit, FailConnect, Goto, OpOK, disk
    <3>2. CallIsBacked'
      BY <2>0, <3>1 DEF CallIsBacked, AllBacked, Backed, Count, spec
    <3> QED BY <3>1, <3>2, Quiet
  <2>k. CASE SkipUndo
    <3>1. CASE op' = Idle
      BY <2>k, <3>1, QuietIdle DEF SkipUndo, disk
    <3>2. CASE op' = [op EXCEPT !.i = @ + 1]
      <4>1. op.at = "undo" /\ op'.at = "undo" /\ UNCHANGED <<agent, file, backup, stash>>
        BY <2>0, <2>k, <3>2 DEF SkipUndo, OpOK, disk
      <4>2. CallIsBacked'
        BY <2>0, <4>1 DEF CallIsBacked, AllBacked, Backed, Count, spec
      <4> QED BY <4>1, <4>2, Quiet
    <3> QED BY <2>k, <3>1, <3>2 DEF SkipUndo
  <2>f. CASE ForgetAudit
    <3>1. op.at = "forget" /\ op'.at = "finish" /\ UNCHANGED <<agent, file, backup, stash>>
      BY <2>0, <2>f DEF ForgetAudit, Goto, OpOK
    <3>2. CallIsBacked'
      BY <2>0, <3>1 DEF CallIsBacked
    <3> QED BY <3>1, <3>2, Quiet
  <2>1. CASE TakeBackup
    <3> DEFINE f == spec.files[op.i]
    <3>1. f \in File /\ agent' = agent /\ file' = file /\ stash' = stash /\ op.at = "take"
      BY <2>1, <2>s DEF TakeBackup
    <3>2. \/ backup' = backup /\ Backed(f)
          \/ ~Backed(f) /\ \E b \in {Bytes(file[f]), Marker} : backup' = [backup EXCEPT ![f] = b]
      BY <2>1 DEF TakeBackup, Backed
    <3>3. Bytes(file[f]) # NoBackup /\ Marker # NoBackup
      BY DEF Bytes, Marker, NoBackup
    <3>4. Bytes(file[f]).doc = file[f] /\ Marker.doc = AbsentDoc
      BY DEF Bytes, Marker
    <3>5. \A i \in 1..Count : spec.files[i] \in File
      BY <2>s
    <3> HIDE DEF f
    <3>6. \A g \in File : (Backed(g) \/ g = f) => backup'[g] # NoBackup
      BY <2>0, <3>1, <3>2, <3>3 DEF Backed, BackupOK
    <3>7. BackupsAreTheUsers'
      <4>1. Clean(AbsentDoc.vals) /\ (~Backed(f) => Clean(file[f].vals))
        BY <2>0, <3>1, AbsentType DEF DirtyIsBacked
      <4>2. \A g \in File : \/ backup'[g] = backup[g]
                            \/ ~Backed(f) /\ backup'[g].doc = file[f]
                            \/ backup'[g].doc = AbsentDoc
        BY <2>0, <3>1, <3>2, <3>4 DEF BackupOK
      <4> QED BY <2>0, <4>1, <4>2 DEF BackupsAreTheUsers
    <3>8. DirtyIsBacked' /\ StashIsBacked'
      BY <2>0, <2>a, <3>1, <3>5, <3>6 DEF DirtyIsBacked, StashIsBacked, AllBacked, Backed
    <3>9. CallIsBacked'
      <4>1. \A j \in 1..op.i : backup'[spec.files[j]] # NoBackup
        <5> SUFFICES ASSUME NEW j \in 1..op.i PROVE backup'[spec.files[j]] # NoBackup
          OBVIOUS
        <5>1. spec.files[j] \in File /\ (j = op.i \/ j \in 1..(op.i - 1))
          BY <2>s
        <5> QED BY <2>0, <3>1, <3>6, <5>1 DEF CallIsBacked, f
      <4>2. \/ op.i < Count /\ op'.at = "take" /\ op'.i = op.i + 1
            \/ ~(op.i < Count) /\ op'.at = "read"
        BY <2>0, <2>1, <3>1 DEF TakeBackup, Advance, Goto, OpOK
      <4>3. CASE op'.at = "take" /\ op'.i = op.i + 1
        <5>1. op'.i - 1 = op.i
          BY <2>s, <4>3
        <5>2. \A j \in 1..(op'.i - 1) : backup'[spec.files[j]] # NoBackup
          BY <4>1, <5>1
        <5> QED BY <2>a, <3>1, <4>3, <5>2 DEF CallIsBacked, Backed
      <4>4. CASE ~(op.i < Count) /\ op'.at = "read"
        <5>1. op.i = Count
          BY <2>s, <4>4
        <5>2. \A j \in 1..Count : backup'[spec.files[j]] # NoBackup
          BY <4>1, <5>1
        <5> QED BY <2>a, <3>1, <4>4, <5>2 DEF CallIsBacked, AllBacked, Backed
      <4> QED BY <4>2, <4>3, <4>4
    <3> QED BY <3>7, <3>8, <3>9 DEF BackupInv
  <2>2. CASE WriteFile
    <3>1. /\ UNCHANGED <<agent, backup, stash>> /\ op.at = "write"
          /\ op'.at \in {"write", "stash"}
      BY <2>0, <2>2 DEF WriteFile, Advance, Goto, OpOK
    <3>2. AllBacked /\ AllBacked'
      BY <2>0, <2>a, <3>1 DEF CallIsBacked, AllBacked, Backed
    <3>3. Backed(spec.writes[op.i])
      BY <2>s, <3>2 DEF AllBacked
    <3>4. \A g \in File : g # spec.writes[op.i] => file'[g] = file[g]
      BY <2>0, <2>2 DEF WriteFile, FileOK
    <3>5. DirtyIsBacked'
      BY <2>0, <3>1, <3>3, <3>4 DEF DirtyIsBacked, Backed
    <3>6. CallIsBacked'
      BY <3>1, <3>2 DEF CallIsBacked
    <3> QED BY <2>0, <3>1, <3>2, <3>5, <3>6 DEF BackupInv, BackupsAreTheUsers, StashIsBacked
  <2>3. CASE SaveStash
    <3>1. UNCHANGED <<agent, file, backup>> /\ op.at = "stash" /\ op'.at = "audit"
      BY <2>0, <2>3 DEF SaveStash, Goto, OpOK
    <3>2. AllBacked'
      BY <2>0, <2>a, <3>1 DEF CallIsBacked, AllBacked, Backed
    <3>3. CallIsBacked'
      BY <3>1, <3>2 DEF CallIsBacked
    <3> QED BY <2>0, <3>1, <3>2, <3>3
          DEF BackupInv, BackupsAreTheUsers, DirtyIsBacked, Backed, StashIsBacked
  <2>4. CASE UndoFile
    <3>1. UNCHANGED <<agent, backup, stash>> /\ op.at = "undo" /\ op'.at \in {"undo", "start"}
      BY <2>0, <2>4 DEF UndoFile, OpOK, Idle
    <3>2. AllBacked'
      BY <2>0, <2>a, <3>1 DEF CallIsBacked, AllBacked, Backed
    <3>3. \A g \in File : file'[g] = file[g] \/ file'[g] = backup[g].doc
      BY <2>0, <2>4 DEF UndoFile, FileOK
    <3>4. DirtyIsBacked'
      BY <2>0, <3>1, <3>3 DEF DirtyIsBacked, BackupsAreTheUsers, Backed
    <3>5. CallIsBacked'
      BY <3>1, <3>2 DEF CallIsBacked
    <3> QED BY <2>0, <3>1, <3>2, <3>4, <3>5 DEF BackupInv, BackupsAreTheUsers, StashIsBacked
  <2>5. CASE ExtractFile
    <3> DEFINE f == spec.writes[op.i]
               w == Extracted(spec, f, file[f], stash[f])
    <3>1. UNCHANGED <<agent, backup, stash>> /\ op'.at \in {"extract", "drop"}
      BY <2>0, <2>5 DEF ExtractFile, Advance, Goto, OpOK
    <3>2. f \in File /\ WellFormed(file[f]) /\ stash[f] \in [Roles -> Values]
      BY <2>0, <2>s DEF FileOK, StoreOK, Stashes
    <3>3. Clean(file[f].vals) /\ Clean(stash[f]) => Clean(w.vals)
      BY <3>2, ExtractedFacts
    <3>4. Clean(w.vals) \/ Backed(f)
      BY <2>0, <2>s, <3>2, <3>3 DEF DirtyIsBacked, StashIsBacked, AllBacked
    <3> HIDE DEF w
    <3>5. file' = [file EXCEPT ![f] = w]
      BY <2>5 DEF ExtractFile, w
    <3>6. \A g \in File : file'[g] = IF g = f THEN w ELSE file[g]
      BY <2>0, <3>5 DEF FileOK
    <3>7. DirtyIsBacked'
      BY <2>0, <3>1, <3>2, <3>4, <3>6 DEF DirtyIsBacked, Backed
    <3>8. CallIsBacked'
      BY <3>1 DEF CallIsBacked
    <3> QED BY <2>0, <2>a, <3>1, <3>7, <3>8
          DEF BackupInv, BackupsAreTheUsers, StashIsBacked, AllBacked, Backed
  <2>6. CASE DropStash
    <3>1. UNCHANGED <<agent, file, backup>> /\ stash' = NoAudit /\ op'.at = "decide"
      BY <2>0, <2>6 DEF DropStash, Goto, OpOK
    <3>2. \A f \in File : Clean(stash'[f])
      BY <3>1, NoAuditClean
    <3>3. CallIsBacked'
      BY <3>1, <3>2 DEF CallIsBacked
    <3> QED BY <2>0, <3>1, <3>2, <3>3
          DEF BackupInv, BackupsAreTheUsers, DirtyIsBacked, Backed, StashIsBacked
  <2>7. CASE DecideFile
    <3> DEFINE f == spec.files[op.i]
    <3>1. /\ UNCHANGED <<agent, stash>> /\ op.at = "decide" /\ op'.at \in {"decide", "forget"}
          /\ f \in File
      BY <2>0, <2>7, <2>s DEF DecideFile, Advance, Goto, OpOK
    <3>2. \A g \in File : Clean(stash'[g])
      BY <2>0, <3>1 DEF CallIsBacked
    <3>3. CallIsBacked' /\ StashIsBacked'
      BY <3>1, <3>2 DEF CallIsBacked, StashIsBacked
    <3>4. \/ file' = file /\ backup' = backup
          \/ file' = [file EXCEPT ![f] = backup[f].doc] /\ backup' = [backup EXCEPT ![f] = NoBackup]
      BY <2>7 DEF DecideFile
    <3>5. NoBackup.doc = AbsentDoc
      BY DEF NoBackup
    <3> HIDE DEF f
    <3>6. \A g \in File : \/ file'[g] = file[g] /\ backup'[g] = backup[g]
                          \/ file'[g] = backup[g].doc /\ backup'[g].doc = AbsentDoc
      BY <2>0, <3>1, <3>4, <3>5 DEF FileOK, BackupOK
    <3>7. BackupsAreTheUsers' /\ DirtyIsBacked'
      BY <2>0, <3>6, AbsentType DEF BackupsAreTheUsers, DirtyIsBacked, Backed
    <3> QED BY <3>3, <3>7 DEF BackupInv
  <2>8. CASE Edit
    <3>1. UNCHANGED <<agent, backup, stash, op>>
      BY <2>8 DEF Edit
    <3>2. PICK f \in {spec.files[i] : i \in 1..Count} : \E d \in Edited(f) :
            file' = [file EXCEPT ![f] = d]
      BY <2>8 DEF Edit
    <3>3. PICK d \in Edited(f) : file' = [file EXCEPT ![f] = d]
      BY <3>2
    <3>4. f \in File /\ file[f] \in Docs
      BY <2>0, <2>s, <3>2 DEF FileOK
    <3>5. Clean(file[f].vals) => Clean(d.vals)
      <4>1. CASE \E n \in 0..MaxRest : d = [file[f] EXCEPT !.there = TRUE, !.rest = n]
        BY <3>4, <4>1 DEF Docs
      <4>2. CASE \E e \in Roles \X (UserValues \cup {None}) :
                   d = [file[f] EXCEPT !.vals[e[1]] = e[2]]
        BY <3>4, <4>2, ValuesAssumption DEF Docs, Clean
      <4> QED BY <3>3, <4>1, <4>2, AbsentType DEF Edited
    <3>6. \A g \in File : file'[g] = IF g = f THEN d ELSE file[g]
      BY <2>0, <3>3 DEF FileOK
    <3>7. DirtyIsBacked'
      BY <2>0, <3>1, <3>4, <3>5, <3>6 DEF DirtyIsBacked, Backed
    <3> QED BY <2>0, <2>a, <3>1, <3>7
          DEF BackupInv, BackupsAreTheUsers, StashIsBacked, CallIsBacked, AllBacked, Backed
  <2>9. CASE UNCHANGED vars
    BY <2>9, QuietSame DEF vars, disk
  <2> QED BY <2>t, <2>d, <2>i, <2>p, <2>q, <2>k, <2>f, <2>1, <2>2, <2>3, <2>4, <2>5, <2>6, <2>7,
       <2>8, <2>9 DEF Next
<1> QED BY <1>1, <1>2, TypeInvariant, PTL DEF Spec

\* However often an agent is connected, synced, rotated and disconnected,
\* whatever fails and whenever the process restarts, a backup never holds a
\* value of the gateway.
THEOREM BackupsAlwaysTheUsers == Spec => []BackupsAreTheUsers
BY BackupInvariant, PTL DEF BackupInv

-----------------------------------------------------------------------------
\* Why an edit survives.

\* What EditsSurvive excuses a file for.
Lost(f) == "raced" \in marks[f] \/ "undone" \in marks[f]

\* A file that is entirely ours has nothing of the user's.
WholeIsOurs ==
  \A f \in spec.whole : mine[f] = 0 /\ file[f].rest = 0 /\ backup[f].doc.rest = 0

\* A backup of a file nobody has edited since is as good as the file.
UneditedBackup ==
  \A f \in File : Backed(f) /\ "edited" \notin marks[f] => backup[f].doc.rest = mine[f]

\* The .absent marker stands for nothing.
MarkersAreEmpty == \A f \in File : backup[f].kind = "marker" => backup[f].doc.rest = 0

\* What connect has read is what is there, but for an edit it races with.
DocsAreCurrent ==
  op.at = "write" => \A f \in File : ~Lost(f) => op.docs[f].rest = mine[f]

EditInv == EditsSurvive /\ WholeIsOurs /\ UneditedBackup /\ MarkersAreEmpty /\ DocsAreCurrent

LEMMA LostMeans ==
  /\ EditsSurvive <=> \A f \in File : ~Lost(f) => file[f].rest = mine[f]
  /\ EditsSurvive' <=> \A f \in File : ~Lost(f)' => file'[f].rest = mine'[f]
BY DEF EditsSurvive, Lost

\* The marks that matter here are as they were.
SameLoss ==
  \A f \in File : \A m \in {"raced", "undone", "edited"} : m \in marks'[f] <=> m \in marks[f]

LEMMA WholeFacts == ASSUME agent \in AgentsUsed PROVE spec.whole \subseteq File
<1>1. agent \in {"claude", "codex", "gemini", "pi"}
  BY AgentsAssumption DEF Agents, spec_for
<1> QED BY <1>1 DEF spec, spec_for, ClaudeSpec, CodexSpec, GeminiSpec, PiSpec, File

\* A step that leaves the files, the backups and the user's part alone.
LEMMA EditQuiet ==
  ASSUME agent \in AgentsUsed, EditInv, UNCHANGED <<agent, file, backup, mine>>, SameLoss,
         op'.at # "write" \/ op' = op
  PROVE  EditInv'
<1>1. EditsSurvive'
  BY LostMeans DEF EditInv, SameLoss, Lost
<1>2. WholeIsOurs'
  BY DEF EditInv, WholeIsOurs, spec
<1>3. UneditedBackup' /\ MarkersAreEmpty'
  BY DEF EditInv, UneditedBackup, MarkersAreEmpty, SameLoss, Backed
<1>4. DocsAreCurrent'
  BY DEF EditInv, DocsAreCurrent, SameLoss, Lost
<1> QED BY <1>1, <1>2, <1>3, <1>4 DEF EditInv

\* Only disconnect, connect's write and its undo put something into a file, and
\* each leaves the user's part as it was or answers for it.
LEMMA EditInvariant == Spec => []EditInv
<1>1. Init => EditInv
  <2> SUFFICES ASSUME Init PROVE EditInv
    OBVIOUS
  <2>1. /\ op.at = "start" /\ agent \in AgentsUsed
        /\ \A f \in File : /\ backup[f] = NoBackup /\ mine[f] = file[f].rest
                           /\ file[f] \in UserDocs(f)
    BY DEF Init, Idle
  <2>2. NoBackup.kind # "marker" /\ NoBackup.doc.rest = 0 /\ AbsentDoc.rest = 0
    BY DEF NoBackup, AbsentDoc
  <2>3. \A f \in spec.whole : file[f] = AbsentDoc
    BY <2>1, WholeFacts DEF UserDocs
  <2>4. WholeIsOurs
    BY <2>1, <2>2, <2>3, WholeFacts DEF WholeIsOurs
  <2> QED BY <2>1, <2>2, <2>4
        DEF EditInv, EditsSurvive, UneditedBackup, MarkersAreEmpty, DocsAreCurrent, Backed
<1>2. TypeInv /\ BackupInv /\ EditInv /\ [Next]_vars => EditInv'
  <2> SUFFICES ASSUME TypeInv, BackupInv, EditInv, [Next]_vars PROVE EditInv'
    OBVIOUS
  <2>0. /\ agent \in AgentsUsed /\ FileOK /\ BackupOK /\ OpOK /\ HistOK
        /\ CallIsBacked
        /\ EditsSurvive /\ WholeIsOurs /\ UneditedBackup /\ MarkersAreEmpty /\ DocsAreCurrent
    BY TypeParts DEF BackupInv, EditInv
  <2>s. /\ Count \in 1..3 /\ op.i \in 1..Count /\ spec.whole \subseteq File
        /\ \A i \in 1..Count : spec.files[i] \in File /\ spec.writes[i] \in File
    BY <2>0, CountType, WholeFacts DEF OpOK
  <2>a. agent' = agent => spec' = spec
    BY DEF spec
  <2>m. marks \in [File -> SUBSET Marks]
    BY <2>0 DEF HistOK
  <2>e. CASE Connect \/ Sync \/ Rotate
    <3>1. op'.at = "take" /\ UNCHANGED <<agent, file, backup, mine, marks>>
      BY <2>e DEF Connect, Sync, Rotate, NewKey, Enter, Idle, disk, hist
    <3> QED BY <2>0, <3>1, EditQuiet DEF SameLoss
  <2>d. CASE Disconnect
    <3>1. op'.at = "extract" /\ UNCHANGED <<agent, file, backup, mine>>
      BY <2>d DEF Disconnect, Enter, Idle, disk
    <3>2. SameLoss
      BY <2>d, <2>m DEF Disconnect, Again, SameLoss
    <3> QED BY <2>0, <3>1, <3>2, EditQuiet
  <2>i. CASE Commit \/ Finish \/ GiveUp \/ SaveStateFails \/ Restart
    <3>1. op'.at = "start" /\ UNCHANGED <<agent, file, backup, mine>>
      BY <2>i DEF Commit, Finish, GiveUp, SaveStateFails, Restart, disk, hist, Idle
    <3>2. SameLoss
      BY <2>i, <2>m DEF Commit, Finish, GiveUp, SaveStateFails, Restart, hist, Hurt, SameLoss
    <3> QED BY <2>0, <3>1, <3>2, EditQuiet
  <2>p. CASE PollRead \/ PollLook \/ PollMark
    <3>1. UNCHANGED <<agent, file, backup, mine, op>>
      BY <2>p DEF PollRead, PollLook, PollMark, disk, hist
    <3>2. SameLoss
      BY <2>p, <2>m DEF PollRead, PollLook, PollMark, hist, Again, SameLoss
    <3> QED BY <2>0, <3>1, <3>2, EditQuiet
  <2>h. CASE SaveStash
    <3>1. op'.at # "write" /\ UNCHANGED <<agent, file, backup, mine>>
      BY <2>0, <2>h DEF SaveStash, Goto, OpOK
    <3>2. SameLoss
      BY <2>h, <2>m DEF SaveStash, SameLoss
    <3> QED BY <2>0, <3>1, <3>2, EditQuiet
  <2>g. CASE FailConnect \/ DropStash \/ ForgetAudit
    <3>1. op'.at # "write" /\ UNCHANGED <<agent, file, backup, mine, marks>>
      BY <2>0, <2>g DEF FailConnect, DropStash, ForgetAudit, Goto, OpOK, disk, hist
    <3> QED BY <2>0, <3>1, EditQuiet DEF SameLoss
  <2>v. CASE SaveAudit
    <3>1. op'.at # "write" /\ UNCHANGED <<agent, file, backup, mine>>
      BY <2>0, <2>v DEF SaveAudit, Goto, OpOK
    <3>2. SameLoss
      BY <2>v, <2>m DEF SaveAudit, SameLoss
    <3> QED BY <2>0, <3>1, <3>2, EditQuiet
  <2>k. CASE SkipUndo
    <3>1. op'.at # "write" /\ UNCHANGED <<agent, file, backup, mine>>
      BY <2>0, <2>k DEF SkipUndo, OpOK, Idle, disk
    <3>2. SameLoss
      BY <2>k, <2>m DEF SkipUndo, Hurt, SameLoss
    <3> QED BY <2>0, <3>1, <3>2, EditQuiet
  <2>1. CASE TakeBackup
    <3> DEFINE f == spec.files[op.i]
    <3>1. /\ f \in File /\ agent' = agent /\ file' = file /\ op'.at # "write"
      BY <2>0, <2>1, <2>s DEF TakeBackup, Advance, Goto, OpOK
    <3>2. CASE UNCHANGED <<backup, was, marks, mine>>
      BY <2>0, <3>1, <3>2, EditQuiet DEF SameLoss
    <3>3. CASE ~UNCHANGED <<backup, was, marks, mine>>
      <4>1. /\ backup' = [backup EXCEPT ![f] = IF file[f].there THEN Bytes(file[f]) ELSE Marker]
            /\ marks' = [marks EXCEPT ![f] = {"unstashed"}]
            /\ mine' = [mine EXCEPT ![f] = file[f].rest]
        BY <2>1, <3>3 DEF TakeBackup
      <4>2. ~file[f].there => file[f].rest = 0
        BY <2>0, <3>1 DEF FileOK, WellFormed, AbsentDoc
      <4> DEFINE b == IF file[f].there THEN Bytes(file[f]) ELSE Marker
      <4>3. b.doc.rest = file[f].rest /\ (b.kind = "marker" => b.doc.rest = 0)
        BY <4>2 DEF Bytes, Marker, AbsentDoc
      <4> HIDE DEF f, b
      <4>4. \A g \in File : /\ backup'[g] = IF g = f THEN b ELSE backup[g]
                            /\ mine'[g] = IF g = f THEN file[f].rest ELSE mine[g]
                            /\ marks'[g] = IF g = f THEN {"unstashed"} ELSE marks[g]
        BY <2>0, <2>m, <3>1, <4>1 DEF BackupOK, HistOK, b
      <4>5. EditsSurvive'
        BY <2>0, <3>1, <4>4 DEF EditsSurvive
      <4>6. WholeIsOurs'
        BY <2>0, <2>s, <2>a, <3>1, <4>3, <4>4 DEF WholeIsOurs
      <4>7. UneditedBackup' /\ MarkersAreEmpty'
        BY <2>0, <4>3, <4>4 DEF UneditedBackup, MarkersAreEmpty, Backed
      <4> QED BY <3>1, <4>5, <4>6, <4>7 DEF EditInv, DocsAreCurrent
    <3> QED BY <3>2, <3>3
  <2>2. CASE ReadFiles
    <3>1. /\ UNCHANGED <<agent, file, backup, mine>> /\ op'.docs = file
      BY <2>0, <2>2 DEF ReadFiles, OpOK, disk
    <3>2. SameLoss
      BY <2>2, <2>m DEF ReadFiles, SameLoss
    <3>3. EditsSurvive' /\ DocsAreCurrent'
      BY <2>0, <3>1, <3>2, LostMeans DEF DocsAreCurrent, SameLoss, Lost
    <3>4. WholeIsOurs'
      BY <2>0, <2>a, <3>1 DEF WholeIsOurs
    <3>5. UneditedBackup' /\ MarkersAreEmpty'
      BY <2>0, <3>1, <3>2 DEF UneditedBackup, MarkersAreEmpty, SameLoss, Backed
    <3> QED BY <3>3, <3>4, <3>5 DEF EditInv
  <2>3. CASE WriteFile
    <3> DEFINE f == spec.writes[op.i]
               w == Wired(spec, f, op.docs[f], op.key, catalog)
    <3>1. /\ UNCHANGED <<agent, backup, mine>> /\ f \in File /\ op.at = "write"
          /\ op'.at \in {"write", "stash"} /\ op'.docs = op.docs
      BY <2>0, <2>3, <2>s DEF WriteFile, Advance, Goto, OpOK
    <3>2. w.rest = IF f \in spec.whole THEN 0 ELSE op.docs[f].rest
      BY DEF Wired
    <3>3. (file' = file \/ file' = [file EXCEPT ![f] = w]) /\ SameLoss
      BY <2>3, <2>m, <3>1 DEF WriteFile, SameLoss
    <3> HIDE DEF f, w
    <3>4. \A g \in File : file'[g] = file[g] \/ (g = f /\ file'[g] = w)
      BY <2>0, <3>3 DEF FileOK
    <3>5. ~Lost(f) => w.rest = mine[f]
      BY <2>0, <2>s, <3>1, <3>2 DEF DocsAreCurrent, WholeIsOurs
    <3>6. EditsSurvive' /\ DocsAreCurrent'
      BY <2>0, <3>1, <3>3, <3>4, <3>5, LostMeans DEF DocsAreCurrent, SameLoss, Lost
    <3>7. WholeIsOurs'
      BY <2>0, <2>a, <2>s, <3>1, <3>2, <3>4 DEF WholeIsOurs
    <3>8. UneditedBackup' /\ MarkersAreEmpty'
      BY <2>0, <3>1, <3>3 DEF UneditedBackup, MarkersAreEmpty, SameLoss, Backed
    <3> QED BY <3>6, <3>7, <3>8 DEF EditInv
  <2>4. CASE UndoFile
    <3> DEFINE f == spec.files[op.i]
    <3>1. /\ UNCHANGED <<agent, backup, mine>> /\ f \in File /\ op'.at # "write" /\ Backed(f)
      BY <2>0, <2>4, <2>s DEF UndoFile, OpOK, Idle, CallIsBacked, AllBacked
    <3>2. /\ file' = [file EXCEPT ![f] = backup[f].doc]
          /\ marks' = [marks EXCEPT ![f] = IF "edited" \in @ THEN @ \cup {"undone"} ELSE @]
      BY <2>4 DEF UndoFile
    <3> HIDE DEF f
    <3>3. \A g \in File :
            /\ file'[g] = IF g = f THEN backup[f].doc ELSE file[g]
            /\ marks'[g] = IF g = f /\ "edited" \in marks[f] THEN marks[f] \cup {"undone"} ELSE marks[g]
      BY <2>0, <2>m, <3>1, <3>2 DEF FileOK
    <3>4. \A g \in File : ~Lost(g)' => ~Lost(g) /\ (g = f => "edited" \notin marks[f])
      BY <3>3 DEF Lost
    <3>5. "edited" \notin marks[f] => backup[f].doc.rest = mine[f]
      BY <2>0, <3>1 DEF UneditedBackup
    <3>6. EditsSurvive'
      BY <2>0, <3>1, <3>3, <3>4, <3>5, LostMeans
    <3>7. WholeIsOurs'
      BY <2>0, <2>a, <2>s, <3>1, <3>3 DEF WholeIsOurs
    <3>8. UneditedBackup' /\ MarkersAreEmpty' /\ DocsAreCurrent'
      BY <2>0, <3>1, <3>3 DEF UneditedBackup, MarkersAreEmpty, DocsAreCurrent, Backed
    <3> QED BY <3>6, <3>7, <3>8 DEF EditInv
  <2>5. CASE ExtractFile
    <3> DEFINE f == spec.writes[op.i]
               w == Extracted(spec, f, file[f], stash[f])
    <3>1. /\ UNCHANGED <<agent, backup, mine, marks>> /\ f \in File /\ op'.at # "write"
      BY <2>0, <2>5, <2>s DEF ExtractFile, Advance, Goto, OpOK, hist
    <3>2. w.rest = IF f \in spec.whole THEN 0 ELSE file[f].rest
      <4>1. file[f] \in Docs /\ (~file[f].there => file[f].rest = 0)
        BY <2>0, <3>1 DEF FileOK, WellFormed, AbsentDoc
      <4>2. CASE ~file[f].there \/ f \in spec.whole
        BY <4>1, <4>2 DEF Extracted, AbsentDoc
      <4>3. CASE ~(~file[f].there \/ f \in spec.whole)
        BY <4>1, <4>3 DEF Extracted, Docs
      <4> QED BY <4>2, <4>3
    <3> HIDE DEF w
    <3>3. file' = [file EXCEPT ![f] = w]
      BY <2>5 DEF ExtractFile, w
    <3> HIDE DEF f
    <3>4. \A g \in File : file'[g] = IF g = f THEN w ELSE file[g]
      BY <2>0, <3>3 DEF FileOK
    <3>5. \A g \in File : file'[g].rest = IF g = f /\ f \in spec.whole THEN 0 ELSE file[g].rest
      BY <3>2, <3>4
    <3>6. EditsSurvive' /\ WholeIsOurs'
      BY <2>0, <2>a, <2>s, <3>1, <3>5 DEF EditsSurvive, WholeIsOurs
    <3>7. UneditedBackup' /\ MarkersAreEmpty' /\ DocsAreCurrent'
      BY <2>0, <3>1 DEF UneditedBackup, MarkersAreEmpty, DocsAreCurrent, Backed
    <3> QED BY <3>6, <3>7 DEF EditInv
  <2>6. CASE DecideFile
    <3> DEFINE f == spec.files[op.i]
    <3>1. /\ UNCHANGED <<agent, mine, marks>> /\ f \in File /\ op'.at # "write"
      BY <2>0, <2>6, <2>s DEF DecideFile, Advance, Goto, OpOK, hist
    <3>2. \/ file' = file /\ backup' = backup
          \/ /\ file' = [file EXCEPT ![f] = backup[f].doc]
             /\ backup' = [backup EXCEPT ![f] = NoBackup]
             /\ \/ semantically_equal(file[f], backup[f].doc)
                \/ /\ backup[f].kind = "marker"
                   /\ file[f].there => is_empty_document(file[f])
      BY <2>6 DEF DecideFile
    <3>3. ~file[f].there => file[f].rest = 0
      BY <2>0, <3>1 DEF FileOK, WellFormed, AbsentDoc
    <3>4. NoBackup.kind # "marker" /\ NoBackup.doc.rest = 0
      BY DEF NoBackup, AbsentDoc
    <3> HIDE DEF f
    <3>5. \A g \in File : /\ file'[g].rest = file[g].rest
                          /\ backup'[g] = backup[g] \/ backup'[g] = NoBackup
      <4>1. CASE file' = file /\ backup' = backup
        BY <4>1
      <4>2. CASE ~(file' = file /\ backup' = backup)
        <5>1. backup[f].doc.rest = file[f].rest
          BY <2>0, <3>1, <3>2, <3>3, <4>2 DEF MarkersAreEmpty, semantically_equal, is_empty_document
        <5> QED BY <2>0, <3>1, <3>2, <4>2, <5>1 DEF FileOK, BackupOK
      <4> QED BY <4>1, <4>2
    <3>6. EditsSurvive' /\ WholeIsOurs'
      BY <2>0, <2>a, <2>s, <3>1, <3>4, <3>5 DEF EditsSurvive, WholeIsOurs
    <3>7. UneditedBackup' /\ MarkersAreEmpty' /\ DocsAreCurrent'
      BY <2>0, <3>1, <3>4, <3>5 DEF UneditedBackup, MarkersAreEmpty, DocsAreCurrent, Backed
    <3> QED BY <3>6, <3>7 DEF EditInv
  <2>7. CASE Edit
    <3>1. UNCHANGED <<agent, backup, op>>
      BY <2>7 DEF Edit
    <3>2. PICK f \in {spec.files[i] : i \in 1..Count} : f \notin spec.whole /\ \E d \in Edited(f) :
            /\ file' = [file EXCEPT ![f] = d]
            /\ mine' = [mine EXCEPT ![f] = d.rest]
            /\ marks' = [marks EXCEPT ![f] =
                 @ \cup {"edited", "loose"} \cup (IF op.at = "write" THEN {"raced"} ELSE {})]
      BY <2>7 DEF Edit
    <3>3. PICK d : /\ file' = [file EXCEPT ![f] = d]
                   /\ mine' = [mine EXCEPT ![f] = d.rest]
                   /\ marks' = [marks EXCEPT ![f] = @ \cup {"edited", "loose"}
                                  \cup (IF op.at = "write" THEN {"raced"} ELSE {})]
      BY <3>2
    <3>4. f \in File /\ f \notin spec.whole
      BY <2>s, <3>2
    <3>5. \A g \in File : g # f => /\ file'[g] = file[g] /\ mine'[g] = mine[g]
                                   /\ marks'[g] = marks[g]
      BY <2>0, <2>m, <3>3 DEF FileOK, HistOK
    <3>6. /\ file'[f] = d /\ mine'[f] = d.rest /\ "edited" \in marks'[f]
          /\ op.at = "write" => "raced" \in marks'[f]
      BY <2>0, <2>m, <3>3, <3>4 DEF FileOK, HistOK
    <3>7. EditsSurvive'
      BY <2>0, <3>5, <3>6 DEF EditsSurvive
    <3>8. WholeIsOurs'
      BY <2>0, <2>a, <2>s, <3>1, <3>4, <3>5 DEF WholeIsOurs
    <3>9. UneditedBackup' /\ MarkersAreEmpty'
      BY <2>0, <3>1, <3>5, <3>6 DEF UneditedBackup, MarkersAreEmpty, Backed
    <3>10. DocsAreCurrent'
      BY <2>0, <3>1, <3>5, <3>6 DEF DocsAreCurrent, Lost
    <3> QED BY <3>7, <3>8, <3>9, <3>10 DEF EditInv
  <2>8. CASE UNCHANGED vars
    <3>1. UNCHANGED <<agent, file, backup, mine, marks, op>>
      BY <2>8 DEF vars, disk, hist
    <3> QED BY <2>0, <3>1, EditQuiet DEF SameLoss
  <2> QED BY <2>e, <2>d, <2>i, <2>p, <2>h, <2>g, <2>v, <2>k, <2>1, <2>2, <2>3, <2>4, <2>5, <2>6,
       <2>7, <2>8 DEF Next
<1> QED BY <1>1, <1>2, TypeInvariant, BackupInvariant, PTL DEF Spec

\* No connect, sync, rotation or disconnect, complete, failed or cut off by a
\* restart, loses what the user wrote outside the keys we own, except an edit
\* between connect's read and write and one before a connect that fails.
THEOREM EditsAlwaysSurvive == Spec => []EditsSurvive
BY EditInvariant, PTL DEF EditInv

\* All three, which the agents run checks on a small instance.
THEOREM UsersFilesAlwaysKept == Spec => []UsersFilesKept
BY AgentTypeCorrect, BackupsAlwaysTheUsers, EditsAlwaysSurvive, PTL DEF UsersFilesKept
-----------------------------------------------------------------------------
\* Files, audit and memory agree.

\* The keys that read_state looks at are ours to write, every file in which we
\* write keys is gone through, and Gemini's conditional file has no such key.
LEMMA SpecOwns ==
  ASSUME NEW a \in Agents
  PROVE  /\ \A f \in File, r \in {"set", "table"} : <<f, r>> \in spec_for[a].owns =>
              /\ \E j \in 1..Len(spec_for[a].files) : spec_for[a].writes[j] = f
              /\ <<f, "cond">> \notin spec_for[a].owns
         /\ \A e \in {spec_for[a].base, spec_for[a].token} :
              <<e[1], e[2]>> \in spec_for[a].owns /\ e[1] \in File /\ e[2] \in {"set", "table"}
<1>0. a \in {"claude", "codex", "gemini", "pi"}
  BY DEF Agents, spec_for
<1>1. CASE a = "claude"
  BY <1>1 DEF spec_for, ClaudeSpec, File
<1>2. CASE a = "codex"
  <2>1. /\ spec_for[a].owns = {<<"main", "set">>, <<"main", "table">>, <<"keys", "set">>, <<"models", "table">>}
        /\ spec_for[a].files = <<"main", "keys", "models">> /\ spec_for[a].writes = <<"main", "keys", "models">>
        /\ spec_for[a].base = <<"main", "table">> /\ spec_for[a].token = <<"keys", "set">>
    BY <1>2 DEF spec_for, CodexSpec
  <2>2. /\ Len(spec_for[a].files) = 3 /\ spec_for[a].writes[1] = "main"
        /\ spec_for[a].writes[2] = "keys" /\ spec_for[a].writes[3] = "models"
    BY <2>1
  <2>3. \A f \in File : \E j \in 1..3 : spec_for[a].writes[j] = f
    BY <2>2 DEF File
  <2>4. \A f \in File : <<f, "cond">> \notin spec_for[a].owns
    BY <2>1
  <2> QED BY <2>1, <2>2, <2>3, <2>4 DEF File
<1>3. CASE a = "gemini"
  BY <1>3 DEF spec_for, GeminiSpec, File
<1>4. CASE a = "pi"
  BY <1>4 DEF spec_for, PiSpec, File
<1> QED BY <1>0, <1>1, <1>2, <1>3, <1>4

\* A file that the user has left alone since we wrote it holds this key and
\* this catalog; and so does every file we write.
Current(f, k, c) ==
  \A r \in {"set", "table"} :
    <<f, r>> \in spec.owns /\ "loose" \notin marks[f] => file[f].vals[r] = Gateway(k, c)
AllCurrent(k, c) == \A j \in 1..Count : Current(spec.writes[j], k, c)

\* What the audit says of such a file is what is there.
AuditMatches ==
  \A f \in File : marks[f] \cap {"loose", "gone"} = {} =>
    \A r \in Roles : audit[f][r] # None => applied_values(spec, file)[f][r] = audit[f][r]

\* Memory, the stored key and entry, and the files tell the same.
Agree ==
  /\ saved = mem.entry
  /\ mem.entry.status = "connected" =>
       /\ mem.key = key /\ mem.key \in 1..MaxKeys
       /\ mem.entry.cat \in 1..MaxCats /\ mem.entry.keyed
       /\ AllCurrent(mem.key, mem.entry.cat)
       /\ AuditMatches

CurrentInv ==
  /\ op.at = "undo" => torn
  /\ op.at = "read" => op.i = 1
  /\ op.at = "write" => \A j \in 1..(op.i - 1) : Current(spec.writes[j], op.key, catalog)
  /\ op.at \in {"stash", "audit", "commit"} => AllCurrent(op.key, catalog)
  /\ op.at = "commit" => AuditMatches
  /\ Free /\ ~torn => Agree

\* In the steps before connect's writes and in disconnect's, nothing is claimed.
LEMMA CurrentInCall ==
  ASSUME op'.at \in {"take", "read", "extract", "drop", "decide", "forget", "finish"},
         op'.at = "read" => op'.i = 1
  PROVE  CurrentInv'
BY DEF CurrentInv, Free, Idle

\* Nor is it after a failure, until a call is complete.
LEMMA CurrentTorn == ASSUME torn', op'.at \in {"start", "undo"} PROVE CurrentInv'
BY DEF CurrentInv

\* A file is current, and audited as it is, until the user changes it.
LEMMA CurrentKept ==
  ASSUME UNCHANGED agent, NEW f \in File, \/ file'[f] = file[f] /\ ("loose" \in marks[f] => "loose" \in marks'[f])
                                          \/ "loose" \in marks'[f]
  PROVE  \A k, c : Current(f, k, c) => Current(f, k, c)'
BY DEF Current, spec

LEMMA AuditKept ==
  ASSUME UNCHANGED <<agent, audit>>, AuditMatches,
         \A f \in File : \/ file'[f] = file[f] /\ marks[f] \cap {"loose", "gone"} \subseteq marks'[f]
                         \/ "loose" \in marks'[f]
  PROVE  AuditMatches'
<1> SUFFICES ASSUME NEW f \in File, marks'[f] \cap {"loose", "gone"} = {}, NEW r \in Roles, audit'[f][r] # None
             PROVE  applied_values(spec, file)'[f][r] = audit'[f][r]
  BY DEF AuditMatches
<1>1. file'[f] = file[f] /\ marks[f] \cap {"loose", "gone"} = {} /\ spec' = spec
  BY DEF spec
<1>2. applied_values(spec, file)[f][r] = audit[f][r]
  BY <1>1 DEF AuditMatches
<1>3. applied_values(spec, file)'[f][r] = applied_values(spec, file)[f][r]
  BY <1>1 DEF applied_values
<1> QED BY <1>2, <1>3

\* A step that leaves every file as it is, or marks it as the user's.
LEMMA CurrentQuiet ==
  ASSUME agent \in AgentsUsed, OpOK, CurrentInv, UNCHANGED <<agent, audit, key, catalog, op, torn>>,
         \/ UNCHANGED <<mem, saved>>
         \/ saved' = mem'.entry /\ mem'.entry.status # "connected",
         \A f \in File : \/ file'[f] = file[f] /\ marks[f] \subseteq marks'[f]
                         \/ "loose" \in marks'[f]
  PROVE  CurrentInv'
<1>1. /\ Count \in 1..3 /\ Count' = Count /\ spec' = spec
      /\ \A j \in 1..Count : spec.writes[j] \in File
  BY CountType DEF Count, spec
<1>2. \A j \in 1..Count : \A k, c : Current(spec.writes[j], k, c) => Current(spec.writes[j], k, c)'
  BY <1>1, CurrentKept
<1>3. \A k, c : AllCurrent(k, c) => AllCurrent(k, c)'
  BY <1>1, <1>2 DEF AllCurrent
<1>4. AuditMatches => AuditMatches'
  BY AuditKept
<1>5. Agree => Agree'
  BY <1>3, <1>4 DEF Agree
<1>6. op.at = "write" => \A j \in 1..(op.i - 1) : Current(spec.writes[j], op.key, catalog)'
  <2> SUFFICES ASSUME op.at = "write", NEW j \in 1..(op.i - 1)
               PROVE  Current(spec.writes[j], op.key, catalog)'
    OBVIOUS
  <2>1. j \in 1..Count
    BY <1>1 DEF OpOK
  <2>2. Current(spec.writes[j], op.key, catalog)
    BY DEF CurrentInv
  <2> QED BY <1>1, <1>2, <2>1, <2>2
<1>7. Free' = Free
  BY DEF Free
<1> QED BY <1>1, <1>3, <1>4, <1>5, <1>6, <1>7 DEF CurrentInv

\* connect goes through every file before its entry is written, and whatever
\* cuts a call short leaves its mark until the next complete one.
LEMMA CurrentInvariant == Spec => []CurrentInv
<1>1. Init => CurrentInv
  BY DEF Init, Idle, NoEntry, CurrentInv, Agree
<1>2. TypeInv /\ CurrentInv /\ [Next]_vars => CurrentInv'
  <2> SUFFICES ASSUME TypeInv, CurrentInv, [Next]_vars PROVE CurrentInv'
    OBVIOUS
  <2>0. /\ agent \in AgentsUsed /\ agent \in Agents /\ FileOK /\ StoreOK /\ MemOK /\ OpOK /\ HistOK
    BY TypeParts, AgentsAssumption
  <2>s. /\ Count \in 1..3 /\ op.i \in 1..Count
        /\ \A i \in 1..Count : spec.files[i] \in File /\ spec.writes[i] \in File
    BY <2>0, CountType DEF OpOK
  <2>a. agent' = agent => spec' = spec /\ Count' = Count
    BY DEF Count, spec
  <2>m. marks \in [File -> SUBSET Marks] /\ torn \in BOOLEAN
    BY <2>0 DEF HistOK
  <2>e. CASE Connect \/ Sync \/ Rotate \/ Disconnect
    <3>1. op'.at \in {"take", "extract"}
      BY <2>e DEF Connect, Sync, Rotate, Disconnect, NewKey, Enter, Idle
    <3> QED BY <3>1, CurrentInCall
  <2>c. CASE TakeBackup \/ ExtractFile \/ DropStash \/ DecideFile \/ ForgetAudit
    <3>1. op'.at \in {"take", "read", "extract", "drop", "decide", "forget", "finish"}
      BY <2>0, <2>c DEF TakeBackup, ExtractFile, DropStash, DecideFile, ForgetAudit, Advance, Goto, OpOK
    <3>2. op'.at = "read" => op'.i = 1
      BY <2>0, <2>c DEF TakeBackup, ExtractFile, DropStash, DecideFile, ForgetAudit, Advance, Goto, OpOK
    <3> QED BY <3>1, <3>2, CurrentInCall
  <2>f. CASE GiveUp \/ FailConnect \/ UndoFile \/ SkipUndo \/ SaveStateFails
    <3>1. op'.at \in {"start", "undo"}
      <4>1. CASE GiveUp \/ SaveStateFails
        BY <4>1 DEF GiveUp, SaveStateFails, Idle
      <4>2. CASE FailConnect
        BY <2>0, <4>2 DEF FailConnect, Goto, OpOK
      <4>3. CASE UndoFile \/ SkipUndo
        BY <2>0, <4>3 DEF UndoFile, SkipUndo, OpOK, Idle
      <4> QED BY <2>f, <4>1, <4>2, <4>3
    <3>2. torn'
      BY <2>f DEF GiveUp, FailConnect, UndoFile, SkipUndo, SaveStateFails, CurrentInv
    <3> QED BY <3>1, <3>2, CurrentTorn
  <2>r. CASE Restart
    <3>1. /\ op' = Idle /\ op'.at = "start" /\ torn' = (torn \/ op # Idle)
          /\ mem' = [key |-> IF saved.keyed THEN key ELSE 0, entry |-> saved]
          /\ UNCHANGED <<agent, file, audit, key, saved>>
      BY <2>r DEF Restart, disk, Idle
    <3>2. CASE torn'
      BY <3>1, <3>2, CurrentTorn
    <3>3. CASE ~torn'
      <4>1. Free /\ Agree /\ marks' = marks /\ mem'.entry = saved /\ saved' = saved
        <5>1. op = Idle /\ ~torn
          BY <3>1, <3>3
        <5>2. marks' = marks
          BY <2>r, <5>1 DEF Restart
        <5> QED BY <3>1, <5>1, <5>2 DEF Free, CurrentInv
      <4>2. mem.entry.status = "connected" => mem'.key = mem.key /\ mem'.entry = mem.entry
        BY <3>1, <4>1 DEF Agree
      <4>3. \A k, c : AllCurrent(k, c) => AllCurrent(k, c)'
        BY <2>a, <3>1, <4>1 DEF AllCurrent, Current
      <4>4. AuditMatches => AuditMatches'
        BY <3>1, <4>1, AuditKept
      <4>5. Agree'
        BY <3>1, <4>1, <4>2, <4>3, <4>4 DEF Agree
      <4> QED BY <3>1, <4>5 DEF CurrentInv
    <3> QED BY <3>2, <3>3
  <2>p. CASE PollRead \/ PollLook
    <3>1. UNCHANGED <<agent, audit, key, catalog, op, torn, mem, saved, file, marks>>
      BY <2>p DEF PollRead, PollLook, disk, hist
    <3> QED BY <2>0, <3>1, CurrentQuiet
  <2>q. CASE PollMark
    <3>1. UNCHANGED <<agent, audit, key, catalog, op, file>> /\ \A f \in File : marks[f] \subseteq marks'[f]
      BY <2>q DEF PollMark, Again
    <3>2. CASE torn' = torn /\ saved' = mem'.entry
      <4>1. mem'.entry.status # "connected"
        BY <2>0, <2>q DEF PollMark, MemOK, NoEntry, Entries
      <4> QED BY <2>0, <3>1, <3>2, <4>1, CurrentQuiet
    <3>3. CASE torn' = TRUE
      BY <2>q, <3>1, <3>3, CurrentTorn DEF PollMark, Free, Idle
    <3> QED BY <2>q, <3>2, <3>3 DEF PollMark
  <2>1. CASE ReadFiles
    <3>1. op.at = "read" /\ op'.at = "write" /\ op'.i = 1
      BY <2>0, <2>1 DEF ReadFiles, OpOK, CurrentInv
    <3> QED BY <3>1 DEF CurrentInv, Free, Idle
  <2>2. CASE WriteFile
    <3>0. PICK f, k, c, i : f = spec.writes[op.i] /\ k = op.key /\ c = catalog /\ i = op.i
      OBVIOUS
    <3> DEFINE w == Wired(spec, f, op.docs[f], k, c)
    <3>1. /\ UNCHANGED <<agent, catalog>> /\ f \in File /\ op.at = "write" /\ Advance("stash")
          /\ IF Written(spec, f, op.docs[f])
               THEN /\ file' = [file EXCEPT ![f] = w]
                    /\ marks' = [marks EXCEPT ![f] = @ \ {"loose"}]
               ELSE UNCHANGED <<file, marks>>
      BY <2>2, <2>s, <3>0 DEF WriteFile
    <3>2. /\ spec' = spec /\ Count' = Count /\ op'.key = k /\ catalog' = c
          /\ \/ op'.at = "write" /\ op'.i = i + 1 /\ i < Count
             \/ op'.at = "stash" /\ i = Count
      <4>1. CASE op.i < Count
        <5>1. op' = [op EXCEPT !.i = op.i + 1]
          BY <3>1, <4>1 DEF Advance
        <5> QED BY <2>0, <2>a, <3>0, <3>1, <4>1, <5>1 DEF OpOK
      <4>2. CASE ~(op.i < Count)
        <5>1. op' = [op EXCEPT !.at = "stash", !.i = 1] /\ op.i = Count
          BY <2>s, <3>1, <4>2 DEF Advance, Goto
        <5> QED BY <2>0, <2>a, <3>0, <3>1, <5>1 DEF OpOK
      <4> QED BY <4>1, <4>2
    <3>3. \A r \in {"set", "table"} : <<f, r>> \in spec.owns => w.vals[r] = Gateway(k, c)
      BY DEF Wired, WiredValue, Roles
    <3>4. Current(f, k, c)'
      <4>1. CASE Written(spec, f, op.docs[f])
        <5>1. file'[f] = w
          BY <2>0, <3>1, <4>1 DEF FileOK
        <5> QED BY <3>2, <3>3, <5>1 DEF Current
      <4>2. CASE ~Written(spec, f, op.docs[f])
        <5>1. \A r \in {"set", "table"} : <<f, r>> \notin spec.owns
          BY <2>0, <3>1, <4>2, SpecOwns DEF Written, spec
        <5> QED BY <3>2, <5>1 DEF Current
      <4> QED BY <4>1, <4>2
    <3> HIDE DEF w
    <3>5. \A g \in File : g # f => file'[g] = file[g] /\ marks'[g] = marks[g]
      BY <2>0, <2>m, <3>1 DEF FileOK
    <3>6. \A j \in 1..i : Current(spec.writes[j], k, c)'
      <4> SUFFICES ASSUME NEW j \in 1..i PROVE Current(spec.writes[j], k, c)'
        OBVIOUS
      <4>1. CASE spec.writes[j] = f
        BY <3>2, <3>4, <4>1
      <4>2. CASE spec.writes[j] # f
        <5>1. j \in 1..(op.i - 1) /\ spec.writes[j] \in File
          BY <2>s, <3>0, <4>2
        <5>2. Current(spec.writes[j], k, c)
          BY <3>0, <3>1, <5>1 DEF CurrentInv
        <5>3. file'[spec.writes[j]] = file[spec.writes[j]] /\ marks'[spec.writes[j]] = marks[spec.writes[j]]
          BY <3>5, <4>2, <5>1
        <5> QED BY <3>2, <5>2, <5>3 DEF Current
      <4> QED BY <4>1, <4>2
    <3>7. CASE op'.at = "write" /\ op'.i = i + 1
      <4>1. \A j \in 1..(op'.i - 1) : j \in 1..i
        BY <2>s, <3>0, <3>7
      <4> QED BY <3>2, <3>6, <3>7, <4>1 DEF CurrentInv, Free, Idle
    <3>8. CASE op'.at = "stash" /\ i = Count
      <4>1. AllCurrent(k, c)'
        BY <3>2, <3>6, <3>8 DEF AllCurrent
      <4> QED BY <3>2, <3>8, <4>1 DEF CurrentInv, Free, Idle
    <3> QED BY <3>2, <3>7, <3>8
  <2>3. CASE SaveStash
    <3>1. op.at = "stash" /\ op'.at = "audit" /\ op'.key = op.key /\ UNCHANGED <<agent, file, catalog>>
      BY <2>0, <2>3 DEF SaveStash, Goto, OpOK
    <3>l. \A f \in File : "loose" \in marks'[f] <=> "loose" \in marks[f]
      BY <2>3 DEF SaveStash
    <3>2. AllCurrent(op.key, catalog)'
      BY <2>a, <2>s, <3>1, <3>l DEF CurrentInv, AllCurrent, Current
    <3> QED BY <3>1, <3>2 DEF CurrentInv, Free, Idle
  <2>4. CASE SaveAudit
    <3> DEFINE now == applied_values(spec, file)
    <3>1. /\ op.at = "audit" /\ op'.at = "commit" /\ op'.key = op.key /\ UNCHANGED <<agent, file, catalog>>
          /\ audit' = [f \in File |-> [r \in Roles |->
                         IF now[f][r] # None THEN now[f][r] ELSE audit[f][r]]]
          /\ marks' = [f \in File |-> marks[f] \cup
                         (IF \E r \in Roles : now[f][r] = None /\ audit[f][r] # None
                            THEN {"gone"} ELSE {})]
      BY <2>0, <2>4 DEF SaveAudit, Goto, OpOK
    <3>2. \A f \in File : file'[f] = file[f] /\ ("loose" \in marks[f] => "loose" \in marks'[f])
      BY <3>1
    <3>3. \A j \in 1..Count : Current(spec.writes[j], op.key, catalog)
      BY <3>1 DEF CurrentInv, AllCurrent
    <3>4. \A f \in File : \A k, c : Current(f, k, c) => Current(f, k, c)'
      BY <3>1, <3>2, CurrentKept
    <3>5. AllCurrent(op.key, catalog)'
      <4> SUFFICES ASSUME NEW j \in 1..Count PROVE Current(spec.writes[j], op.key, catalog)'
        BY <2>a, <3>1 DEF AllCurrent
      <4>1. \A k, c : Current(spec.writes[j], k, c) => Current(spec.writes[j], k, c)'
        BY <2>a, <2>s, <3>1, <3>4
      <4> QED BY <2>a, <3>1, <3>3, <4>1
    <3>6. applied_values(spec, file)' = now
      BY <2>a, <3>1
    <3> HIDE DEF now
    <3>7. AuditMatches'
      <4> SUFFICES ASSUME NEW f \in File, marks'[f] \cap {"loose", "gone"} = {}, NEW r \in Roles,
                          audit'[f][r] # None
                   PROVE  now[f][r] = audit'[f][r]
        BY <3>6 DEF AuditMatches
      <4>1. ~(now[f][r] = None /\ audit[f][r] # None)
        BY <3>1
      <4> QED BY <3>1, <4>1
    <3> QED BY <3>1, <3>5, <3>7 DEF CurrentInv, Free, Idle
  <2>5. CASE Commit
    <3>1. /\ op.at = "commit" /\ op' = Idle /\ UNCHANGED <<agent, file, audit, key, marks, catalog>>
          /\ mem' = [key |-> op.key, entry |-> [status |-> "connected", keyed |-> TRUE, cat |-> catalog]]
          /\ saved' = mem'.entry /\ torn' = (key # op.key)
      BY <2>5 DEF Commit
    <3>2. /\ mem'.key = op.key /\ mem'.entry.cat = catalog /\ mem'.entry.keyed
          /\ op.key \in 1..MaxKeys /\ catalog \in 1..MaxCats
      BY <2>0, <3>1, BoundsAssumption DEF OpOK, KeyHeld, Writing, MemOK
    <3>3. AllCurrent(op.key, catalog) /\ AuditMatches
      BY <3>1 DEF CurrentInv
    <3>4. AllCurrent(mem.key, mem.entry.cat)'
      BY <2>a, <3>1, <3>2, <3>3 DEF AllCurrent, Current
    <3>5. AuditMatches'
      BY <2>a, <3>1, <3>3, AuditKept
    <3>6. ~torn' => Agree'
      BY <3>1, <3>2, <3>4, <3>5 DEF Agree
    <3> QED BY <3>1, <3>6 DEF CurrentInv, Idle
  <2>6. CASE Finish
    <3>1. op' = Idle /\ saved' = mem'.entry /\ mem' = [mem EXCEPT !.entry.status = "disconnected"]
      BY <2>6 DEF Finish
    <3>2. mem'.entry.status = "disconnected"
      BY <2>0, <3>1 DEF MemOK, Entries
    <3> QED BY <3>1, <3>2 DEF CurrentInv, Agree, Idle
  <2>7. CASE Edit
    <3>1. UNCHANGED <<agent, audit, key, saved, mem, catalog, op, torn>>
      BY <2>7 DEF Edit
    <3>2. PICK f \in {spec.files[i] : i \in 1..Count} : \E d :
            /\ file' = [file EXCEPT ![f] = d]
            /\ marks' = [marks EXCEPT ![f] =
                 @ \cup {"edited", "loose"} \cup (IF op.at = "write" THEN {"raced"} ELSE {})]
      BY <2>7 DEF Edit
    <3>3. f \in File
      BY <2>s
    <3>4. \A g \in File : \/ file'[g] = file[g] /\ marks[g] \subseteq marks'[g]
                          \/ "loose" \in marks'[g]
      BY <2>0, <2>m, <3>2, <3>3 DEF FileOK
    <3> QED BY <2>0, <3>1, <3>4, CurrentQuiet
  <2>8. CASE UNCHANGED vars
    <3>1. UNCHANGED <<agent, audit, key, catalog, op, torn, mem, saved, file, marks>>
      BY <2>8 DEF vars, disk, hist
    <3> QED BY <2>0, <3>1, CurrentQuiet
  <2> QED BY <2>e, <2>c, <2>f, <2>r, <2>p, <2>q, <2>1, <2>2, <2>3, <2>4, <2>5, <2>6, <2>7, <2>8 DEF Next
<1> QED BY <1>1, <1>2, TypeInvariant, PTL DEF Spec

\* While the registry calls an agent connected and its last call was complete,
\* a file the user has not touched holds the key the gateway accepts, and a
\* poll that finds drift has found an edit: agent_drifted compares the audit
\* where there is one and otherwise reads the files.
THEOREM ConnectedAlwaysMeansCurrent == Spec => []ConnectedMeansCurrent
<1>1. TypeInv /\ CurrentInv => ConnectedMeansCurrent
  <2> SUFFICES ASSUME TypeInv, CurrentInv, Free, mem.entry.status = "connected", ~torn
               PROVE  /\ \A f \in File, r \in {"set", "table"} :
                           <<f, r>> \in spec.owns /\ "loose" \notin marks[f] =>
                             file[f].vals[r] = Gateway(mem.key, mem.entry.cat)
                      /\ (\A f \in File : marks[f] \cap {"loose", "gone"} = {})
                           => ~agent_drifted(spec, audit, file)
    BY DEF ConnectedMeansCurrent, ConnectedFilesAreCurrent, NoFalseDrift
  <2>0. /\ agent \in Agents
        /\ mem.key \in 1..MaxKeys /\ mem.entry.cat \in 1..MaxCats
        /\ AllCurrent(mem.key, mem.entry.cat) /\ AuditMatches
    BY TypeParts, AgentsAssumption DEF CurrentInv, Agree
  <2>1. \A f \in File, r \in {"set", "table"} :
          <<f, r>> \in spec.owns /\ "loose" \notin marks[f] =>
            file[f].vals[r] = Gateway(mem.key, mem.entry.cat)
    <3> SUFFICES ASSUME NEW f \in File, NEW r \in {"set", "table"},
                        <<f, r>> \in spec.owns, "loose" \notin marks[f]
                 PROVE  file[f].vals[r] = Gateway(mem.key, mem.entry.cat)
      OBVIOUS
    <3>1. PICK j \in 1..Count : spec.writes[j] = f
      BY <2>0, SpecOwns DEF spec, Count
    <3> QED BY <2>0, <3>1 DEF AllCurrent, Current
  <2>2. ASSUME \A f \in File : marks[f] \cap {"loose", "gone"} = {}
        PROVE  ~agent_drifted(spec, audit, file)
    <3>1. CASE audit # NoAudit
      BY <2>0, <2>2, <3>1 DEF agent_drifted, AuditMatches
    <3>2. CASE audit = NoAudit
      <4>1. Gateway(mem.key, mem.entry.cat) \in GatewayValues
        BY <2>0 DEF Gateway, GatewayValues
      <4>2. \A e \in {spec.base, spec.token} : file[e[1]].vals[e[2]] = Gateway(mem.key, mem.entry.cat)
        <5> SUFFICES ASSUME NEW e \in {spec.base, spec.token}
                     PROVE  file[e[1]].vals[e[2]] = Gateway(mem.key, mem.entry.cat)
          OBVIOUS
        <5>1. <<e[1], e[2]>> \in spec.owns /\ e[1] \in File /\ e[2] \in {"set", "table"}
          BY <2>0, SpecOwns DEF spec
        <5>2. "loose" \notin marks[e[1]]
          BY <2>2, <5>1
        <5> QED BY <2>1, <5>1, <5>2
      <4>3. Gateway(mem.key, mem.entry.cat) # None
        BY <4>1, ValuesAssumption
      <4> QED BY <3>2, <4>1, <4>2, <4>3 DEF agent_drifted, ReadsConnected
    <3> QED BY <3>1, <3>2
  <2> QED BY <2>1, <2>2
<1> QED BY <1>1, TypeInvariant, CurrentInvariant, PTL
-----------------------------------------------------------------------------
\* What a backup stands for.

MyFiles == {spec.files[i] : i \in 1..Count}
Owned(f, r) == <<f, r>> \in spec.owns
GivenBack(f) == file[f] = was[f] /\ ~Backed(f)

\* A backup is the file as it was, and the marker a file that was not there.
BackupIsWas ==
  \A f \in File : Backed(f) =>
    backup[f].doc = was[f] /\ backup[f].kind = IF was[f].there THEN "bytes" ELSE "marker"

\* The files of other agents are left alone.
OthersAlone == \A f \in File \ MyFiles : GivenBack(f)

\* Our own table is in no file of the user's, and what is in its place is ours.
TableIsOurs ==
  \A f \in File : Owned(f, "table") =>
    /\ file[f].vals["table"] = None \/ file[f].vals["table"] \in GatewayValues
    /\ backup[f].doc.vals["table"] = None

\* A file that is entirely ours was not there before.
WholeIsNew == \A f \in spec.whole : was[f] = AbsentDoc /\ (file[f] = AbsentDoc \/ Backed(f))

\* What is stashed is of files that have their backups.
Deciding == {"decide", "forget", "finish"}
StashIsDropped ==
  /\ stash = NoAudit \/ AllBacked
  /\ op.at \in Deciding => stash = NoAudit

BackInv == BackupIsWas /\ OthersAlone /\ TableIsOurs /\ WholeIsNew /\ StashIsDropped

\* The files of an agent are told apart by their place, and each is written.
LEMMA FilesApart ==
  ASSUME NEW a \in Agents
  PROVE  \A i \in 1..Len(spec_for[a].files) :
           /\ \A j \in 1..Len(spec_for[a].files) :
                /\ spec_for[a].files[i] = spec_for[a].files[j] => i = j
                /\ spec_for[a].writes[i] = spec_for[a].writes[j] => i = j
           /\ \E j \in 1..Len(spec_for[a].files) : spec_for[a].writes[j] = spec_for[a].files[i]
<1> DEFINE F == spec_for[a].files
           W == spec_for[a].writes
<1>0. a \in {"claude", "codex", "gemini", "pi"}
  BY DEF Agents, spec_for
<1>1. \/ F = <<"main">> /\ W = F
      \/ F = <<"main", "keys", "models">> /\ W = F
      \/ F = <<"keys", "main">> /\ W = F
      \/ F = <<"main", "models">> /\ W = <<"models", "main">>
  BY <1>0 DEF spec_for, ClaudeSpec, CodexSpec, GeminiSpec, PiSpec
<1> HIDE DEF F, W
<1>2. CASE F = <<"main">> /\ W = F
  BY <1>2 DEF F, W
<1>3. CASE F = <<"main", "keys", "models">> /\ W = F
  <2>1. Len(F) = 3 /\ F[1] = "main" /\ F[2] = "keys" /\ F[3] = "models"
    BY <1>3
  <2>2. \A i, j \in 1..3 : F[i] = F[j] => i = j
    BY <2>1
  <2> QED BY <1>3, <2>1, <2>2 DEF F, W
<1>4. CASE F = <<"keys", "main">> /\ W = F
  <2>1. Len(F) = 2 /\ F[1] = "keys" /\ F[2] = "main"
    BY <1>4
  <2> QED BY <1>4, <2>1 DEF F, W
<1>5. CASE F = <<"main", "models">> /\ W = <<"models", "main">>
  <2>1. Len(F) = 2 /\ F[1] = "main" /\ F[2] = "models" /\ W[1] = "models" /\ W[2] = "main"
    BY <1>5
  <2>2. \A i, j \in 1..2 : (F[i] = F[j] => i = j) /\ (W[i] = W[j] => i = j)
    BY <2>1
  <2>3. \A i \in 1..2 : \E j \in 1..2 : W[j] = F[i]
    BY <2>1
  <2> QED BY <2>1, <2>2, <2>3 DEF F, W
<1> QED BY <1>1, <1>2, <1>3, <1>4, <1>5

LEMMA FilesApartHere ==
  ASSUME agent \in AgentsUsed
  PROVE  \A i \in 1..Count :
           /\ \A j \in 1..Count : /\ spec.files[i] = spec.files[j] => i = j
                                  /\ spec.writes[i] = spec.writes[j] => i = j
           /\ \E j \in 1..Count : spec.writes[j] = spec.files[i]
           /\ spec.writes[i] \in MyFiles /\ spec.files[i] \in MyFiles
<1>1. agent \in Agents /\ spec = spec_for[agent] /\ Count = Len(spec_for[agent].files)
  BY AgentsAssumption DEF spec, Count
<1>2. \A i \in 1..Count :
        /\ \A j \in 1..Count : /\ spec.files[i] = spec.files[j] => i = j
                               /\ spec.writes[i] = spec.writes[j] => i = j
        /\ \E j \in 1..Count : spec.writes[j] = spec.files[i]
  BY <1>1, FilesApart
<1>3. \A i \in 1..Count : \E j \in 1..Count : spec.files[j] = spec.writes[i]
  BY <1>1, SpecFacts
<1> QED BY <1>2, <1>3 DEF MyFiles

\* A step that touches no file, backup or stash only has to account for where
\* the call now is.
LEMMA BackQuiet ==
  ASSUME BackInv, UNCHANGED <<agent, file, backup, stash, was>>,
         op'.at \in Deciding => op.at \in Deciding
  PROVE  BackInv'
<1>1. spec' = spec /\ Count' = Count /\ MyFiles' = MyFiles
  BY DEF spec, Count, MyFiles
<1>2. BackupIsWas' /\ OthersAlone' /\ TableIsOurs' /\ WholeIsNew'
  BY <1>1 DEF BackInv, BackupIsWas, OthersAlone, TableIsOurs, WholeIsNew, Backed, GivenBack, Owned
<1>3. StashIsDropped'
  BY <1>1 DEF BackInv, StashIsDropped, AllBacked, Backed
<1> QED BY <1>2, <1>3 DEF BackInv

LEMMA BackInvariant == Spec => []BackInv
<1>1. Init => BackInv
  <2> SUFFICES ASSUME Init PROVE BackInv
    OBVIOUS
  <2>1. /\ op.at = "start" /\ agent \in AgentsUsed /\ was = file /\ stash = NoAudit
        /\ \A f \in File : backup[f] = NoBackup /\ file[f] \in UserDocs(f)
    BY DEF Init, Idle
  <2>2. NoBackup.doc = AbsentDoc /\ \A r \in Roles : AbsentDoc.vals[r] = None
    BY DEF NoBackup, AbsentDoc, NoValues
  <2>3. \A f \in File : Owned(f, "table") => file[f].vals["table"] = None
    <3> SUFFICES ASSUME NEW f \in File, Owned(f, "table") PROVE file[f].vals["table"] = None
      OBVIOUS
    <3>1. CASE file[f] = AbsentDoc
      BY <2>2, <3>1 DEF Roles
    <3>2. CASE file[f] # AbsentDoc
      <4>1. PICK v \in [Roles -> UserValues \cup {None}] :
              /\ v["table"] = None
              /\ file[f] = [there |-> TRUE, own |-> TRUE, rest |-> 1, vals |-> v]
        BY <2>1, <3>2 DEF UserDocs, Roles
      <4> QED BY <4>1
    <3> QED BY <3>1, <3>2
  <2>4. \A f \in spec.whole : file[f] = AbsentDoc
    BY <2>1, WholeFacts DEF UserDocs
  <2> QED BY <2>1, <2>2, <2>3, <2>4
        DEF BackInv, BackupIsWas, OthersAlone, TableIsOurs, WholeIsNew, StashIsDropped,
            Backed, GivenBack, Deciding, Roles
<1>2. TypeInv /\ BackupInv /\ BackInv /\ [Next]_vars => BackInv'
  <2> SUFFICES ASSUME TypeInv, BackupInv, BackInv, [Next]_vars PROVE BackInv'
    OBVIOUS
  <2>0. /\ agent \in AgentsUsed /\ FileOK /\ BackupOK /\ OpOK /\ HistOK /\ StoreOK /\ MemOK
        /\ CallIsBacked /\ DirtyIsBacked
        /\ BackupIsWas /\ OthersAlone /\ TableIsOurs /\ WholeIsNew /\ StashIsDropped
    BY TypeParts DEF BackupInv, BackInv
  <2>s. /\ Count \in 1..3 /\ op.i \in 1..Count /\ spec.whole \subseteq File
        /\ spec.files[op.i] \in File \cap MyFiles /\ spec.writes[op.i] \in File \cap MyFiles
    BY <2>0, CountType, WholeFacts, FilesApartHere DEF OpOK
  <2>a. agent' = agent => spec' = spec /\ Count' = Count /\ MyFiles' = MyFiles
    BY DEF spec, Count, MyFiles
  <2>w. was \in [File -> Docs]
    BY <2>0 DEF HistOK
  <2>q. CASE Connect \/ Sync \/ Rotate \/ Disconnect
    <3>1. op'.at \in {"take", "extract"} /\ UNCHANGED <<agent, file, backup, stash, was>>
      BY <2>q DEF Connect, Sync, Rotate, Disconnect, NewKey, Enter, Idle, disk, hist
    <3> QED BY <3>1, BackQuiet DEF Deciding
  <2>i. CASE Commit \/ Finish \/ GiveUp \/ SaveStateFails \/ Restart
    <3>1. op'.at = "start" /\ UNCHANGED <<agent, file, backup, stash, was>>
      BY <2>i DEF Commit, Finish, GiveUp, SaveStateFails, Restart, Idle, disk, hist
    <3> QED BY <3>1, BackQuiet DEF Deciding
  <2>p. CASE PollRead \/ PollLook \/ PollMark \/ UNCHANGED vars
    <3>1. UNCHANGED <<agent, file, backup, stash, was, op>>
      BY <2>p DEF PollRead, PollLook, PollMark, vars, disk, hist
    <3> QED BY <3>1, BackQuiet
  <2>g. CASE ReadFiles \/ SaveAudit \/ FailConnect
    <3>1. /\ op'.at \in {"write", "commit", "undo"}
          /\ UNCHANGED <<agent, file, backup, stash, was>>
      BY <2>0, <2>g DEF ReadFiles, SaveAudit, FailConnect, Goto, OpOK, disk
    <3> QED BY <3>1, BackQuiet DEF Deciding
  <2>k. CASE SkipUndo
    <3>1. op'.at \in {"undo", "start"} /\ UNCHANGED <<agent, file, backup, stash, was>>
      BY <2>0, <2>k DEF SkipUndo, OpOK, Idle, disk
    <3> QED BY <3>1, BackQuiet DEF Deciding
  <2>f. CASE ForgetAudit
    <3>1. op.at = "forget" /\ UNCHANGED <<agent, file, backup, stash, was>>
      BY <2>f DEF ForgetAudit, hist
    <3> QED BY <3>1, BackQuiet DEF Deciding
  <2>1. CASE TakeBackup
    <3> DEFINE f == spec.files[op.i]
    <3>1. /\ f \in File /\ f \in MyFiles /\ op'.at \in {"take", "read"}
          /\ UNCHANGED <<agent, file, stash>>
      BY <2>0, <2>1, <2>s DEF TakeBackup, Advance, Goto, OpOK
    <3>2. CASE UNCHANGED <<backup, was>>
      BY <3>1, <3>2, BackQuiet DEF Deciding
    <3>3. CASE ~UNCHANGED <<backup, was>>
      <4> DEFINE b == IF file[f].there THEN Bytes(file[f]) ELSE Marker
      <4>1. /\ backup' = [backup EXCEPT ![f] = b]
            /\ was' = [was EXCEPT ![f] = file[f]]
            /\ ~Backed(f)
        BY <2>1, <3>3 DEF TakeBackup, Backed
      <4>2. /\ b.doc = file[f] /\ b # NoBackup
            /\ b.kind = IF file[f].there THEN "bytes" ELSE "marker"
        BY <2>0, <3>1 DEF FileOK, WellFormed, Bytes, Marker, NoBackup
      <4> HIDE DEF f, b
      <4>3. \A g \in File : /\ backup'[g] = IF g = f THEN b ELSE backup[g]
                            /\ was'[g] = IF g = f THEN file[f] ELSE was[g]
        BY <2>0, <2>w, <3>1, <4>1 DEF BackupOK
      <4>4. Clean(file[f].vals)
        BY <2>0, <3>1, <4>1 DEF DirtyIsBacked
      <4>5. BackupIsWas' /\ OthersAlone'
        BY <2>0, <2>a, <3>1, <4>2, <4>3 DEF BackupIsWas, OthersAlone, GivenBack, Backed
      <4>6. TableIsOurs'
        BY <2>0, <2>a, <3>1, <4>2, <4>3, <4>4 DEF TableIsOurs, Owned, Clean, Roles
      <4>7. WholeIsNew'
        BY <2>0, <2>a, <2>s, <3>1, <4>1, <4>2, <4>3 DEF WholeIsNew, Backed
      <4>8. AllBacked => AllBacked'
        BY <2>0, <2>a, <2>s, <3>1, <4>2, <4>3, CountType DEF AllBacked, Backed
      <4> QED BY <2>0, <3>1, <4>5, <4>6, <4>7, <4>8 DEF BackInv, StashIsDropped, Deciding
    <3> QED BY <3>2, <3>3
  <2>2. CASE WriteFile
    <3> DEFINE f == spec.writes[op.i]
               w == Wired(spec, f, op.docs[f], op.key, catalog)
    <3>1. /\ f \in File /\ f \in MyFiles /\ op.at = "write" /\ op'.at \in {"write", "stash"}
          /\ UNCHANGED <<agent, backup, stash, was>>
      BY <2>0, <2>2, <2>s DEF WriteFile, Advance, Goto, OpOK
    <3>2. AllBacked /\ Backed(f)
      BY <2>0, <3>1 DEF CallIsBacked, AllBacked, MyFiles
    <3>3. Owned(f, "table") => w.vals["table"] \in GatewayValues
      <4>1. op.key \in 1..MaxKeys /\ catalog \in 1..MaxCats
        BY <2>0, <3>1, BoundsAssumption DEF OpOK, KeyHeld, Writing, MemOK
      <4>2. Gateway(op.key, catalog) \in GatewayValues
        BY <4>1 DEF Gateway, GatewayValues
      <4>3. \A v : WiredValue("table", v, op.key, catalog) = Gateway(op.key, catalog)
        BY DEF WiredValue
      <4> QED BY <4>2, <4>3 DEF Wired, Owned, Roles
    <3>4. file' = file \/ file' = [file EXCEPT ![f] = w]
      BY <2>2 DEF WriteFile
    <3> HIDE DEF f, w
    <3>5. \A g \in File : file'[g] = file[g] \/ (g = f /\ file'[g] = w)
      BY <2>0, <3>4 DEF FileOK
    <3>6. BackupIsWas' /\ OthersAlone'
      BY <2>0, <2>a, <3>1, <3>5 DEF BackupIsWas, OthersAlone, GivenBack, Backed
    <3>7. TableIsOurs'
      BY <2>0, <2>a, <3>1, <3>3, <3>5 DEF TableIsOurs, Owned
    <3>8. WholeIsNew'
      BY <2>0, <2>a, <2>s, <3>1, <3>2, <3>5 DEF WholeIsNew, Backed
    <3>9. StashIsDropped'
      BY <2>0, <2>a, <3>1 DEF StashIsDropped, AllBacked, Backed, Deciding
    <3> QED BY <3>6, <3>7, <3>8, <3>9 DEF BackInv
  <2>3. CASE SaveStash
    <3>1. /\ op.at = "stash" /\ op'.at = "audit" /\ UNCHANGED <<agent, file, backup, was>>
      BY <2>0, <2>3 DEF SaveStash, Goto, OpOK
    <3>2. AllBacked'
      BY <2>0, <2>a, <3>1 DEF CallIsBacked, AllBacked, Backed
    <3>3. BackupIsWas' /\ OthersAlone' /\ TableIsOurs' /\ WholeIsNew'
      BY <2>0, <2>a, <3>1
         DEF BackupIsWas, OthersAlone, TableIsOurs, WholeIsNew, Backed, GivenBack, Owned
    <3> QED BY <3>1, <3>2, <3>3 DEF BackInv, StashIsDropped, Deciding
  <2>4. CASE UndoFile
    <3> DEFINE f == spec.files[op.i]
    <3>1. /\ f \in File /\ f \in MyFiles /\ op.at = "undo" /\ op'.at \in {"undo", "start"}
          /\ UNCHANGED <<agent, backup, stash, was>>
          /\ file' = [file EXCEPT ![f] = backup[f].doc]
      BY <2>0, <2>4, <2>s DEF UndoFile, OpOK, Idle
    <3>2. Backed(f)
      BY <2>0, <3>1 DEF CallIsBacked, AllBacked, MyFiles
    <3> HIDE DEF f
    <3>3. \A g \in File : file'[g] = file[g] \/ (g = f /\ file'[g] = backup[g].doc)
      BY <2>0, <3>1 DEF FileOK
    <3>4. BackupIsWas' /\ OthersAlone'
      BY <2>0, <2>a, <3>1, <3>3 DEF BackupIsWas, OthersAlone, GivenBack, Backed
    <3>5. TableIsOurs'
      BY <2>0, <2>a, <3>1, <3>3 DEF TableIsOurs, Owned
    <3>6. WholeIsNew'
      BY <2>0, <2>a, <2>s, <3>1, <3>2, <3>3 DEF WholeIsNew, Backed
    <3>7. StashIsDropped'
      BY <2>0, <2>a, <3>1 DEF StashIsDropped, AllBacked, Backed, Deciding
    <3> QED BY <3>4, <3>5, <3>6, <3>7 DEF BackInv
  <2>5. CASE ExtractFile
    <3> DEFINE f == spec.writes[op.i]
               w == Extracted(spec, f, file[f], stash[f])
    <3>1. /\ f \in File /\ f \in MyFiles /\ op'.at \in {"extract", "drop"}
          /\ UNCHANGED <<agent, backup, stash, was>>
          /\ file' = [file EXCEPT ![f] = w]
      BY <2>0, <2>5, <2>s DEF ExtractFile, Advance, Goto, OpOK, hist
    <3>2. file[f] \in Docs /\ "table" \in Roles /\ "table" \notin RestoredRoles
      BY <2>0, <3>1 DEF FileOK, Roles, RestoredRoles
    <3>3. f \in spec.whole => w = AbsentDoc
      BY DEF Extracted
    <3>4. Owned(f, "table") => w.vals["table"] = None
      <4>1. \A v, o : ExtractedValue("table", v, o) = None
        BY <3>2 DEF ExtractedValue
      <4>2. CASE ~file[f].there \/ f \in spec.whole
        BY <3>2, <4>2 DEF Extracted, AbsentDoc, NoValues
      <4>3. CASE ~(~file[f].there \/ f \in spec.whole)
        BY <3>2, <4>1, <4>3 DEF Extracted, Docs, Owned
      <4> QED BY <4>2, <4>3
    <3> HIDE DEF f, w
    <3>5. \A g \in File : file'[g] = IF g = f THEN w ELSE file[g]
      BY <2>0, <3>1 DEF FileOK
    <3>6. BackupIsWas' /\ OthersAlone'
      BY <2>0, <2>a, <3>1, <3>5 DEF BackupIsWas, OthersAlone, GivenBack, Backed
    <3>7. TableIsOurs'
      BY <2>0, <2>a, <3>1, <3>4, <3>5 DEF TableIsOurs, Owned
    <3>8. WholeIsNew'
      BY <2>0, <2>a, <2>s, <3>1, <3>3, <3>5 DEF WholeIsNew, Backed
    <3>9. StashIsDropped'
      BY <2>0, <2>a, <3>1 DEF StashIsDropped, AllBacked, Backed, Deciding
    <3> QED BY <3>6, <3>7, <3>8, <3>9 DEF BackInv
  <2>6. CASE DropStash
    <3>1. stash' = NoAudit /\ UNCHANGED <<agent, file, backup, was>>
      BY <2>6 DEF DropStash, hist
    <3>2. BackupIsWas' /\ OthersAlone' /\ TableIsOurs' /\ WholeIsNew'
      BY <2>0, <2>a, <3>1
         DEF BackupIsWas, OthersAlone, TableIsOurs, WholeIsNew, Backed, GivenBack, Owned
    <3> QED BY <3>1, <3>2 DEF BackInv, StashIsDropped
  <2>7. CASE DecideFile
    <3> DEFINE f == spec.files[op.i]
    <3>1. /\ f \in File /\ f \in MyFiles /\ op.at = "decide"
          /\ UNCHANGED <<agent, stash, was>>
          /\ \/ file' = file /\ backup' = backup
             \/ file' = [file EXCEPT ![f] = backup[f].doc] /\ backup' = [backup EXCEPT ![f] = NoBackup]
      BY <2>7, <2>s DEF DecideFile, hist
    <3>2. NoBackup.doc = AbsentDoc /\ AbsentDoc.vals["table"] = None
      BY DEF NoBackup, AbsentDoc, NoValues, Roles
    <3> HIDE DEF f
    <3>3. \A g \in File :
            \/ file'[g] = file[g] /\ backup'[g] = backup[g]
            \/ g = f /\ file'[g] = backup[g].doc /\ backup'[g] = NoBackup
      BY <2>0, <3>1 DEF FileOK, BackupOK
    <3>4. BackupIsWas' /\ OthersAlone'
      BY <2>0, <2>a, <3>1, <3>3 DEF BackupIsWas, OthersAlone, GivenBack, Backed
    <3>5. TableIsOurs'
      BY <2>0, <2>a, <3>1, <3>2, <3>3 DEF TableIsOurs, Owned
    <3>6. WholeIsNew'
      <4>1. \A g \in spec.whole : backup[g].doc = AbsentDoc
        BY <2>0, <2>s, <3>2 DEF WholeIsNew, BackupIsWas, Backed
      <4> QED BY <2>0, <2>a, <2>s, <3>1, <3>3, <4>1 DEF WholeIsNew, Backed
    <3>7. StashIsDropped'
      BY <2>0, <3>1 DEF StashIsDropped, Deciding
    <3> QED BY <3>4, <3>5, <3>6, <3>7 DEF BackInv
  <2>8. CASE Edit
    <3>1. PICK f \in MyFiles : /\ f \notin spec.whole
                               /\ \E d \in Edited(f) : file' = [file EXCEPT ![f] = d]
      BY <2>8 DEF Edit, MyFiles
    <3>2. PICK d \in Edited(f) : file' = [file EXCEPT ![f] = d]
      BY <3>1
    <3>3. f \in File /\ file[f] \in Docs /\ UNCHANGED <<agent, backup, stash, was, op>>
      BY <2>0, <2>8, <3>1, CountType DEF FileOK, Edit, MyFiles
    <3>4. d.vals["table"] = file[f].vals["table"] \/ d.vals["table"] = None
      <4>1. CASE \E n \in 0..MaxRest : d = [file[f] EXCEPT !.there = TRUE, !.rest = n]
        BY <3>3, <4>1 DEF Docs
      <4>2. CASE \E e \in Roles \X (UserValues \cup {None}) :
                   e[1] # "table" /\ d = [file[f] EXCEPT !.vals[e[1]] = e[2]]
        BY <3>3, <4>2 DEF Docs, Roles
      <4>3. CASE d = AbsentDoc
        BY <4>3 DEF AbsentDoc, NoValues, Roles
      <4> QED BY <3>2, <4>1, <4>2, <4>3 DEF Edited
    <3>5. \A g \in File : file'[g] = IF g = f THEN d ELSE file[g]
      BY <2>0, <3>2 DEF FileOK
    <3>6. BackupIsWas' /\ OthersAlone'
      BY <2>0, <2>a, <3>1, <3>3, <3>5 DEF BackupIsWas, OthersAlone, GivenBack, Backed
    <3>7. TableIsOurs'
      BY <2>0, <2>a, <3>3, <3>4, <3>5 DEF TableIsOurs, Owned
    <3>8. WholeIsNew'
      BY <2>0, <2>a, <2>s, <3>1, <3>3, <3>5 DEF WholeIsNew, Backed
    <3>9. StashIsDropped'
      BY <2>0, <2>a, <3>3 DEF StashIsDropped, AllBacked, Backed, Deciding
    <3> QED BY <3>6, <3>7, <3>8, <3>9 DEF BackInv
  <2> QED BY <2>q, <2>i, <2>p, <2>g, <2>k, <2>f, <2>1, <2>2, <2>3, <2>4, <2>5, <2>6, <2>7, <2>8
          DEF Next
<1> QED BY <1>1, <1>2, TypeInvariant, BackupInvariant, PTL DEF Spec

-----------------------------------------------------------------------------
\* Why a failed connect is undone.

\* Nobody has changed the file since its backup, and it could be restored.
Restored(f) == marks[f] \cap {"edited", "hurt"} = {} => file[f] = was[f]

\* The undo has been through the files before this one.
Before(n) == {spec.files[j] : j \in 1..(n - 1)}
UndoInv == op.at = "undo" => \A g \in Before(op.i) : Restored(g)

\* The loops go through the files one by one.
LEMMA BeforeNext ==
  ASSUME agent \in AgentsUsed, NEW i \in 1..Count
  PROVE  /\ Before(1) = {}
         /\ Before(i + 1) = Before(i) \cup {spec.files[i]} /\ spec.files[i] \notin Before(i)
         /\ i = Count => Before(i + 1) = MyFiles
         /\ Before(i) \subseteq MyFiles /\ MyFiles \subseteq File
<1>1. Count \in 1..3 /\ \A j \in 1..Count : spec.files[j] \in File
  BY CountType
<1>2. Before(1) = {} /\ MyFiles \subseteq File
  BY <1>1 DEF Before, MyFiles
<1>3. \A j \in 1..((i + 1) - 1) : j = i \/ j \in 1..(i - 1)
  BY <1>1
<1>4. \A j \in 1..(i - 1) : j \in 1..((i + 1) - 1) /\ j \in 1..Count /\ j # i
  BY <1>1
<1>5. i \in 1..((i + 1) - 1) /\ (i + 1) - 1 = i
  BY <1>1
<1>6. Before(i + 1) = Before(i) \cup {spec.files[i]}
  BY <1>3, <1>4, <1>5 DEF Before
<1>7. spec.files[i] \notin Before(i)
  BY <1>4, FilesApartHere DEF Before
<1>8. i = Count => Before(i + 1) = MyFiles
  BY <1>5 DEF Before, MyFiles
<1>9. Before(i) \subseteq MyFiles
  BY <1>4 DEF Before, MyFiles
<1> QED BY <1>2, <1>6, <1>7, <1>8, <1>9

\* What one step of the undo does, and the loop's end.
LEMMA UndoSteps ==
  ASSUME TypeInv, BackupInv, BackInv, UndoInv, UndoFile \/ SkipUndo
  PROVE  /\ \A g \in Before(op.i + 1) : Restored(g)'
         /\ \/ op.i < Count /\ op'.i = op.i + 1 /\ op'.at = "undo"
            \/ op.i = Count /\ op' = Idle
         /\ UNCHANGED <<agent, was>>
<1>0. /\ agent \in AgentsUsed /\ FileOK /\ OpOK /\ HistOK /\ CallIsBacked /\ BackupIsWas
  BY TypeParts DEF BackupInv, BackInv
<1> DEFINE f == spec.files[op.i]
<1>1. Count \in 1..3 /\ op.i \in 1..Count /\ f \in File
  BY <1>0, CountType DEF OpOK
<1>2. op.at = "undo" /\ UNCHANGED <<agent, was, backup>>
  BY DEF UndoFile, SkipUndo, disk
<1>3. \/ op.i < Count /\ op'.i = op.i + 1 /\ op'.at = "undo"
      \/ op.i = Count /\ op' = Idle
  BY <1>0, <1>1 DEF UndoFile, SkipUndo, OpOK
<1>4. Backed(f)
  BY <1>0, <1>1, <1>2 DEF CallIsBacked, AllBacked
<1>5. \A g \in File : IF g = f THEN Restored(g)' ELSE file'[g] = file[g] /\ marks'[g] = marks[g]
  <2>1. CASE UndoFile
    <3>1. /\ file' = [file EXCEPT ![f] = backup[f].doc]
          /\ marks' = [marks EXCEPT ![f] = IF "edited" \in @ THEN @ \cup {"undone"} ELSE @]
      BY <2>1 DEF UndoFile
    <3> HIDE DEF f
    <3>2. backup[f].doc = was[f]
      BY <1>0, <1>1, <1>4 DEF BackupIsWas
    <3> QED BY <1>0, <1>1, <1>2, <3>1, <3>2 DEF FileOK, HistOK, Restored
  <2>2. CASE SkipUndo
    <3>1. file' = file /\ marks' = [g \in File |-> IF g \in {f} THEN marks[g] \cup {"hurt"} ELSE marks[g]]
      BY <2>2 DEF SkipUndo, Hurt, disk
    <3> HIDE DEF f
    <3> QED BY <1>1, <3>1 DEF Restored
  <2> QED BY <2>1, <2>2
<1>6. \A g \in Before(op.i) : g \in File /\ g # f /\ Restored(g)
  BY <1>0, <1>1, <1>2, BeforeNext DEF UndoInv
<1>7. \A g \in Before(op.i) : Restored(g)'
  BY <1>2, <1>5, <1>6 DEF Restored
<1>8. Before(op.i + 1) = Before(op.i) \cup {f}
  BY <1>0, <1>1, BeforeNext
<1>9. \A g \in {f} : Restored(g)'
  BY <1>1, <1>5
<1> QED BY <1>2, <1>3, <1>7, <1>8, <1>9

LEMMA UndoInvariant == Spec => []UndoInv
<1>1. Init => UndoInv
  BY DEF Init, Idle, UndoInv
<1>2. TypeInv /\ BackupInv /\ BackInv /\ UndoInv /\ [Next]_vars => UndoInv'
  <2> SUFFICES ASSUME TypeInv, BackupInv, BackInv, UndoInv, [Next]_vars, op'.at = "undo"
               PROVE  \A g \in Before(op.i)' : Restored(g)'
    BY DEF UndoInv
  <2>0. agent \in AgentsUsed /\ OpOK /\ FileOK /\ HistOK
    BY TypeParts
  <2>s. Count \in 1..3 /\ op.i \in 1..Count
    BY <2>0, CountType DEF OpOK
  <2>1. CASE UndoFile \/ SkipUndo
    <3>1. op'.i = op.i + 1 /\ spec' = spec
      BY <2>1, UndoSteps DEF Idle, spec
    <3>2. Before(op.i)' = Before(op.i + 1)
      BY <3>1 DEF Before
    <3> QED BY <2>1, <3>2, UndoSteps
  <2>2. CASE FailConnect
    <3>1. op'.i = 1
      BY <2>0, <2>2 DEF FailConnect, Goto, OpOK
    <3> QED BY <3>1 DEF Before
  <2>3. CASE PollRead \/ UNCHANGED vars
    <3>1. UNCHANGED <<agent, op, file, was, marks>>
      BY <2>3 DEF PollRead, vars, disk, hist
    <3> QED BY <3>1 DEF UndoInv, Restored, Before, spec
  <2>4. CASE Edit
    <3>1. UNCHANGED <<agent, op, was>>
      BY <2>4 DEF Edit
    <3>2. PICK f \in MyFiles : \E d :
            /\ file' = [file EXCEPT ![f] = d]
            /\ marks' = [marks EXCEPT ![f] =
                 @ \cup {"edited", "loose"} \cup (IF op.at = "write" THEN {"raced"} ELSE {})]
      BY <2>4 DEF Edit, MyFiles
    <3>3. \A g \in File : \/ "edited" \in marks'[g]
                          \/ file'[g] = file[g] /\ marks'[g] = marks[g]
      BY <2>0, <3>2 DEF FileOK, HistOK
    <3>4. Before(op.i)' = Before(op.i) /\ Before(op.i) \subseteq File
      BY <2>0, <2>s, <3>1, BeforeNext DEF Before, spec
    <3> QED BY <3>1, <3>3, <3>4 DEF UndoInv, Restored
  <2>5. CASE Connect \/ Sync \/ Rotate \/ Disconnect
    <3>1. op'.at \in {"take", "extract"}
      BY <2>5 DEF Connect, Sync, Rotate, Disconnect, NewKey, Enter, Idle
    <3> QED BY <3>1
  <2>6. CASE TakeBackup \/ ReadFiles \/ WriteFile \/ ExtractFile \/ DecideFile
    <3>1. op'.at # "undo"
      BY <2>0, <2>6 DEF TakeBackup, ReadFiles, WriteFile, ExtractFile, DecideFile, Advance, Goto, OpOK
    <3> QED BY <3>1
  <2>7. CASE SaveStash \/ SaveAudit \/ DropStash \/ ForgetAudit
    <3>1. op'.at # "undo"
      BY <2>0, <2>7 DEF SaveStash, SaveAudit, DropStash, ForgetAudit, Goto, OpOK
    <3> QED BY <3>1
  <2>8. CASE \/ PollLook \/ PollMark
             \/ Restart \/ Commit \/ Finish \/ GiveUp \/ SaveStateFails
    <3>1. op' = Idle
      BY <2>8 DEF PollLook, PollMark, Free, Restart, Commit, Finish, GiveUp, SaveStateFails
    <3> QED BY <3>1 DEF Idle
  <2> QED BY <2>1, <2>2, <2>3, <2>4, <2>5, <2>6, <2>7, <2>8 DEF Next
<1> QED BY <1>1, <1>2, TypeInvariant, BackupInvariant, BackInvariant, PTL DEF Spec

\* A connect, sync or rotation that fails puts every file back as it was when
\* its backup was taken (restore_after_failed_connect), whatever came before,
\* but for a file that could not be written or that the user has changed since.
THEOREM FailedConnectAlwaysUndone == Spec => FailedConnectUndone
<1> DEFINE Undone == op.at = "undo" /\ op' = Idle =>
             \A f \in File : marks'[f] \cap {"edited", "hurt"} = {} => file'[f] = was[f]
<1>1. TypeInv /\ BackupInv /\ BackInv /\ UndoInv /\ [Next]_vars => [Undone]_vars
  <2> SUFFICES ASSUME TypeInv, BackupInv, BackInv, UndoInv, Next, op.at = "undo", op' = Idle,
                      NEW f \in File, marks'[f] \cap {"edited", "hurt"} = {}
               PROVE  file'[f] = was[f]
    BY DEF Undone
  <2>0. agent \in AgentsUsed /\ OpOK /\ FileOK /\ OthersAlone
    BY TypeParts DEF BackInv
  <2>s. Count \in 1..3 /\ op.i \in 1..Count
    BY <2>0, CountType DEF OpOK
  <2>1. UndoFile \/ SkipUndo \/ Restart
    <3>1. op' # op
      BY DEF Idle
    <3> QED BY <3>1 DEF Next, Connect, Sync, Rotate, Disconnect, TakeBackup, ReadFiles, WriteFile,
          SaveStash, SaveAudit, Commit, ExtractFile, DropStash, DecideFile, ForgetAudit, Finish,
          GiveUp, FailConnect, SaveStateFails, PollRead, PollLook, PollMark, Edit, Free, Idle
  <2>2. CASE UndoFile \/ SkipUndo
    <3>1. /\ op.i = Count /\ was' = was /\ \A g \in Before(op.i + 1) : Restored(g)'
      BY <2>2, UndoSteps DEF Idle
    <3>2. CASE f \in MyFiles
      <4>1. Restored(f)'
        BY <2>0, <2>s, <3>1, <3>2, BeforeNext
      <4> QED BY <3>1, <4>1 DEF Restored
    <3>3. CASE f \notin MyFiles
      <4>1. file[f] = was[f] /\ spec.files[op.i] # f
        BY <2>0, <2>s, <3>3 DEF OthersAlone, GivenBack, MyFiles
      <4>2. file'[f] = file[f]
        BY <2>0, <2>2, <4>1 DEF UndoFile, SkipUndo, disk, FileOK
      <4> QED BY <4>1, <4>2
    <3> QED BY <3>2, <3>3
  <2>3. CASE Restart
    BY <2>3 DEF Restart, Hurt, Idle
  <2> QED BY <2>1, <2>2, <2>3
<1> QED BY <1>1, TypeInvariant, BackupInvariant, BackInvariant, UndoInvariant, PTL
       DEF Spec, FailedConnectUndone

-----------------------------------------------------------------------------
\* Why a disconnect gives the files back.

\* The values v that connect may have left where the user had u.
KeptValue(s, f, r, v, u) ==
  /\ <<f, r>> \notin s.owns => v = u
  /\ <<f, r>> \in s.owns /\ r \in RestoredRoles => v = u \/ v = None \/ v \in GatewayValues
  /\ <<f, r>> \in s.owns /\ r = "list" => v = u \/ (u \in UserValues /\ v = Appended(u))

\* Document d is the user's document u but for our keys.
Kept(s, f, d, u) ==
  f \in s.whole \/ /\ d.rest = u.rest /\ (u.there => d.there)
                   /\ \A r \in Roles : KeptValue(s, f, r, d.vals[r], u.vals[r])

\* The stashed values are those of document u.
Holds(s, f, old, u) == \A r \in RestoredRoles : <<f, r>> \in s.owns => old[r] = u.vals[r]

\* Document d says what document u says.
Level(d, u) == d.vals = u.vals /\ d.rest = u.rest /\ (u.there => d.there)

\* What connect writes keeps what the user had, a second time as the first.
LEMMA KeptWired ==
  ASSUME NEW s, NEW f, NEW d, NEW u, NEW k \in 1..MaxKeys, NEW c \in 1..MaxCats, Kept(s, f, d, u)
  PROVE  Kept(s, f, Wired(s, f, d, k, c), u)
<1> DEFINE w == Wired(s, f, d, k, c)
<1>1. CASE f \in s.whole
  BY <1>1 DEF Kept
<1>2. CASE f \notin s.whole
  <2>1. /\ w.there /\ w.rest = d.rest
        /\ \A r \in Roles : w.vals[r] = IF <<f, r>> \in s.owns THEN WiredValue(r, d.vals[r], k, c)
                                                               ELSE d.vals[r]
    BY <1>2 DEF Wired
  <2>2. \A r \in Roles : KeptValue(s, f, r, d.vals[r], u.vals[r])
    BY <1>2 DEF Kept
  <2>3. Gateway(k, c) \in GatewayValues /\ OurType \in GatewayValues
    BY DEF Gateway, GatewayValues
  <2>4. \A v \in UserValues : Appended(v) \in GatewayValues /\ Appended(v) \notin UserValues
    BY ValuesAssumption DEF GatewayValues
  <2> HIDE DEF w
  <2>5. ASSUME NEW r \in Roles PROVE KeptValue(s, f, r, w.vals[r], u.vals[r])
    <3>1. CASE <<f, r>> \notin s.owns
      BY <2>1, <2>2, <3>1 DEF KeptValue
    <3>2. CASE <<f, r>> \in s.owns /\ r \in RestoredRoles
      <4>1. w.vals[r] = None \/ w.vals[r] \in GatewayValues
        BY <2>1, <2>3, <3>2 DEF WiredValue, RestoredRoles
      <4> QED BY <3>2, <4>1 DEF KeptValue, RestoredRoles
    <3>3. CASE <<f, r>> \in s.owns /\ r = "list"
      BY <2>1, <2>2, <2>4, <3>3 DEF KeptValue, WiredValue, RestoredRoles
    <3>4. CASE <<f, r>> \in s.owns /\ r \notin RestoredRoles /\ r # "list"
      BY <3>4 DEF KeptValue
    <3> QED BY <3>1, <3>2, <3>3, <3>4
  <2>6. w.rest = u.rest
    BY <1>2, <2>1 DEF Kept
  <2> QED BY <2>1, <2>5, <2>6 DEF Kept, w
<1> QED BY <1>1, <1>2

\* A sound stash stays sound when connect records the values it finds.
LEMMA KeptRecorded ==
  ASSUME NEW s, NEW f \in File, NEW st, NEW docs, NEW u, Kept(s, f, docs[f], u), f \notin s.whole,
         \/ docs[f] = u /\ st[f] = NoValues
         \/ /\ Holds(s, f, st[f], u)
            /\ \A r \in StashedRoles : <<f, r>> \in s.owns /\ st[f][r] = None /\ r # "list" =>
                                         docs[f].vals[r] \notin GatewayValues
  PROVE  Holds(s, f, Recorded(s, st, docs)[f], u)
<1> SUFFICES ASSUME NEW r \in RestoredRoles, <<f, r>> \in s.owns
             PROVE  Recorded(s, st, docs)[f][r] = u.vals[r]
  BY DEF Holds
<1>1. r \in StashedRoles /\ r \in Roles /\ r # "list"
  BY DEF RestoredRoles, StashedRoles, Roles
<1>2. Recorded(s, st, docs)[f][r] = IF st[f][r] = None THEN docs[f].vals[r] ELSE st[f][r]
  BY <1>1 DEF Recorded
<1>3. CASE docs[f] = u /\ st[f] = NoValues
  BY <1>1, <1>2, <1>3 DEF NoValues
<1>4. CASE /\ Holds(s, f, st[f], u)
           /\ \A q \in StashedRoles : <<f, q>> \in s.owns /\ st[f][q] = None /\ q # "list" =>
                                        docs[f].vals[q] \notin GatewayValues
  <2>1. st[f][r] = u.vals[r]
    BY <1>4 DEF Holds
  <2>2. KeptValue(s, f, r, docs[f].vals[r], u.vals[r])
    BY <1>1 DEF Kept
  <2>3. CASE st[f][r] = None
    BY <1>1, <1>2, <1>4, <2>1, <2>2, <2>3 DEF KeptValue
  <2> QED BY <1>2, <2>1, <2>3
<1> QED BY <1>3, <1>4

\* Taking our keys out of such a file gives what the user had.
LEMMA KeptExtracted ==
  ASSUME NEW s, NEW f, NEW d, NEW u, NEW old, WellFormed(d), WellFormed(u), Clean(u.vals),
         Kept(s, f, d, u), Holds(s, f, old, u),
         f \in s.whole => u = AbsentDoc,
         <<f, "table">> \in s.owns => u.vals["table"] = None
  PROVE  Level(Extracted(s, f, d, old), u)
<1> DEFINE x == Extracted(s, f, d, old)
           w == [r \in Roles |-> IF <<f, r>> \in s.owns
                                   THEN ExtractedValue(r, d.vals[r], old[r]) ELSE d.vals[r]]
<1>1. d \in Docs /\ u \in Docs /\ (~u.there => u = AbsentDoc)
  BY DEF WellFormed
<1>2. CASE ~d.there \/ f \in s.whole
  <2>1. x = AbsentDoc
    BY <1>2 DEF Extracted
  <2>2. u = AbsentDoc
    BY <1>1, <1>2 DEF Kept
  <2> QED BY <2>1, <2>2 DEF Level
<1>3. CASE ~(~d.there \/ f \in s.whole)
  <2>1. d.rest = u.rest /\ d.there /\ \A r \in Roles : KeptValue(s, f, r, d.vals[r], u.vals[r])
    BY <1>3 DEF Kept
  <2>2. \A r \in Roles : w[r] = u.vals[r]
    <3> SUFFICES ASSUME NEW r \in Roles PROVE w[r] = u.vals[r]
      OBVIOUS
    <3>0. KeptValue(s, f, r, d.vals[r], u.vals[r])
      BY <2>1
    <3>1. CASE <<f, r>> \notin s.owns
      BY <3>0, <3>1 DEF KeptValue
    <3>2. CASE <<f, r>> \in s.owns /\ r \in RestoredRoles
      <4>1. old[r] = u.vals[r]
        BY <3>2 DEF Holds
      <4>2. ExtractedValue(r, d.vals[r], old[r]) = old[r]
        BY <3>2 DEF ExtractedValue, RestoredRoles
      <4>3. w[r] = ExtractedValue(r, d.vals[r], old[r])
        BY <3>2
      <4> QED BY <4>1, <4>2, <4>3
    <3>3. CASE <<f, r>> \in s.owns /\ r = "list"
      <4>1. ExtractedValue(r, d.vals[r], old[r])
              = IF d.vals[r] \in {Appended(v) : v \in UserValues} THEN d.vals[r][2] ELSE d.vals[r]
        BY <3>3 DEF ExtractedValue, RestoredRoles
      <4>2. u.vals[r] \notin {Appended(v) : v \in UserValues}
        BY DEF Clean, GatewayValues
      <4>3. u.vals[r] \in UserValues => Appended(u.vals[r])[2] = u.vals[r]
        BY DEF Appended
      <4>4. CASE d.vals[r] = u.vals[r]
        BY <3>3, <4>1, <4>2, <4>4
      <4>5. CASE u.vals[r] \in UserValues /\ d.vals[r] = Appended(u.vals[r])
        BY <3>3, <4>1, <4>3, <4>5
      <4> QED BY <3>0, <3>3, <4>4, <4>5 DEF KeptValue
    <3>4. CASE <<f, r>> \in s.owns /\ r = "table"
      <4>1. ExtractedValue(r, d.vals[r], old[r]) = None
        BY <3>4 DEF ExtractedValue, RestoredRoles
      <4> QED BY <3>4, <4>1
    <3> QED BY <3>1, <3>2, <3>3, <3>4 DEF Roles, RestoredRoles
  <2>3. w = u.vals
    BY <1>1, <2>2 DEF Docs
  <2> HIDE DEF w
  <2>4. x = [d EXCEPT !.vals = w, !.own = d.own /\ w = d.vals]
    BY <1>3 DEF Extracted, w
  <2>5. x.vals = w /\ x.rest = d.rest /\ x.there = d.there
    BY <1>1, <2>4 DEF Docs
  <2> QED BY <2>1, <2>3, <2>5 DEF Level
<1> QED BY <1>2, <1>3

\* What is known of a file that has its backup.
LEMMA WasFacts ==
  ASSUME TypeInv, BackupInv, BackInv, NEW f \in File, Backed(f)
  PROVE  /\ backup[f].doc = was[f] /\ backup[f].kind = IF was[f].there THEN "bytes" ELSE "marker"
         /\ WellFormed(was[f]) /\ Clean(was[f].vals)
         /\ f \in spec.whole => was[f] = AbsentDoc
         /\ <<f, "table">> \in spec.owns => was[f].vals["table"] = None
<1>1. BackupOK /\ BackupIsWas /\ TableIsOurs /\ WholeIsNew /\ BackupsAreTheUsers
  BY TypeParts DEF BackInv, BackupInv
<1>2. backup[f].doc = was[f] /\ backup[f].kind = IF was[f].there THEN "bytes" ELSE "marker"
  BY <1>1 DEF BackupIsWas
<1> QED BY <1>1, <1>2 DEF BackupOK, TableIsOurs, WholeIsNew, BackupsAreTheUsers, Owned

Sound(f) == marks[f] \cap {"edited", "resynced", "again", "hurt"} = {}
On(entry) == entry.status \in {"connected", "drifted"}
Leaving == {"extract", "drop"} \cup Deciding
Middle == {"write", "stash", "undo"}

\* An agent that is connected has its backups.
Enlisted(f) == On(mem.entry) \/ On(saved) => Backed(f)

\* Its files are the user's but for our keys, whose old values are stashed,
\* unless no connect has come that far since the backup.
Resting(f) ==
  Backed(f) => /\ Kept(spec, f, file[f], was[f])
               /\ IF "unstashed" \in marks[f] THEN stash[f] = NoValues
                  ELSE Holds(spec, f, stash[f], was[f])
Fresh(f) == Backed(f) /\ "unstashed" \in marks[f] /\ op.at \notin Middle => file[f] = was[f]

\* What connect has read and what it is about to stash are as good.
Planned(f) ==
  /\ op.at \in {"write", "stash"} => Holds(spec, f, op.plan[f], was[f])
  /\ op.at = "write" => Kept(spec, f, op.docs[f], was[f])

Connected(f) == Enlisted(f) /\ Resting(f) /\ Fresh(f) /\ Planned(f)

\* Disconnect, file by file: our keys are taken out, then the backup is let go.
Through(n) == {spec.writes[j] : j \in 1..(n - 1)}
Going(f) ==
  /\ "unstashed" \notin marks[f]
  /\ op.at = "extract" =>
       /\ Backed(f) /\ Holds(spec, f, stash[f], was[f])
       /\ IF f \in Through(op.i) THEN Level(file[f], was[f]) ELSE Kept(spec, f, file[f], was[f])
  /\ op.at = "drop" => Backed(f) /\ Level(file[f], was[f])
  /\ op.at = "decide" =>
       IF f \in Before(op.i) THEN GivenBack(f) ELSE Backed(f) /\ Level(file[f], was[f])
  /\ op.at \in {"forget", "finish"} => GivenBack(f)

Fine(f) == Sound(f) => IF op.at \in Leaving THEN Going(f) ELSE Connected(f)
GiveInv == \A f \in MyFiles : Fine(f)

\* The file, its backup and its history are as they were.
SameFile(f) ==
  /\ agent' = agent /\ file'[f] = file[f] /\ backup'[f] = backup[f]
  /\ stash'[f] = stash[f] /\ was'[f] = was[f]
  /\ Sound(f)' => Sound(f)
  /\ "unstashed" \in marks'[f] <=> "unstashed" \in marks[f]

LEMMA StillConnected ==
  ASSUME NEW f, Fine(f), SameFile(f), op.at \notin Leaving, Enlisted(f)', Planned(f)',
         op.at \in Middle => op'.at \in Middle, op'.at \notin Leaving
  PROVE  Fine(f)'
<1> SUFFICES ASSUME Sound(f)' PROVE Connected(f)'
  BY DEF Fine
<1>1. Connected(f) /\ spec' = spec
  BY DEF Fine, SameFile, spec
<1>2. Resting(f)'
  BY <1>1 DEF Connected, Resting, SameFile, Backed
<1>3. Fresh(f)'
  BY <1>1 DEF Connected, Fresh, SameFile, Backed
<1> QED BY <1>2, <1>3 DEF Connected

LEMMA StillFine ==
  ASSUME NEW f, Fine(f), SameFile(f), op' = op, Enlisted(f)' \/ UNCHANGED <<mem, saved>>
  PROVE  Fine(f)'
<1>0. spec' = spec /\ Count' = Count /\ Through(op.i)' = Through(op.i) /\ Before(op.i)' = Before(op.i)
  BY DEF SameFile, spec, Count, Through, Before
<1>1. CASE op.at \in Leaving
  BY <1>0, <1>1 DEF Fine, Going, SameFile, Backed, GivenBack
<1>2. CASE op.at \notin Leaving
  <2> SUFFICES ASSUME Sound(f) PROVE Fine(f)'
    BY DEF Fine, SameFile
  <2>1. Connected(f)
    BY <1>2 DEF Fine
  <2>2. Enlisted(f)'
    BY <2>1 DEF Connected, Enlisted, SameFile, Backed
  <2>3. Planned(f)'
    BY <1>0, <2>1 DEF Connected, Planned, SameFile
  <2> QED BY <1>2, <2>2, <2>3, StillConnected
<1> QED BY <1>1, <1>2

\* A call that fails in the middle of what it does is marked.
LEMMA HurtFine ==
  ASSUME NEW f \in File, Hurt(File)
  PROVE  Fine(f)'
BY DEF Hurt, Fine, Sound

LEMMA ThroughNext ==
  ASSUME agent \in AgentsUsed, NEW i \in 1..Count
  PROVE  /\ Through(1) = {}
         /\ Through(i + 1) = Through(i) \cup {spec.writes[i]} /\ spec.writes[i] \notin Through(i)
         /\ i = Count => Through(i + 1) = MyFiles
<1>1. Count \in 1..3
  BY CountType
<1>2. Through(1) = {}
  BY DEF Through
<1>3. \A j \in 1..((i + 1) - 1) : j = i \/ j \in 1..(i - 1)
  BY <1>1
<1>4. \A j \in 1..(i - 1) : j \in 1..((i + 1) - 1) /\ j \in 1..Count /\ j # i
  BY <1>1
<1>5. i \in 1..((i + 1) - 1) /\ (i + 1) - 1 = i
  BY <1>1
<1>6. Through(i + 1) = Through(i) \cup {spec.writes[i]}
  BY <1>3, <1>4, <1>5 DEF Through
<1>7. spec.writes[i] \notin Through(i)
  BY <1>4, FilesApartHere DEF Through
<1>8. i = Count => Through(i + 1) = MyFiles
  BY <1>5, FilesApartHere DEF Through, MyFiles
<1> QED BY <1>2, <1>6, <1>7, <1>8

\* In a file that is entirely ours there is nothing to restore.
LEMMA WholeOwns ==
  ASSUME NEW a \in Agents, NEW f \in spec_for[a].whole, NEW r \in RestoredRoles
  PROVE  <<f, r>> \notin spec_for[a].owns
<1>1. a \in {"claude", "codex", "gemini", "pi"}
  BY DEF Agents, spec_for
<1> QED BY <1>1 DEF spec_for, ClaudeSpec, CodexSpec, GeminiSpec, PiSpec, RestoredRoles

LEMMA AgentStays == ASSUME [Next]_vars PROVE agent' = agent
<1>1. CASE Connect \/ Sync \/ Rotate \/ Disconnect \/ TakeBackup \/ ReadFiles \/ WriteFile
  BY <1>1 DEF Connect, Sync, Rotate, Disconnect, TakeBackup, ReadFiles, WriteFile
<1>2. CASE SaveStash \/ SaveAudit \/ Commit \/ UndoFile \/ ExtractFile \/ DropStash \/ DecideFile
  BY <1>2 DEF SaveStash, SaveAudit, Commit, UndoFile, ExtractFile, DropStash, DecideFile
<1>3. CASE ForgetAudit \/ Finish \/ GiveUp \/ FailConnect \/ SkipUndo \/ SaveStateFails \/ Restart
  BY <1>3 DEF ForgetAudit, Finish, GiveUp, FailConnect, SkipUndo, SaveStateFails, Restart
<1>4. CASE PollRead \/ PollLook \/ PollMark \/ Edit \/ UNCHANGED vars
  BY <1>4 DEF PollRead, PollLook, PollMark, Edit, vars
<1> QED BY <1>1, <1>2, <1>3, <1>4 DEF Next

\* The loop goes on with the next file, or leaves for the next step.
LEMMA AdvanceTo ==
  ASSUME OpOK, Count \in 1..3, op.i \in 1..Count, NEW at, Advance(at)
  PROVE  \/ op.i < Count /\ op'.at = op.at /\ op'.i = op.i + 1
         \/ op.i = Count /\ op'.at = at
<1>1. CASE op.i < Count
  <2>1. op' = [op EXCEPT !.i = @ + 1]
    BY <1>1 DEF Advance
  <2> QED BY <1>1, <2>1 DEF OpOK
<1>2. CASE ~(op.i < Count)
  <2>1. op' = [op EXCEPT !.at = at, !.i = 1]
    BY <1>2 DEF Advance, Goto
  <2>2. op.i = Count
    BY <1>2
  <2>3. op'.at = at
    BY <2>1 DEF OpOK
  <2> QED BY <2>2, <2>3
<1> QED BY <1>1, <1>2

LEMMA GiveInvariant == Spec => []GiveInv
<1>1. Init => GiveInv
  <2> SUFFICES ASSUME Init, NEW f \in MyFiles PROVE Fine(f)
    BY DEF GiveInv
  <2>1. op = Idle /\ agent \in AgentsUsed /\ mem.entry = NoEntry /\ saved = NoEntry
    BY DEF Init
  <2>2. f \in File /\ backup[f] = NoBackup
    BY <2>1, CountType DEF Init, MyFiles
  <2> QED BY <2>1, <2>2 DEF Fine, Connected, Enlisted, Resting, Fresh, Planned, Backed, On, NoEntry,
                            Idle, Leaving, Deciding
<1>2. TypeInv /\ BackupInv /\ BackInv /\ UndoInv /\ GiveInv /\ [Next]_vars => GiveInv'
  <2> SUFFICES ASSUME TypeInv, BackupInv, BackInv, UndoInv, GiveInv, [Next]_vars PROVE GiveInv'
    OBVIOUS
  <2>n. agent' = agent
    BY AgentStays
  <2>f. MyFiles' = MyFiles
    BY <2>n DEF MyFiles, Count, spec
  <2> SUFFICES ASSUME NEW f \in MyFiles PROVE Fine(f)'
    BY <2>f DEF GiveInv
  <2>0. /\ agent \in AgentsUsed /\ FileOK /\ BackupOK /\ OpOK /\ HistOK /\ StoreOK /\ MemOK
        /\ CallIsBacked /\ BackupIsWas /\ StashIsDropped
    BY TypeParts DEF BackupInv, BackInv
  <2>s. /\ Count \in 1..3 /\ op.i \in 1..Count /\ f \in File /\ Fine(f)
        /\ spec.files[op.i] \in File /\ spec.writes[op.i] \in File
    BY <2>0, CountType DEF OpOK, GiveInv, MyFiles
  <2>a. agent' = agent => spec' = spec /\ Count' = Count
    BY DEF spec, Count
  <2>m. marks \in [File -> SUBSET Marks] /\ was \in [File -> Docs] /\ stash \in Stashes
    BY <2>0 DEF HistOK, StoreOK
  <2>b. op.at \in {"read", "write", "stash", "undo", "audit", "commit"} => Backed(f)
    BY <2>0 DEF CallIsBacked, AllBacked, MyFiles
  <2>1. CASE Connect \/ Sync \/ Rotate
    <3>1. /\ op = Idle /\ op'.at = "take"
          /\ UNCHANGED <<agent, file, backup, stash, was, marks, mem, saved>>
      BY <2>1 DEF Connect, Sync, Rotate, NewKey, Enter, Free, Idle, disk, hist
    <3>2. SameFile(f) /\ op.at = "start"
      BY <3>1 DEF SameFile, Sound, Idle
    <3>3. Sound(f)' => Enlisted(f)'
      BY <2>s, <3>1, <3>2 DEF Fine, Connected, Enlisted, Backed, Leaving, Deciding, SameFile
    <3> QED BY <2>s, <3>1, <3>2, <3>3, StillConnected DEF Fine, Planned, Leaving, Deciding, Middle
  <2>2. CASE FailConnect \/ SaveAudit
    <3>1. /\ op.at \in {"read", "write", "stash", "audit"} /\ op'.at \in {"undo", "commit"}
          /\ op.at \in Middle => op'.at \in Middle
          /\ UNCHANGED <<agent, file, backup, stash, was>>
      BY <2>0, <2>2 DEF FailConnect, SaveAudit, Goto, OpOK, Middle, disk
    <3>2. SameFile(f)
      BY <2>2, <2>s, <3>1 DEF SameFile, Sound, FailConnect, SaveAudit
    <3>3. Enlisted(f)'
      BY <2>b, <3>1 DEF Enlisted, Backed
    <3> QED BY <2>s, <3>1, <3>2, <3>3, StillConnected DEF Planned, Leaving, Deciding
  <2>3. CASE Commit \/ (SaveStateFails /\ op.at = "commit")
    <3>1. /\ op.at = "commit" /\ op' = Idle
          /\ UNCHANGED <<agent, file, backup, stash, was, marks>>
      BY <2>3 DEF Commit, SaveStateFails, disk
    <3>2. SameFile(f)
      BY <3>1 DEF SameFile, Sound
    <3>3. Enlisted(f)'
      BY <2>b, <3>1 DEF Enlisted, Backed
    <3> QED BY <2>s, <3>1, <3>2, <3>3, StillConnected DEF Planned, Leaving, Deciding, Middle, Idle
  <2>4. CASE SaveStateFails /\ op.at # "commit"
    BY <2>4, <2>s, HurtFine DEF SaveStateFails
  <2>5. CASE GiveUp
    <3>1. CASE op.at # "take"
      BY <2>5, <2>s, <3>1, HurtFine DEF GiveUp
    <3>2. CASE op.at = "take"
      <4>1. op' = Idle /\ UNCHANGED <<agent, file, backup, stash, was, marks, mem, saved>>
        BY <2>5, <3>2 DEF GiveUp, disk
      <4>2. SameFile(f)
        BY <4>1 DEF SameFile, Sound
      <4>3. Sound(f)' => Enlisted(f)'
        BY <2>s, <3>2, <4>1, <4>2 DEF Fine, Connected, Enlisted, Backed, Leaving, Deciding, SameFile
      <4> QED BY <2>s, <3>2, <4>1, <4>2, <4>3, StillConnected
              DEF Fine, Planned, Leaving, Deciding, Middle, Idle
    <3> QED BY <3>1, <3>2
  <2>6. CASE Restart
    <3>1. CASE op # Idle
      BY <2>6, <2>s, <3>1, HurtFine DEF Restart
    <3>2. CASE op = Idle
      <4>1. /\ op' = Idle /\ mem'.entry = saved
            /\ UNCHANGED <<agent, file, backup, stash, was, marks, saved>>
        BY <2>6, <3>2 DEF Restart, disk
      <4>2. SameFile(f) /\ op' = op
        BY <3>2, <4>1 DEF SameFile, Sound
      <4>3. Sound(f)' => Enlisted(f)'
        BY <2>s, <3>2, <4>1, <4>2
           DEF Fine, Connected, Enlisted, Backed, Leaving, Deciding, SameFile, Idle
      <4> QED BY <2>s, <4>2, <4>3, StillFine DEF Fine
    <3> QED BY <3>1, <3>2
  <2>7. CASE PollRead \/ PollLook \/ UNCHANGED vars
    <3>1. UNCHANGED <<agent, file, backup, stash, was, marks, mem, saved, op>>
      BY <2>7 DEF PollRead, PollLook, vars, disk, hist
    <3>2. SameFile(f)
      BY <3>1 DEF SameFile, Sound
    <3> QED BY <2>s, <3>1, <3>2, StillFine
  <2>8. CASE PollMark
    <3>1. /\ op = Idle /\ op' = op /\ UNCHANGED <<agent, file, backup, stash, was>>
          /\ saved' \in {mem'.entry, saved}
          /\ mem' = mem \/ mem'.entry = [mem.entry EXCEPT !.status = "drifted"]
          /\ Again(IF On(mem.entry) THEN {} ELSE File)
      <4>1. /\ op = Idle /\ op' = op /\ UNCHANGED <<agent, file, backup, stash, was>>
            /\ saved' \in {mem'.entry, saved}
            /\ Again(IF On(mem.entry) THEN {} ELSE File)
        BY <2>8 DEF PollMark, Free, On
      <4>2. mem' = mem \/ mem' = [mem EXCEPT !.entry.status = "drifted"]
        BY <2>8 DEF PollMark
      <4> QED BY <2>0, <4>1, <4>2 DEF MemOK
    <3>2. CASE ~On(mem.entry)
      BY <2>s, <3>1, <3>2 DEF Again, Fine, Sound
    <3>3. CASE On(mem.entry)
      <4>1. marks'[f] = marks[f]
        BY <2>s, <3>1, <3>3 DEF Again
      <4>2. SameFile(f)
        BY <3>1, <4>1 DEF SameFile, Sound
      <4>3. Sound(f)' => Backed(f)
        BY <2>s, <3>1, <3>3, <4>2 DEF Fine, Connected, Enlisted, Leaving, Deciding, SameFile, Idle
      <4>4. Sound(f)' => Enlisted(f)'
        BY <3>1, <4>3 DEF Enlisted, Backed
      <4> QED BY <2>s, <3>1, <4>2, <4>4, StillFine DEF Fine
    <3> QED BY <3>2, <3>3
  <2>9. CASE TakeBackup
    <3> DEFINE g == spec.files[op.i]
    <3>1. /\ op.at = "take" /\ op'.at \in {"take", "read"}
          /\ UNCHANGED <<agent, file, stash, mem, saved>>
      BY <2>0, <2>9 DEF TakeBackup, Advance, Goto, OpOK
    <3>2. CASE f # g \/ UNCHANGED <<backup, was, marks, mine>>
      <4>1. SameFile(f)
        BY <2>0, <2>9, <2>s, <2>m, <3>1, <3>2 DEF TakeBackup, SameFile, Sound, BackupOK
      <4>2. Sound(f)' => Enlisted(f)'
        BY <2>s, <3>1, <4>1 DEF Fine, Connected, Enlisted, Backed, Leaving, Deciding, SameFile
      <4> QED BY <2>s, <3>1, <4>1, <4>2, StillConnected
              DEF Fine, Planned, Leaving, Deciding, Middle
    <3>3. CASE f = g /\ ~UNCHANGED <<backup, was, marks, mine>>
      <4>1. /\ backup' = [backup EXCEPT ![f] = IF file[f].there THEN Bytes(file[f]) ELSE Marker]
            /\ was' = [was EXCEPT ![f] = file[f]]
            /\ marks' = [marks EXCEPT ![f] = {"unstashed"}]
            /\ ~Backed(f)
        BY <2>9, <3>3 DEF TakeBackup, Backed
      <4>2. backup'[f] # NoBackup /\ was'[f] = file[f] /\ marks'[f] = {"unstashed"}
        BY <2>0, <2>s, <2>m, <4>1 DEF BackupOK, Bytes, Marker, NoBackup
      <4>3. stash[f] = NoValues
        BY <2>0, <2>s, <4>1 DEF StashIsDropped, AllBacked, MyFiles, NoAudit
      <4>4. Kept(spec, f, file[f], file[f])
        BY DEF Kept, KeptValue
      <4>5. Resting(f)' /\ Fresh(f)' /\ Enlisted(f)'
        BY <2>a, <3>1, <4>2, <4>3, <4>4 DEF Resting, Fresh, Enlisted, Backed
      <4> QED BY <3>1, <4>5 DEF Fine, Connected, Planned, Leaving, Deciding
    <3> QED BY <3>2, <3>3
  <2>10. CASE ReadFiles
    <3>1. /\ op.at = "read" /\ op'.at = "write" /\ op'.docs = file
          /\ op'.plan = Recorded(spec, stash, file)
          /\ UNCHANGED <<agent, file, backup, stash, was, mem, saved>>
          /\ marks' = [g \in File |-> marks[g] \cup (IF StashesOurs(g) THEN {"resynced"} ELSE {})]
      BY <2>0, <2>10 DEF ReadFiles, OpOK, disk
    <3>2. /\ Sound(f)' => Sound(f) /\ ~StashesOurs(f)
          /\ "unstashed" \in marks'[f] <=> "unstashed" \in marks[f]
      BY <2>s, <3>1 DEF Sound
    <3>3. SameFile(f)
      BY <3>1, <3>2 DEF SameFile
    <3> SUFFICES ASSUME Sound(f)' PROVE Fine(f)'
      BY DEF Fine
    <3>4. Connected(f) /\ Backed(f)
      BY <2>b, <2>s, <3>1, <3>2 DEF Fine, Leaving, Deciding
    <3>5. Kept(spec, f, file[f], was[f])
      BY <3>4 DEF Connected, Resting
    <3>6. Holds(spec, f, Recorded(spec, stash, file)[f], was[f])
      <4>1. CASE f \in spec.whole
        BY <2>0, <4>1, AgentsAssumption, WholeOwns DEF Holds, spec
      <4>2. CASE f \notin spec.whole
        <5>1. CASE "unstashed" \in marks[f]
          <6>1. file[f] = was[f] /\ stash[f] = NoValues
            BY <3>1, <3>4, <5>1 DEF Connected, Resting, Fresh, Middle
          <6> QED BY <2>s, <3>5, <4>2, <6>1, KeptRecorded
        <5>2. CASE "unstashed" \notin marks[f]
          <6>1. Holds(spec, f, stash[f], was[f])
            BY <3>4, <5>2 DEF Connected, Resting
          <6>2. \A r \in StashedRoles : <<f, r>> \in spec.owns /\ stash[f][r] = None /\ r # "list" =>
                                          file[f].vals[r] \notin GatewayValues
            BY <3>2 DEF StashesOurs
          <6> QED BY <2>s, <3>5, <4>2, <6>1, <6>2, KeptRecorded
        <5> QED BY <5>1, <5>2
      <4> QED BY <4>1, <4>2
    <3>7. Planned(f)'
      BY <2>a, <3>1, <3>5, <3>6 DEF Planned
    <3>8. Enlisted(f)'
      BY <3>1, <3>4 DEF Enlisted, Backed
    <3> QED BY <2>s, <3>1, <3>3, <3>7, <3>8, StillConnected DEF Leaving, Deciding, Middle
  <2>11. CASE WriteFile
    <3> DEFINE g == spec.writes[op.i]
               w == Wired(spec, g, op.docs[g], op.key, catalog)
    <3>1. /\ op.at = "write" /\ op'.at \in {"write", "stash"}
          /\ op'.docs = op.docs /\ op'.plan = op.plan
          /\ UNCHANGED <<agent, backup, stash, was, mem, saved>>
          /\ \/ file' = file /\ marks' = marks
             \/ file' = [file EXCEPT ![g] = w] /\ marks' = [marks EXCEPT ![g] = @ \ {"loose"}]
      BY <2>0, <2>11 DEF WriteFile, Advance, Goto, OpOK
    <3>2. op.key \in 1..MaxKeys /\ catalog \in 1..MaxCats
      BY <2>0, <3>1, BoundsAssumption DEF OpOK, KeyHeld, Writing, MemOK
    <3> HIDE DEF g, w
    <3>3. /\ Sound(f)' => Sound(f)
          /\ "unstashed" \in marks'[f] <=> "unstashed" \in marks[f]
          /\ file'[f] = file[f] \/ (f = g /\ file'[f] = w)
      BY <2>0, <2>s, <2>m, <3>1 DEF FileOK, Sound
    <3> SUFFICES ASSUME Sound(f)' PROVE Fine(f)'
      BY DEF Fine
    <3>4. Connected(f) /\ Backed(f)
      BY <2>b, <2>s, <3>1, <3>3 DEF Fine, Leaving, Deciding
    <3>5. f = g => Kept(spec, f, w, was[f])
      BY <3>1, <3>2, <3>4, KeptWired DEF Connected, Planned, w
    <3>6. Kept(spec, f, file'[f], was[f])
      BY <3>3, <3>4, <3>5 DEF Connected, Resting
    <3>7. Resting(f)'
      BY <2>a, <3>1, <3>3, <3>4, <3>6 DEF Connected, Resting, Backed
    <3>8. Enlisted(f)' /\ Fresh(f)' /\ Planned(f)'
      BY <2>a, <3>1, <3>4 DEF Connected, Enlisted, Fresh, Planned, Backed, Middle
    <3> QED BY <3>1, <3>7, <3>8 DEF Fine, Connected, Leaving, Deciding
  <2>12. CASE SaveStash
    <3>1. /\ op.at = "stash" /\ op'.at = "audit" /\ stash' = op.plan
          /\ UNCHANGED <<agent, file, backup, was, mem, saved>>
          /\ marks'[f] = marks[f] \ {"unstashed"}
      BY <2>0, <2>12, <2>s DEF SaveStash, Goto, OpOK
    <3> SUFFICES ASSUME Sound(f)' PROVE Fine(f)'
      BY DEF Fine
    <3>2. Connected(f) /\ Backed(f)
      BY <2>b, <2>s, <3>1 DEF Fine, Sound, Leaving, Deciding
    <3>3. Resting(f)'
      BY <2>a, <3>1, <3>2 DEF Connected, Planned, Resting, Backed
    <3>4. Enlisted(f)' /\ Fresh(f)' /\ Planned(f)'
      BY <3>1, <3>2 DEF Enlisted, Fresh, Planned, Backed
    <3> QED BY <3>1, <3>3, <3>4 DEF Fine, Connected, Leaving, Deciding
  <2>13. CASE UndoFile \/ SkipUndo
    <3>1. /\ op.at = "undo" /\ UNCHANGED <<agent, backup, stash, was, mem, saved>>
      BY <2>13 DEF UndoFile, SkipUndo, disk
    <3>2. /\ Sound(f)' => Sound(f)
          /\ "unstashed" \in marks'[f] <=> "unstashed" \in marks[f]
          /\ file'[f] = file[f] \/ file'[f] = was[f]
      <4>1. CASE UndoFile
        BY <2>0, <2>b, <2>s, <2>m, <3>1, <4>1 DEF UndoFile, FileOK, BackupIsWas, Sound
      <4>2. CASE SkipUndo
        BY <2>s, <2>m, <4>2 DEF SkipUndo, Hurt, Sound, disk
      <4> QED BY <2>13, <4>1, <4>2
    <3> SUFFICES ASSUME Sound(f)' PROVE Fine(f)'
      BY DEF Fine
    <3>3. Connected(f) /\ Backed(f)
      BY <2>b, <2>s, <3>1, <3>2 DEF Fine, Leaving, Deciding
    <3>4. Kept(spec, f, was[f], was[f])
      BY DEF Kept, KeptValue
    <3>5. Resting(f)'
      BY <2>a, <3>1, <3>2, <3>3, <3>4 DEF Connected, Resting, Backed
    <3>6. Fresh(f)'
      <4>1. CASE op'.at = "undo"
        BY <4>1 DEF Fresh, Middle
      <4>2. CASE op'.at # "undo"
        <5>1. op.i = Count /\ f \in Before(op.i + 1)
          BY <2>0, <2>13, <2>s, <4>2, UndoSteps, BeforeNext
        <5>2. Restored(f)'
          BY <2>13, <5>1, UndoSteps
        <5> QED BY <5>2 DEF Restored, Sound, Fresh
      <4> QED BY <4>1, <4>2
    <3>7. op'.at \in {"undo", "start"}
      BY <2>13, UndoSteps DEF Idle
    <3>8. Enlisted(f)' /\ Planned(f)'
      BY <3>1, <3>3, <3>7 DEF Enlisted, Planned, Backed
    <3> QED BY <3>5, <3>6, <3>7, <3>8 DEF Fine, Connected, Leaving, Deciding
  <2>14. CASE Disconnect
    <3>1. /\ op = Idle /\ op'.at = "extract" /\ op'.i = 1
          /\ UNCHANGED <<agent, file, backup, stash, was>>
          /\ Again(IF On(mem.entry) THEN Unstashed ELSE File)
      BY <2>14 DEF Disconnect, Free, Enter, Idle, On, disk
    <3> SUFFICES ASSUME Sound(f)' PROVE Fine(f)'
      BY DEF Fine
    <3>2. On(mem.entry) /\ "unstashed" \notin marks[f] /\ marks'[f] = marks[f]
      BY <2>s, <3>1 DEF Again, Sound, Unstashed
    <3>3. Connected(f)
      BY <2>s, <3>1, <3>2 DEF Fine, Sound, Leaving, Deciding, Idle
    <3>4. Backed(f)
      BY <3>2, <3>3 DEF Connected, Enlisted
    <3>5. Kept(spec, f, file[f], was[f]) /\ Holds(spec, f, stash[f], was[f])
      BY <3>2, <3>3, <3>4 DEF Connected, Resting
    <3>6. f \notin Through(op.i)'
      BY <3>1 DEF Through
    <3> QED BY <2>a, <3>1, <3>2, <3>4, <3>5, <3>6 DEF Fine, Going, Backed, Leaving
  <2>15. CASE ExtractFile
    <3> DEFINE g == spec.writes[op.i]
    <3>0. op.at = "extract" /\ Advance("drop")
      BY <2>15 DEF ExtractFile
    <3>1. /\ op.at = "extract"
          /\ \/ op.i < Count /\ op'.at = "extract" /\ op'.i = op.i + 1
             \/ op.i = Count /\ op'.at = "drop"
          /\ UNCHANGED <<agent, backup, stash, was, marks>>
          /\ file' = [file EXCEPT ![g] = Extracted(spec, g, file[g], stash[g])]
      <4>1. \/ op.i < Count /\ op'.at = "extract" /\ op'.i = op.i + 1
            \/ op.i = Count /\ op'.at = "drop"
        BY <2>0, <2>s, <3>0, AdvanceTo
      <4> QED BY <2>15, <3>0, <4>1 DEF ExtractFile, hist
    <3> SUFFICES ASSUME Sound(f)' PROVE Going(f)'
      BY <3>1 DEF Fine, Leaving
    <3>2. Going(f)
      BY <2>s, <3>1 DEF Fine, Sound, Leaving
    <3>3. Backed(f) /\ Holds(spec, f, stash[f], was[f]) /\ "unstashed" \notin marks[f]
      BY <3>1, <3>2 DEF Going
    <3>4. Through(op.i + 1) = Through(op.i) \cup {g} /\ g \notin Through(op.i)
      BY <2>0, <2>s, ThroughNext
    <3>5. IF f \in Through(op.i + 1) THEN Level(file'[f], was[f])
                                     ELSE Kept(spec, f, file'[f], was[f])
      <4>1. CASE f # g
        <5>1. file'[f] = file[f]
          BY <2>0, <2>s, <3>1, <4>1 DEF FileOK
        <5> QED BY <3>1, <3>2, <3>4, <4>1, <5>1 DEF Going
      <4>2. CASE f = g
        <5>1. file'[f] = Extracted(spec, f, file[f], stash[f]) /\ WellFormed(file[f])
          BY <2>0, <2>s, <3>1, <4>2 DEF FileOK
        <5>2. Kept(spec, f, file[f], was[f])
          BY <3>1, <3>2, <3>4, <4>2 DEF Going
        <5>3. /\ WellFormed(was[f]) /\ Clean(was[f].vals)
              /\ f \in spec.whole => was[f] = AbsentDoc
              /\ <<f, "table">> \in spec.owns => was[f].vals["table"] = None
          BY <2>s, <3>3, WasFacts
        <5>4. Level(Extracted(spec, f, file[f], stash[f]), was[f])
          BY <3>3, <5>1, <5>2, <5>3, KeptExtracted
        <5>5. Level(file'[f], was[f])
          BY <5>1, <5>4
        <5> QED BY <3>4, <4>2, <5>5
      <4> QED BY <4>1, <4>2
    <3>6. CASE op.i < Count /\ op'.at = "extract" /\ op'.i = op.i + 1
      <4>1. Through(op.i)' = Through(op.i + 1)
        BY <2>a, <3>1, <3>6 DEF Through
      <4> QED BY <2>a, <3>1, <3>3, <3>5, <3>6, <4>1 DEF Going, Backed
    <3>7. CASE op.i = Count /\ op'.at = "drop"
      <4>1. f \in Through(op.i + 1)
        BY <2>0, <2>s, <3>7, ThroughNext
      <4> QED BY <3>1, <3>3, <3>5, <3>7, <4>1 DEF Going, Backed
    <3> QED BY <3>1, <3>6, <3>7
  <2>16. CASE DropStash
    <3>1. /\ op.at = "drop" /\ op'.at = "decide" /\ op'.i = 1
          /\ UNCHANGED <<agent, file, backup, was, marks>>
      BY <2>0, <2>16 DEF DropStash, Goto, OpOK, hist
    <3> SUFFICES ASSUME Sound(f)' PROVE Going(f)'
      BY <3>1 DEF Fine, Leaving, Deciding
    <3>2. Going(f)
      BY <2>s, <3>1 DEF Fine, Sound, Leaving
    <3>3. f \notin Before(op.i)'
      BY <3>1 DEF Before
    <3> QED BY <3>1, <3>2, <3>3 DEF Going, Backed
  <2>17. CASE DecideFile
    <3> DEFINE g == spec.files[op.i]
    <3>0. op.at = "decide" /\ Advance("forget")
      BY <2>17 DEF DecideFile
    <3>1. /\ op.at = "decide"
          /\ \/ op.i < Count /\ op'.at = "decide" /\ op'.i = op.i + 1
             \/ op.i = Count /\ op'.at = "forget"
          /\ UNCHANGED <<agent, was, marks>>
      <4>1. \/ op.i < Count /\ op'.at = "decide" /\ op'.i = op.i + 1
            \/ op.i = Count /\ op'.at = "forget"
        BY <2>0, <2>s, <3>0, AdvanceTo
      <4> QED BY <2>17, <3>0, <4>1 DEF DecideFile, hist
    <3> SUFFICES ASSUME Sound(f)' PROVE Going(f)'
      BY <3>1 DEF Fine, Leaving, Deciding
    <3>2. Going(f)
      BY <2>s, <3>1 DEF Fine, Sound, Leaving, Deciding
    <3>3. Before(op.i + 1) = Before(op.i) \cup {g} /\ g \notin Before(op.i)
      BY <2>0, <2>s, BeforeNext
    <3>4. IF f \in Before(op.i + 1) THEN file'[f] = was[f] /\ backup'[f] = NoBackup
                                    ELSE backup'[f] # NoBackup /\ Level(file'[f], was[f])
      <4>1. CASE f # g
        <5>1. file'[f] = file[f] /\ backup'[f] = backup[f]
          BY <2>0, <2>17, <2>s, <4>1 DEF DecideFile, FileOK, BackupOK
        <5> QED BY <3>1, <3>2, <3>3, <4>1, <5>1 DEF Going, GivenBack, Backed
      <4>2. CASE f = g
        <5>1. Backed(f) /\ Level(file[f], was[f])
          BY <3>1, <3>2, <3>3, <4>2 DEF Going
        <5>2. /\ backup[f].doc = was[f] /\ WellFormed(was[f])
              /\ backup[f].kind = IF was[f].there THEN "bytes" ELSE "marker"
          BY <2>s, <5>1, WasFacts
        <5>3. \/ /\ backup[f].kind = "bytes" /\ file[f].there
                 /\ semantically_equal(file[f], backup[f].doc)
              \/ /\ backup[f].kind = "marker"
                 /\ file[f].there => is_empty_document(file[f])
          <6>1. CASE was[f].there
            BY <5>1, <5>2, <6>1 DEF Level, semantically_equal
          <6>2. CASE ~was[f].there
            <7>1. was[f].rest = 0 /\ was[f].vals = NoValues
              BY <5>2, <6>2 DEF WellFormed, AbsentDoc
            <7>2. backup[f].kind = "marker"
              BY <5>2, <6>2
            <7> QED BY <5>1, <7>1, <7>2 DEF Level, is_empty_document
          <6> QED BY <6>1, <6>2
        <5>4. /\ file' = [file EXCEPT ![f] = backup[f].doc]
              /\ backup' = [backup EXCEPT ![f] = NoBackup]
          BY <2>17, <4>2, <5>3 DEF DecideFile
        <5>5. file'[f] = was[f] /\ backup'[f] = NoBackup
          BY <2>0, <2>s, <5>2, <5>4 DEF FileOK, BackupOK
        <5> QED BY <3>3, <4>2, <5>5
      <4> QED BY <4>1, <4>2
    <3>5. CASE op.i < Count /\ op'.at = "decide" /\ op'.i = op.i + 1
      <4>1. Before(op.i)' = Before(op.i + 1)
        BY <2>a, <3>1, <3>5 DEF Before
      <4> QED BY <3>1, <3>2, <3>4, <3>5, <4>1 DEF Going, GivenBack, Backed
    <3>6. CASE op.i = Count /\ op'.at = "forget"
      <4>1. f \in Before(op.i + 1)
        BY <2>0, <2>s, <3>6, BeforeNext
      <4> QED BY <3>1, <3>2, <3>4, <3>6, <4>1 DEF Going, GivenBack, Backed
    <3> QED BY <3>1, <3>5, <3>6
  <2>18. CASE ForgetAudit
    <3>1. op.at = "forget" /\ op'.at = "finish" /\ UNCHANGED <<agent, file, backup, was, marks>>
      BY <2>0, <2>18 DEF ForgetAudit, Goto, OpOK, hist
    <3>2. Sound(f)' => Going(f)
      BY <2>s, <3>1 DEF Fine, Sound, Leaving, Deciding
    <3> QED BY <3>1, <3>2 DEF Fine, Going, GivenBack, Backed, Leaving, Deciding
  <2>19. CASE Finish
    <3>1. /\ op.at = "finish" /\ op' = Idle /\ UNCHANGED <<agent, file, backup, was, marks>>
          /\ mem' = [mem EXCEPT !.entry.status = "disconnected"] /\ saved' = mem'.entry
      BY <2>19 DEF Finish, hist
    <3>2. ~On(mem'.entry) /\ ~On(saved')
      BY <2>0, <3>1 DEF MemOK, Entries, On
    <3>3. Sound(f)' => ~Backed(f)'
      BY <2>s, <3>1 DEF Fine, Sound, Leaving, Deciding, Going, GivenBack, Backed
    <3> QED BY <3>1, <3>2, <3>3
            DEF Fine, Connected, Enlisted, Resting, Fresh, Planned, Leaving, Deciding, Idle
  <2>20. CASE Edit
    <3>1. UNCHANGED <<agent, op, mem, saved, backup, stash, was>>
      BY <2>20 DEF Edit
    <3>2. PICK g \in MyFiles : \E d :
            /\ file' = [file EXCEPT ![g] = d]
            /\ marks' = [marks EXCEPT ![g] =
                 @ \cup {"edited", "loose"} \cup (IF op.at = "write" THEN {"raced"} ELSE {})]
      BY <2>20 DEF Edit, MyFiles
    <3>3. CASE f = g
      BY <2>s, <2>m, <3>2, <3>3 DEF Fine, Sound
    <3>4. CASE f # g
      <4>1. SameFile(f)
        BY <2>0, <2>s, <2>m, <3>1, <3>2, <3>4 DEF FileOK, SameFile, Sound
      <4> QED BY <2>s, <3>1, <4>1, StillFine
    <3> QED BY <3>3, <3>4
  <2> QED BY <2>1, <2>2, <2>3, <2>4, <2>5, <2>6, <2>7, <2>8, <2>9, <2>10, <2>11, <2>12, <2>13,
             <2>14, <2>15, <2>16, <2>17, <2>18, <2>19, <2>20 DEF Next
<1> QED BY <1>1, <1>2, TypeInvariant, BackupInvariant, BackInvariant, UndoInvariant, PTL DEF Spec

\* A disconnect that completes gives a file back byte for byte and lets its
\* backup go, however many connects, syncs, rotations, failures and restarts
\* came before: unless the user changed the file, or the registry had nothing
\* of the user's stashed for it (no connect has come that far since its backup,
\* or a key the user did not have was stashed with our own value).
THEOREM DisconnectAlwaysGivesBack == Spec => DisconnectGivesBack
<1>1. TypeInv /\ BackInv /\ GiveInv =>
        [Finish => \A f \in File : marks[f] = {} => file[f] = was[f] /\ backup[f] = NoBackup]_vars
  <2> SUFFICES ASSUME TypeInv, BackInv, GiveInv, Finish, NEW f \in File, marks[f] = {}
               PROVE  file[f] = was[f] /\ backup[f] = NoBackup
    OBVIOUS
  <2>1. CASE f \in MyFiles
    BY <2>1 DEF GiveInv, Fine, Sound, Going, GivenBack, Backed, Finish, Leaving, Deciding
  <2>2. CASE f \notin MyFiles
    BY <2>2 DEF BackInv, OthersAlone, GivenBack, Backed
  <2> QED BY <2>1, <2>2
<1> QED BY <1>1, TypeInvariant, BackInvariant, GiveInvariant, PTL DEF Spec, DisconnectGivesBack
================================================================================
