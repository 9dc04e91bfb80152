----------------------------- MODULE AgentRegistry -----------------------------
(***************************************************************************)
(* The agent registry of the server (agents_registry.rs) over the wiring   *)
(* of one agent (crates/agent-wiring): connect, sync, rotate_key and       *)
(* disconnect as the file operations they make, each of which may fail;    *)
(* the poll that marks drift; the user, who edits the agent's files at any *)
(* time; and restarts, which keep only what is on disk.                    *)
(***************************************************************************)
EXTENDS AgentSpecs

CONSTANTS
  AgentsUsed,  \* the agents a behaviour may be about
  MaxCalls,    \* calls of connect, sync, rotate_key, disconnect and list
  MaxUpsets    \* failed file operations (but for the undo's), restarts and edits

ASSUME ValuesAssumption ==
  /\ None \notin UserValues \cup GatewayValues
  /\ UserValues \cap GatewayValues = {}
ASSUME BoundsAssumption ==
  /\ MaxKeys \in Nat /\ MaxCats \in Nat \ {0} /\ MaxRest \in Nat \ {0}
  /\ MaxCalls \in Nat /\ MaxUpsets \in Nat
ASSUME AgentsAssumption == AgentsUsed \subseteq Agents

VARIABLES
  agent,    \* the agent this is about
  file,     \* its configuration files
  backup,   \* <file>.before-any-converter, or the .absent marker
  stash,    \* agent_stash.json: the values before connect
  audit,    \* agent_applied.json: the values last written
  key,      \* the agent's gateway key in the secret store, 0 for none
  saved,    \* the agent's entry in agent_state.json
  mem,      \* the key and the entry of the registry in memory
  catalog,  \* the catalog of this process
  op,       \* the call that holds the registry's mutex
  poll,     \* list, which takes the mutex twice
  spent,    \* calls, upsets and keys so far
  was,      \* history: the file when its backup was taken
  marks,    \* history: what has happened to a file since then
  mine,     \* history: the rest of a file as the user last left it
  torn      \* history: a failure since the last complete call

disk == <<file, backup, stash, audit, key, saved>>
hist == <<was, marks, mine, torn>>
vars == <<agent, disk, mem, catalog, op, poll, spent, hist>>

NoBackup == [kind |-> "none", doc |-> AbsentDoc]
Marker == [kind |-> "marker", doc |-> AbsentDoc]
Bytes(doc) == [kind |-> "bytes", doc |-> doc]

NoEntry == [status |-> "none", keyed |-> FALSE, cat |-> 0]
Entries == [status : {"none", "connected", "drifted", "disconnected"},
            keyed : BOOLEAN, cat : 0..MaxCats]

\* at: the next file operation of the call; i: the file it is about; docs and
\* plan: what connect has read and computed in memory.
NoDocs == [f \in File |-> AbsentDoc]
Idle == [call |-> "idle", at |-> "start", i |-> 1, key |-> 0,
         docs |-> NoDocs, plan |-> NoAudit]
Steps == {"start", "take", "read", "write", "stash", "undo", "audit", "commit",
          "extract", "drop", "decide", "forget", "finish"}

\* unstashed: a backup was taken and no stash saved since; again: disconnect
\* finds nothing stashed; resynced: our own value is stashed as the user's.
Marks == {"edited", "loose", "gone", "raced", "resynced", "undone", "again", "hurt",
          "unstashed"}

spec == spec_for[agent]
Count == Len(spec.files)

\* A file is absent, with nothing in it, or it is there.
WellFormed(doc) == doc \in Docs /\ (~doc.there => doc = AbsentDoc)

TypeOK ==
  /\ agent \in AgentsUsed
  /\ file \in [File -> Docs] /\ \A f \in File : WellFormed(file[f])
  /\ backup \in [File -> [kind : {"none", "marker", "bytes"}, doc : Docs]]
  /\ \A f \in File : WellFormed(backup[f].doc)
  /\ stash \in [File -> [Roles -> Values]]
  /\ audit \in [File -> [Roles -> Values]]
  /\ key \in 0..MaxKeys
  /\ saved \in Entries
  /\ mem \in [key : 0..MaxKeys, entry : Entries]
  /\ catalog \in 1..MaxCats
  /\ op \in [call : {"idle", "connect", "sync", "rotate", "disconnect"}, at : Steps,
             i : 1..3, key : 0..MaxKeys, docs : [File -> Docs],
             plan : [File -> [Roles -> Values]]]
  /\ op.i <= Count
  /\ poll \in [at : {"idle", "look", "mark"}, audit : [File -> [Roles -> Values]]]
  /\ spent \in [calls : 0..MaxCalls, upsets : 0..MaxUpsets, keys : 0..MaxKeys]
  /\ was \in [File -> Docs]
  /\ marks \in [File -> SUBSET Marks]
  /\ mine \in [File -> 0..MaxRest]
  /\ torn \in BOOLEAN

\* What a user's file can be before the first connect: absent, or with any of
\* the keys we will own set.  The catalog file has our name and is not there;
\* our provider table is not in a user's file.
UserDocs(f) ==
  {AbsentDoc} \cup
    (IF f \in spec.whole \/ f \notin {spec.files[i] : i \in 1..Count} THEN {}
     ELSE {[there |-> TRUE, own |-> TRUE, rest |-> 1, vals |-> v] :
             v \in {w \in [Roles -> UserValues \cup {None}] : \A r \in Roles :
                      w[r] # None => <<f, r>> \in spec.owns /\ r # "table"}})

Init ==
  /\ agent \in AgentsUsed
  /\ file \in {d \in [File -> UNION {UserDocs(f) : f \in File}] :
                 \A f \in File : d[f] \in UserDocs(f)}
  /\ backup = [f \in File |-> NoBackup]
  /\ stash = NoAudit /\ audit = NoAudit
  /\ key = 0 /\ saved = NoEntry
  /\ mem = [key |-> 0, entry |-> NoEntry]
  /\ catalog = 1
  /\ op = Idle
  /\ poll = [at |-> "idle", audit |-> NoAudit]
  /\ spent = [calls |-> 0, upsets |-> 0, keys |-> 0]
  /\ was = file
  /\ marks = [f \in File |-> {}]
  /\ mine = [f \in File |-> file[f].rest]
  /\ torn = FALSE

-----------------------------------------------------------------------------
\* Calls.  Each holds the mutex from its first step to its last.

Free == op = Idle

Call == /\ spent.calls < MaxCalls
        /\ spent' = [spent EXCEPT !.calls = @ + 1]

Goto(at) == op' = [op EXCEPT !.at = at, !.i = 1]

\* The loop over the files: the next one, or on to what follows the loop.
Advance(at) ==
  IF op.i < Count THEN op' = [op EXCEPT !.i = @ + 1] ELSE Goto(at)

Enter(call, k, at) == op' = [Idle EXCEPT !.call = call, !.key = k, !.at = at]

\* generate_key and put_key: the key is in the store before any file has it.
NewKey(call) ==
  /\ spent.calls < MaxCalls /\ spent.keys < MaxKeys
  /\ spent' = [spent EXCEPT !.calls = @ + 1, !.keys = @ + 1]
  /\ key' = spent.keys + 1
  /\ Enter(call, key', "take")

Connect ==
  /\ Free
  /\ \/ mem.key # 0 /\ Call /\ Enter("connect", mem.key, "take") /\ UNCHANGED key
     \/ mem.key = 0 /\ NewKey("connect")
  /\ UNCHANGED <<agent, file, backup, stash, audit, saved, mem, catalog, poll, hist>>

\* Asked for by the user, or spawned by a request that found the digest stale.
Sync ==
  /\ Free
  /\ mem.entry.status \in {"connected", "drifted"} /\ mem.key # 0
  /\ Call /\ Enter("sync", mem.key, "take")
  /\ UNCHANGED <<agent, disk, mem, catalog, poll, hist>>

Rotate ==
  /\ Free
  /\ mem.entry # NoEntry /\ mem.key # 0
  /\ NewKey("rotate")
  /\ UNCHANGED <<agent, file, backup, stash, audit, saved, mem, catalog, poll, hist>>

\* History: the next disconnect has nothing stashed of these files.
Again(S) == marks' = [f \in File |-> IF f \in S THEN marks[f] \cup {"again"} ELSE marks[f]]
Unstashed == {f \in File : "unstashed" \in marks[f]}

\* disconnect asks for no status.  With nothing stashed it still deletes.
Disconnect ==
  /\ Free
  /\ Call /\ Enter("disconnect", 0, "extract")
  /\ Again(IF mem.entry.status \in {"connected", "drifted"} THEN Unstashed ELSE File)
  /\ UNCHANGED <<agent, disk, mem, catalog, poll, was, mine, torn>>

-----------------------------------------------------------------------------
\* Wiring::connect.

\* Snapshot::take, one file: an existing backup or marker is never replaced.
TakeBackup ==
  /\ op.at = "take"
  /\ LET f == spec.files[op.i] IN
       IF backup[f] # NoBackup THEN UNCHANGED <<backup, was, marks, mine>>
       ELSE /\ backup' = [backup EXCEPT ![f] = IF file[f].there THEN Bytes(file[f]) ELSE Marker]
            /\ was' = [was EXCEPT ![f] = file[f]]
            /\ marks' = [marks EXCEPT ![f] = {"unstashed"}]
            /\ mine' = [mine EXCEPT ![f] = file[f].rest]
  /\ Advance("read")
  /\ UNCHANGED <<agent, file, stash, audit, key, saved, mem, catalog, poll, spent, torn>>

\* Our own value is about to be stashed as if it were the user's.
StashesOurs(f) ==
  \E r \in StashedRoles :
    /\ <<f, r>> \in spec.owns /\ stash[f][r] = None
    /\ file[f].vals[r] \in GatewayValues /\ r # "list"

\* spec.connect reads every file, then transforms them in memory.
ReadFiles ==
  /\ op.at = "read"
  /\ op' = [op EXCEPT !.at = "write", !.docs = file, !.plan = Recorded(spec, stash, file)]
  /\ marks' = [f \in File |-> marks[f] \cup (IF StashesOurs(f) THEN {"resynced"} ELSE {})]
  /\ UNCHANGED <<agent, disk, mem, catalog, poll, spent, was, mine, torn>>

WriteFile ==
  /\ op.at = "write"
  /\ LET f == spec.writes[op.i]
         d == op.docs[f]
     IN  IF Written(spec, f, d)
           THEN /\ file' = [file EXCEPT ![f] = Wired(spec, f, d, op.key, catalog)]
                /\ marks' = [marks EXCEPT ![f] = @ \ {"loose"}]
           ELSE UNCHANGED <<file, marks>>
  /\ Advance("stash")
  /\ UNCHANGED <<agent, backup, stash, audit, key, saved, mem, catalog, poll, spent, was, mine, torn>>

SaveStash ==
  /\ op.at = "stash"
  /\ stash' = op.plan
  /\ marks' = [f \in File |-> marks[f] \ {"unstashed"}]
  /\ Goto("audit")
  /\ UNCHANGED <<agent, file, backup, audit, key, saved, mem, catalog, poll, spent, was, mine, torn>>

\* Applied::record: values that are there now are recorded; one that is not
\* keeps what was recorded for it.
SaveAudit ==
  /\ op.at = "audit"
  /\ LET now == applied_values(spec, file) IN
       /\ audit' = [f \in File |-> [r \in Roles |->
                      IF now[f][r] # None THEN now[f][r] ELSE audit[f][r]]]
       /\ marks' = [f \in File |-> marks[f] \cup
                      (IF \E r \in Roles : now[f][r] = None /\ audit[f][r] # None
                         THEN {"gone"} ELSE {})]
  /\ Goto("commit")
  /\ UNCHANGED <<agent, file, backup, stash, key, saved, mem, catalog, poll, spent, was, mine, torn>>

\* A rotation that leaves the old key in memory.
CommitOldKey ==
  /\ op.at = "commit"
  /\ mem' = [key |-> IF mem.key # 0 THEN mem.key ELSE op.key,
             entry |-> [status |-> "connected", keyed |-> TRUE, cat |-> catalog]]
  /\ saved' = mem'.entry
  /\ torn' = (key # op.key)
  /\ op' = Idle
  /\ UNCHANGED <<agent, file, backup, stash, audit, key, catalog, poll, spent, was, marks, mine>>

\* The registry's memory, then save_state.
Commit ==
  /\ op.at = "commit"
  /\ mem' = [key |-> op.key,
             entry |-> [status |-> "connected", keyed |-> TRUE, cat |-> catalog]]
  /\ saved' = mem'.entry
  /\ torn' = (key # op.key)
  /\ op' = Idle
  /\ UNCHANGED <<agent, file, backup, stash, audit, key, catalog, poll, spent, was, marks, mine>>

\* An undo that leaves the files connect created.
UndoBytesOnly ==
  /\ op.at = "undo"
  /\ LET f == spec.files[op.i] IN
       /\ file' = IF backup[f].kind = "bytes" THEN [file EXCEPT ![f] = backup[f].doc] ELSE file
       /\ marks' = [marks EXCEPT ![f] = IF "edited" \in @ THEN @ \cup {"undone"} ELSE @]
  /\ IF op.i < Count THEN op' = [op EXCEPT !.i = @ + 1] ELSE op' = Idle
  /\ UNCHANGED <<agent, backup, stash, audit, key, saved, mem, catalog, poll, spent, was, mine, torn>>

\* restore_after_failed_connect, one file: its backup, or no file.
UndoFile ==
  /\ op.at = "undo"
  /\ LET f == spec.files[op.i] IN
       /\ file' = [file EXCEPT ![f] = backup[f].doc]
       /\ marks' = [marks EXCEPT ![f] = IF "edited" \in @ THEN @ \cup {"undone"} ELSE @]
  /\ IF op.i < Count THEN op' = [op EXCEPT !.i = @ + 1] ELSE op' = Idle
  /\ UNCHANGED <<agent, backup, stash, audit, key, saved, mem, catalog, poll, spent, was, mine, torn>>

-----------------------------------------------------------------------------
\* Wiring::disconnect.

ExtractFile ==
  /\ op.at = "extract"
  /\ LET f == spec.writes[op.i] IN
       file' = [file EXCEPT ![f] = Extracted(spec, f, @, stash[f])]
  /\ Advance("drop")
  /\ UNCHANGED <<agent, backup, stash, audit, key, saved, mem, catalog, poll, spent, hist>>

DropStash ==
  /\ op.at = "drop"
  /\ stash' = NoAudit
  /\ Goto("decide")
  /\ UNCHANGED <<agent, file, backup, audit, key, saved, mem, catalog, poll, spent, hist>>

\* A decision that brings the backup back over whatever is there.
DecideForBackup ==
  /\ op.at = "decide"
  /\ LET f == spec.files[op.i] IN
       IF backup[f] # NoBackup
         THEN /\ file' = [file EXCEPT ![f] = backup[f].doc]
              /\ backup' = [backup EXCEPT ![f] = NoBackup]
         ELSE UNCHANGED <<file, backup>>
  /\ Advance("forget")
  /\ UNCHANGED <<agent, stash, audit, key, saved, mem, catalog, poll, spent, hist>>

\* Bring the backup's bytes back, and let it go; or keep both.
DecideFile ==
  /\ op.at = "decide"
  /\ LET f == spec.files[op.i]
         back == \/ /\ backup[f].kind = "bytes" /\ file[f].there
                    /\ semantically_equal(file[f], backup[f].doc)
                 \/ /\ backup[f].kind = "marker"
                    /\ file[f].there => is_empty_document(file[f])
     IN  IF back
           THEN /\ file' = [file EXCEPT ![f] = backup[f].doc]
                /\ backup' = [backup EXCEPT ![f] = NoBackup]
           ELSE UNCHANGED <<file, backup>>
  /\ Advance("forget")
  /\ UNCHANGED <<agent, stash, audit, key, saved, mem, catalog, poll, spent, hist>>

ForgetAudit ==
  /\ op.at = "forget"
  /\ audit' = NoAudit
  /\ Goto("finish")
  /\ UNCHANGED <<agent, file, backup, stash, key, saved, mem, catalog, poll, spent, hist>>

Finish ==
  /\ op.at = "finish"
  /\ mem' = [mem EXCEPT !.entry.status = "disconnected"]
  /\ saved' = mem'.entry
  /\ op' = Idle
  /\ UNCHANGED <<agent, file, backup, stash, audit, key, catalog, poll, spent, hist>>

-----------------------------------------------------------------------------
\* What goes wrong, and what others do.

Upset == /\ spent.upsets < MaxUpsets
         /\ spent' = [spent EXCEPT !.upsets = @ + 1]

Hurt(S) == marks' = [f \in File |-> IF f \in S THEN marks[f] \cup {"hurt"} ELSE marks[f]]

\* Wiring's error before the spec runs, after it, or anywhere in disconnect:
\* the call returns and what it has done so far stays.
GiveUp ==
  /\ op.at \in {"take", "audit", "extract", "drop", "decide", "forget"}
  /\ Upset
  /\ op' = Idle
  /\ IF op.at = "take" THEN UNCHANGED marks ELSE Hurt(File)
  /\ torn' = TRUE
  /\ UNCHANGED <<agent, disk, mem, catalog, poll, was, mine>>

\* An error of spec.connect itself, the refusal of an apiKeyHelper included.
FailConnect ==
  /\ op.at \in {"read", "write", "stash"}
  /\ Upset
  /\ Goto("undo")
  /\ torn' = TRUE
  /\ UNCHANGED <<agent, disk, mem, catalog, poll, was, marks, mine>>

\* Best effort: a file that cannot be restored is left as it is.
SkipUndo ==
  /\ op.at = "undo"
  /\ file[spec.files[op.i]] # backup[spec.files[op.i]].doc
  /\ IF op.i < Count THEN op' = [op EXCEPT !.i = @ + 1] ELSE op' = Idle
  /\ Hurt({spec.files[op.i]})
  /\ UNCHANGED <<agent, disk, mem, catalog, poll, spent, was, mine, torn>>

\* save_state fails after memory has changed.
SaveStateFails ==
  /\ op.at \in {"commit", "finish"}
  /\ Upset
  /\ mem' = IF op.at = "commit"
              THEN [key |-> op.key,
                    entry |-> [status |-> "connected", keyed |-> TRUE, cat |-> catalog]]
              ELSE [mem EXCEPT !.entry.status = "disconnected"]
  /\ op' = Idle
  /\ torn' = TRUE
  /\ IF op.at = "finish" THEN Hurt(File) ELSE UNCHANGED marks
  /\ UNCHANGED <<agent, disk, catalog, poll, was, mine>>

\* The process ends at any point, a later one starts, with this or another
\* configuration: AgentRegistry::new, load_state and load_keys.
Restart ==
  /\ Upset
  /\ mem' = [key |-> IF saved.keyed THEN key ELSE 0, entry |-> saved]
  /\ \E c \in catalog..MaxCats : catalog' = c
  /\ op' = Idle
  /\ poll' = [at |-> "idle", audit |-> NoAudit]
  /\ torn' = (torn \/ op # Idle)
  /\ IF op = Idle THEN UNCHANGED marks ELSE Hurt(File)
  /\ UNCHANGED <<agent, disk, was, mine>>

\* list: the audit is read outside the mutex, drift is decided under it.
PollRead ==
  /\ poll.at = "idle"
  /\ Call
  /\ poll' = [at |-> "look", audit |-> audit]
  /\ UNCHANGED <<agent, disk, mem, catalog, op, hist>>

PollLook ==
  /\ poll.at = "look" /\ Free
  /\ poll' = [at |-> IF mem.entry.status = "connected" /\ agent_drifted(spec, poll.audit, file)
                       THEN "mark" ELSE "idle",
              audit |-> NoAudit]
  /\ UNCHANGED <<agent, disk, mem, catalog, op, spent, hist>>

\* The mutex again: the entry is marked whatever it has become; a failed save
\* is only logged.
PollMark ==
  /\ poll.at = "mark" /\ Free
  /\ poll' = [at |-> "idle", audit |-> NoAudit]
  /\ mem' = IF mem.entry = NoEntry THEN mem ELSE [mem EXCEPT !.entry.status = "drifted"]
  /\ Again(IF mem.entry.status \in {"connected", "drifted"} THEN {} ELSE File)
  /\ \/ saved' = mem'.entry /\ UNCHANGED <<spent, torn>>
     \/ Upset /\ torn' = TRUE /\ UNCHANGED saved
  /\ UNCHANGED <<agent, file, backup, stash, audit, key, catalog, op, was, mine>>

\* The user, or the agent itself, changes a file: the rest of it, one of the
\* keys we own, or all of it.
Edited(f) ==
  {[file[f] EXCEPT !.there = TRUE, !.rest = n] : n \in {file[f].rest + 1} \cap 0..MaxRest}
  \cup {[file[f] EXCEPT !.vals[e[1]] = e[2]] :
           e \in {r \in Roles : file[f].there /\ <<f, r>> \in spec.owns /\ r # "table"}
                   \X (UserValues \cup {None})}
  \cup {AbsentDoc}

Edit ==
  \E f \in {spec.files[i] : i \in 1..Count} :
    /\ f \notin spec.whole
    /\ Upset
    /\ \E d \in Edited(f) \ {file[f]} :
         /\ file' = [file EXCEPT ![f] = d]
         /\ mine' = [mine EXCEPT ![f] = d.rest]
         /\ marks' = [marks EXCEPT ![f] =
              @ \cup {"edited", "loose"} \cup (IF op.at = "write" THEN {"raced"} ELSE {})]
    /\ UNCHANGED <<agent, backup, stash, audit, key, saved, mem, catalog, op, poll, was, torn>>

Next ==
  \/ Connect \/ Sync \/ Rotate \/ Disconnect
  \/ TakeBackup \/ ReadFiles \/ WriteFile \/ SaveStash \/ SaveAudit \/ Commit \/ UndoFile
  \/ ExtractFile \/ DropStash \/ DecideFile \/ ForgetAudit \/ Finish
  \/ GiveUp \/ FailConnect \/ SkipUndo \/ SaveStateFails \/ Restart
  \/ PollRead \/ PollLook \/ PollMark
  \/ Edit

Spec == Init /\ [][Next]_vars

-----------------------------------------------------------------------------
\* Properties.

\* A backup is the user's file: it never holds a value of the gateway, after
\* any sequence of connects, syncs, failures, restarts and edits.
\* (Snapshot::take copies whatever is there when no backup is.)
BackupsAreTheUsers ==
  \A f \in File : Clean(backup[f].doc.vals)

\* A completed disconnect of a connected agent gives every file back byte for
\* byte and lets its backup go, unless the user changed that file, a call failed
\* half way, or no connect since the backup came as far as the stash.  A second
\* connect, sync or rotation in between makes no difference where the keys were
\* the user's.
DisconnectGivesBack ==
  [][Finish => \A f \in File : marks[f] = {} => file[f] = was[f] /\ backup[f] = NoBackup]_vars

\* The rest of a file is what the user last left there: no connect, sync,
\* rotation or disconnect loses an edit, except one made between connect's
\* read and its write, or before a connect that fails and brings back the
\* backup.
EditsSurvive ==
  \A f \in File : marks[f] \cap {"raced", "undone"} = {} => file[f].rest = mine[f]

\* A connect that fails leaves every file as it was when its backup was taken,
\* but for one that could not be restored or that the user has changed.
FailedConnectUndone ==
  [][op.at = "undo" /\ op' = Idle =>
       \A f \in File : marks'[f] \cap {"edited", "hurt"} = {} => file'[f] = was[f]]_vars

\* While an agent is connected its files hold the key the gateway accepts and
\* the catalog its entry records, unless the user changed them or a call
\* failed since.
ConnectedFilesAreCurrent ==
  Free /\ mem.entry.status = "connected" /\ ~torn =>
    \A f \in File, r \in {"set", "table"} :
      <<f, r>> \in spec.owns /\ "loose" \notin marks[f] =>
        file[f].vals[r] = Gateway(mem.key, mem.entry.cat)

\* A poll finds no drift in a connected agent that nobody has edited since its
\* last connect or sync and whose last call did not fail.
NoFalseDrift ==
  Free /\ mem.entry.status = "connected" /\ ~torn
    /\ (\A f \in File : marks[f] \cap {"loose", "gone"} = {})
    => ~agent_drifted(spec, audit, file)

\* What the registry says of a connected agent is so: its files hold what the
\* gateway accepts, and a poll that calls them drifted is right.
ConnectedMeansCurrent == ConnectedFilesAreCurrent /\ NoFalseDrift

\* Nothing of the user's is lost: backups hold only the user's values, and what
\* the user wrote outside our keys stays in the files.
UsersFilesKept == TypeOK /\ BackupsAreTheUsers /\ EditsSurvive
================================================================================
