------------------------ MODULE AdministrationProofs ------------------------
(***************************************************************************)
(* A controller under administration, proved for any number of imports,    *)
(* changes of settings, documents and faults: the file-backed store is the *)
(* store its callers are promised, acknowledged events are kept, archives  *)
(* are left alone, and settings change only as they were asked to.         *)
(***************************************************************************)
EXTENDS Administration, SequenceTheorems, TLAPS

-----------------------------------------------------------------------------
(* What the rest of the controller does to the store. *)

\* Calls as their callers make them: an event, or an operation on a document.
AskedType ==
    [pc : {"asked"}, kind : {"event"}, doc : {None}, old : {None}, new : Values, reply : {None}]
      \cup
    [pc : {"asked"}, kind : {"insert", "update", "updateIf"}, doc : Docs, old : Values \cup {None},
     new : Values, reply : {None}]
      \cup
    [pc : {"asked"}, kind : {"get"}, doc : Docs, old : {None}, new : {None}, reply : {None}]

\* A call is made, or a reply is taken, by a client that is not waiting.
Calls(c) ==
    /\ up = "up" /\ op[c].pc \in {"idle", "done"}
    /\ \E q \in AskedType \cup {Idle} : CallAs(c, q)

Stored ==
    \/ \E c \in Clients : StoreStep(c) \/ FileError(c) \/ Calls(c) \/ (up = "up" /\ Dropped({c}))
    \/ StoreCrash \/ Open \/ OpenFails
    \/ UNCHANGED storeVars

-----------------------------------------------------------------------------
(* The store's invariant. *)

Writes == {"insert", "update", "updateIf"}
Holding == {"write", "rename", "index", "line", "sync"}
Replies == Values \cup {None, "ok", "io", "duplicate", "notFound", "conflict"}

OpType ==
    [pc : {"idle", "asked", "done"} \cup Holding, kind : Writes \cup {"get", "event"},
     doc : Docs \cup {None}, old : Values \cup {None}, new : Values \cup {None}, reply : Replies]

\* A call is what its stage takes it for.
Formed(q) ==
    /\ q.pc = "idle" => q = Idle
    /\ q.pc = "asked" => q \in AskedType
    /\ q.pc \in {"write", "rename", "index"} => q.kind \in Writes /\ q.doc \in Docs /\ q.new \in Values
    /\ q.pc \in {"line", "sync"} => q.kind = "event" /\ q.new \in Values

CallsInv ==
    /\ op \in [Clients -> OpType] /\ holder \in Clients \cup {None}
    /\ up \in {"up", "down", "broken"}
    /\ \A c \in Clients : Formed(op[c])
    /\ \A c \in Clients : op[c].pc \in Holding <=> holder = c
    /\ up # "up" => \A c \in Clients : op[c] = Idle

\* Under the lock, what was decided by the index is still so, and only the holder's document
\* may be ahead of it.
DocsInv ==
    /\ disk \in [Docs -> Values \cup {None}] /\ index \in [Docs -> Values \cup {None}]
    /\ temp \in [Docs -> Values \cup {None, Torn}]
    /\ \A c \in Clients : op[c].pc \in {"write", "rename"} => Refuses(op[c]) = None
    /\ \A c \in Clients : op[c].pc = "rename" => temp[op[c].doc] = op[c].new
    /\ \A c \in Clients : op[c].pc = "index" => disk[op[c].doc] = op[c].new
    /\ up = "up" => \A d \in Docs :
          (\A c \in Clients : ~(op[c].pc = "index" /\ op[c].doc = d)) => index[d] = disk[d]

\* The call of one client moves on.
LEMMA Staged ==
    ASSUME op \in [Clients -> OpType], NEW c \in Clients,
           NEW pc \in {"idle", "asked", "done"} \cup Holding, op' = Stage(c, pc)
    PROVE  /\ op' \in [Clients -> OpType]
           /\ op'[c].pc = pc /\ op'[c].kind = op[c].kind /\ op'[c].doc = op[c].doc
           /\ op'[c].old = op[c].old /\ op'[c].new = op[c].new /\ op'[c].reply = op[c].reply
           /\ \A x \in Clients \ {c} : op'[x] = op[x]
  BY DEF Stage, OpType

\* The call of one client is answered.
LEMMA Replied ==
    ASSUME op \in [Clients -> OpType], NEW c \in Clients, NEW answer \in Replies,
           op' = Reply(c, answer)
    PROVE  /\ op' \in [Clients -> OpType]
           /\ op'[c].pc = "done" /\ op'[c].kind = op[c].kind /\ op'[c].doc = op[c].doc
           /\ op'[c].old = op[c].old /\ op'[c].new = op[c].new /\ op'[c].reply = answer
           /\ \A x \in Clients \ {c} : op'[x] = op[x]
  BY DEF Reply, OpType

\* Of a call, only one is under the lock.
LEMMA HolderOnly ==
    ASSUME CallsInv, NEW c \in Clients, op[c].pc \in Holding
    PROVE  holder = c /\ \A x \in Clients \ {c} : op[x].pc \notin Holding
  BY DEF CallsInv

\* Every operation keeps calls well formed, and the lock with its holder.
LEMMA CallsStep ==
    ASSUME CallsInv, DocsInv, Stored
    PROVE  CallsInv'
  <1>1. op \in [Clients -> OpType] /\ \A c \in Clients : c # None
    BY StoreConstants DEF CallsInv
  <1>2. ASSUME NEW c \in Clients, NEW pc \in {"idle", "asked", "done"} \cup Holding, op' = Stage(c, pc),
               up = "up", up' = up,
               \/ op[c].pc = "asked" /\ holder = None /\ pc \in {"write", "line"} /\ holder' = c
                  /\ (pc = "write" => op[c].kind \in Writes) /\ (pc = "line" => op[c].kind = "event")
               \/ op[c].pc \in {"write", "rename"} /\ pc \in {"rename", "index"} /\ holder' = holder
               \/ op[c].pc = "line" /\ pc = "sync" /\ holder' = holder
        PROVE  CallsInv'
    <2>1. /\ op' \in [Clients -> OpType]
          /\ op'[c].pc = pc /\ op'[c].kind = op[c].kind /\ op'[c].doc = op[c].doc
          /\ op'[c].new = op[c].new
          /\ \A x \in Clients \ {c} : op'[x] = op[x]
      BY <1>1, <1>2, Staged
    <2>2. Formed(op'[c])
      BY <1>2, <2>1 DEF Formed, CallsInv, AskedType, Writes
    <2>3. \A x \in Clients : Formed(op'[x])
      BY <2>1, <2>2 DEF CallsInv
    <2>4. \A x \in Clients : op'[x].pc \in Holding <=> holder' = x
      BY <1>1, <1>2, <2>1 DEF CallsInv, Holding
    <2> QED
      BY <1>2, <2>1, <2>3, <2>4 DEF CallsInv
  <1>3. ASSUME NEW c \in Clients, NEW answer \in Replies, op' = Reply(c, answer), up = "up", up' = up,
               \/ op[c].pc \in Holding /\ holder' = None
               \/ op[c].pc = "asked" /\ holder' = holder
        PROVE  CallsInv'
    <2>1. /\ op' \in [Clients -> OpType] /\ op'[c].pc = "done"
          /\ \A x \in Clients \ {c} : op'[x] = op[x]
      BY <1>1, <1>3, Replied
    <2>2. \A x \in Clients : Formed(op'[x])
      BY <2>1 DEF CallsInv, Formed
    <2>3. \A x \in Clients : op'[x].pc \in Holding <=> holder' = x
      BY <1>1, <1>3, <2>1 DEF CallsInv, Holding
    <2> QED
      BY <1>3, <2>1, <2>2, <2>3 DEF CallsInv
  <1>4. ASSUME NEW c \in Clients, Answer(c) PROVE CallsInv'
    <2> DEFINE answer == IF Refuses(op[c]) # None THEN Refuses(op[c]) ELSE index[op[c].doc]
    <2>1. op[c] \in AskedType /\ op[c].kind # "event"
      BY <1>4 DEF CallsInv, Formed, Answer, At
    <2>2. op[c].doc \in Docs
      BY <2>1 DEF AskedType
    <2>3. answer \in Replies
      BY <2>2 DEF Refuses, Replies, DocsInv
    <2>4. op' = Reply(c, answer) /\ up = "up" /\ up' = up /\ op[c].pc = "asked" /\ holder' = holder
      BY <1>4 DEF Answer, At
    <2> HIDE DEF answer
    <2> QED
      BY <1>3, <2>3, <2>4
  <1>5. ASSUME NEW c \in Clients, CreateTemp(c) \/ OpenLog(c) PROVE CallsInv'
    <2>1. op[c].kind \in Writes \cup {"get", "event"}
      BY <1>1 DEF OpType
    <2> QED
      BY <1>2, <1>5, <2>1 DEF CreateTemp, OpenLog, At, Holding
  <1>6. ASSUME NEW c \in Clients, WriteTemp(c) \/ Rename(c) PROVE CallsInv'
    BY <1>2, <1>6 DEF WriteTemp, Rename, At, Holding
  <1>7. ASSUME NEW c \in Clients, WriteLine(c) PROVE CallsInv'
    BY <1>2, <1>7 DEF WriteLine, At, Holding
  <1>8. ASSUME NEW c \in Clients, Indexed(c) \/ SyncLine(c) \/ FileError(c) PROVE CallsInv'
    BY <1>3, <1>8 DEF Indexed, SyncLine, FileError, At, Holding, Replies
  <1>9. ASSUME NEW c \in Clients, Calls(c) PROVE CallsInv'
    <2>1. PICK q \in AskedType \cup {Idle} : CallAs(c, q)
      BY <1>9 DEF Calls
    <2>2. q \in OpType /\ Formed(q) /\ q.pc \notin Holding
      BY <2>1 DEF AskedType, Idle, OpType, Formed, Holding, Writes, Replies
    <2>3. /\ op' = [op EXCEPT ![c] = q] /\ up = "up" /\ up' = up /\ holder' = holder
          /\ op[c].pc \notin Holding
      BY <1>9, <2>1 DEF Calls, CallAs, Holding
    <2> QED
      BY <1>1, <2>2, <2>3 DEF CallsInv
  <1>10. ASSUME NEW c \in Clients, up = "up", Dropped({c}) PROVE CallsInv'
    <2>1. /\ op' = [x \in Clients |-> IF x = c THEN Idle ELSE op[x]] /\ up' = up /\ holder' = holder
          /\ op[c].pc \notin Holding
      BY <1>10 DEF Dropped, Holding
    <2>2. Idle \in OpType /\ Formed(Idle) /\ Idle.pc \notin Holding
      BY DEF Idle, OpType, Formed, Holding, Replies
    <2> HIDE DEF Idle
    <2> QED
      BY <1>1, <1>10, <2>1, <2>2 DEF CallsInv
  <1>11. CASE StoreCrash
    <2>1. op' = [x \in Clients |-> Idle] /\ up' = "down" /\ holder' = None
      BY <1>11 DEF StoreCrash
    <2>2. Idle \in OpType /\ Formed(Idle) /\ Idle.pc \notin Holding
      BY DEF Idle, OpType, Formed, Holding, Replies
    <2> HIDE DEF Idle
    <2> QED
      BY <1>1, <2>1, <2>2 DEF CallsInv
  <1>12. CASE Open \/ OpenFails
    BY <1>12 DEF Open, OpenFails, CallsInv
  <1>13. CASE UNCHANGED storeVars
    BY <1>13 DEF storeVars, CallsInv
  <1> QED
    BY <1>4, <1>5, <1>6, <1>7, <1>8, <1>9, <1>10, <1>11, <1>12, <1>13 DEF Stored, StoreStep

\* No call enters or leaves the part of an operation that files and index depend on.
Elsewhere ==
    \A x \in Clients :
       op'[x] = op[x] \/ (op[x].pc # "index" /\ op'[x].pc \notin {"write", "rename", "index"})

\* Every operation keeps files and index in agreement.
LEMMA DocsStep ==
    ASSUME CallsInv, DocsInv, Stored
    PROVE  DocsInv'
  <1>1. op \in [Clients -> OpType] /\ \A c \in Clients : c # None
    BY StoreConstants DEF CallsInv
  <1>2. ASSUME up' = up /\ disk' = disk /\ temp' = temp /\ index' = index,
               Elsewhere
        PROVE  DocsInv'
    BY <1>2 DEF DocsInv, Refuses, Elsewhere
  <1>3. ASSUME NEW c \in Clients, Answer(c) PROVE DocsInv'
    <2>1. op[c].pc = "asked" /\ up' = up /\ disk' = disk /\ temp' = temp /\ index' = index /\ \E answer : op' = Reply(c, answer)
      BY <1>3 DEF Answer, At, filesVars, memoryVars
    <2>2. op'[c].pc = "done" /\ \A x \in Clients \ {c} : op'[x] = op[x]
      BY <1>1, <2>1 DEF Reply, OpType
    <2>3. Elsewhere
      BY <2>1, <2>2 DEF Elsewhere
    <2> QED
      BY <1>2, <2>1, <2>3
  <1>4. ASSUME NEW c \in Clients, OpenLog(c) \/ WriteLine(c) PROVE DocsInv'
    <2>1. up' = up /\ disk' = disk /\ temp' = temp /\ index' = index /\ op[c].pc \in {"asked", "line"}
      BY <1>4 DEF OpenLog, WriteLine, At, filesVars, memoryVars
    <2>2. op'[c].pc \in {"line", "sync"} /\ \A x \in Clients \ {c} : op'[x] = op[x]
      BY <1>1, <1>4, Staged DEF OpenLog, WriteLine, Holding
    <2>3. Elsewhere
      BY <2>1, <2>2 DEF Elsewhere
    <2> QED
      BY <1>2, <2>1, <2>3
  <1>5. ASSUME NEW c \in Clients, SyncLine(c) \/ FileError(c) PROVE DocsInv'
    <2>1. up' = up /\ disk' = disk /\ temp' = temp /\ index' = index /\ op[c].pc # "index"
      BY <1>5 DEF SyncLine, FileError, At, filesVars, memoryVars
    <2>2. op'[c].pc = "done" /\ \A x \in Clients \ {c} : op'[x] = op[x]
      BY <1>1, <1>5, Replied DEF SyncLine, FileError, Replies
    <2>3. Elsewhere
      BY <2>1, <2>2 DEF Elsewhere
    <2> QED
      BY <1>2, <2>1, <2>3
  <1>6. ASSUME NEW c \in Clients, CreateTemp(c) PROVE DocsInv'
    <2>1. /\ up = "up" /\ op[c].pc = "asked" /\ holder = None /\ op' = Stage(c, "write")
          /\ Refuses(op[c]) = None /\ up' = up /\ disk' = disk /\ index' = index
          /\ temp' = [temp EXCEPT ![op[c].doc] = Torn]
      BY <1>6 DEF CreateTemp, At, memoryVars
    <2>2. /\ op'[c].pc = "write" /\ op'[c].kind = op[c].kind /\ op'[c].doc = op[c].doc
          /\ op'[c].old = op[c].old
          /\ \A x \in Clients \ {c} : op'[x] = op[x]
      BY <1>1, <2>1, Staged DEF Holding
    <2>3. \A x \in Clients : op[x].pc \notin Holding
      BY <1>1, <2>1 DEF CallsInv
    <2>4. temp' \in [Docs -> Values \cup {None, Torn}]
      BY <2>1 DEF DocsInv
    <2>5. Refuses(op[c])' = None
      BY <2>1, <2>2 DEF Refuses
    <2> QED
      BY <2>1, <2>2, <2>3, <2>4, <2>5 DEF DocsInv, Holding
  <1>7. ASSUME NEW c \in Clients, WriteTemp(c) PROVE DocsInv'
    <2>1. /\ up = "up" /\ op[c].pc = "write" /\ op' = Stage(c, "rename")
          /\ up' = up /\ disk' = disk /\ index' = index
          /\ temp' = [temp EXCEPT ![op[c].doc] = op[c].new]
      BY <1>7 DEF WriteTemp, At, memoryVars
    <2>2. /\ op'[c].pc = "rename" /\ op'[c].kind = op[c].kind /\ op'[c].doc = op[c].doc
          /\ op'[c].old = op[c].old /\ op'[c].new = op[c].new
          /\ \A x \in Clients \ {c} : op'[x] = op[x]
      BY <1>1, <2>1, Staged DEF Holding
    <2>3. \A x \in Clients \ {c} : op[x].pc \notin Holding
      BY <2>1, HolderOnly DEF Holding
    <2>4. op[c].doc \in Docs /\ op[c].new \in Values
      BY <2>1 DEF CallsInv, Formed
    <2>5. temp' \in [Docs -> Values \cup {None, Torn}] /\ temp'[op[c].doc] = op[c].new
      BY <2>1, <2>4 DEF DocsInv
    <2>6. Refuses(op[c])' = None
      BY <2>1, <2>2 DEF Refuses, DocsInv
    <2> QED
      BY <2>1, <2>2, <2>3, <2>5, <2>6 DEF DocsInv, Holding
  <1>8. ASSUME NEW c \in Clients, Rename(c) PROVE DocsInv'
    <2>1. /\ up = "up" /\ op[c].pc = "rename" /\ op' = Stage(c, "index")
          /\ up' = up /\ index' = index
          /\ disk' = [disk EXCEPT ![op[c].doc] = temp[op[c].doc]]
          /\ temp' = [temp EXCEPT ![op[c].doc] = None]
      BY <1>8 DEF Rename, At, memoryVars
    <2>2. /\ op'[c].pc = "index" /\ op'[c].doc = op[c].doc /\ op'[c].new = op[c].new
          /\ \A x \in Clients \ {c} : op'[x] = op[x]
      BY <1>1, <2>1, Staged DEF Holding
    <2>3. \A x \in Clients \ {c} : op[x].pc \notin Holding
      BY <2>1, HolderOnly DEF Holding
    <2>4. op[c].doc \in Docs /\ op[c].new \in Values /\ temp[op[c].doc] = op[c].new
      BY <2>1 DEF CallsInv, Formed, DocsInv
    <2>5. /\ temp' \in [Docs -> Values \cup {None, Torn}] /\ disk' \in [Docs -> Values \cup {None}]
          /\ disk'[op[c].doc] = op[c].new /\ \A d \in Docs \ {op[c].doc} : disk'[d] = disk[d]
      BY <2>1, <2>4 DEF DocsInv
    <2> QED
      BY <2>1, <2>2, <2>3, <2>4, <2>5 DEF DocsInv, Holding
  <1>9. ASSUME NEW c \in Clients, Indexed(c) PROVE DocsInv'
    <2>1. /\ up = "up" /\ op[c].pc = "index" /\ op' = Reply(c, "ok")
          /\ up' = up /\ disk' = disk /\ temp' = temp
          /\ index' = [index EXCEPT ![op[c].doc] = op[c].new]
      BY <1>9 DEF Indexed, At, filesVars
    <2>2. op'[c].pc = "done" /\ \A x \in Clients \ {c} : op'[x] = op[x]
      BY <1>1, <2>1, Replied DEF Replies
    <2>3. \A x \in Clients : op'[x].pc \notin Holding
      BY <2>1, <2>2, HolderOnly DEF Holding
    <2>4. op[c].doc \in Docs /\ op[c].new \in Values /\ disk[op[c].doc] = op[c].new
      BY <2>1 DEF CallsInv, Formed, DocsInv
    <2>5. /\ index' \in [Docs -> Values \cup {None}]
          /\ index'[op[c].doc] = op[c].new /\ \A d \in Docs \ {op[c].doc} : index'[d] = index[d]
      BY <2>1, <2>4 DEF DocsInv
    <2>6. \A d \in Docs : index'[d] = disk[d]
      BY <2>1, <2>2, <2>3, <2>4, <2>5 DEF DocsInv, Holding
    <2> QED
      BY <2>1, <2>3, <2>5, <2>6 DEF DocsInv, Holding
  <1>10. ASSUME NEW c \in Clients, Calls(c) PROVE DocsInv'
    <2>1. PICK q \in AskedType \cup {Idle} : CallAs(c, q)
      BY <1>10 DEF Calls
    <2>2. q.pc \in {"asked", "idle"}
      BY <2>1 DEF AskedType, Idle
    <2>3. /\ op' = [op EXCEPT ![c] = q] /\ up' = up /\ disk' = disk /\ temp' = temp /\ index' = index
          /\ op[c].pc \in {"idle", "done"}
      BY <1>10, <2>1 DEF Calls, CallAs, filesVars, memoryVars
    <2>4. Elsewhere
      BY <1>1, <2>2, <2>3 DEF Elsewhere
    <2> QED
      BY <1>2, <2>3, <2>4
  <1>11. ASSUME NEW c \in Clients, Dropped({c}) PROVE DocsInv'
    <2>1. /\ op' = [x \in Clients |-> IF x = c THEN Idle ELSE op[x]]
          /\ up' = up /\ disk' = disk /\ temp' = temp /\ index' = index /\ op[c].pc # "index"
      BY <1>11 DEF Dropped, filesVars, memoryVars
    <2>2. Idle.pc = "idle"
      BY DEF Idle
    <2> HIDE DEF Idle
    <2>3. Elsewhere
      BY <1>1, <2>1, <2>2 DEF Elsewhere
    <2> QED
      BY <1>2, <2>1, <2>3
  <1>12. CASE StoreCrash
    <2>1. op' = [x \in Clients |-> Idle] /\ up' = "down" /\ disk' = disk /\ temp' = temp /\ index' = index
      BY <1>12 DEF StoreCrash, memoryVars
    <2>2. Idle.pc = "idle"
      BY DEF Idle
    <2> HIDE DEF Idle
    <2> QED
      BY <2>1, <2>2 DEF DocsInv
  <1>13. CASE Open
    <2>1. /\ up = "down" /\ up' = "up" /\ index' = disk /\ op' = op /\ disk' = disk /\ temp' = temp
      BY <1>13 DEF Open, filesVars
    <2>2. \A x \in Clients : op'[x].pc = "idle"
      BY <2>1 DEF CallsInv, Idle
    <2> QED
      BY <2>1, <2>2 DEF DocsInv
  <1>14. CASE OpenFails
    <2>1. /\ up = "down" /\ up' = "broken" /\ op' = op /\ disk' = disk /\ temp' = temp /\ index' = index
      BY <1>14 DEF OpenFails, filesVars, memoryVars
    <2>2. \A x \in Clients : op'[x].pc = "idle"
      BY <2>1 DEF CallsInv, Idle
    <2>3. /\ disk' \in [Docs -> Values \cup {None}] /\ index' \in [Docs -> Values \cup {None}]
          /\ temp' \in [Docs -> Values \cup {None, Torn}]
      BY <2>1 DEF DocsInv
    <2> QED
      BY <2>1, <2>2, <2>3 DEF DocsInv
  <1>15. CASE UNCHANGED storeVars
    BY <1>2, <1>15 DEF storeVars, Elsewhere
  <1> QED
    BY <1>3, <1>4, <1>5, <1>6, <1>7, <1>8, <1>9, <1>10, <1>11, <1>12, <1>13, <1>14, <1>15
       DEF Stored, StoreStep

-----------------------------------------------------------------------------
(* The clients of the store: what each calls, and when. *)

\* The script is read by its steps.
LEMMA ScriptSteps ==
    /\ Len(Script) = 10
    /\ Script[1] = Look("issue") /\ Script[2] = Look("job") /\ Script[3] = Look("run")
    /\ Script[4] = Ensure("artifact") /\ Script[5] = Ensure("snapshot")
    /\ Script[6] = Put("issue", Archived) /\ Script[7] = Put("job", Exported)
    /\ Script[8] = Put("run", Exported)
    /\ Script[9] = Report(Exported) /\ Script[10] = Report(Archived)
  BY DEF Script

ImportType == [at : 0..10, how : {"none", "running", "restoring", "done", "failed"}]

\* An import is somewhere in its script, and a change calls the store only to be recorded.
ClientsInv ==
    /\ import \in [Importers -> ImportType]
    /\ \A i \in Importers :
         /\ import[i].how \in {"running", "restoring"} => import[i].at # 0
         /\ import[i].how = "restoring" => import[i].at = 4
    /\ \A p \in Patchers : patch[p].pc # "recording" => op[p] = Idle

PatchType ==
    [pc : {"off", "waiting", "mode", "write", "apply", "recording", "accepted", "refused", "gone"},
     change : Changes \cup {<<>>}, confirm : BOOLEAN, result : Configs \cup {<<>>}]

\* Only a change that holds the lock is past its checks, and what the file, the values in force
\* and the API take for current differ only by what it has done.
Editing == {"mode", "write", "apply", "recording"}

SettingsInv ==
    /\ patch \in [Patchers -> PatchType]
    /\ known \in Configs /\ live \in Configs /\ configFile \in Configs
    /\ \A p \in Patchers : patch[p].pc \in Editing <=> editing = p
    /\ \A p \in Patchers : patch[p].pc \in Editing \cup {"waiting"} => patch[p].change \in Changes
    /\ \A p \in Patchers : patch[p].pc \in Editing => patch[p].result = Merge(known, patch[p].change)
    /\ \A p \in Patchers :
         patch[p].pc \in {"write", "apply", "recording"} /\ GoesLive(p) => patch[p].confirm
    /\ ~doubt =>
         /\ (\A p \in Patchers : patch[p].pc \notin {"apply", "recording"}) => configFile = known
         /\ (\A p \in Patchers : patch[p].pc # "recording") => live = known
         /\ \A p \in Patchers :
              /\ patch[p].pc \in {"apply", "recording"} => configFile = patch[p].result
              /\ patch[p].pc = "recording" => live = patch[p].result

\* Every step of the script opens with a call the store takes.
LEMMA Openings ==
    ASSUME NEW n \in 1..10
    PROVE  Opening(Script[n]) \in AskedType
  <1>1. {"artifact", "snapshot", "issue", "job", "run"} \subseteq Docs /\ {Archived, Exported} \subseteq Values
    BY ArchiveConstants DEF Session
  <1>2. n \in {1, 2, 3, 4, 5, 6, 7, 8, 9, 10}
    OBVIOUS
  <1>3. CASE n \in {1, 2, 3, 4, 5}
    BY <1>1, <1>3, ScriptSteps DEF Opening, Look, Ensure, Asking, AskedType
  <1>4. CASE n \in {6, 7, 8}
    BY <1>1, <1>4, ScriptSteps DEF Opening, Put, Asking, AskedType
  <1>5. CASE n \in {9, 10}
    BY <1>1, <1>5, ScriptSteps DEF Opening, Report, Asking, AskedType
  <1> QED
    BY <1>2, <1>3, <1>4, <1>5

\* What a whole step of the controller does to the store is one of the store's operations.
LEMMA Shapes ==
    ASSUME CallsInv, DocsInv, ClientsInv, [Next]_vars
    PROVE  Stored
  <1>1. Importers \subseteq Clients /\ Patchers \subseteq Clients /\ Recovery \in Clients
    BY ArchiveConstants, SettingsConstants
  <1>2. ASSUME NEW c \in Clients, up = "up", op[c].pc \in {"idle", "done"},
               NEW q \in AskedType \cup {Idle}, CallAs(c, q)
        PROVE  Stored
    <2>1. Calls(c)
      BY <1>2 DEF Calls
    <2> QED
      BY <1>2, <2>1 DEF Stored
  <1>3. CASE Store
    BY <1>3 DEF Store, Stored
  <1>4. CASE StoreFails
    BY <1>4 DEF StoreFails, Stored
  <1>5. ASSUME NEW i \in Importers, Import(i) PROVE Stored
    <2>1. up = "up" /\ op[i].pc = "idle" /\ CallAs(i, Opening(Script[1]))
      BY <1>5 DEF Import, At
    <2> QED
      BY <1>1, <1>2, <2>1, Openings
  <1>6. ASSUME NEW i \in Importers, Continue(i) PROVE Stored
    <2>1. /\ up = "up" /\ op[i].pc = "done" /\ CallAs(i, Opening(Script[import[i].at + 1]))
          /\ import[i].at < 10 /\ import[i] \in ImportType
      BY <1>6, ScriptSteps DEF Continue, Importing, Answered, At, ClientsInv
    <2>2. import[i].at + 1 \in 1..10
      BY <2>1 DEF ImportType
    <2> QED
      BY <1>1, <1>2, <2>1, <2>2, Openings
  <1>7. ASSUME NEW i \in Importers, Imported(i) \/ Refused(i) \/ RestoreFails(i) PROVE Stored
    <2>1. up = "up" /\ op[i].pc = "done" /\ CallAs(i, Idle)
      BY <1>7 DEF Imported, Refused, RestoreFails, Importing, Answered, At
    <2> QED
      BY <1>1, <1>2, <2>1
  <1>8. ASSUME NEW i \in Importers, BodyRestored(i) \/ InsertMissing(i) PROVE Stored
    <2>1. import[i].at \in {4, 5}
      <3>1. import[i].at \in 0..10
        BY DEF ClientsInv, ImportType
      <3>2. CASE BodyRestored(i)
        BY <3>2 DEF BodyRestored, ClientsInv
      <3>3. CASE InsertMissing(i)
        <4>1. Step(i).does = "ensure" /\ import[i].at # 0
          BY <3>3 DEF InsertMissing, Missing, Importing, ClientsInv
        <4> QED
          BY <3>1, <4>1, ScriptSteps DEF Step, Look, Put, Report
      <3> QED
        BY <1>8, <3>2, <3>3
    <2>2. Step(i).doc \in {"artifact", "snapshot"} /\ Step(i).value = Same
      BY <2>1, ScriptSteps DEF Step, Ensure
    <2>3. up = "up" /\ op[i].pc = "done" /\ CallAs(i, Asking("insert", Step(i).doc, None, Same))
      BY <1>8, <2>2 DEF BodyRestored, InsertMissing, Insert, Importing, Answered, At
    <2>4. Asking("insert", Step(i).doc, None, Same) \in AskedType
      BY <2>2, ArchiveConstants DEF Asking, AskedType, Session
    <2> QED
      BY <1>1, <1>2, <2>3, <2>4
  <1>9. ASSUME NEW i \in Importers, ImportDropped(i) PROVE Stored
    BY <1>1, <1>9 DEF ImportDropped, Stored
  <1>10. ASSUME NEW i \in Importers, RestoreBody(i) PROVE Stored
    BY <1>10 DEF RestoreBody, Stored
  <1>11. CASE ImportingSessions
    <2>1. PICK i \in Importers :
            \/ Import(i) \/ Continue(i) \/ Imported(i) \/ Refused(i) \/ RestoreBody(i)
            \/ BodyRestored(i) \/ InsertMissing(i) \/ RestoreFails(i) \/ ImportDropped(i)
      BY <1>11 DEF ImportingSessions
    <2> QED
      BY <1>5, <1>6, <1>7, <1>8, <1>9, <1>10, <2>1
  <1>12. ASSUME NEW p \in Patchers, Apply(p) PROVE Stored
    <2>1. up = "up" /\ patch[p].pc = "apply" /\ CallAs(p, Asking("event", None, None, Change))
      BY <1>12 DEF Apply, Is
    <2>2. op[p].pc = "idle"
      BY <2>1 DEF ClientsInv, Idle
    <2>3. Asking("event", None, None, Change) \in AskedType
      BY AdministrationConstants DEF Asking, AskedType
    <2> QED
      BY <1>1, <1>2, <2>1, <2>2, <2>3
  <1>13. ASSUME NEW p \in Patchers, Accept(p) \/ Unrecorded(p) PROVE Stored
    <2>1. up = "up" /\ op[p].pc = "done" /\ CallAs(p, Idle)
      BY <1>13 DEF Accept, Unrecorded, Answered, At
    <2> QED
      BY <1>1, <1>2, <2>1
  <1>14. ASSUME NEW p \in Patchers, PatchDropped(p) PROVE Stored
    BY <1>1, <1>14 DEF PatchDropped, Stored
  <1>15. ASSUME NEW p \in Patchers,
                Ask(p) \/ Lock(p) \/ CheckMode(p) \/ WriteConfig(p) \/ WriteConfigFails(p)
         PROVE  Stored
    BY <1>15 DEF Ask, Lock, CheckMode, WriteConfig, WriteConfigFails, Stored
  <1>16. CASE Freeze \/ Resume
    BY <1>16 DEF Freeze, Resume, Stored
  <1>17. CASE Configuring
    <2>1. \/ Freeze \/ Resume
          \/ \E p \in Patchers :
               \/ Ask(p) \/ Lock(p) \/ CheckMode(p) \/ WriteConfig(p) \/ Apply(p)
               \/ Accept(p) \/ Unrecorded(p) \/ WriteConfigFails(p) \/ PatchDropped(p)
      BY <1>17 DEF Configuring
    <2> QED
      BY <1>12, <1>13, <1>14, <1>15, <1>16, <2>1
  <1>18. CASE Recovering
    <2>1. ASSUME NEW d \in Docs, Recover(d) PROVE Stored
      <3>1. /\ up = "up" /\ op[Recovery].pc = "idle"
            /\ CallAs(Recovery, Asking("updateIf", d, index[d], Ended))
        BY <2>1 DEF Recover, At
      <3>2. Asking("updateIf", d, index[d], Ended) \in AskedType
        BY ArchiveConstants DEF Asking, AskedType, DocsInv
      <3> QED
        BY <1>1, <1>2, <3>1, <3>2
    <2>2. CASE Recovered
      <3>1. up = "up" /\ op[Recovery].pc = "done" /\ CallAs(Recovery, Idle)
        BY <2>2 DEF Recovered, Answered, At
      <3> QED
        BY <1>1, <1>2, <3>1
    <2>3. CASE Serve
      BY <2>3 DEF Serve, Stored
    <2> QED
      BY <1>18, <2>1, <2>2, <2>3 DEF Recovering
  <1>19. CASE Crash \/ Start
    BY <1>19 DEF Crash, Start, Stored
  <1>20. CASE UNCHANGED vars
    BY <1>20 DEF vars, storeVars, Stored
  <1> QED
    BY <1>3, <1>4, <1>11, <1>17, <1>18, <1>19, <1>20 DEF Next

\* Every step keeps the clients in their scripts.
LEMMA ClientsStep ==
    ASSUME CallsInv, ClientsInv, SettingsInv, [Next]_vars
    PROVE  ClientsInv'
  <1>1. /\ Importers \subseteq Clients /\ Patchers \subseteq Clients /\ Recovery \in Clients
        /\ \A p \in Patchers : p \notin Importers /\ p # Recovery
    BY ArchiveConstants, SettingsConstants, AdministrationConstants
  <1>2. op \in [Clients -> OpType]
    BY DEF CallsInv
  <1>3. ASSUME import' = import, patch' = patch, \A p \in Patchers : op'[p] = op[p] \/ op[p] # Idle
        PROVE  ClientsInv'
    BY <1>3 DEF ClientsInv
  <1>4. ASSUME NEW c \in Clients, StoreStep(c) \/ FileError(c)
        PROVE  op[c].pc # "idle" /\ \A x \in Clients \ {c} : op'[x] = op[x]
    BY <1>2, <1>4 DEF StoreStep, Answer, CreateTemp, WriteTemp, Rename, Indexed, OpenLog, WriteLine,
                      SyncLine, FileError, At, Stage, Reply
  <1>5. CASE Store \/ StoreFails
    <2>1. PICK c \in Clients : StoreStep(c) \/ FileError(c)
      BY <1>5 DEF Store, StoreFails
    <2>2. import' = import /\ patch' = patch
      BY <1>5 DEF Store, StoreFails, archiveVars, settingsVars
    <2>3. \A p \in Patchers : op'[p] = op[p] \/ op[p] # Idle
      BY <1>1, <1>4, <2>1 DEF Idle
    <2> QED
      BY <1>3, <2>2, <2>3
  <1>6. ASSUME NEW i \in Importers, import' \in [Importers -> ImportType], patch' = patch,
               \A x \in Clients \ {i} : op'[x] = op[x],
               \A j \in Importers \ {i} : import'[j] = import[j],
               import'[i].how \in {"running", "restoring"} => import'[i].at # 0,
               import'[i].how = "restoring" => import'[i].at = 4
        PROVE  ClientsInv'
    <2>1. \A p \in Patchers : op'[p] = op[p]
      BY <1>1, <1>6
    <2> QED
      BY <1>6, <2>1 DEF ClientsInv
  <1>7. ASSUME NEW i \in Importers, \E q : CallAs(i, q) PROVE \A x \in Clients \ {i} : op'[x] = op[x]
    BY <1>2, <1>7 DEF CallAs
  <1>8. ASSUME NEW i \in Importers,
               NEW how \in {"none", "running", "restoring", "done", "failed"}, import' = Moved(i, how)
        PROVE  /\ import' \in [Importers -> ImportType]
               /\ import'[i].at = import[i].at /\ import'[i].how = how
               /\ \A j \in Importers \ {i} : import'[j] = import[j]
    BY <1>8 DEF ClientsInv, ImportType, Moved
  <1>9. CASE ImportingSessions
    <2>1. patch' = patch
      BY <1>9 DEF ImportingSessions, settingsVars
    <2>2. ASSUME NEW i \in Importers, Import(i) PROVE ClientsInv'
      <3>1. import' = [import EXCEPT ![i] = [at |-> 1, how |-> "running"]] /\ \E q : CallAs(i, q)
        BY <2>2 DEF Import
      <3>2. /\ import' \in [Importers -> ImportType] /\ import'[i].at = 1 /\ import'[i].how = "running"
            /\ \A j \in Importers \ {i} : import'[j] = import[j]
        BY <3>1 DEF ClientsInv, ImportType
      <3> QED
        BY <1>6, <1>7, <2>1, <3>1, <3>2
    <2>3. ASSUME NEW i \in Importers, Continue(i) PROVE ClientsInv'
      <3>1. /\ import' = [import EXCEPT ![i].at = @ + 1] /\ \E q : CallAs(i, q)
            /\ import[i].how = "running" /\ import[i].at < 10 /\ import[i] \in ImportType
        BY <2>3, ScriptSteps DEF Continue, Importing, ClientsInv
      <3>2. /\ import' \in [Importers -> ImportType]
            /\ import'[i].at # 0 /\ import'[i].how = "running"
            /\ \A j \in Importers \ {i} : import'[j] = import[j]
        BY <3>1 DEF ClientsInv, ImportType
      <3> QED
        BY <1>6, <1>7, <2>1, <3>1, <3>2
    <2>4. ASSUME NEW i \in Importers, Imported(i) \/ Refused(i) \/ RestoreFails(i) PROVE ClientsInv'
      <3>1. PICK how \in {"done", "failed"} : import' = Moved(i, how)
        BY <2>4 DEF Imported, Refused, RestoreFails
      <3>2. \E q : CallAs(i, q)
        BY <2>4 DEF Imported, Refused, RestoreFails
      <3> QED
        BY <1>6, <1>7, <1>8, <2>1, <3>1, <3>2
    <2>5. ASSUME NEW i \in Importers, RestoreBody(i) PROVE ClientsInv'
      <3>1. import' = Moved(i, "restoring") /\ op' = op /\ Importing(i) /\ Missing(i)
            /\ Step(i).doc = "artifact"
        BY <2>5 DEF RestoreBody, storeVars
      <3>2. import[i].at \in 1..10 /\ Step(i).does = "ensure"
        BY <3>1 DEF Importing, Missing, ClientsInv, ImportType
      <3>3. import[i].at \in {1, 2, 3, 4, 5, 6, 7, 8, 9, 10}
        BY <3>2
      <3>4. import[i].at = 4
        BY <3>1, <3>2, <3>3, ScriptSteps DEF Step, Look, Put, Report, Ensure
      <3> QED
        BY <1>6, <1>8, <2>1, <3>1, <3>4
    <2>6. ASSUME NEW i \in Importers, BodyRestored(i) PROVE ClientsInv'
      <3>1. /\ import' = Moved(i, "running") /\ import[i].how = "restoring"
            /\ \E q : CallAs(i, q)
        BY <2>6 DEF BodyRestored, Insert
      <3>2. import[i].at # 0
        BY <3>1 DEF ClientsInv
      <3> QED
        BY <1>6, <1>7, <1>8, <2>1, <3>1, <3>2
    <2>7. ASSUME NEW i \in Importers, InsertMissing(i) PROVE ClientsInv'
      <3>1. import' = import /\ \E q : CallAs(i, q)
        BY <2>7 DEF InsertMissing, Insert, archiveVars
      <3>2. \A x \in Clients \ {i} : op'[x] = op[x]
        BY <1>7, <3>1
      <3> QED
        BY <1>1, <1>3, <2>1, <3>1, <3>2
    <2>8. ASSUME NEW i \in Importers, ImportDropped(i) PROVE ClientsInv'
      <3>1. import' = Moved(i, "failed") /\ Dropped({i})
        BY <2>8 DEF ImportDropped
      <3>2. \A x \in Clients \ {i} : op'[x] = op[x]
        BY <1>2, <3>1 DEF Dropped
      <3> QED
        BY <1>6, <1>8, <2>1, <3>1, <3>2
    <2>9. PICK i \in Importers :
            \/ Import(i) \/ Continue(i) \/ Imported(i) \/ Refused(i) \/ RestoreBody(i)
            \/ BodyRestored(i) \/ InsertMissing(i) \/ RestoreFails(i) \/ ImportDropped(i)
      BY <1>9 DEF ImportingSessions
    <2> QED
      BY <2>2, <2>3, <2>4, <2>5, <2>6, <2>7, <2>8, <2>9
  <1>10. ASSUME NEW p \in Patchers, import' = import,
                \A x \in Clients \ {p} : op'[x] = op[x],
                \A r \in Patchers \ {p} : patch'[r] = patch[r],
                patch'[p].pc # "recording" => op'[p] = Idle
         PROVE  ClientsInv'
    BY <1>1, <1>10 DEF ClientsInv
  <1>11. ASSUME NEW p \in Patchers, NEW pc, patch' = Patched(p, pc)
         PROVE  /\ patch'[p].pc = pc
                /\ \A r \in Patchers \ {p} : patch'[r] = patch[r]
    BY <1>11 DEF SettingsInv, PatchType, Patched
  <1>12. CASE Configuring
    <2>1. import' = import
      BY <1>12 DEF Configuring, archiveVars
    <2>2. CASE Freeze \/ Resume
      BY <1>3, <2>1, <2>2 DEF Freeze, Resume, storeVars
    <2>3. ASSUME NEW p \in Patchers, Ask(p) PROVE ClientsInv'
      <3>1. PICK change \in Changes, confirm \in BOOLEAN :
              patch' = [patch EXCEPT ![p] = [pc |-> "waiting", change |-> change,
                                             confirm |-> confirm, result |-> <<>>]]
        BY <2>3 DEF Ask
      <3>2. op' = op /\ patch[p].pc = "off"
        BY <2>3 DEF Ask, Is, storeVars
      <3>3. /\ patch'[p].pc = "waiting"
            /\ \A r \in Patchers \ {p} : patch'[r] = patch[r]
        BY <3>1 DEF SettingsInv, PatchType
      <3>4. op[p] = Idle
        BY <3>2 DEF ClientsInv
      <3> QED
        BY <1>10, <2>1, <3>2, <3>3, <3>4
    <2>4. ASSUME NEW p \in Patchers, Lock(p) PROVE ClientsInv'
      <3> DEFINE result == Merge(known, patch[p].change)
                 stage == IF Diff(known, result) \subseteq Live THEN "write" ELSE "mode"
      <3>1. \/ patch' = Patched(p, "accepted")
            \/ patch' = [patch EXCEPT ![p].result = result, ![p].pc = stage]
        BY <2>4 DEF Lock
      <3>2. op' = op /\ patch[p].pc = "waiting"
        BY <2>4 DEF Lock, Is, storeVars
      <3>3. op[p] = Idle
        BY <3>2 DEF ClientsInv
      <3>4. CASE patch' = Patched(p, "accepted")
        BY <1>10, <1>11, <2>1, <3>2, <3>3, <3>4
      <3>5. CASE patch' = [patch EXCEPT ![p].result = result, ![p].pc = stage]
        <4>1. stage # "recording"
          OBVIOUS
        <4> HIDE DEF result, stage
        <4>2. /\ patch'[p].pc = stage
              /\ \A r \in Patchers \ {p} : patch'[r] = patch[r]
          BY <3>5 DEF SettingsInv, PatchType
        <4> QED
          BY <1>10, <2>1, <3>2, <3>3, <4>1, <4>2
      <3> QED
        BY <3>1, <3>4, <3>5
    <2>5. ASSUME NEW p \in Patchers, CheckMode(p) \/ WriteConfig(p) \/ WriteConfigFails(p)
          PROVE  ClientsInv'
      <3>1. \E pc \in {"write", "refused", "apply"} : patch' = Patched(p, pc)
        BY <2>5 DEF CheckMode, WriteConfig, WriteConfigFails
      <3>2. op' = op /\ patch[p].pc \in {"mode", "write"}
        BY <2>5 DEF CheckMode, WriteConfig, WriteConfigFails, Is, storeVars
      <3>3. op[p] = Idle
        BY <3>2 DEF ClientsInv
      <3>4. PICK pc \in {"write", "refused", "apply"} : patch' = Patched(p, pc)
        BY <3>1
      <3> QED
        BY <1>10, <1>11, <2>1, <3>2, <3>3, <3>4
    <2>6. ASSUME NEW p \in Patchers, Apply(p) PROVE ClientsInv'
      <3>1. /\ patch' = Patched(p, "recording")
            /\ CallAs(p, Asking("event", None, None, Change))
        BY <2>6 DEF Apply
      <3>2. \A x \in Clients \ {p} : op'[x] = op[x]
        BY <1>2, <3>1 DEF CallAs
      <3> QED
        BY <1>10, <1>11, <2>1, <3>1, <3>2
    <2>7. ASSUME NEW p \in Patchers, Accept(p) \/ Unrecorded(p) PROVE ClientsInv'
      <3>1. PICK pc \in {"accepted", "refused"} : patch' = Patched(p, pc)
        BY <2>7 DEF Accept, Unrecorded
      <3>2. CallAs(p, Idle)
        BY <2>7 DEF Accept, Unrecorded
      <3>3. op'[p] = Idle /\ \A x \in Clients \ {p} : op'[x] = op[x]
        BY <1>1, <1>2, <3>2 DEF CallAs
      <3> QED
        BY <1>10, <1>11, <2>1, <3>1, <3>3
    <2>8. ASSUME NEW p \in Patchers, PatchDropped(p) PROVE ClientsInv'
      <3>1. patch' = Patched(p, "gone") /\ Dropped({p})
        BY <2>8 DEF PatchDropped
      <3>2. op'[p] = Idle /\ \A x \in Clients \ {p} : op'[x] = op[x]
        BY <1>1, <1>2, <3>1 DEF Dropped
      <3> QED
        BY <1>10, <1>11, <2>1, <3>1, <3>2
    <2>9. \/ Freeze \/ Resume
          \/ \E p \in Patchers :
               \/ Ask(p) \/ Lock(p) \/ CheckMode(p) \/ WriteConfig(p) \/ Apply(p)
               \/ Accept(p) \/ Unrecorded(p) \/ WriteConfigFails(p) \/ PatchDropped(p)
      BY <1>12 DEF Configuring
    <2> QED
      BY <2>2, <2>3, <2>4, <2>5, <2>6, <2>7, <2>8, <2>9
  <1>13. CASE Recovering
    <2>1. import' = import /\ patch' = patch
      BY <1>13 DEF Recovering, Recover, Recovered, Serve, archiveVars, settingsVars
    <2>2. op' = op \/ \E q : CallAs(Recovery, q)
      BY <1>13 DEF Recovering, Recover, Recovered, Serve, storeVars
    <2>3. \A p \in Patchers : op'[p] = op[p]
      BY <1>1, <1>2, <2>2 DEF CallAs
    <2> QED
      BY <1>3, <2>1, <2>3
  <1>14. CASE Crash
    <2>1. /\ op' = [x \in Clients |-> Idle]
          /\ import' = [i \in Importers |->
                          IF import[i].how \in {"running", "restoring"}
                          THEN [import[i] EXCEPT !.how = "failed"] ELSE import[i]]
          /\ patch' = [p \in Patchers |->
                          IF patch[p].pc \in {"off", "accepted", "refused", "gone"}
                          THEN patch[p] ELSE [patch[p] EXCEPT !.pc = "gone"]]
      BY <1>14 DEF Crash, StoreCrash, ArchiveCrash, SettingsCrash
    <2>2. \A p \in Patchers : op'[p] = Idle
      BY <1>1, <2>1
    <2>3. /\ import' \in [Importers -> ImportType]
          /\ \A i \in Importers : import'[i].how \notin {"running", "restoring"}
      BY <2>1 DEF ClientsInv, ImportType
    <2> QED
      BY <2>2, <2>3 DEF ClientsInv
  <1>15. CASE Start
    BY <1>3, <1>15 DEF Start, Open, OpenFails, archiveVars, settingsVars
  <1>16. CASE UNCHANGED vars
    BY <1>3, <1>16 DEF vars, storeVars, archiveVars, settingsVars
  <1> QED
    BY <1>5, <1>9, <1>12, <1>13, <1>14, <1>15, <1>16 DEF Next

-----------------------------------------------------------------------------
(* Changes of settings. *)

\* The accepted configuration with a change laid over it is a configuration.
LEMMA MergedConfigs ==
    ASSUME NEW base \in Configs, NEW change \in Changes
    PROVE  /\ Merge(base, change) \in Configs
           /\ DOMAIN change \subseteq Keys
           /\ \A k \in DOMAIN change : Merge(base, change)[k] = change[k]
           /\ \A k \in Keys : Merge(base, change)[k] # base[k] => k \in DOMAIN change
  BY SettingsConstants DEF Configs, Merge

\* Where a request gets to without holding the lock, it touches nothing.
LEMMA SettingsKept ==
    ASSUME SettingsInv, NEW p \in Patchers, NEW pc \in {"accepted", "refused", "gone"},
           patch' = Patched(p, pc), editing' = (IF editing = p THEN None ELSE editing),
           patch[p].pc \notin {"apply"},
           patch[p].pc = "recording" => doubt' \/ known' = patch[p].result,
           doubt \/ doubt' \/ known' \in {known, patch[p].result},
           known' # known => patch[p].pc = "recording" /\ known' = patch[p].result,
           doubt => doubt',
           configFile' = configFile, live' = live
    PROVE  SettingsInv'
  <1>1. /\ patch' \in [Patchers -> PatchType]
        /\ patch'[p].pc = pc /\ patch'[p].change = patch[p].change
        /\ patch'[p].confirm = patch[p].confirm /\ patch'[p].result = patch[p].result
        /\ \A r \in Patchers \ {p} : patch'[r] = patch[r]
    BY DEF SettingsInv, PatchType, Patched
  <1>2. \A r \in Patchers : r # None
    BY StoreConstants, SettingsConstants
  <1>3. \A r \in Patchers : patch'[r].pc \in Editing <=> editing' = r
    BY <1>1, <1>2 DEF SettingsInv, Editing
  <1>4. known' \in Configs
    <2>1. CASE known' = known
      BY <2>1 DEF SettingsInv
    <2>2. CASE patch[p].pc = "recording" /\ known' = patch[p].result
      BY <2>2, MergedConfigs DEF SettingsInv, Editing
    <2> QED
      BY <2>1, <2>2
  <1>5. \A r \in Patchers \ {p} : patch[r].pc \in Editing => known' = known
    BY DEF SettingsInv, Editing
  <1>6. \A r \in Patchers \ {p} : patch[r].pc \in Editing => patch'[r].result = Merge(known', patch'[r].change)
    BY <1>1, <1>5 DEF SettingsInv
  <1>7. \A r \in Patchers \ {p} :
          patch[r].pc \in {"write", "apply", "recording"} /\ GoesLive(r)' => patch'[r].confirm
    BY <1>1, <1>5 DEF SettingsInv, GoesLive, Editing
  <1>8. ~doubt' =>
         /\ (\A r \in Patchers : patch'[r].pc \notin {"apply", "recording"}) => configFile' = known'
         /\ (\A r \in Patchers : patch'[r].pc # "recording") => live' = known'
         /\ \A r \in Patchers :
              /\ patch'[r].pc \in {"apply", "recording"} => configFile' = patch'[r].result
              /\ patch'[r].pc = "recording" => live' = patch'[r].result
    <2> SUFFICES ASSUME ~doubt' PROVE
         /\ (\A r \in Patchers : patch'[r].pc \notin {"apply", "recording"}) => configFile' = known'
         /\ (\A r \in Patchers : patch'[r].pc # "recording") => live' = known'
         /\ \A r \in Patchers :
              /\ patch'[r].pc \in {"apply", "recording"} => configFile' = patch'[r].result
              /\ patch'[r].pc = "recording" => live' = patch'[r].result
      OBVIOUS
    <2>1. CASE patch[p].pc = "recording"
      <3>1. \A r \in Patchers \ {p} : patch[r].pc \notin Editing
        BY <2>1 DEF SettingsInv, Editing
      <3>2. configFile = patch[p].result /\ live = patch[p].result /\ known' = patch[p].result
        BY <2>1 DEF SettingsInv
      <3> QED
        BY <1>1, <3>1, <3>2 DEF Editing
    <2>2. CASE patch[p].pc # "recording"
      <3>1. known' = known /\ patch[p].pc \notin {"apply", "recording"}
        BY <2>2
      <3> QED
        BY <1>1, <3>1 DEF SettingsInv
    <2> QED
      BY <2>1, <2>2
  <1>9. \A r \in Patchers : patch'[r].pc \in Editing \cup {"waiting"} => patch'[r].change \in Changes
    BY <1>1 DEF SettingsInv, Editing
  <1>10. \A r \in Patchers : patch'[r].pc \in Editing => patch'[r].result = Merge(known', patch'[r].change)
    BY <1>1, <1>6 DEF Editing
  <1>11. \A r \in Patchers :
           patch'[r].pc \in {"write", "apply", "recording"} /\ GoesLive(r)' => patch'[r].confirm
    BY <1>1, <1>7
  <1> QED
    BY <1>1, <1>3, <1>4, <1>8, <1>9, <1>10, <1>11 DEF SettingsInv

\* Every step keeps file, values in force and the accepted configuration where the request that
\* holds the lock has left them.
LEMMA SettingsStep ==
    ASSUME SettingsInv, [Next]_vars
    PROVE  SettingsInv'
  <1>1. \A p \in Patchers : p # None
    BY StoreConstants, SettingsConstants
  <1>2. ASSUME UNCHANGED <<configFile, known, editing, live, patch, doubt>>
        PROVE  SettingsInv'
    BY <1>2 DEF SettingsInv, GoesLive
  <1>3. ASSUME NEW p \in Patchers, Ask(p) PROVE SettingsInv'
    <2>1. PICK change \in Changes, confirm \in BOOLEAN :
            patch' = [patch EXCEPT ![p] = [pc |-> "waiting", change |-> change,
                                           confirm |-> confirm, result |-> <<>>]]
      BY <1>3 DEF Ask
    <2>2. /\ patch[p].pc = "off" /\ configFile' = configFile /\ known' = known
          /\ editing' = editing /\ live' = live /\ doubt' = doubt
      BY <1>3 DEF Ask, Is
    <2>3. /\ patch' \in [Patchers -> PatchType]
          /\ patch'[p].pc = "waiting" /\ patch'[p].change \in Changes
          /\ \A r \in Patchers \ {p} : patch'[r] = patch[r]
      BY <2>1 DEF SettingsInv, PatchType
    <2>4. \A r \in Patchers \ {p} : GoesLive(r)' = GoesLive(r)
      BY <2>2, <2>3 DEF GoesLive
    <2> QED
      BY <2>2, <2>3, <2>4 DEF SettingsInv, Editing
  <1>4. ASSUME NEW p \in Patchers, Lock(p) PROVE SettingsInv'
    <2> DEFINE result == Merge(known, patch[p].change)
               stage == IF Diff(known, result) \subseteq Live THEN "write" ELSE "mode"
    <2>1. /\ patch[p].pc = "waiting" /\ editing = None /\ configFile' = configFile
          /\ known' = known /\ live' = live /\ doubt' = doubt
      BY <1>4 DEF Lock, Is, Lockable
    <2>2. patch[p].change \in Changes /\ known \in Configs
      BY <2>1 DEF SettingsInv
    <2>3. result \in Configs
      BY <2>2, MergedConfigs
    <2>4. \/ patch' = Patched(p, "accepted") /\ editing' = editing
          \/ patch' = [patch EXCEPT ![p].result = result, ![p].pc = stage] /\ editing' = p
      BY <1>4 DEF Lock
    <2>5. CASE patch' = Patched(p, "accepted") /\ editing' = editing
      BY <1>1, <2>1, <2>5, SettingsKept
    <2>6. CASE patch' = [patch EXCEPT ![p].result = result, ![p].pc = stage] /\ editing' = p
      <3>1. stage \in {"write", "mode"}
        OBVIOUS
      <3>2. stage = "write" => known["dryRun"] = result["dryRun"]
        BY <2>2, <2>3 DEF Diff, Live, Keys, PolicyKeys
      <3>3. result = Merge(known, patch[p].change)
        OBVIOUS
      <3> HIDE DEF result, stage
      <3>4. /\ patch' \in [Patchers -> PatchType] /\ patch'[p].pc = stage
            /\ patch'[p].result = result /\ patch'[p].change = patch[p].change
            /\ \A r \in Patchers \ {p} : patch'[r] = patch[r]
        <4> DEFINE asked == [patch[p] EXCEPT !.result = result, !.pc = stage]
        <4>1. patch \in [Patchers -> PatchType] /\ patch' = [patch EXCEPT ![p] = asked]
          BY <2>6 DEF SettingsInv
        <4>2. patch[p] \in PatchType
          BY <4>1
        <4>3. asked.pc = stage /\ asked.result = result /\ asked.change = patch[p].change
          BY <4>2 DEF PatchType
        <4>4. asked \in PatchType
          BY <2>3, <3>1, <4>2 DEF PatchType
        <4> HIDE DEF asked
        <4> QED
          BY <4>1, <4>3, <4>4
      <3>5. \A r \in Patchers : patch[r].pc \notin Editing
        BY <1>1, <2>1 DEF SettingsInv
      <3>6. stage = "write" => ~GoesLive(p)'
        BY <2>1, <3>2, <3>4 DEF GoesLive
      <3>7. patch'[p].pc \in Editing /\ patch'[p].pc \notin {"apply", "recording"}
        BY <3>1, <3>4 DEF Editing
      <3>8. \A r \in Patchers : patch'[r].pc \in Editing <=> editing' = r
        BY <2>6, <3>4, <3>5, <3>7
      <3>9. \A r \in Patchers :
              patch'[r].pc \in {"write", "apply", "recording"} /\ GoesLive(r)' => patch'[r].confirm
        BY <3>4, <3>5, <3>6, <3>7 DEF Editing
      <3>10. ~doubt => configFile = known /\ live = known
        BY <3>5 DEF SettingsInv, Editing
      <3>11. \A r \in Patchers : patch'[r].pc \notin {"apply", "recording"}
        BY <3>4, <3>5, <3>7 DEF Editing
      <3>12. \A r \in Patchers : patch'[r].pc \in Editing \cup {"waiting"} => patch'[r].change \in Changes
        BY <2>2, <3>4 DEF SettingsInv
      <3>13. \A r \in Patchers : patch'[r].pc \in Editing => patch'[r].result = Merge(known', patch'[r].change)
        BY <2>1, <3>3, <3>4, <3>5
      <3> QED
        BY <2>1, <3>4, <3>8, <3>9, <3>10, <3>11, <3>12, <3>13 DEF SettingsInv
    <2> QED
      BY <2>4, <2>5, <2>6
  <1>5. ASSUME NEW p \in Patchers, NEW pc \in Editing, patch[p].pc \in Editing, patch' = Patched(p, pc),
               editing' = editing, known' = known, doubt' = doubt,
               configFile' \in Configs, live' \in Configs,
               patch[p].pc = "mode" /\ GoesLive(p) => patch[p].confirm,
               ~doubt => /\ configFile' = IF pc \in {"apply", "recording"} THEN patch[p].result ELSE known
                         /\ live' = IF pc = "recording" THEN patch[p].result ELSE known
        PROVE  SettingsInv'
    <2>1. /\ patch' \in [Patchers -> PatchType]
          /\ patch'[p].pc = pc /\ patch'[p].change = patch[p].change
          /\ patch'[p].confirm = patch[p].confirm /\ patch'[p].result = patch[p].result
          /\ \A r \in Patchers \ {p} : patch'[r] = patch[r]
      BY <1>5 DEF SettingsInv, PatchType, Patched, Editing
    <2>2. \A r \in Patchers \ {p} : patch[r].pc \notin Editing
      BY <1>5 DEF SettingsInv
    <2>3. \A r \in Patchers : patch'[r].pc \in Editing <=> editing' = r
      BY <1>5, <2>1, <2>2 DEF SettingsInv
    <2>4. patch[p].change \in Changes /\ patch[p].result = Merge(known, patch[p].change)
      BY <1>5 DEF SettingsInv
    <2>5. GoesLive(p)' = GoesLive(p)
      BY <1>5, <2>1 DEF GoesLive
    <2>6. GoesLive(p) => patch[p].confirm
      BY <1>5 DEF SettingsInv, Editing
    <2>7. \A r \in Patchers : patch'[r].pc \in Editing \cup {"waiting"} => patch'[r].change \in Changes
      BY <2>1, <2>4 DEF SettingsInv
    <2>8. \A r \in Patchers : patch'[r].pc \in Editing => patch'[r].result = Merge(known', patch'[r].change)
      BY <1>5, <2>1, <2>2, <2>4
    <2>9. \A r \in Patchers :
            patch'[r].pc \in {"write", "apply", "recording"} /\ GoesLive(r)' => patch'[r].confirm
      BY <2>1, <2>2, <2>5, <2>6 DEF Editing
    <2>10. \A r \in Patchers : patch'[r].pc \in {"apply", "recording"} => r = p
      BY <2>1, <2>2 DEF Editing
    <2> QED
      BY <1>5, <2>1, <2>3, <2>7, <2>8, <2>9, <2>10 DEF SettingsInv
  <1>6. ASSUME NEW p \in Patchers, patch[p].pc \in Editing
        PROVE  /\ editing = p /\ patch[p].result \in Configs /\ known \in Configs
               /\ patch[p].result = Merge(known, patch[p].change)
               /\ ~doubt =>
                    /\ configFile = IF patch[p].pc \in {"apply", "recording"} THEN patch[p].result ELSE known
                    /\ live = IF patch[p].pc = "recording" THEN patch[p].result ELSE known
    <2>1. editing = p /\ known \in Configs /\ patch[p].change \in Changes
          /\ patch[p].result = Merge(known, patch[p].change)
      BY <1>6 DEF SettingsInv
    <2>2. \A r \in Patchers \ {p} : patch[r].pc \notin Editing
      BY <2>1 DEF SettingsInv
    <2>3. patch[p].result \in Configs
      BY <2>1, MergedConfigs
    <2> QED
      BY <1>6, <2>1, <2>2, <2>3 DEF SettingsInv, Editing
  <1>7. ASSUME NEW p \in Patchers, CheckMode(p) PROVE SettingsInv'
    <2>1. /\ patch[p].pc = "mode" /\ configFile' = configFile /\ known' = known /\ live' = live
          /\ doubt' = doubt
          /\ \/ (GoesLive(p) => patch[p].confirm) /\ patch' = Patched(p, "write") /\ editing' = editing
             \/ patch' = Patched(p, "refused") /\ editing' = None
      BY <1>7 DEF CheckMode, Is
    <2>2. patch[p].pc \in Editing
      BY <2>1 DEF Editing
    <2>3. configFile \in Configs /\ live \in Configs
      BY DEF SettingsInv
    <2>4. CASE (GoesLive(p) => patch[p].confirm) /\ patch' = Patched(p, "write") /\ editing' = editing
      <3>1. "write" \in Editing
        BY DEF Editing
      <3>2. ~doubt => configFile = known /\ live = known
        BY <1>6, <2>1, <2>2
      <3> QED
        BY <1>5, <2>1, <2>2, <2>3, <2>4, <3>1, <3>2
    <2>5. CASE patch' = Patched(p, "refused") /\ editing' = None
      BY <1>6, <2>1, <2>2, <2>5, SettingsKept
    <2> QED
      BY <2>1, <2>4, <2>5
  <1>8. ASSUME NEW p \in Patchers, WriteConfig(p) PROVE SettingsInv'
    <2>1. /\ patch[p].pc = "write" /\ patch' = Patched(p, "apply") /\ known' = known
          /\ editing' = editing /\ live' = live /\ doubt' = doubt
          /\ configFile' = [k \in Keys |-> IF k \in Diff(known, patch[p].result)
                                           THEN patch[p].result[k] ELSE configFile[k]]
      BY <1>8 DEF WriteConfig, Is
    <2>2. patch[p].pc \in Editing /\ "apply" \in Editing
      BY <2>1 DEF Editing
    <2>3. configFile \in Configs /\ live \in Configs /\ patch[p].result \in Configs /\ known \in Configs
      BY <1>6, <2>2 DEF SettingsInv
    <2>4. configFile' \in Configs
      BY <2>1, <2>3 DEF Configs
    <2>5. ~doubt => configFile = known /\ live = known
      BY <1>6, <2>1, <2>2
    <2>6. ~doubt => configFile' = patch[p].result
      BY <2>1, <2>3, <2>5 DEF Configs, Diff
    <2> QED
      BY <1>5, <2>1, <2>2, <2>3, <2>4, <2>5, <2>6
  <1>9. ASSUME NEW p \in Patchers, Apply(p) PROVE SettingsInv'
    <2>1. /\ patch[p].pc = "apply" /\ patch' = Patched(p, "recording") /\ known' = known
          /\ editing' = editing /\ live' = patch[p].result /\ doubt' = doubt /\ configFile' = configFile
      BY <1>9 DEF Apply, Is
    <2>2. patch[p].pc \in Editing /\ "recording" \in Editing
      BY <2>1 DEF Editing
    <2>3. configFile \in Configs /\ patch[p].result \in Configs
      BY <1>6, <2>2 DEF SettingsInv
    <2>4. ~doubt => configFile = patch[p].result
      BY <1>6, <2>1, <2>2
    <2> QED
      BY <1>5, <2>1, <2>2, <2>3, <2>4
  <1>10. ASSUME NEW p \in Patchers, WriteConfigFails(p) PROVE SettingsInv'
    <2>1. /\ patch[p].pc = "write" /\ patch' = Patched(p, "refused") /\ known' = known
          /\ editing' = None /\ live' = live /\ doubt' = doubt /\ configFile' = configFile
      BY <1>10 DEF WriteConfigFails, Is
    <2>2. editing = p
      BY <1>6, <2>1 DEF Editing
    <2> QED
      BY <2>1, <2>2, SettingsKept
  <1>11. ASSUME NEW p \in Patchers, Accept(p) \/ Unrecorded(p) PROVE SettingsInv'
    <2>1. /\ patch[p].pc = "recording" /\ editing' = None /\ live' = live /\ configFile' = configFile
          /\ \/ patch' = Patched(p, "accepted") /\ known' = patch[p].result /\ doubt' = doubt
             \/ patch' = Patched(p, "refused") /\ known' = known /\ doubt' = TRUE
      BY <1>11 DEF Accept, Unrecorded, Is
    <2>2. editing = p
      BY <1>6, <2>1 DEF Editing
    <2> QED
      BY <2>1, <2>2, SettingsKept
  <1>12. ASSUME NEW p \in Patchers, PatchDropped(p) PROVE SettingsInv'
    <2>1. /\ patch[p].pc \in {"waiting", "mode", "recording"} /\ patch' = Patched(p, "gone")
          /\ editing' = (IF editing = p THEN None ELSE editing) /\ known' = known /\ live' = live
          /\ configFile' = configFile /\ doubt' = (doubt \/ patch[p].pc = "recording")
      BY <1>12 DEF PatchDropped
    <2> QED
      BY <2>1, SettingsKept
  <1>13. CASE Configuring
    <2>1. \/ Freeze \/ Resume
          \/ \E p \in Patchers :
               \/ Ask(p) \/ Lock(p) \/ CheckMode(p) \/ WriteConfig(p) \/ Apply(p)
               \/ Accept(p) \/ Unrecorded(p) \/ WriteConfigFails(p) \/ PatchDropped(p)
      BY <1>13 DEF Configuring
    <2>2. CASE Freeze \/ Resume
      BY <1>2, <2>2 DEF Freeze, Resume
    <2> QED
      BY <1>3, <1>4, <1>7, <1>8, <1>9, <1>10, <1>11, <1>12, <2>1, <2>2
  <1>14. CASE Crash
    <2>1. /\ known' = configFile /\ live' = configFile /\ configFile' = configFile
          /\ editing' = None /\ doubt' = FALSE
          /\ patch' = [p \in Patchers |->
                          IF patch[p].pc \in {"off", "accepted", "refused", "gone"}
                          THEN patch[p] ELSE [patch[p] EXCEPT !.pc = "gone"]]
      BY <1>14 DEF Crash, SettingsCrash
    <2>2. /\ patch' \in [Patchers -> PatchType]
          /\ \A p \in Patchers : patch'[p].pc \in {"off", "accepted", "refused", "gone"}
      BY <2>1 DEF SettingsInv, PatchType
    <2> QED
      BY <1>1, <2>1, <2>2 DEF SettingsInv, Editing
  <1>15. CASE Store \/ StoreFails \/ ImportingSessions \/ Recovering \/ Start \/ UNCHANGED vars
    BY <1>2, <1>15 DEF Store, StoreFails, ImportingSessions, Recovering, Start, vars, settingsVars
  <1> QED
    BY <1>13, <1>14, <1>15 DEF Next

\* The settings start out as the file has them.
LEMMA SettingsStart ==
    ASSUME Init
    PROVE  SettingsInv
  <1>1. /\ configFile = [k \in Keys |-> TRUE] /\ known = configFile /\ live = configFile
        /\ editing = None /\ patch = [p \in Patchers |-> NoPatch]
    BY DEF Init, SettingsInit
  <1>2. \A p \in Patchers : p # None /\ patch[p].pc = "off"
    BY <1>1, StoreConstants, SettingsConstants DEF NoPatch
  <1>3. patch \in [Patchers -> PatchType]
    BY <1>1 DEF NoPatch, PatchType
  <1>4. configFile \in Configs
    BY <1>1 DEF Configs
  <1> QED
    BY <1>1, <1>2, <1>3, <1>4 DEF SettingsInv, Editing

\* The configuration a change makes differs from the accepted one where the change says so, and
\* lets commands execute only when it is confirmed.
LEMMA OnlyAsAsked ==
    ASSUME SettingsInv, NEW p \in Patchers,
           patch[p].pc \in {"apply", "recording"}
    PROVE  /\ \A k \in Keys : patch[p].result[k] # known[k] =>
                Asked(p, k) /\ (k = "dryRun" /\ ~patch[p].result[k] => patch[p].confirm)
           /\ \A k \in DOMAIN patch[p].change : patch[p].result[k] = patch[p].change[k]
  <1>1. /\ patch[p].change \in Changes /\ patch[p].result = Merge(known, patch[p].change)
        /\ known \in Configs /\ (GoesLive(p) => patch[p].confirm)
    BY DEF SettingsInv, Editing
  <1>2. patch[p].result \in Configs
    BY <1>1, MergedConfigs
  <1>3. \A k \in Keys : patch[p].result[k] # known[k] => Asked(p, k)
    BY <1>1, MergedConfigs DEF Asked
  <1>4. \A k \in DOMAIN patch[p].change : patch[p].result[k] = patch[p].change[k]
    BY <1>1, MergedConfigs
  <1>5. patch[p].result["dryRun"] # known["dryRun"] /\ ~patch[p].result["dryRun"] => GoesLive(p)
    <2>1. "dryRun" \in Keys
      BY DEF Keys, PolicyKeys
    <2>2. known["dryRun"] \in BOOLEAN /\ patch[p].result["dryRun"] \in BOOLEAN
      BY <1>1, <1>2, <2>1 DEF Configs
    <2> QED
      BY <2>2 DEF GoesLive
  <1> QED
    BY <1>1, <1>3, <1>4, <1>5

\* What a step may do to the settings in force.
LEMMA SettingsAction ==
    ASSUME SettingsInv, [Next]_vars, ~doubt
    PROVE  /\ \A k \in Keys : live'[k] # live[k] =>
                \E p \in Patchers :
                   /\ patch[p].pc \in {"apply", "recording"} /\ Asked(p, k)
                   /\ k = "dryRun" /\ ~live'[k] => patch[p].confirm
           /\ \A p \in Patchers :
                patch[p].pc # "accepted" /\ patch'[p].pc = "accepted" =>
                   \A k \in DOMAIN patch[p].change :
                      live'[k] = patch[p].change[k] /\ configFile'[k] = patch[p].change[k]
  <1> DEFINE Goal ==
        /\ \A k \in Keys : live'[k] # live[k] =>
             \E p \in Patchers :
                /\ patch[p].pc \in {"apply", "recording"} /\ Asked(p, k)
                /\ k = "dryRun" /\ ~live'[k] => patch[p].confirm
        /\ \A p \in Patchers :
             patch[p].pc # "accepted" /\ patch'[p].pc = "accepted" =>
                \A k \in DOMAIN patch[p].change :
                   live'[k] = patch[p].change[k] /\ configFile'[k] = patch[p].change[k]
  <1> SUFFICES Goal
    OBVIOUS
  <1>1. ASSUME live' = live, \A p \in Patchers : patch'[p].pc = "accepted" => patch[p].pc = "accepted"
        PROVE  Goal
    BY <1>1
  <1>2. ASSUME NEW p \in Patchers, NEW pc, patch' = Patched(p, pc), pc # "accepted", live' = live
        PROVE  Goal
    <2>1. \A r \in Patchers : patch'[r].pc = "accepted" => patch[r].pc = "accepted"
      BY <1>2 DEF SettingsInv, PatchType, Patched
    <2> QED
      BY <1>1, <1>2, <2>1
  <1>3. ASSUME NEW p \in Patchers, Ask(p) PROVE Goal
    <2>1. live' = live /\ \E change, confirm :
            patch' = [patch EXCEPT ![p] = [pc |-> "waiting", change |-> change,
                                           confirm |-> confirm, result |-> <<>>]]
      BY <1>3 DEF Ask
    <2>2. \A r \in Patchers : patch'[r].pc = "accepted" => patch[r].pc = "accepted"
      BY <2>1 DEF SettingsInv, PatchType
    <2> QED
      BY <1>1, <2>1, <2>2
  <1>4. ASSUME NEW p \in Patchers, Lock(p) PROVE Goal
    <2> DEFINE result == Merge(known, patch[p].change)
               stage == IF Diff(known, result) \subseteq Live THEN "write" ELSE "mode"
    <2>1. /\ patch[p].pc = "waiting" /\ editing = None /\ configFile' = configFile /\ live' = live
          /\ \/ Diff(known, result) = {} /\ patch' = Patched(p, "accepted")
             \/ patch' = [patch EXCEPT ![p].result = result, ![p].pc = stage]
      BY <1>4 DEF Lock, Is, Lockable
    <2>2. CASE Diff(known, result) = {} /\ patch' = Patched(p, "accepted")
      <3>1. \A r \in Patchers : patch[r].pc \notin Editing
        BY <2>1, StoreConstants, SettingsConstants DEF SettingsInv
      <3>2. live = known /\ configFile = known
        BY <3>1 DEF SettingsInv, Editing
      <3>3. patch[p].change \in Changes /\ known \in Configs
        BY <2>1 DEF SettingsInv
      <3>4. \A k \in Keys : known[k] = result[k]
        BY <2>2 DEF Diff
      <3>5. \A k \in DOMAIN patch[p].change : known[k] = patch[p].change[k]
        BY <3>3, <3>4, MergedConfigs
      <3>6. \A r \in Patchers \ {p} : patch'[r] = patch[r]
        BY <2>2 DEF SettingsInv, Patched
      <3> QED
        BY <2>1, <3>2, <3>5, <3>6
    <2>3. CASE patch' = [patch EXCEPT ![p].result = result, ![p].pc = stage]
      <3>1. stage # "accepted"
        OBVIOUS
      <3> HIDE DEF result, stage
      <3>2. \A r \in Patchers : patch'[r].pc = "accepted" => patch[r].pc = "accepted"
        BY <2>3, <3>1 DEF SettingsInv, PatchType
      <3> QED
        BY <1>1, <2>1, <3>2
    <2> QED
      BY <2>1, <2>2, <2>3
  <1>5. ASSUME NEW p \in Patchers, CheckMode(p) \/ WriteConfig(p) \/ WriteConfigFails(p) \/ Unrecorded(p)
                                     \/ PatchDropped(p)
        PROVE  Goal
    <2>1. live' = live
      BY <1>5 DEF CheckMode, WriteConfig, WriteConfigFails, Unrecorded, PatchDropped
    <2>2. \E pc \in {"write", "refused", "apply", "gone"} : patch' = Patched(p, pc)
      BY <1>5 DEF CheckMode, WriteConfig, WriteConfigFails, Unrecorded, PatchDropped
    <2>3. PICK pc \in {"write", "refused", "apply", "gone"} : patch' = Patched(p, pc)
      BY <2>2
    <2> QED
      BY <1>2, <2>1, <2>3
  <1>6. ASSUME NEW p \in Patchers, Apply(p) PROVE Goal
    <2>1. /\ patch[p].pc = "apply" /\ patch' = Patched(p, "recording")
          /\ live' = patch[p].result
      BY <1>6 DEF Apply, Is
    <2>2. \A r \in Patchers : patch[r].pc # "recording"
      BY <2>1 DEF SettingsInv, Editing
    <2>3. live = known
      BY <2>2 DEF SettingsInv
    <2>4. \A k \in Keys : patch[p].result[k] # known[k] =>
             Asked(p, k) /\ (k = "dryRun" /\ ~patch[p].result[k] => patch[p].confirm)
      BY <2>1, OnlyAsAsked
    <2>5. \A r \in Patchers : patch'[r].pc = "accepted" => patch[r].pc = "accepted"
      BY <2>1 DEF SettingsInv, PatchType, Patched
    <2> QED
      BY <2>1, <2>3, <2>4, <2>5
  <1>7. ASSUME NEW p \in Patchers, Accept(p) PROVE Goal
    <2>1. /\ patch[p].pc = "recording" /\ patch' = Patched(p, "accepted")
          /\ live' = live /\ configFile' = configFile
      BY <1>7 DEF Accept, Is
    <2>2. live = patch[p].result /\ configFile = patch[p].result
      BY <2>1 DEF SettingsInv
    <2>3. \A k \in DOMAIN patch[p].change : patch[p].result[k] = patch[p].change[k]
      BY <2>1, OnlyAsAsked
    <2>4. \A r \in Patchers \ {p} : patch'[r] = patch[r]
      BY <2>1 DEF SettingsInv, Patched
    <2> QED
      BY <2>1, <2>2, <2>3, <2>4
  <1>8. CASE Configuring
    <2>1. \/ Freeze \/ Resume
          \/ \E p \in Patchers :
               \/ Ask(p) \/ Lock(p) \/ CheckMode(p) \/ WriteConfig(p) \/ Apply(p)
               \/ Accept(p) \/ Unrecorded(p) \/ WriteConfigFails(p) \/ PatchDropped(p)
      BY <1>8 DEF Configuring
    <2>2. CASE Freeze \/ Resume
      BY <1>1, <2>2 DEF Freeze, Resume
    <2> HIDE DEF Goal
    <2> QED
      BY <1>3, <1>4, <1>5, <1>6, <1>7, <2>1, <2>2
  <1>9. CASE Crash
    <2>1. /\ live' = configFile
          /\ patch' = [p \in Patchers |->
                          IF patch[p].pc \in {"off", "accepted", "refused", "gone"}
                          THEN patch[p] ELSE [patch[p] EXCEPT !.pc = "gone"]]
      BY <1>9 DEF Crash, SettingsCrash
    <2>2. \A p \in Patchers : patch'[p].pc = "accepted" => patch[p].pc = "accepted"
      BY <2>1 DEF SettingsInv, PatchType
    <2>3. CASE \A p \in Patchers : patch[p].pc \notin {"apply", "recording"}
      <3>1. live = known /\ configFile = known
        BY <2>3 DEF SettingsInv
      <3> QED
        BY <1>1, <2>1, <2>2, <3>1
    <2>4. ASSUME NEW p \in Patchers, patch[p].pc = "apply" PROVE Goal
      <3>1. configFile = patch[p].result
        BY <2>4 DEF SettingsInv
      <3>2. \A r \in Patchers : patch[r].pc # "recording"
        BY <2>4 DEF SettingsInv, Editing
      <3>3. live = known
        BY <3>2 DEF SettingsInv
      <3>4. \A k \in Keys : patch[p].result[k] # known[k] =>
               Asked(p, k) /\ (k = "dryRun" /\ ~patch[p].result[k] => patch[p].confirm)
        BY <2>4, OnlyAsAsked
      <3> QED
        BY <2>1, <2>2, <2>4, <3>1, <3>3, <3>4
    <2>5. ASSUME NEW p \in Patchers, patch[p].pc = "recording" PROVE Goal
      <3>1. live = patch[p].result /\ configFile = patch[p].result
        BY <2>5 DEF SettingsInv
      <3> QED
        BY <1>1, <2>1, <2>2, <3>1
    <2> HIDE DEF Goal
    <2> QED
      BY <2>3, <2>4, <2>5
  <1>10. CASE Store \/ StoreFails \/ ImportingSessions \/ Recovering \/ Start \/ UNCHANGED vars
    BY <1>1, <1>10 DEF Store, StoreFails, ImportingSessions, Recovering, Start, vars, settingsVars
  <1> QED
    BY <1>8, <1>9, <1>10 DEF Next

\* The settings' invariant holds throughout.
LEMMA SettingsAlways == Spec => []SettingsInv
  <1>1. Init => SettingsInv
    BY SettingsStart
  <1>2. SettingsInv /\ [Next]_vars => SettingsInv'
    BY SettingsStep
  <1> QED
    BY <1>1, <1>2, PTL DEF Spec

\* A live value changes only by the request that asked for that very setting, confirmed when it
\* lets commands execute, whatever fails, is dropped or cut off by a restart; and a change that
\* is told accepted is in force and in the file (server.rs, settings.rs).
THEOREM AsAskedOnly == Spec => SettingsHold
  <1> DEFINE Body ==
        ~doubt =>
         /\ \A k \in Keys : live'[k] # live[k] =>
              \E p \in Patchers :
                 /\ patch[p].pc \in {"apply", "recording"} /\ Asked(p, k)
                 /\ k = "dryRun" /\ ~live'[k] => patch[p].confirm
         /\ \A p \in Patchers :
              patch[p].pc # "accepted" /\ patch'[p].pc = "accepted" =>
                 \A k \in DOMAIN patch[p].change :
                    live'[k] = patch[p].change[k] /\ configFile'[k] = patch[p].change[k]
  <1>1. SettingsInv /\ [Next]_vars => [Body]_<<storeVars, settingsVars>>
    BY SettingsAction
  <1>2. Spec => []SettingsInv
    BY SettingsAlways
  <1>3. Spec => [][Body]_<<storeVars, settingsVars>>
    <2> HIDE DEF Body
    <2> QED
      BY <1>1, <1>2, PTL DEF Spec
  <1> QED
    BY <1>3 DEF SettingsHold

-----------------------------------------------------------------------------
(* The event log. *)

\* What is read back of a line that is whole.
LineType == [seq : Nat \ {0}, event : Values]

InOrder(s) == \A m, n \in 1..Len(s) : m < n => s[m].seq <= s[n].seq
UpTo(s, k) == \A n \in 1..Len(s) : s[n].seq <= k
Has(s, r) == \E m \in 1..Len(s) : s[m] = r

LogTypes ==
    /\ file \in Seq(LineType) /\ events \in Seq(LineType) /\ acked \in Seq(LineType)
    /\ next \in Nat \ {0} /\ tail \in LineType \cup {None, Torn} /\ garbled \in BOOLEAN

\* Sequence numbers never fall, in the file with its last line and in the memory, and those of
\* acknowledged events lie below the next; whoever is served has every acknowledged event, and
\* the file has it too unless a line of it no longer parses.
LogInv ==
    /\ LogTypes
    /\ InOrder(file) /\ InOrder(events)
    /\ tail \in LineType => UpTo(file, tail.seq)
    /\ \A n \in 1..Len(acked) : garbled \/ Has(file, acked[n])
    /\ \A m, n \in 1..Len(acked) : m < n => acked[m].seq < acked[n].seq
    /\ up = "up" =>
         /\ UpTo(file, next) /\ UpTo(events, next) /\ (tail \in LineType => tail.seq <= next)
         /\ \A n \in 1..Len(acked) : acked[n].seq < next /\ Has(events, acked[n])
    /\ \A c \in Clients : op[c].pc = "sync" => garbled \/ Has(file, Record(c))

\* A line of the log is whole, and is none of the marks.
LEMMA LineFacts ==
    /\ \A l \in LineType : l.seq \in Nat \ {0} /\ l.event \in Values
    /\ Torn \notin LineType /\ None \notin LineType /\ None # Torn
  <1>1. LineType \subseteq [seq : Nat, event : Values]
    BY DEF LineType
  <1>2. \A l \in LineType : l.seq \in Nat \ {0} /\ l.event \in Values
    BY DEF LineType
  <1> QED
    BY <1>1, <1>2, StoreConstants

\* A line of the highest number so far, put behind the others.
LEMMA LineAppended ==
    ASSUME NEW s \in Seq(LineType), NEW r \in LineType, InOrder(s), UpTo(s, r.seq)
    PROVE  /\ Append(s, r) \in Seq(LineType) /\ InOrder(Append(s, r)) /\ UpTo(Append(s, r), r.seq)
           /\ Has(Append(s, r), r) /\ \A x : Has(s, x) => Has(Append(s, r), x)
           /\ Len(Append(s, r)) = Len(s) + 1 /\ Append(s, r)[Len(s) + 1] = r
  <1> DEFINE t == Append(s, r)
             k == Len(s)
  <1>1. /\ t \in Seq(LineType) /\ Len(t) = k + 1 /\ t[k + 1] = r /\ k \in Nat
        /\ \A n \in 1..k : t[n] = s[n]
    BY AppendProperties, LenProperties
  <1>2. \A n \in 1..Len(t) : n \in 1..k \/ n = k + 1
    BY <1>1
  <1>3. r.seq \in Nat /\ \A n \in 1..k : s[n].seq <= r.seq
    BY LineFacts DEF UpTo
  <1>4. \A n \in 1..Len(t) : t[n].seq <= r.seq
    <2>1. r.seq <= r.seq
      BY <1>3
    <2> QED
      BY <1>1, <1>2, <1>3, <2>1
  <1>5. ASSUME NEW m \in 1..Len(t), NEW n \in 1..Len(t), m < n PROVE t[m].seq <= t[n].seq
    <2>1. m \in 1..k
      BY <1>1, <1>5
    <2>2. CASE n \in 1..k
      BY <1>1, <1>5, <2>1, <2>2 DEF InOrder
    <2>3. CASE n = k + 1
      BY <1>1, <1>4, <2>3
    <2> QED
      BY <1>2, <2>2, <2>3
  <1>6. k + 1 \in 1..Len(t) /\ \A n \in 1..k : n \in 1..Len(t)
    BY <1>1
  <1>7. Has(t, r) /\ \A x : Has(s, x) => Has(t, x)
    <2>1. Has(t, r)
      BY <1>1, <1>6 DEF Has
    <2>2. ASSUME NEW x, Has(s, x) PROVE Has(t, x)
      <3>1. PICK m \in 1..k : s[m] = x
        BY <2>2 DEF Has
      <3>2. m \in 1..Len(t) /\ t[m] = x
        BY <1>1, <1>6, <3>1
      <3> QED
        BY <3>2 DEF Has
    <2> QED
      BY <2>1, <2>2
  <1>8. InOrder(t) /\ UpTo(t, r.seq)
    BY <1>4, <1>5 DEF InOrder, UpTo
  <1> QED
    BY <1>1, <1>7, <1>8

\* Numbers that go up to one go up to the next.
LEMMA UpToMore ==
    ASSUME NEW s \in Seq(LineType), NEW j \in Nat, NEW k \in Nat, j <= k, UpTo(s, j)
    PROVE  UpTo(s, k)
  <1>1. \A n \in 1..Len(s) : s[n].seq \in Nat /\ s[n].seq <= j
    BY ElementOfSeq, LineFacts DEF UpTo
  <1> QED
    BY <1>1 DEF UpTo

\* Where no line is under way, and nothing of the log changes, it stays as it should be.
LEMMA LogKept ==
    ASSUME LogInv, file' = file, tail' = tail, garbled' = garbled, events' = events,
           acked' = acked, next' = next, up' = up,
           \A c \in Clients : op'[c].pc = "sync" => op[c].pc = "sync" /\ op'[c].new = op[c].new
    PROVE  LogInv'
  <1>1. \A c \in Clients : op'[c].pc = "sync" => op[c].pc = "sync" /\ Record(c)' = Record(c)
    BY DEF Record
  <1> QED
    BY <1>1 DEF LogInv, LogTypes, InOrder, UpTo, Has

\* A line under way is a whole one, of the next number.
LEMMA Recorded ==
    ASSUME LogInv, CallsInv, NEW c \in Clients, op[c].pc \in {"line", "sync"}
    PROVE  Record(c) \in LineType /\ Record(c).seq = next
  <1>1. op[c].new \in Values /\ next \in Nat \ {0}
    BY DEF CallsInv, Formed, LogInv, LogTypes
  <1> QED
    BY <1>1 DEF Record, LineType

\* An append that is cut off leaves a part of its line, or all of it but the newline.
LEMMA CutOffKeepsLog ==
    ASSUME CallsInv, LogInv, up = "up", file' = file, garbled' = garbled, events' = events,
           acked' = acked, next' = next, up' \in {"up", "down"},
           tail' = tail \/ \E c \in Clients : op[c].pc = "line" /\ tail' \in CutOff(c),
           \A c \in Clients : op'[c].pc # "sync"
    PROVE  LogInv'
  <1>1. next \in Nat /\ UpTo(file, next) /\ next <= next
    BY DEF LogInv, LogTypes
  <1>2. /\ tail' \in LineType \cup {None, Torn}
        /\ tail' \in LineType => UpTo(file, tail'.seq) /\ tail'.seq <= next
    <2>1. CASE tail' = tail
      BY <2>1 DEF LogInv, LogTypes
    <2>2. ASSUME NEW c \in Clients, op[c].pc = "line", tail' \in CutOff(c)
          PROVE  /\ tail' \in LineType \cup {None, Torn}
                 /\ tail' \in LineType => UpTo(file, tail'.seq) /\ tail'.seq <= next
      <3>1. Record(c) \in LineType /\ Record(c).seq = next
        BY <2>2, Recorded
      <3>2. tail' \in {None, Torn, Record(c), tail}
        BY <2>2 DEF CutOff
      <3> QED
        BY <1>1, <3>1, <3>2, LineFacts DEF LogInv, LogTypes
    <2> QED
      BY <2>1, <2>2
  <1> QED
    BY <1>2 DEF LogInv, LogTypes, InOrder, UpTo, Has

\* What is read back of a file that parses.
LEMMA LinesRead ==
    ASSUME LogInv, Parses
    PROVE  /\ Lines \in Seq(LineType) /\ InOrder(Lines)
           /\ \A n \in 1..Len(acked) : Has(Lines, acked[n])
           /\ \A x : Has(file, x) => Has(Lines, x)
           /\ tail \in LineType => Has(Lines, tail)
  <1>1. tail = None \/ tail \in LineType
    BY DEF LogInv, LogTypes, Parses
  <1>2. file \in Seq(LineType) /\ InOrder(file)
    BY DEF LogInv, LogTypes
  <1>3. /\ Lines \in Seq(LineType) /\ InOrder(Lines) /\ \A x : Has(file, x) => Has(Lines, x)
        /\ tail \in LineType => Has(Lines, tail)
    <2>1. CASE tail = None
      BY <1>2, <2>1, LineFacts DEF Lines
    <2>2. CASE tail \in LineType
      <3>1. Lines = Append(file, tail)
        BY <2>2, LineFacts DEF Lines
      <3>2. UpTo(file, tail.seq)
        BY <2>2 DEF LogInv
      <3> QED
        BY <1>2, <2>2, <3>1, <3>2, LineAppended
    <2> QED
      BY <1>1, <2>1, <2>2
  <1> QED
    BY <1>3 DEF LogInv, Parses

\* The next number lies above all that are read back.
LEMMA NextAbove ==
    ASSUME LogInv, Parses
    PROVE  /\ NextSequence \in Nat \ {0}
           /\ \A x : Has(Lines, x) => x.seq < NextSequence
  <1> DEFINE k == Len(Lines)
  <1>1. /\ Lines \in Seq(LineType) /\ k \in Nat /\ \A n \in 1..k : Lines[n] \in LineType
    BY LinesRead, LenProperties, ElementOfSeq
  <1>2. CASE Lines = <<>>
    <2>1. k = 0 /\ NextSequence = 1
      BY <1>2 DEF NextSequence
    <2> QED
      BY <2>1 DEF Has
  <1>3. CASE Lines # <<>>
    <2>1. k \in 1..k /\ NextSequence = Lines[k].seq + 1
      BY <1>1, <1>3, EmptySeq DEF NextSequence
    <2>2. \A n \in 1..k : Lines[n].seq \in Nat /\ Lines[n].seq <= Lines[k].seq
      <3> SUFFICES ASSUME NEW n \in 1..k PROVE Lines[n].seq \in Nat /\ Lines[n].seq <= Lines[k].seq
        OBVIOUS
      <3>1. Lines[n].seq \in Nat /\ Lines[k].seq \in Nat
        BY <1>1, <2>1, LineFacts
      <3>2. n < k \/ n = k
        BY <1>1
      <3>3. n < k => Lines[n].seq <= Lines[k].seq
        BY <2>1, LinesRead DEF InOrder
      <3> QED
        BY <3>1, <3>2, <3>3
    <2>3. \A n \in 1..k : Lines[n].seq < NextSequence
      BY <2>1, <2>2
    <2> QED
      BY <2>1, <2>2, <2>3 DEF Has
  <1> QED
    BY <1>2, <1>3

\* Every operation keeps the log in order.
LEMMA LogStep ==
    ASSUME CallsInv, LogInv, Stored
    PROVE  LogInv'
  <1>1. op \in [Clients -> OpType]
    BY DEF CallsInv
  <1>2. /\ LogTypes /\ next \in Nat
    BY DEF LogInv, LogTypes
  <1>4. ASSUME NEW c \in Clients,
               Answer(c) \/ CreateTemp(c) \/ WriteTemp(c) \/ Rename(c) \/ Indexed(c) \/ OpenLog(c)
        PROVE  LogInv'
    <2>1. /\ file' = file /\ tail' = tail /\ garbled' = garbled /\ events' = events
          /\ acked' = acked /\ next' = next /\ up' = up
      BY <1>4 DEF Answer, CreateTemp, WriteTemp, Rename, Indexed, OpenLog, filesVars, logVars, memoryVars
    <2>2. op'[c].pc # "sync" /\ \A x \in Clients \ {c} : op'[x] = op[x]
      BY <1>1, <1>4 DEF Answer, CreateTemp, WriteTemp, Rename, Indexed, OpenLog, Stage, Reply, OpType
    <2>3. \A x \in Clients : op'[x].pc = "sync" => op[x].pc = "sync" /\ op'[x].new = op[x].new
      BY <2>2
    <2> QED
      BY <2>1, <2>3, LogKept
  <1>5. ASSUME NEW c \in Clients, Calls(c) PROVE LogInv'
    <2>1. PICK q \in AskedType \cup {Idle} : CallAs(c, q)
      BY <1>5 DEF Calls
    <2>2. q.pc # "sync"
      BY <2>1 DEF AskedType, Idle
    <2>3. /\ op' = [op EXCEPT ![c] = q] /\ file' = file /\ tail' = tail /\ garbled' = garbled
          /\ events' = events /\ acked' = acked /\ next' = next /\ up' = up
      BY <2>1 DEF CallAs, filesVars, memoryVars
    <2>4. \A x \in Clients : op'[x].pc = "sync" => op[x].pc = "sync" /\ op'[x].new = op[x].new
      BY <1>1, <2>2, <2>3
    <2> QED
      BY <2>3, <2>4, LogKept
  <1>6. ASSUME NEW c \in Clients, Dropped({c}) PROVE LogInv'
    <2>1. /\ op' = [x \in Clients |-> IF x = c THEN Idle ELSE op[x]]
          /\ file' = file /\ tail' = tail /\ garbled' = garbled /\ events' = events
          /\ acked' = acked /\ next' = next /\ up' = up
      BY <1>6 DEF Dropped, filesVars, memoryVars
    <2>2. Idle.pc # "sync"
      BY DEF Idle
    <2>3. \A x \in Clients : op'[x].pc = "sync" => op[x].pc = "sync" /\ op'[x].new = op[x].new
      BY <2>1, <2>2
    <2> QED
      BY <2>1, <2>3, LogKept
  <1>7. ASSUME NEW c \in Clients, WriteLine(c) PROVE LogInv'
    <2>1. /\ up = "up" /\ op[c].pc = "line" /\ op' = Stage(c, "sync") /\ tail' = None
          /\ events' = events /\ next' = next /\ acked' = acked /\ up' = up
      BY <1>7 DEF WriteLine, At, memoryVars
    <2>2. \/ tail = None /\ file' = Append(file, Record(c)) /\ garbled' = garbled
          \/ garbled' = TRUE /\ file' = file
      BY <1>7 DEF WriteLine
    <2>3. Record(c) \in LineType /\ Record(c).seq = next
      BY <2>1, Recorded
    <2>4. /\ op'[c].new = op[c].new /\ \A x \in Clients \ {c} : op'[x] = op[x] /\ op[x].pc # "sync"
      BY <1>1, <2>1, Staged, HolderOnly DEF Holding
    <2>5. Record(c)' = Record(c)
      BY <2>1, <2>4 DEF Record
    <2>6. InOrder(file) /\ UpTo(file, next)
      BY <2>1 DEF LogInv
    <2>7. /\ file' \in Seq(LineType) /\ InOrder(file') /\ UpTo(file', next)
          /\ \A x : Has(file, x) => Has(file', x)
          /\ garbled' \/ Has(file', Record(c))
      <3>1. CASE file' = Append(file, Record(c))
        BY <1>2, <2>3, <2>6, <3>1, LineAppended DEF LogTypes
      <3>2. CASE garbled' = TRUE /\ file' = file
        BY <1>2, <2>6, <3>2 DEF LogTypes
      <3> QED
        BY <2>2, <3>1, <3>2
    <2>8. garbled' \in BOOLEAN /\ (garbled => garbled')
      BY <1>2, <2>2 DEF LogTypes
    <2>9. \A n \in 1..Len(acked) : garbled' \/ Has(file', acked[n])
      BY <2>7, <2>8 DEF LogInv
    <2>10. \A x \in Clients : op'[x].pc = "sync" => garbled' \/ Has(file', Record(x)')
      BY <2>4, <2>5, <2>7
    <2>11. None \notin LineType
      BY LineFacts
    <2>12. LogTypes'
      BY <1>2, <2>1, <2>7, <2>8 DEF LogTypes
    <2>13. InOrder(events) /\ UpTo(events, next)
           /\ \A n \in 1..Len(acked) : acked[n].seq < next /\ Has(events, acked[n])
      BY <2>1 DEF LogInv
    <2> HIDE <1>7
    <2>14. InOrder(file)' /\ InOrder(events)' /\ UpTo(file, next)' /\ UpTo(events, next)'
           /\ \A n \in 1..Len(acked') : acked'[n].seq < next' /\ Has(events, acked[n])'
      BY <2>1, <2>7, <2>13 DEF InOrder, UpTo, Has
    <2>15. /\ \A n \in 1..Len(acked') : garbled' \/ Has(file, acked[n])'
           /\ \A x \in Clients : op'[x].pc = "sync" => garbled' \/ Has(file, Record(x))'
      BY <2>1, <2>9, <2>10 DEF Has
    <2>16. \A m, n \in 1..Len(acked') : m < n => acked'[m].seq < acked'[n].seq
      BY <2>1 DEF LogInv
    <2>17. tail' \notin LineType
      BY <2>1, <2>11
    <2> QED
      BY <2>12, <2>14, <2>15, <2>16, <2>17 DEF LogInv
  <1>8. ASSUME NEW c \in Clients, SyncLine(c) PROVE LogInv'
    <2>1. /\ up = "up" /\ op[c].pc = "sync" /\ next' = next + 1 /\ acked' = Append(acked, Record(c))
          /\ events' = Append(events, Record(c))
          /\ op' = Reply(c, "ok") /\ file' = file /\ tail' = tail /\ garbled' = garbled /\ up' = up
      BY <1>8 DEF SyncLine, At, filesVars
    <2>2. Record(c) \in LineType /\ Record(c).seq = next
      BY <2>1, Recorded
    <2>3. op'[c].pc = "done" /\ \A x \in Clients \ {c} : op'[x] = op[x] /\ op[x].pc # "sync"
      BY <1>1, <2>1, Replied, HolderOnly DEF Holding, Replies
    <2>4. /\ acked' \in Seq(LineType) /\ Len(acked') = Len(acked) + 1 /\ Len(acked) \in Nat
          /\ \A n \in 1..Len(acked) : acked'[n] = acked[n]
          /\ acked'[Len(acked) + 1] = Record(c)
      BY <1>2, <2>1, <2>2, AppendProperties, LenProperties DEF LogTypes
    <2>5. \A n \in 1..Len(acked') : n \in 1..Len(acked) \/ n = Len(acked) + 1
      BY <2>4
    <2>6. \A n \in 1..Len(acked) : acked[n].seq < next /\ acked[n].seq \in Nat
      <3>1. \A n \in 1..Len(acked) : acked[n] \in LineType
        BY <1>2, ElementOfSeq DEF LogTypes
      <3> QED
        BY <2>1, <3>1, LineFacts DEF LogInv
    <2>7. /\ events' \in Seq(LineType) /\ InOrder(events') /\ UpTo(events', next)
          /\ Has(events', Record(c)) /\ \A x : Has(events, x) => Has(events', x)
      <3>1. events \in Seq(LineType) /\ InOrder(events) /\ UpTo(events, next)
        BY <1>2, <2>1 DEF LogInv, LogTypes
      <3> QED
        BY <2>1, <2>2, <3>1, LineAppended
    <2>8. next' \in Nat \ {0} /\ next <= next' /\ next < next'
      BY <1>2, <2>1
    <2>9. UpTo(events', next') /\ UpTo(file, next')
      <3>1. UpTo(file, next) /\ file \in Seq(LineType)
        BY <1>2, <2>1 DEF LogInv, LogTypes
      <3> QED
        BY <1>2, <2>7, <2>8, <3>1, UpToMore
    <2>10. \A m, n \in 1..Len(acked') : m < n => acked'[m].seq < acked'[n].seq
      <3> SUFFICES ASSUME NEW m \in 1..Len(acked'), NEW n \in 1..Len(acked'), m < n
                   PROVE  acked'[m].seq < acked'[n].seq
        OBVIOUS
      <3>1. m \in 1..Len(acked)
        BY <2>4
      <3>2. CASE n \in 1..Len(acked)
        BY <2>4, <3>1, <3>2 DEF LogInv
      <3>3. CASE n = Len(acked) + 1
        BY <2>2, <2>4, <2>6, <3>1, <3>3
      <3> QED
        BY <2>5, <3>2, <3>3
    <2>11. \A n \in 1..Len(acked') : garbled \/ Has(file, acked'[n])
      BY <2>1, <2>4, <2>5 DEF LogInv
    <2>12. \A n \in 1..Len(acked') : acked'[n].seq < next' /\ Has(events', acked'[n])
      <3> SUFFICES ASSUME NEW n \in 1..Len(acked')
                   PROVE  acked'[n].seq < next' /\ Has(events', acked'[n])
        OBVIOUS
      <3>1. CASE n \in 1..Len(acked)
        <4>1. Has(events, acked[n]) /\ acked'[n] = acked[n]
          BY <2>1, <2>4, <3>1 DEF LogInv
        <4>2. acked[n].seq < next /\ acked[n].seq \in Nat
          BY <2>6, <3>1
        <4>3. acked[n].seq < next'
          BY <1>2, <2>8, <4>2
        <4> QED
          BY <2>7, <4>1, <4>3
      <3>2. CASE n = Len(acked) + 1
        BY <2>2, <2>4, <2>7, <2>8, <3>2
      <3> QED
        BY <2>5, <3>1, <3>2
    <2>13. \A x \in Clients : op'[x].pc # "sync"
      BY <2>3
    <2>14. tail \in LineType => tail.seq <= next' /\ UpTo(file, tail.seq)
      <3> SUFFICES ASSUME tail \in LineType PROVE tail.seq <= next' /\ UpTo(file, tail.seq)
        OBVIOUS
      <3>1. tail.seq \in Nat /\ tail.seq <= next /\ UpTo(file, tail.seq)
        BY <2>1, LineFacts DEF LogInv
      <3> QED
        BY <1>2, <2>8, <3>1
    <2>15. LogTypes'
      BY <1>2, <2>1, <2>4, <2>7, <2>8 DEF LogTypes
    <2>16. InOrder(file)
      BY DEF LogInv
    <2> HIDE <1>8
    <2>17. /\ InOrder(file)' /\ InOrder(events)' /\ UpTo(file, next)' /\ UpTo(events, next)'
           /\ tail' \in LineType => tail'.seq <= next' /\ UpTo(file, tail.seq)'
           /\ \A n \in 1..Len(acked') : garbled' \/ Has(file, acked[n])'
           /\ \A n \in 1..Len(acked') : acked'[n].seq < next' /\ Has(events, acked[n])'
      BY <2>1, <2>7, <2>9, <2>11, <2>12, <2>14, <2>16 DEF InOrder, UpTo, Has
    <2> QED
      BY <2>10, <2>13, <2>15, <2>17 DEF LogInv
  <1>9. CASE StoreCrash
    <2>1. /\ up = "up" /\ up' = "down" /\ next' = next /\ acked' = acked /\ file' = file
          /\ garbled' = garbled /\ events' = events /\ op' = [x \in Clients |-> Idle]
          /\ tail' = tail \/ \E c \in Clients : op[c].pc = "line" /\ tail' \in CutOff(c)
      BY <1>9 DEF StoreCrash, memoryVars
    <2>2. \A x \in Clients : op'[x].pc # "sync"
      BY <2>1 DEF Idle
    <2> QED
      BY <2>1, <2>2, CutOffKeepsLog
  <1>13. ASSUME NEW c \in Clients, FileError(c) PROVE LogInv'
    <2>1. /\ up = "up" /\ op[c].pc \in {"write", "rename", "line", "sync"} /\ op' = Reply(c, "io")
          /\ next' = next /\ acked' = acked /\ file' = file /\ garbled' = garbled
          /\ events' = events /\ up' = up
          /\ tail' = tail \/ (op[c].pc = "line" /\ tail' \in CutOff(c))
      BY <1>13 DEF FileError, memoryVars
    <2>2. op'[c].pc = "done" /\ \A x \in Clients \ {c} : op'[x] = op[x] /\ op[x].pc # "sync"
      BY <1>1, <2>1, Replied, HolderOnly DEF Holding, Replies
    <2>3. \A x \in Clients : op'[x].pc # "sync"
      BY <2>2
    <2> QED
      BY <2>1, <2>3, CutOffKeepsLog
  <1>10. CASE Open
    <2>1. /\ up = "down" /\ Parses /\ up' = "up" /\ next' = NextSequence /\ events' = Lines
          /\ file' = file /\ tail' = tail /\ garbled' = garbled /\ acked' = acked /\ op' = op
      BY <1>10 DEF Open, filesVars
    <2>2. \A x \in Clients : op'[x].pc # "sync"
      BY <2>1 DEF CallsInv, Idle
    <2>3. /\ Lines \in Seq(LineType) /\ InOrder(Lines)
          /\ \A n \in 1..Len(acked) : Has(Lines, acked[n])
          /\ \A x : Has(file, x) => Has(Lines, x)
          /\ tail \in LineType => Has(Lines, tail)
      BY <2>1, LinesRead
    <2>4. NextSequence \in Nat \ {0} /\ \A x : Has(Lines, x) => x.seq < NextSequence
      BY <2>1, NextAbove
    <2>5. \A x \in LineType : Has(Lines, x) => x.seq <= NextSequence
      <3>1. \A x \in LineType : x.seq \in Nat
        BY LineFacts
      <3> QED
        BY <2>4, <3>1
    <2>6. UpTo(Lines, NextSequence) /\ UpTo(file, NextSequence)
      <3>1. \A n \in 1..Len(Lines) : Lines[n] \in LineType /\ Has(Lines, Lines[n])
        BY <2>3, ElementOfSeq DEF Has
      <3>2. \A n \in 1..Len(file) : file[n] \in LineType /\ Has(file, file[n])
        BY <1>2, ElementOfSeq DEF LogTypes, Has
      <3> QED
        BY <2>3, <2>5, <3>1, <3>2 DEF UpTo
    <2>7. tail \in LineType => tail.seq <= NextSequence
      BY <2>3, <2>5
    <2>8. LogTypes'
      BY <1>2, <2>1, <2>3, <2>4 DEF LogTypes
    <2>9. /\ InOrder(file) /\ (tail \in LineType => UpTo(file, tail.seq))
          /\ \A n \in 1..Len(acked) : garbled \/ Has(file, acked[n])
          /\ \A m, n \in 1..Len(acked) : m < n => acked[m].seq < acked[n].seq
      BY DEF LogInv
    <2> HIDE <1>10
    <2>10. /\ InOrder(file)' /\ InOrder(events)' /\ UpTo(file, next)' /\ UpTo(events, next)'
           /\ tail' \in LineType => tail'.seq <= next' /\ UpTo(file, tail.seq)'
           /\ \A n \in 1..Len(acked') : garbled' \/ Has(file, acked[n])'
           /\ \A n \in 1..Len(acked') : acked'[n].seq < next' /\ Has(events, acked[n])'
           /\ \A m, n \in 1..Len(acked') : m < n => acked'[m].seq < acked'[n].seq
      BY <2>1, <2>3, <2>4, <2>6, <2>7, <2>9 DEF InOrder, UpTo, Has
    <2> QED
      BY <2>2, <2>8, <2>10 DEF LogInv
  <1>11. CASE OpenFails
    <2>1. /\ up = "down" /\ up' = "broken" /\ next' = next /\ file' = file /\ acked' = acked /\ op' = op
          /\ tail' = tail /\ garbled' = garbled /\ events' = events
      BY <1>11 DEF OpenFails, filesVars, memoryVars
    <2>2. \A x \in Clients : op'[x].pc # "sync"
      BY <2>1 DEF CallsInv, Idle
    <2> QED
      BY <2>1, <2>2 DEF LogInv, LogTypes, InOrder, UpTo, Has
  <1>12. CASE UNCHANGED storeVars
    BY <1>12, LogKept DEF storeVars
  <1> QED
    BY <1>4, <1>5, <1>6, <1>7, <1>8, <1>9, <1>10, <1>11, <1>12, <1>13 DEF Stored, StoreStep

-----------------------------------------------------------------------------
(* The store within the controller. *)

StoreInv == CallsInv /\ DocsInv /\ ClientsInv /\ SettingsInv /\ LogInv

\* The documents a controller starts from.
LEMMA FoundDocs ==
    ASSUME ArchiveInit
    PROVE  /\ disk \in [Docs -> Values \cup {None}]
           /\ disk["issue"] = None /\ disk["job"] = None /\ disk["run"] = None
           /\ body = IF disk["artifact"] = None THEN None ELSE disk["artifact"]
  <1>1. PICK f \in Found :
          disk = [d \in Docs |-> CASE d = "artifact" -> f[1] [] d = "snapshot" -> f[2]
                                   [] d = Own -> Exported [] OTHER -> None]
    BY DEF ArchiveInit
  <1>2. f[1] \in Values \cup {None} /\ f[2] \in Values \cup {None} /\ Exported \in Values
    BY ArchiveConstants
  <1>3. disk \in [Docs -> Values \cup {None}]
    BY <1>1, <1>2
  <1>4. {"issue", "job", "run"} \subseteq Docs
    BY ArchiveConstants DEF Session
  <1>5. disk["issue"] = None /\ disk["job"] = None /\ disk["run"] = None
    BY <1>1, <1>4 DEF Own
  <1> QED
    BY <1>3, <1>5 DEF ArchiveInit

\* The controller starts with nothing under way.
LEMMA StoreStart ==
    ASSUME Init
    PROVE  StoreInv
  <1>1. /\ up = "up" /\ temp = [d \in Docs |-> None] /\ file = <<>> /\ next = 1 /\ index = disk
        /\ holder = None /\ op = [c \in Clients |-> Idle] /\ acked = <<>>
        /\ import = [i \in Importers |-> Unused]
    BY DEF Init, StoreInit, ArchiveInit
  <1>2. \A c \in Clients : c # None
    BY StoreConstants
  <1>3. CallsInv
    BY <1>1, <1>2 DEF CallsInv, OpType, Idle, Formed, Holding, Replies
  <1>4. DocsInv
    BY <1>1, FoundDocs DEF DocsInv, Idle, Init
  <1>5. ClientsInv
    <2>1. import \in [Importers -> ImportType] /\ \A i \in Importers : import[i].how = "none"
      BY <1>1 DEF Unused, ImportType
    <2>2. \A p \in Patchers : op[p] = Idle
      BY <1>1, SettingsConstants
    <2> QED
      BY <2>1, <2>2 DEF ClientsInv
  <1>6. LogInv
    <2>1. /\ file = <<>> /\ events = <<>> /\ acked = <<>> /\ next = 1 /\ tail = None
          /\ garbled = FALSE
      BY DEF Init, StoreInit
    <2>2. \A c \in Clients : op[c].pc # "sync"
      BY <1>1 DEF Idle
    <2>3. LogTypes
      <3>1. <<>> \in Seq(LineType)
        BY EmptySeq
      <3>2. file \in Seq(LineType) /\ events \in Seq(LineType) /\ acked \in Seq(LineType)
        BY <2>1, <3>1, Zenon
      <3>3. next \in Nat \ {0}
        BY <2>1
      <3>4. tail \in LineType \cup {None, Torn}
        BY <2>1
      <3>5. garbled \in BOOLEAN
        BY <2>1, Zenon
      <3> QED
        BY <3>2, <3>3, <3>4, <3>5, Zenon DEF LogTypes
    <2>4. Len(file) = 0 /\ Len(events) = 0 /\ Len(acked) = 0
      BY <2>1
    <2>5. None \notin LineType
      BY LineFacts
    <2> QED
      BY <2>1, <2>2, <2>3, <2>4, <2>5 DEF LogInv, InOrder, UpTo, Has
  <1> QED
    BY <1>3, <1>4, <1>5, <1>6, SettingsStart DEF StoreInv

\* Every step keeps the store's invariant.
LEMMA StoreInvStep ==
    ASSUME StoreInv, [Next]_vars
    PROVE  StoreInv' /\ Stored
  <1>1. CallsInv /\ DocsInv /\ ClientsInv /\ SettingsInv /\ LogInv
    BY DEF StoreInv
  <1>2. Stored
    BY <1>1, Shapes
  <1> QED
    BY <1>1, <1>2, CallsStep, DocsStep, ClientsStep, SettingsStep, LogStep DEF StoreInv

\* The store is in order in every reachable state.
LEMMA StoreAlways == Spec => []StoreInv
  <1>1. Init => StoreInv
    BY StoreStart
  <1>2. StoreInv /\ [Next]_vars => StoreInv'
    BY StoreInvStep
  <1> QED
    BY <1>1, <1>2, PTL DEF Spec

\* Whatever file operation fails, a line of the log half-way included, and wherever the process
\* ends, whoever is served finds every acknowledged event, behind those acknowledged before it
\* and under a higher sequence number, and an event whose line is gone leaves a file that no
\* later process starts from (append_event and open of the file store).
THEOREM EventsKept == Spec => []AcknowledgedKept
  <1>1. LogInv => AcknowledgedKept
    <2> SUFFICES ASSUME LogInv PROVE AcknowledgedKept
      OBVIOUS
    <2>1. DOMAIN acked = 1..Len(acked) /\ DOMAIN file = 1..Len(file) /\ DOMAIN events = 1..Len(events)
      BY LenProperties DEF LogInv, LogTypes
    <2> QED
      BY <2>1 DEF AcknowledgedKept, LogInv, Has, InOrder
  <1>2. StoreInv => LogInv
    BY DEF StoreInv
  <1> QED
    BY <1>1, <1>2, StoreAlways, PTL

-----------------------------------------------------------------------------
(* The store its callers see. *)

Called == [c \in Clients |-> Seen(c)]
Logged == [n \in DOMAIN file |-> file[n].event]
Marred == tail # None

\* What a caller sees of a call: how far it is, by what has taken effect.
Stands(pc) ==
    CASE pc \in {"write", "rename", "line"} -> "asked"
      [] pc \in {"index", "sync"} -> "committed"
      [] OTHER -> pc

\* A call in the eyes of its caller, field by field.
LEMMA SeenFields ==
    ASSUME op \in [Clients -> OpType], NEW c \in Clients
    PROVE  /\ Seen(c) = [pc |-> Stands(op[c].pc), kind |-> op[c].kind, doc |-> op[c].doc,
                         old |-> op[c].old, new |-> op[c].new, reply |-> op[c].reply]
           /\ Called[c] = Seen(c) /\ DOMAIN Called = Clients
  BY DEF Seen, Stands, OpType, Called

\* A call moves on without its caller seeing it.
LEMMA Unseen ==
    ASSUME op \in [Clients -> OpType], op' \in [Clients -> OpType],
           \A x \in Clients : /\ Stands(op'[x].pc) = Stands(op[x].pc) /\ op'[x].kind = op[x].kind
                              /\ op'[x].doc = op[x].doc /\ op'[x].old = op[x].old
                              /\ op'[x].new = op[x].new /\ op'[x].reply = op[x].reply
    PROVE  Called' = Called
  <1>1. \A x \in Clients : Seen(x)' = Seen(x)
    <2> SUFFICES ASSUME NEW x \in Clients PROVE Seen(x)' = Seen(x)
      OBVIOUS
    <2>1. Seen(x) = [pc |-> Stands(op[x].pc), kind |-> op[x].kind, doc |-> op[x].doc,
                     old |-> op[x].old, new |-> op[x].new, reply |-> op[x].reply]
      BY SeenFields
    <2>2. Seen(x)' = [pc |-> Stands(op'[x].pc), kind |-> op'[x].kind, doc |-> op'[x].doc,
                      old |-> op'[x].old, new |-> op'[x].new, reply |-> op'[x].reply]
      BY DEF Seen, Stands, OpType
    <2> QED
      BY <2>1, <2>2
  <1> QED
    BY <1>1 DEF Called

CallType ==
    [pc : {"idle", "asked", "committed", "done"}, kind : Writes \cup {"get", "event"},
     doc : Docs \cup {None}, old : Values \cup {None}, new : Values \cup {None}, reply : Replies]

\* What callers see of their calls is well-typed.
LEMMA CalledType ==
    ASSUME op \in [Clients -> OpType]
    PROVE  Called \in [Clients -> CallType]
  <1> SUFFICES ASSUME NEW c \in Clients PROVE Seen(c) \in CallType
    BY DEF Called
  <1>1. Seen(c) = [pc |-> Stands(op[c].pc), kind |-> op[c].kind, doc |-> op[c].doc,
                   old |-> op[c].old, new |-> op[c].new, reply |-> op[c].reply]
    BY SeenFields
  <1> QED
    BY <1>1 DEF CallType, OpType, Stands, Holding

\* One call changes in the eyes of its caller.
LEMMA SeenToMove ==
    ASSUME op \in [Clients -> OpType], op' \in [Clients -> OpType], NEW c \in Clients,
           \A x \in Clients \ {c} : op'[x] = op[x]
    PROVE  /\ Called' = [Called EXCEPT ![c] = Seen(c)']
           /\ Seen(c)' = [pc |-> Stands(op'[c].pc), kind |-> op'[c].kind, doc |-> op'[c].doc,
                          old |-> op'[c].old, new |-> op'[c].new, reply |-> op'[c].reply]
  <1>1. \A x \in Clients \ {c} : Seen(x)' = Seen(x)
    BY DEF Seen
  <1>2. Seen(c)' = [pc |-> Stands(op'[c].pc), kind |-> op'[c].kind, doc |-> op'[c].doc,
                    old |-> op'[c].old, new |-> op'[c].new, reply |-> op'[c].reply]
    BY DEF Seen, Stands, OpType
  <1> QED
    BY <1>1, <1>2 DEF Called

\* A call is answered in the eyes of its caller.
LEMMA SeenToReply ==
    ASSUME op \in [Clients -> OpType], NEW c \in Clients, NEW answer \in Replies,
           op' = Reply(c, answer)
    PROVE  Called' = [Called EXCEPT ![c].pc = "done", ![c].reply = answer]
  <1>1. /\ op' \in [Clients -> OpType]
        /\ op'[c].pc = "done" /\ op'[c].kind = op[c].kind /\ op'[c].doc = op[c].doc
        /\ op'[c].old = op[c].old /\ op'[c].new = op[c].new /\ op'[c].reply = answer
        /\ \A x \in Clients \ {c} : op'[x] = op[x]
    BY Replied
  <1>2. /\ Called' = [Called EXCEPT ![c] = Seen(c)']
        /\ Seen(c)' = [pc |-> Stands("done"), kind |-> op[c].kind, doc |-> op[c].doc,
                       old |-> op[c].old, new |-> op[c].new, reply |-> answer]
    BY <1>1, SeenToMove
  <1>3. /\ Seen(c) = [pc |-> Stands(op[c].pc), kind |-> op[c].kind, doc |-> op[c].doc,
                      old |-> op[c].old, new |-> op[c].new, reply |-> op[c].reply]
        /\ Called[c] = Seen(c)
    BY SeenFields
  <1>4. Called[c] \in CallType /\ Called \in [Clients -> CallType]
    BY CalledType
  <1> DEFINE answered == [Called EXCEPT ![c].pc = "done", ![c].reply = answer]
  <1>5. /\ answered \in [Clients -> CallType]
        /\ answered[c].pc = "done" /\ answered[c].kind = Called[c].kind
        /\ answered[c].doc = Called[c].doc /\ answered[c].old = Called[c].old
        /\ answered[c].new = Called[c].new /\ answered[c].reply = answer
        /\ \A x \in Clients \ {c} : answered[x] = Called[x]
    BY <1>4 DEF CallType
  <1> HIDE DEF answered
  <1>6. answered[c] = [pc |-> "done", kind |-> op[c].kind, doc |-> op[c].doc,
                       old |-> op[c].old, new |-> op[c].new, reply |-> answer]
    BY <1>3, <1>5 DEF CallType
  <1>7. answered[c] = Seen(c)'
    BY <1>2, <1>6 DEF Stands
  <1>8. answered = [Called EXCEPT ![c] = Seen(c)']
    BY <1>4, <1>5, <1>7
  <1> QED
    BY <1>2, <1>8 DEF answered

\* Without anyone about to change the index, it agrees with the files.
LEMMA IndexTrue ==
    ASSUME CallsInv, DocsInv, up = "up", \A c \in Clients : op[c].pc # "index"
    PROVE  index = disk
  <1>1. \A d \in Docs : index[d] = disk[d]
    BY DEF DocsInv
  <1> QED
    BY <1>1 DEF DocsInv

\* What the index refuses is what the files refuse.
LEMMA RefusesSeen ==
    ASSUME CallsInv, DocsInv, up = "up", NEW c \in Clients,
           \A x \in Clients : op[x].pc # "index"
    PROVE  Contract!Refusal(Called[c], disk[Called[c].doc]) = Refuses(op[c])
  <1>1. index = disk
    BY IndexTrue
  <1>2. op \in [Clients -> OpType]
    BY DEF CallsInv
  <1>3. Called[c].kind = op[c].kind /\ Called[c].doc = op[c].doc /\ Called[c].old = op[c].old
    BY <1>2, SeenFields
  <1> QED
    BY <1>1, <1>3 DEF Contract!Refusal, Refuses

\* Readers and refusals answer by what the files hold.
LEMMA AnswerSeen ==
    ASSUME CallsInv, DocsInv, NEW c \in Clients, Answer(c), Logged' = Logged, Marred' = Marred
    PROVE  Contract!Refuse(c) \/ Contract!Get(c)
  <1>1. op \in [Clients -> OpType] /\ \A x \in Clients : x # None
    BY StoreConstants DEF CallsInv
  <1>2. /\ up = "up" /\ op[c].pc = "asked" /\ holder = None /\ op[c].kind # "event"
        /\ op[c].kind = "get" \/ Refuses(op[c]) # None
        /\ op' = Reply(c, IF Refuses(op[c]) # None THEN Refuses(op[c]) ELSE index[op[c].doc])
        /\ disk' = disk
    BY DEF Answer, At, filesVars
  <1>3. \A x \in Clients : op[x].pc # "index"
    BY <1>1, <1>2 DEF CallsInv, Holding
  <1>4. /\ Contract!Refusal(Called[c], disk[Called[c].doc]) = Refuses(op[c])
        /\ index = disk
    BY <1>2, <1>3, RefusesSeen, IndexTrue
  <1>5. /\ Called[c].pc = "asked" /\ Called[c].kind = op[c].kind /\ Called[c].doc = op[c].doc
    BY <1>1, <1>2, SeenFields DEF Stands
  <1>6. op[c].doc \in Docs
    BY <1>2 DEF CallsInv, Formed, AskedType
  <1>7. CASE Refuses(op[c]) # None
    <2>1. op' = Reply(c, Refuses(op[c])) /\ Refuses(op[c]) \in Replies
      BY <1>2, <1>7 DEF Refuses, Replies
    <2>2. Called' = [Called EXCEPT ![c].pc = "done", ![c].reply = Refuses(op[c])]
      BY <1>1, <2>1, SeenToReply
    <2> QED
      <3>1. /\ Called[c].pc = "asked" /\ Called[c].kind # "event"
            /\ Contract!Refusal(Called[c], disk[Called[c].doc]) # None
            /\ Called' = [Called EXCEPT ![c].pc = "done",
                             ![c].reply = Contract!Refusal(Called[c], disk[Called[c].doc])]
            /\ disk' = disk /\ Logged' = Logged /\ Marred' = Marred
        BY <1>2, <1>4, <1>5, <1>7, <2>2
      <3> QED
        BY <3>1, Zenon DEF Contract!Refuse, Contract!Replied, Called, Logged, Marred
  <1>8. CASE Refuses(op[c]) = None
    <2>1. op' = Reply(c, index[op[c].doc]) /\ op[c].kind = "get"
      BY <1>2, <1>8
    <2>2. index[op[c].doc] # None /\ index[op[c].doc] \in Replies
      BY <1>6, <1>8, <2>1, StoreConstants DEF Refuses, DocsInv, Replies
    <2>3. Called' = [Called EXCEPT ![c].pc = "done", ![c].reply = disk[Called[c].doc]]
      BY <1>1, <1>4, <1>5, <2>1, <2>2, SeenToReply
    <2> QED
      <3>1. /\ Called[c].pc = "asked" /\ Called[c].kind = "get" /\ disk[Called[c].doc] # None
            /\ Called' = [Called EXCEPT ![c].pc = "done", ![c].reply = disk[Called[c].doc]]
            /\ disk' = disk /\ Logged' = Logged /\ Marred' = Marred
        BY <1>2, <1>4, <1>5, <2>1, <2>2, <2>3
      <3> QED
        BY <3>1, Zenon DEF Contract!Get, Contract!Replied, Called, Logged, Marred
  <1> QED
    BY <1>7, <1>8

\* The log is what the lines say.
LEMMA LoggedSeq ==
    ASSUME file \in Seq(LineType)
    PROVE  /\ Logged \in Seq(Values) /\ Len(Logged) = Len(file) /\ Len(file) \in Nat
           /\ \A n \in 1..Len(file) : Logged[n] = file[n].event
  <1>1. Len(file) \in Nat /\ DOMAIN file = 1..Len(file) /\ \A n \in 1..Len(file) : file[n] \in LineType
    BY LenProperties, ElementOfSeq
  <1>2. \A n \in 1..Len(file) : file[n].event \in Values
    BY <1>1, LineFacts
  <1>3. Logged \in [1..Len(file) -> Values]
    BY <1>1, <1>2 DEF Logged
  <1>4. Logged \in Seq(Values)
    BY <1>1, <1>3, SeqDef
  <1>5. Len(Logged) = Len(file)
    <2>1. Len(Logged) \in Nat /\ DOMAIN Logged = 1..Len(Logged)
      BY <1>4, LenProperties
    <2>2. DOMAIN Logged = 1..Len(file)
      BY <1>3
    <2> DEFINE a == Len(Logged)
               b == Len(file)
    <2>3. a \in Nat /\ b \in Nat /\ 1..a = 1..b
      BY <1>1, <2>1, <2>2
    <2>4. a = b
      <3> HIDE DEF a, b
      <3>1. (a > 0 => a \in 1..b) /\ (b > 0 => b \in 1..a)
        BY <2>3
      <3> QED
        BY <2>3, <3>1
    <2> QED
      BY <2>4
  <1> QED
    BY <1>1, <1>4, <1>5 DEF Logged

\* An event that is written takes its place behind the others.
LEMMA LoggedGrows ==
    ASSUME file \in Seq(LineType), NEW r \in LineType, file' = Append(file, r)
    PROVE  Logged' = Append(Logged, r.event)
  <1>2. Logged \in Seq(Values) /\ Len(Logged) = Len(file) /\ Len(file) \in Nat
        /\ \A n \in 1..Len(file) : Logged[n] = file[n].event
    BY LoggedSeq
  <1>4. /\ Len(file') = Len(file) + 1 /\ file'[Len(file) + 1] = r
        /\ \A n \in 1..Len(file) : file'[n] = file[n]
        /\ file' \in Seq(LineType)
    BY AppendProperties
  <1>3. Logged' \in Seq(Values) /\ Len(Logged') = Len(file')
        /\ \A n \in 1..Len(file') : Logged'[n] = file'[n].event
    <2>1. file \in Seq(LineType) =>
            /\ Logged \in Seq(Values) /\ Len(Logged) = Len(file) /\ Len(file) \in Nat
            /\ \A n \in 1..Len(file) : Logged[n] = file[n].event
      BY LoggedSeq
    <2>2. (file \in Seq(LineType) =>
             /\ Logged \in Seq(Values) /\ Len(Logged) = Len(file) /\ Len(file) \in Nat
             /\ \A n \in 1..Len(file) : Logged[n] = file[n].event)'
      BY LoggedSeq, PTL
    <2> QED
      BY <1>4, <2>2
  <1>5. r.event \in Values
    BY LineFacts
  <1>6. /\ Append(Logged, r.event) \in Seq(Values) /\ Len(Append(Logged, r.event)) = Len(Logged) + 1
        /\ \A n \in 1..Len(Logged) : Append(Logged, r.event)[n] = Logged[n]
        /\ Append(Logged, r.event)[Len(Logged) + 1] = r.event
    BY <1>2, <1>5, AppendProperties
  <1>7. \A n \in 1..Len(Logged') : n \in 1..Len(file) \/ n = Len(file) + 1
    BY <1>2, <1>3, <1>4
  <1>8. \A n \in 1..Len(file) : n \in 1..Len(file')
    BY <1>2, <1>4
  <1>9. Len(file) + 1 \in 1..Len(file')
    BY <1>2, <1>4
  <1>10. \A n \in 1..Len(Logged') : Logged'[n] = Append(Logged, r.event)[n]
    <2> SUFFICES ASSUME NEW n \in 1..Len(Logged') PROVE Logged'[n] = Append(Logged, r.event)[n]
      OBVIOUS
    <2>1. CASE n \in 1..Len(file)
      <3>1. Logged'[n] = file'[n].event
        BY <1>3, <1>8, <2>1
      <3>2. file'[n] = file[n] /\ Logged[n] = file[n].event
        BY <1>2, <1>4, <2>1
      <3>3. Append(Logged, r.event)[n] = Logged[n]
        BY <1>2, <1>6, <2>1
      <3> QED
        BY <3>1, <3>2, <3>3
    <2>2. CASE n = Len(file) + 1
      BY <1>2, <1>3, <1>4, <1>6, <1>9, <2>2
    <2> QED
      BY <1>7, <2>1, <2>2
  <1> QED
    BY <1>2, <1>3, <1>4, <1>6, <1>10, SeqEqual

\* The callers in gone leave in the eyes of all.
LEMMA SeenToLeave ==
    ASSUME op \in [Clients -> OpType], NEW gone \in SUBSET Clients,
           op' = [x \in Clients |-> IF x \in gone THEN Idle ELSE op[x]], disk' = disk, Logged' = Logged,
           tail' = tail \/ \E c \in gone : op[c].pc = "line" /\ op[c].kind = "event" /\ tail' # None
    PROVE  Contract!Leave
  <1>1. \A x \in gone : Seen(x)' = Idle
    BY DEF Seen, Idle
  <1>2. \A x \in Clients \ gone : Seen(x)' = Seen(x)
    BY DEF Seen
  <1>3. Called' = [x \in Clients |-> IF x \in gone THEN Idle ELSE Called[x]]
    BY <1>1, <1>2 DEF Called
  <1>4. Marred' \in IF \E c \in gone : Called[c].pc = "asked" /\ Called[c].kind = "event"
                    THEN {Marred, TRUE} ELSE {Marred}
    <2>1. CASE tail' = tail
      BY <2>1 DEF Marred
    <2>2. CASE \E c \in gone : op[c].pc = "line" /\ op[c].kind = "event" /\ tail' # None
      <3>1. PICK c \in gone : op[c].pc = "line" /\ op[c].kind = "event" /\ tail' # None
        BY <2>2
      <3>2. Called[c].pc = "asked" /\ Called[c].kind = "event"
        BY <3>1, SeenFields DEF Stands
      <3>3. Marred' = TRUE
        BY <3>1 DEF Marred
      <3> QED
        BY <3>2, <3>3
    <2> QED
      BY <2>1, <2>2
  <1>5. /\ \E some \in SUBSET Clients :
             /\ Called' = [c \in Clients |-> IF c \in some THEN Idle ELSE Called[c]]
             /\ Marred' \in IF \E c \in some : Called[c].pc = "asked" /\ Called[c].kind = "event"
                            THEN {Marred, TRUE} ELSE {Marred}
        /\ disk' = disk /\ Logged' = Logged
    BY <1>3, <1>4
  <1> QED
    BY <1>5, Zenon DEF Contract!Leave, Contract!Quiet, Contract!MarredBy, Called, Logged, Marred, Idle

\* A call is made, or a reply taken, in the eyes of the caller.
LEMMA CallsSeen ==
    ASSUME CallsInv, CallsInv', NEW c \in Clients, Calls(c), Logged' = Logged, Marred' = Marred
    PROVE  Contract!Call(c) \/ Contract!Leave
  <1>1. op \in [Clients -> OpType] /\ op' \in [Clients -> OpType]
    BY DEF CallsInv
  <1>2. PICK q \in AskedType \cup {Idle} : CallAs(c, q)
    BY DEF Calls
  <1>3. op' = [op EXCEPT ![c] = q] /\ disk' = disk /\ tail' = tail /\ op[c].pc \in {"idle", "done"}
    BY <1>2 DEF Calls, CallAs, filesVars
  <1>4. CASE q = Idle
    <2>1. op' = [x \in Clients |-> IF x \in {c} THEN Idle ELSE op[x]]
      BY <1>1, <1>3, <1>4
    <2> QED
      BY <1>1, <1>3, <2>1, SeenToLeave
  <1>5. CASE q \in AskedType
    <2>1. op'[c] = q /\ \A x \in Clients \ {c} : op'[x] = op[x]
      BY <1>1, <1>3
    <2>2. q.pc = "asked"
      BY <1>5 DEF AskedType
    <2>3. /\ Called' = [Called EXCEPT ![c] = Seen(c)']
          /\ Seen(c)' = [pc |-> Stands("asked"), kind |-> q.kind, doc |-> q.doc,
                         old |-> q.old, new |-> q.new, reply |-> q.reply]
      BY <1>1, <2>1, <2>2, SeenToMove
    <2>4. Seen(c)' \in Contract!Asked
      BY <1>5, <2>3 DEF Stands, AskedType, Contract!Asked, Contract!Kinds, Contract!Stores
    <2>5. Called[c].pc \in {"idle", "done"} /\ DOMAIN Called = Clients
      BY <1>1, <1>3, SeenFields DEF Stands
    <2>6. Called'[c] = Seen(c)'
      BY <2>3, <2>5
    <2>7. /\ Called[c].pc \in {"idle", "done"} /\ Called'[c] \in Contract!Asked
          /\ Called' = [Called EXCEPT ![c] = Called'[c]] /\ disk' = disk /\ Logged' = Logged
          /\ Marred' = Marred
      BY <1>3, <2>3, <2>4, <2>5, <2>6
    <2> QED
      BY <2>7, Zenon DEF Contract!Call, Called, Logged, Marred
  <1> QED
    BY <1>4, <1>5

\* What takes effect, or is answered, does so in the eyes of its caller.
LEMMA EffectSeen ==
    ASSUME CallsInv, DocsInv, LogInv, LogInv', NEW c \in Clients,
           Rename(c) \/ Indexed(c) \/ WriteLine(c) \/ SyncLine(c) \/ FileError(c),
           file' = file => Logged' = Logged, tail' = tail => Marred' = Marred
    PROVE  Contract!Commit(c) \/ Contract!CommitEvent(c) \/ Contract!Return(c) \/ Contract!Fail(c)
  <1>1. op \in [Clients -> OpType]
    BY DEF CallsInv
  <1>2. CASE Rename(c)
    <2>1. /\ up = "up" /\ op[c].pc = "rename" /\ op' = Stage(c, "index") /\ file' = file /\ tail' = tail
          /\ disk' = [disk EXCEPT ![op[c].doc] = temp[op[c].doc]]
      BY <1>2 DEF Rename, At, logVars
    <2>2. /\ op' \in [Clients -> OpType]
          /\ op'[c].pc = "index" /\ op'[c].kind = op[c].kind /\ op'[c].doc = op[c].doc
          /\ op'[c].old = op[c].old /\ op'[c].new = op[c].new /\ op'[c].reply = op[c].reply
          /\ \A x \in Clients \ {c} : op'[x] = op[x]
      BY <1>1, <2>1, Staged DEF Holding
    <2>3. temp[op[c].doc] = op[c].new /\ op[c].kind \in Writes /\ Refuses(op[c]) = None
      BY <2>1 DEF DocsInv, CallsInv, Formed
    <2>4. \A x \in Clients : op[x].pc # "index"
      BY <2>1, HolderOnly DEF Holding
    <2>5. Contract!Refusal(Called[c], disk[Called[c].doc]) = None
      BY <2>1, <2>3, <2>4, RefusesSeen
    <2>6. Called' = [Called EXCEPT ![c].pc = "committed"]
      <3>1. /\ Called' = [Called EXCEPT ![c] = Seen(c)']
            /\ Seen(c)' = [pc |-> Stands("index"), kind |-> op[c].kind, doc |-> op[c].doc,
                           old |-> op[c].old, new |-> op[c].new, reply |-> op[c].reply]
        BY <1>1, <2>2, SeenToMove
      <3>2. Called[c] = [pc |-> Stands(op[c].pc), kind |-> op[c].kind, doc |-> op[c].doc,
                         old |-> op[c].old, new |-> op[c].new, reply |-> op[c].reply]
        BY <1>1, SeenFields
      <3>3. Seen(c)' = [Called[c] EXCEPT !.pc = "committed"]
        BY <3>1, <3>2 DEF Stands
      <3> QED
        BY <3>1, <3>3
    <2>7. /\ Called[c].pc = "asked" /\ Called[c].kind \in Contract!Stores /\ Called[c].doc = op[c].doc
          /\ Called[c].new = op[c].new
      BY <1>1, <2>1, <2>3, SeenFields DEF Stands, Contract!Stores, Writes
    <2>8. /\ Called[c].pc = "asked" /\ Called[c].kind \in Contract!Stores
          /\ Contract!Refusal(Called[c], disk[Called[c].doc]) = None
          /\ disk' = [disk EXCEPT ![Called[c].doc] = Called[c].new]
          /\ Called' = [Called EXCEPT ![c].pc = "committed"] /\ Logged' = Logged
          /\ Marred' = Marred
      BY <2>1, <2>3, <2>5, <2>6, <2>7
    <2> QED
      BY <2>8, Zenon DEF Contract!Commit, Called, Logged, Marred
  <1>3. CASE Indexed(c) \/ SyncLine(c)
    <2>1. /\ op[c].pc \in {"index", "sync"} /\ op' = Reply(c, "ok") /\ file' = file /\ disk' = disk
          /\ tail' = tail
      BY <1>3 DEF Indexed, SyncLine, At, filesVars
    <2>2. Called[c].pc = "committed"
      BY <1>1, <2>1, SeenFields DEF Stands
    <2>3. Called' = [Called EXCEPT ![c].pc = "done", ![c].reply = "ok"]
      BY <1>1, <2>1, SeenToReply DEF Replies
    <2>4. Called[c].pc = "committed" /\ disk' = disk /\ Logged' = Logged /\ Marred' = Marred
          /\ Called' = [Called EXCEPT ![c].pc = "done", ![c].reply = "ok"]
      BY <2>1, <2>2, <2>3
    <2> QED
      BY <2>4, Zenon DEF Contract!Return, Contract!Replied, Called, Logged, Marred
  <1>4. CASE WriteLine(c)
    <2>1. /\ up = "up" /\ op[c].pc = "line" /\ op' = Stage(c, "sync") /\ disk' = disk /\ tail' = None
          /\ IF tail = None THEN file' = Append(file, Record(c)) ELSE file' = file
      BY <1>4 DEF WriteLine, At
    <2>2. /\ op' \in [Clients -> OpType]
          /\ op'[c].pc = "sync" /\ op'[c].kind = op[c].kind /\ op'[c].doc = op[c].doc
          /\ op'[c].old = op[c].old /\ op'[c].new = op[c].new /\ op'[c].reply = op[c].reply
          /\ \A x \in Clients \ {c} : op'[x] = op[x]
      BY <1>1, <2>1, Staged DEF Holding
    <2>3. Called' = [Called EXCEPT ![c].pc = "committed"]
      <3>1. /\ Called' = [Called EXCEPT ![c] = Seen(c)']
            /\ Seen(c)' = [pc |-> Stands("sync"), kind |-> op[c].kind, doc |-> op[c].doc,
                           old |-> op[c].old, new |-> op[c].new, reply |-> op[c].reply]
        BY <1>1, <2>2, SeenToMove
      <3>2. Called[c] = [pc |-> Stands(op[c].pc), kind |-> op[c].kind, doc |-> op[c].doc,
                         old |-> op[c].old, new |-> op[c].new, reply |-> op[c].reply]
        BY <1>1, SeenFields
      <3>3. Seen(c)' = [Called[c] EXCEPT !.pc = "committed"]
        BY <3>1, <3>2 DEF Stands
      <3> QED
        BY <3>1, <3>3
    <2>4. Record(c) \in LineType /\ Record(c).event = op[c].new
      BY <2>1, Recorded DEF Record
    <2>5. file \in Seq(LineType)
      BY DEF LogInv, LogTypes
    <2>6. Logged' = IF Marred THEN Logged ELSE Append(Logged, op[c].new)
      BY <2>1, <2>4, <2>5, LoggedGrows DEF Marred
    <2>9. Marred' = FALSE
      BY <2>1 DEF Marred
    <2>7. Called[c].pc = "asked" /\ Called[c].kind = "event" /\ Called[c].new = op[c].new
      BY <1>1, <2>1, SeenFields DEF Stands, CallsInv, Formed
    <2>8. /\ Called[c].pc = "asked" /\ Called[c].kind = "event"
          /\ Logged' = IF Marred THEN Logged ELSE Append(Logged, Called[c].new)
          /\ Called' = [Called EXCEPT ![c].pc = "committed"] /\ disk' = disk
          /\ Marred' = FALSE
      BY <2>1, <2>3, <2>6, <2>7, <2>9
    <2> QED
      BY <2>8, Zenon DEF Contract!CommitEvent, Called, Logged, Marred
  <1>5. CASE FileError(c)
    <2>1. /\ op[c].pc \in {"write", "rename", "line", "sync"} /\ op' = Reply(c, "io")
          /\ disk' = disk /\ file' = file
          /\ tail' = tail \/ (op[c].pc = "line" /\ tail' \in CutOff(c))
      BY <1>5 DEF FileError
    <2>5. Marred' \in IF \E x \in {c} : Called[x].pc = "asked" /\ Called[x].kind = "event"
                      THEN {Marred, TRUE} ELSE {Marred}
      <3>1. CASE tail' = tail
        BY <3>1
      <3>2. CASE op[c].pc = "line" /\ tail' # tail /\ tail' \in CutOff(c)
        <4>1. Called[c].pc = "asked" /\ Called[c].kind = "event"
          BY <1>1, <3>2, SeenFields DEF Stands, CallsInv, Formed
        <4>2. tail # None => tail' # None
          BY <3>2, StoreConstants DEF CutOff
        <4>3. Marred' = TRUE \/ Marred' = Marred
          BY <4>2 DEF Marred
        <4> QED
          BY <4>1, <4>3
      <3> QED
        BY <2>1, <3>1, <3>2
    <2>2. \/ Called[c].pc = "asked" /\ Called[c].kind \in Contract!Stores \cup {"event"}
          \/ Called[c].pc = "committed" /\ Called[c].kind = "event"
      BY <1>1, <2>1, SeenFields DEF Stands, CallsInv, Formed, Contract!Stores, Writes
    <2>3. Called' = [Called EXCEPT ![c].pc = "done", ![c].reply = "io"]
      BY <1>1, <2>1, SeenToReply DEF Replies
    <2>4. /\ \/ Called[c].pc = "asked" /\ Called[c].kind \in Contract!Stores \cup {"event"}
             \/ Called[c].pc = "committed" /\ Called[c].kind = "event"
          /\ Called' = [Called EXCEPT ![c].pc = "done", ![c].reply = "io"]
          /\ disk' = disk /\ Logged' = Logged
          /\ Marred' \in IF \E x \in {c} : Called[x].pc = "asked" /\ Called[x].kind = "event"
                         THEN {Marred, TRUE} ELSE {Marred}
      BY <2>1, <2>2, <2>3, <2>5
    <2> QED
      BY <2>4, Zenon DEF Contract!Fail, Contract!Replied, Contract!MarredBy, Called, Logged, Marred
  <1> QED
    BY <1>2, <1>3, <1>4, <1>5

\* What only prepares an effect is seen by nobody.
LEMMA PreparedUnseen ==
    ASSUME CallsInv, NEW c \in Clients, CreateTemp(c) \/ WriteTemp(c) \/ OpenLog(c)
    PROVE  Called' = Called /\ disk' = disk /\ file' = file /\ tail' = tail
  <1>1. op \in [Clients -> OpType]
    BY DEF CallsInv
  <1>2. PICK pc \in {"write", "rename", "line"} :
          op' = Stage(c, pc) /\ op[c].pc \in {"asked", "write"} /\ disk' = disk /\ file' = file
          /\ tail' = tail
    BY DEF CreateTemp, WriteTemp, OpenLog, At, filesVars, logVars
  <1>3. /\ op' \in [Clients -> OpType]
        /\ op'[c].pc = pc /\ op'[c].kind = op[c].kind /\ op'[c].doc = op[c].doc
        /\ op'[c].old = op[c].old /\ op'[c].new = op[c].new /\ op'[c].reply = op[c].reply
        /\ \A x \in Clients \ {c} : op'[x] = op[x]
    BY <1>1, <1>2, Staged DEF Holding
  <1>4. Stands(op'[c].pc) = Stands(op[c].pc)
    BY <1>2, <1>3 DEF Stands
  <1>5. \A x \in Clients : /\ Stands(op'[x].pc) = Stands(op[x].pc) /\ op'[x].kind = op[x].kind
                           /\ op'[x].doc = op[x].doc /\ op'[x].old = op[x].old
                           /\ op'[x].new = op[x].new /\ op'[x].reply = op[x].reply
    BY <1>3, <1>4
  <1> QED
    BY <1>1, <1>2, <1>3, <1>5, Unseen

\* Every operation of the store is a step of the contract, or is seen by nobody.
LEMMA StepSeen ==
    ASSUME CallsInv, CallsInv', DocsInv, LogInv, LogInv', Stored
    PROVE  \/ Contract!Next
           \/ Called' = Called /\ disk' = disk /\ Logged' = Logged /\ Marred' = Marred
  <1>1. op \in [Clients -> OpType]
    BY DEF CallsInv
  <1>2. (file' = file => Logged' = Logged) /\ (tail' = tail => Marred' = Marred)
    BY DEF Logged, Marred
  <1>3. op' = op => Called' = Called
    BY DEF Called, Seen
  <1>4. ASSUME NEW c \in Clients, Answer(c) PROVE Contract!Next
    <2>1. Logged' = Logged /\ Marred' = Marred
      BY <1>2, <1>4 DEF Answer, filesVars
    <2> QED
      BY <1>4, <2>1, AnswerSeen DEF Contract!Next
  <1>5. ASSUME NEW c \in Clients, CreateTemp(c) \/ WriteTemp(c) \/ OpenLog(c)
        PROVE  Called' = Called /\ disk' = disk /\ Logged' = Logged /\ Marred' = Marred
    BY <1>2, <1>5, PreparedUnseen
  <1>6. ASSUME NEW c \in Clients, Rename(c) \/ Indexed(c) \/ WriteLine(c) \/ SyncLine(c) \/ FileError(c)
        PROVE  Contract!Next
    BY <1>2, <1>6, EffectSeen DEF Contract!Next
  <1>7. ASSUME NEW c \in Clients, Calls(c) PROVE Contract!Next
    <2>1. Logged' = Logged /\ Marred' = Marred
      BY <1>2, <1>7 DEF Calls, CallAs, filesVars
    <2> QED
      BY <1>7, <2>1, CallsSeen DEF Contract!Next
  <1>8. ASSUME NEW c \in Clients, Dropped({c}) PROVE Contract!Next
    <2>1. Logged' = Logged /\ tail' = tail /\ disk' = disk /\ {c} \in SUBSET Clients
          /\ op' = [x \in Clients |-> IF x \in {c} THEN Idle ELSE op[x]]
      BY <1>2, <1>8 DEF Dropped, filesVars
    <2> QED
      BY <1>1, <2>1, SeenToLeave DEF Contract!Next
  <1>9. CASE StoreCrash
    <2>1. /\ op' = [x \in Clients |-> Idle] /\ disk' = disk /\ file' = file
          /\ tail' = tail \/ \E c \in Clients : op[c].pc = "line" /\ tail' \in CutOff(c)
      BY <1>9 DEF StoreCrash
    <2>2. Logged' = Logged
      BY <1>2, <2>1
    <2>3. Clients \in SUBSET Clients /\ op' = [x \in Clients |-> IF x \in Clients THEN Idle ELSE op[x]]
      BY <2>1
    <2>4. tail' = tail \/ \E c \in Clients : op[c].pc = "line" /\ op[c].kind = "event" /\ tail' # None
      <3> SUFFICES ASSUME tail' # tail, NEW c \in Clients, op[c].pc = "line", tail' \in CutOff(c)
                   PROVE  op[c].kind = "event" /\ tail' # None
        BY <2>1
      <3>1. op[c].kind = "event"
        BY DEF CallsInv, Formed
      <3>2. Record(c) \in LineType
        BY Recorded
      <3> QED
        BY <3>1, <3>2, LineFacts DEF CutOff
    <2> QED
      BY <1>1, <2>1, <2>2, <2>3, <2>4, SeenToLeave DEF Contract!Next
  <1>10. CASE Open \/ OpenFails \/ UNCHANGED storeVars
    BY <1>2, <1>3, <1>10 DEF Open, OpenFails, storeVars, filesVars
  <1> QED
    BY <1>4, <1>5, <1>6, <1>7, <1>8, <1>9, <1>10 DEF Stored, StoreStep

\* The file-backed store is the store its callers are promised: whatever file operation fails or
\* is cut off, every operation takes effect at once between its call and its reply or not at all,
\* and events take their place in the log once and for all, but for one appended onto a line that
\* was cut off (FileStore in store).
THEOREM StoreKeepsItsPromise == Spec => StoreIsAtomic
  <1>1. Init => Contract!Init
    <2> SUFFICES ASSUME Init PROVE Contract!Init
      OBVIOUS
    <2>1. file = <<>> /\ op = [c \in Clients |-> Idle] /\ ArchiveInit
      BY DEF Init, StoreInit
    <2>2. disk \in [Docs -> Values \cup {None}]
      BY <2>1, FoundDocs
    <2>3. Marred = FALSE
      BY DEF Init, StoreInit, Marred
    <2>4. Logged = <<>>
      <3>1. file \in Seq(LineType)
        BY <2>1
      <3>2. Logged \in Seq(Values) /\ Len(Logged) = 0
        BY <2>1, <3>1, LoggedSeq, EmptySeq
      <3> QED
        BY <3>2, EmptySeq
    <2>5. Called = [c \in Clients |-> Contract!Quiet]
      <3>1. \A c \in Clients : Seen(c) = Idle
        BY <2>1 DEF Seen, Idle
      <3> QED
        BY <3>1 DEF Called, Contract!Quiet, Idle
    <2> QED
      BY <2>2, <2>3, <2>4, <2>5, Zenon DEF Contract!Init, Called, Logged, Marred
  <1>2. StoreInv /\ StoreInv' /\ [Next]_vars => [Contract!Next]_(Contract!vars)
    <2> SUFFICES ASSUME StoreInv, StoreInv', [Next]_vars PROVE [Contract!Next]_(Contract!vars)
      OBVIOUS
    <2>1. \/ Contract!Next
          \/ Called' = Called /\ disk' = disk /\ Logged' = Logged /\ Marred' = Marred
      BY StoreInvStep, StepSeen DEF StoreInv
    <2> QED
      BY <2>1, Zenon DEF Contract!vars, Called, Logged, Marred
  <1> QED
    BY <1>1, <1>2, StoreAlways, PTL DEF Spec, StoreIsAtomic, Contract!Spec

-----------------------------------------------------------------------------
(* Archives. *)

\* An import asks the store for what the step it is at needs ...
Asks(i) ==
    /\ op[i].doc = Step(i).doc
    /\ Step(i).does = "look" => op[i].kind = "get"
    /\ Step(i).does = "ensure" =>
         \/ op[i].kind = "get"
         \/ op[i].kind = "insert" /\ op[i].new = Same /\ (op[i].doc = "artifact" => body # None)
    /\ Step(i).does = "put" => op[i].kind = "insert" /\ op[i].new = Step(i).value
    /\ Step(i).does = "report" => op[i].kind = "event"

\* ... and has what the steps before it put there or found.
Reached(i) ==
    /\ import[i].at > 4 => disk["artifact"] = Same
    /\ import[i].at > 5 => disk["snapshot"] = Same
    /\ import[i].at > 6 => disk["issue"] = Archived
    /\ import[i].at > 7 => disk["job"] = Exported

\* The reply a client has is still true: what an archive holds is never taken back.
Told(i) ==
    op[i].pc = "done" /\ op[i].doc \in Session =>
       /\ op[i].kind = "get" /\ op[i].reply = Same => disk[op[i].doc] = Same
       /\ op[i].kind = "insert" /\ op[i].reply = "ok" =>
             disk[op[i].doc] = op[i].new /\ op[i].new # None

ImportInv(i) ==
    /\ import[i].how \in {"none", "done", "failed"} => op[i] = Idle
    /\ import[i].how = "running" => op[i].pc # "idle" /\ Asks(i)
    /\ import[i].how = "restoring" => op[i].pc = "done" /\ op[i].kind = "get"
    /\ Reached(i) /\ Told(i)

\* Nobody but imports changes what an archive holds, and recovery has only the controller's own
\* unfinished work in hand.
OthersInv ==
    /\ boot = "recovering" => \A i \in Importers : import[i].how \notin {"running", "restoring"}
    /\ boot # "recovering" => op[Recovery] = Idle
    /\ op[Recovery].pc # "idle" => op[Recovery].kind = "updateIf" /\ op[Recovery].doc = Own
    /\ \A p \in Patchers : op[p].pc # "idle" => op[p].kind = "event"
    /\ \A c \in Clients : c \notin Importers /\ c \notin Patchers /\ c # Recovery => op[c] = Idle

EvidenceInv == disk["artifact"] = Same => body # None

ArchiveInv ==
    /\ \A i \in Importers : ImportInv(i)
    /\ OthersInv /\ EvidenceInv /\ ArchiveInert

\* What is there stays as it is.
NothingTaken == \A d \in Session : disk[d] # None => disk'[d] = disk[d]

\* The steps of the script, by what they do.
LEMMA ScriptShape ==
    ASSUME NEW n \in 1..10
    PROVE  /\ Script[n].does = "look" => n \in {1, 2, 3} /\ Script[n].doc \in Session
           /\ Script[n].does = "ensure" =>
                /\ Script[n].value = Same
                /\ \/ n = 4 /\ Script[n].doc = "artifact"
                   \/ n = 5 /\ Script[n].doc = "snapshot"
           /\ Script[n].does = "put" =>
                \/ n = 6 /\ Script[n].doc = "issue" /\ Script[n].value = Archived
                \/ n = 7 /\ Script[n].doc = "job" /\ Script[n].value = Exported
                \/ n = 8 /\ Script[n].doc = "run" /\ Script[n].value = Exported
           /\ Script[n].does = "report" => n \in {9, 10} /\ Script[n].doc = None
           /\ Script[n].does \in {"look", "ensure", "put", "report"}
  <1>1. n \in {1, 2, 3, 4, 5, 6, 7, 8, 9, 10}
    OBVIOUS
  <1>2. CASE n \in {1, 2, 3}
    <2>1. \E d \in {"issue", "job", "run"} : Script[n] = Look(d)
      BY <1>2, ScriptSteps
    <2> QED
      BY <1>2, <2>1 DEF Look, Session
  <1>3. CASE n \in {4, 5}
    BY <1>3, ScriptSteps DEF Ensure
  <1>4. CASE n \in {6, 7, 8}
    BY <1>4, ScriptSteps DEF Put
  <1>5. CASE n \in {9, 10}
    BY <1>5, ScriptSteps DEF Report
  <1> QED
    BY <1>1, <1>2, <1>3, <1>4, <1>5

\* None is no content of an archive.
LEMMA Contents ==
    /\ Same \in Values /\ Archived \in Values /\ Exported \in Values
    /\ Same # None /\ Archived # None /\ Exported # None /\ Torn # None
    /\ Session \subseteq Docs /\ Own \in Docs /\ Own \notin Session
    /\ Recovery \in Clients /\ Importers \subseteq Clients /\ Patchers \subseteq Clients
    /\ Recovery \notin Importers /\ Recovery \notin Patchers
    /\ \A i \in Importers : i \notin Patchers
  BY ArchiveConstants, StoreConstants, SettingsConstants, AdministrationConstants DEF Session, Own

\* An import nobody moves stays in order as long as nothing is taken.
LEMMA ImportKept ==
    ASSUME NEW i \in Importers, ImportInv(i), op'[i] = op[i], import'[i] = import[i], NothingTaken,
           body' = body \/ body' # None
    PROVE  ImportInv(i)'
  <1>1. Asks(i) => Asks(i)'
    BY DEF Asks, Step
  <1>2. Reached(i)'
    BY Contents DEF ImportInv, Reached, NothingTaken, Session
  <1>3. Told(i)'
    BY Contents DEF ImportInv, Told, NothingTaken
  <1> QED
    BY <1>1, <1>2, <1>3 DEF ImportInv

\* Only an import that inserts a missing document renames a file of the session.
LEMMA WhoRenames ==
    ASSUME StoreInv, ArchiveInv, NEW c \in Clients, Rename(c)
    PROVE  /\ disk' = [disk EXCEPT ![op[c].doc] = op[c].new] /\ op[c].doc \in Docs
           /\ disk \in [Docs -> Values \cup {None}]
           /\ \/ op[c].doc = Own
              \/ /\ c \in Importers /\ import[c].how = "running" /\ op[c].kind = "insert"
                 /\ disk[op[c].doc] = None /\ Asks(c) /\ Reached(c)
  <1>1. up = "up" /\ op[c].pc = "rename" /\ disk' = [disk EXCEPT ![op[c].doc] = temp[op[c].doc]]
    BY DEF Rename, At
  <1>2. CallsInv /\ DocsInv /\ ClientsInv
    BY DEF StoreInv
  <1>3. op[c].kind \in Writes /\ op[c].doc \in Docs /\ temp[op[c].doc] = op[c].new
        /\ Refuses(op[c]) = None
    BY <1>1, <1>2 DEF CallsInv, Formed, DocsInv
  <1>4. \A x \in Clients : op[x].pc # "index"
    BY <1>1, <1>2, HolderOnly DEF Holding
  <1>5. index = disk
    BY <1>1, <1>2, <1>4, IndexTrue
  <1>6. op[c] # Idle
    BY <1>1 DEF Idle
  <1>7. c \in Importers \/ c = Recovery
    BY <1>1, <1>3, <1>6 DEF ArchiveInv, OthersInv, Writes
  <1>8. CASE c = Recovery
    BY <1>1, <1>2, <1>3, <1>8 DEF ArchiveInv, OthersInv, DocsInv
  <1>9. CASE c \in Importers
    <2>1. ImportInv(c) /\ import[c].how \in {"none", "running", "restoring", "done", "failed"}
      BY <1>2, <1>9 DEF ArchiveInv, ClientsInv, ImportType
    <2>2. import[c].how = "running" /\ Asks(c) /\ Reached(c) /\ import[c].at \in 1..10
      BY <1>1, <1>2, <1>6, <1>9, <2>1 DEF ImportInv, ClientsInv, ImportType
    <2>3. op[c].kind \in {"get", "insert", "event"}
      BY <2>2, ScriptShape DEF Asks, Step
    <2>4. op[c].kind = "insert"
      BY <1>3, <2>3 DEF Writes
    <2>5. disk[op[c].doc] = None
      BY <1>3, <1>5, <2>4, StoreConstants DEF Refuses
    <2> QED
      BY <1>1, <1>2, <1>3, <1>9, <2>2, <2>4, <2>5 DEF DocsInv
  <1> QED
    BY <1>7, <1>8, <1>9

\* A document of the session goes in behind what it rests on.
LEMMA RenamedInOrder ==
    ASSUME StoreInv, ArchiveInv, NEW c \in Clients, Rename(c), body' = body
    PROVE  NothingTaken /\ ArchiveInert' /\ EvidenceInv'
  <1>1. /\ disk' = [disk EXCEPT ![op[c].doc] = op[c].new] /\ op[c].doc \in Docs
        /\ disk \in [Docs -> Values \cup {None}]
        /\ \/ op[c].doc = Own
           \/ /\ c \in Importers /\ import[c].how = "running" /\ op[c].kind = "insert"
              /\ disk[op[c].doc] = None /\ Asks(c) /\ Reached(c)
    BY WhoRenames
  <1>2. /\ disk'[op[c].doc] = op[c].new
        /\ \A d \in Docs : d # op[c].doc => disk'[d] = disk[d]
    BY <1>1
  <1>3. "artifact" \in Docs /\ "snapshot" \in Docs /\ "issue" \in Docs /\ "job" \in Docs /\ "run" \in Docs
    BY Contents DEF Session
  <1>4. CASE op[c].doc = Own
    <2>1. \A d \in Session : disk'[d] = disk[d]
      BY <1>2, <1>4, Contents
    <2> QED
      BY <2>1 DEF ArchiveInv, ArchiveInert, EvidenceInv, NothingTaken, Session
  <1>5. CASE /\ c \in Importers /\ import[c].how = "running" /\ op[c].kind = "insert"
             /\ disk[op[c].doc] = None /\ Asks(c) /\ Reached(c)
    <2>1. import[c].at \in 1..10
      BY <1>5 DEF StoreInv, ClientsInv, ImportType
    <2>2. NothingTaken
      BY <1>2, <1>5, Contents DEF NothingTaken
    <2>3. \/ Step(c).does = "ensure" /\ op[c].new = Same
          \/ Step(c).does = "put" /\ op[c].new = Step(c).value
      BY <1>5, <2>1, ScriptShape DEF Asks, Step
    <2>4. \/ import[c].at = 4 /\ op[c].doc = "artifact" /\ op[c].new = Same /\ body # None
          \/ import[c].at = 5 /\ op[c].doc = "snapshot" /\ op[c].new = Same
          \/ import[c].at = 6 /\ op[c].doc = "issue" /\ op[c].new = Archived
          \/ import[c].at = 7 /\ op[c].doc = "job" /\ op[c].new = Exported
          \/ import[c].at = 8 /\ op[c].doc = "run" /\ op[c].new = Exported
      BY <1>5, <2>1, <2>3, ScriptShape DEF Asks, Step
    <2>5. ArchiveInert /\ EvidenceInv
      BY DEF ArchiveInv
    <2>6. ArchiveInert' /\ EvidenceInv'
      <3>1. CASE import[c].at = 4 /\ op[c].doc = "artifact" /\ op[c].new = Same /\ body # None
        BY <1>2, <1>3, <2>5, <3>1 DEF ArchiveInert, EvidenceInv
      <3>2. CASE import[c].at = 5 /\ op[c].doc = "snapshot" /\ op[c].new = Same
        BY <1>2, <1>3, <2>5, <3>2 DEF ArchiveInert, EvidenceInv
      <3>3. CASE import[c].at = 6 /\ op[c].doc = "issue" /\ op[c].new = Archived
        <4>1. disk["artifact"] = Same /\ disk["snapshot"] = Same /\ body # None
          BY <1>5, <2>5, <3>3 DEF Reached, EvidenceInv
        <4> QED
          BY <1>2, <1>3, <2>5, <3>3, <4>1 DEF ArchiveInert, EvidenceInv
      <3>4. CASE import[c].at = 7 /\ op[c].doc = "job" /\ op[c].new = Exported
        <4>1. disk["issue"] = Archived
          BY <1>5, <3>4 DEF Reached
        <4> QED
          BY <1>2, <1>3, <2>5, <3>4, <4>1, Contents DEF ArchiveInert, EvidenceInv
      <3>5. CASE import[c].at = 8 /\ op[c].doc = "run" /\ op[c].new = Exported
        <4>1. disk["job"] = Exported
          BY <1>5, <3>5 DEF Reached
        <4> QED
          BY <1>2, <1>3, <2>5, <3>5, <4>1, Contents DEF ArchiveInert, EvidenceInv
      <3> QED
        BY <2>4, <3>1, <3>2, <3>3, <3>4, <3>5
    <2> QED
      BY <2>2, <2>6
  <1> QED
    BY <1>1, <1>4, <1>5

\* Documents that stay as they are, and a body that stays there, keep the archive in order.
LEMMA UntouchedInOrder ==
    ASSUME ArchiveInv, disk' = disk, body' = body \/ body' # None
    PROVE  NothingTaken /\ ArchiveInert' /\ EvidenceInv'
  BY DEF ArchiveInv, ArchiveInert, EvidenceInv, NothingTaken

\* What an operation of the store does to the call it is about.
LEMMA OperationMoves ==
    ASSUME CallsInv, DocsInv, NEW c \in Clients, StoreStep(c) \/ FileError(c)
    PROVE  /\ op[c].pc \in {"asked"} \cup Holding /\ op'[c].pc # "idle"
           /\ op'[c].kind = op[c].kind /\ op'[c].doc = op[c].doc /\ op'[c].new = op[c].new
           /\ \A x \in Clients \ {c} : op'[x] = op[x]
           /\ Rename(c) \/ disk' = disk
           /\ op'[c].pc = "done" /\ op'[c].kind = "get" /\ op'[c].reply = Same => disk[op[c].doc] = Same
           /\ op'[c].pc = "done" /\ op'[c].kind = "insert" /\ op'[c].reply = "ok" =>
                disk[op[c].doc] = op[c].new /\ op[c].new # None
  <1>1. op \in [Clients -> OpType] /\ \A x \in Clients : x # None
    BY StoreConstants DEF CallsInv
  <1>2. CASE Answer(c)
    <2> DEFINE answer == IF Refuses(op[c]) # None THEN Refuses(op[c]) ELSE index[op[c].doc]
    <2>1. /\ up = "up" /\ op[c].pc = "asked" /\ holder = None /\ op[c].kind # "event"
          /\ op[c].kind = "get" \/ Refuses(op[c]) # None
          /\ op' = Reply(c, answer) /\ disk' = disk
      BY <1>2 DEF Answer, At, filesVars
    <2>2. op[c].doc \in Docs
      BY <2>1 DEF CallsInv, Formed, AskedType
    <2>3. answer \in Replies
      BY <2>2 DEF Refuses, Replies, DocsInv
    <2>4. /\ op'[c].pc = "done" /\ op'[c].kind = op[c].kind /\ op'[c].doc = op[c].doc
          /\ op'[c].new = op[c].new /\ op'[c].reply = answer
          /\ \A x \in Clients \ {c} : op'[x] = op[x]
      <3> HIDE DEF answer
      <3> QED
        BY <1>1, <2>1, <2>3, Replied
    <2>5. index = disk
      <3>1. \A x \in Clients : op[x].pc # "index"
        BY <1>1, <2>1 DEF CallsInv, Holding
      <3> QED
        BY <2>1, <3>1, IndexTrue
    <2>6. Refuses(op[c]) \in {None, "duplicate", "notFound", "conflict"}
      BY DEF Refuses
    <2>7. op[c].kind = "get" /\ answer = Same => disk[op[c].doc] = Same
      BY <2>5, <2>6 DEF Same
    <2>8. op[c].kind = "insert" => answer # "ok"
      BY <2>1, <2>6
    <2> HIDE DEF answer
    <2> QED
      BY <2>1, <2>4, <2>7, <2>8
  <1>3. CASE CreateTemp(c) \/ WriteTemp(c) \/ Rename(c) \/ OpenLog(c) \/ WriteLine(c)
    <2>1. PICK pc \in {"write", "rename", "index", "line", "sync"} :
            op' = Stage(c, pc) /\ op[c].pc \in {"asked", "write", "rename", "line"}
            /\ (Rename(c) \/ disk' = disk)
      BY <1>3 DEF CreateTemp, WriteTemp, Rename, OpenLog, WriteLine, At, filesVars
    <2> QED
      BY <1>1, <2>1, Staged DEF Holding
  <1>4. CASE Indexed(c)
    <2>1. op[c].pc = "index" /\ op' = Reply(c, "ok") /\ disk' = disk
      BY <1>4 DEF Indexed, At, filesVars
    <2>2. disk[op[c].doc] = op[c].new /\ op[c].new \in Values /\ op[c].kind \in Writes
      BY <2>1 DEF DocsInv, CallsInv, Formed
    <2> QED
      BY <1>1, <2>1, <2>2, Replied, StoreConstants DEF Holding, Replies, Writes
  <1>5. CASE SyncLine(c)
    <2>1. op[c].pc = "sync" /\ op' = Reply(c, "ok") /\ disk' = disk
      BY <1>5 DEF SyncLine, At, filesVars
    <2>2. op[c].kind = "event"
      BY <2>1 DEF CallsInv, Formed
    <2> QED
      BY <1>1, <2>1, <2>2, Replied DEF Holding, Replies
  <1>6. CASE FileError(c)
    <2>1. op[c].pc \in {"write", "rename", "line", "sync"} /\ op' = Reply(c, "io") /\ disk' = disk
      BY <1>6 DEF FileError, filesVars
    <2> QED
      BY <1>1, <2>1, Replied DEF Holding, Replies, Same
  <1> QED
    BY <1>2, <1>3, <1>4, <1>5, <1>6 DEF StoreStep

\* The store's own steps keep the archive in order.
LEMMA ArchiveStored ==
    ASSUME StoreInv, ArchiveInv, Store \/ StoreFails
    PROVE  ArchiveInv'
  <1>1. CallsInv /\ DocsInv /\ ClientsInv
    BY DEF StoreInv
  <1>2. PICK c \in Clients : StoreStep(c) \/ FileError(c)
    BY DEF Store, StoreFails
  <1>3. boot' = boot /\ body' = body /\ import' = import
    BY DEF Store, StoreFails, archiveVars
  <1>4. /\ op[c].pc \in {"asked"} \cup Holding /\ op'[c].pc # "idle"
        /\ op'[c].kind = op[c].kind /\ op'[c].doc = op[c].doc /\ op'[c].new = op[c].new
        /\ \A x \in Clients \ {c} : op'[x] = op[x]
        /\ Rename(c) \/ disk' = disk
        /\ op'[c].pc = "done" /\ op'[c].kind = "get" /\ op'[c].reply = Same => disk[op[c].doc] = Same
        /\ op'[c].pc = "done" /\ op'[c].kind = "insert" /\ op'[c].reply = "ok" =>
             disk[op[c].doc] = op[c].new /\ op[c].new # None
    BY <1>1, <1>2, OperationMoves
  <1>5. NothingTaken /\ ArchiveInert' /\ EvidenceInv'
    BY <1>3, <1>4, RenamedInOrder, UntouchedInOrder
  <1>6. op[c].pc # "idle" /\ op[c].pc # "done" /\ op[c] # Idle
    BY <1>4 DEF Holding, Idle
  <1>7. ASSUME NEW i \in Importers PROVE ImportInv(i)'
    <2>1. ImportInv(i) /\ i \in Clients
      BY Contents DEF ArchiveInv
    <2>2. CASE i # c
      BY <1>3, <1>4, <1>5, <2>1, <2>2, ImportKept
    <2>3. CASE i = c
      <3>1. import[i].how \in {"none", "running", "restoring", "done", "failed"}
        BY <1>1 DEF ClientsInv, ImportType
      <3>2. import[i].how = "running" /\ Asks(i) /\ Reached(i)
        BY <1>6, <2>1, <2>3, <3>1 DEF ImportInv
      <3>3. Asks(i)'
        BY <1>3, <1>4, <2>3, <3>2 DEF Asks, Step
      <3>4. Reached(i)'
        BY <1>3, <1>5, <3>2, Contents DEF Reached, NothingTaken, Session
      <3>5. Told(i)'
        BY <1>4, <1>5, <2>3, Contents DEF Told, NothingTaken
      <3> QED
        BY <1>3, <1>4, <2>3, <3>2, <3>3, <3>4, <3>5 DEF ImportInv
    <2> QED
      BY <2>2, <2>3
  <1>8. OthersInv'
    <2>1. OthersInv
      BY DEF ArchiveInv
    <2>2. boot' # "recovering" => op'[Recovery] = Idle
      BY <1>3, <1>4, <1>6, <2>1, Contents DEF OthersInv
    <2>3. op'[Recovery].pc # "idle" => op'[Recovery].kind = "updateIf" /\ op'[Recovery].doc = Own
      BY <1>4, <1>6, <2>1, Contents DEF OthersInv
    <2>4. \A p \in Patchers : op'[p].pc # "idle" => op'[p].kind = "event"
      BY <1>4, <1>6, <2>1, Contents DEF OthersInv
    <2>5. \A x \in Clients : x \notin Importers /\ x \notin Patchers /\ x # Recovery => op'[x] = Idle
      BY <1>4, <1>6, <2>1 DEF OthersInv
    <2> QED
      BY <1>3, <2>1, <2>2, <2>3, <2>4, <2>5 DEF OthersInv
  <1> QED
    BY <1>5, <1>7, <1>8 DEF ArchiveInv

\* One import moves on.
LEMMA ImportMoves ==
    ASSUME StoreInv, ArchiveInv, NEW i \in Importers, ImportInv(i)', boot' = boot, disk' = disk,
           body' = body \/ body' # None,
           \A x \in Clients \ {i} : op'[x] = op[x],
           \A j \in Importers \ {i} : import'[j] = import[j],
           boot = "recovering" => import'[i].how \notin {"running", "restoring"}
    PROVE  ArchiveInv'
  <1>1. NothingTaken /\ ArchiveInert' /\ EvidenceInv'
    BY UntouchedInOrder
  <1>2. \A j \in Importers : ImportInv(j)'
    <2> SUFFICES ASSUME NEW j \in Importers, j # i PROVE ImportInv(j)'
      OBVIOUS
    <2>1. ImportInv(j) /\ op'[j] = op[j] /\ import'[j] = import[j]
      BY Contents DEF ArchiveInv
    <2> QED
      BY <1>1, <2>1, ImportKept
  <1>3. OthersInv'
    BY Contents DEF ArchiveInv, OthersInv
  <1> QED
    BY <1>1, <1>2, <1>3 DEF ArchiveInv

\* A step of the script opens with what it asks.
LEMMA OpeningAsks ==
    ASSUME NEW i \in Importers, NEW n \in 1..10, import'[i].at = n, op'[i] = Opening(Script[n])
    PROVE  Asks(i)' /\ op'[i].pc = "asked"
  <1>1. Step(i)' = Script[n]
    BY DEF Step
  <1>2. Script[n].does \in {"look", "ensure", "put", "report"}
    BY ScriptShape
  <1>3. Script[n].does = "report" => Script[n].doc = None
    BY ScriptShape
  <1> QED
    BY <1>1, <1>2, <1>3 DEF Asks, Opening, Asking

\* The steps of an import keep the archive in order.
LEMMA ArchiveImports ==
    ASSUME StoreInv, ArchiveInv, ImportingSessions
    PROVE  ArchiveInv'
  <1>1. op \in [Clients -> OpType] /\ import \in [Importers -> ImportType]
    BY DEF StoreInv, CallsInv, ClientsInv
  <1>2. ASSUME NEW i \in Importers, \E q : CallAs(i, q)
        PROVE  disk' = disk /\ \A x \in Clients \ {i} : op'[x] = op[x]
    BY <1>1, <1>2 DEF CallAs, filesVars
  <1>3. ASSUME NEW i \in Importers, NEW q, CallAs(i, q)
        PROVE  op'[i] = q
    BY <1>1, <1>3, Contents DEF CallAs
  <1>4. ASSUME NEW i \in Importers, NEW how \in {"none", "running", "restoring", "done", "failed"},
               import' = Moved(i, how)
        PROVE  /\ import'[i].at = import[i].at /\ import'[i].how = how
               /\ \A j \in Importers \ {i} : import'[j] = import[j]
    BY <1>1, <1>4 DEF Moved, ImportType
  <1>5. ASSUME NEW i \in Importers PROVE ImportInv(i) /\ i \in Clients
    BY Contents DEF ArchiveInv
  <1>6. ASSUME NEW i \in Importers, import[i].how \in {"running", "restoring"}
        PROVE  boot # "recovering" /\ import[i].at \in 1..10
    BY <1>6 DEF ArchiveInv, OthersInv, StoreInv, ClientsInv, ImportType
  \* An import that is over has called nothing any more.
  <1>7. ASSUME NEW i \in Importers, NEW how \in {"done", "failed"}, import' = Moved(i, how),
               op'[i] = Idle, disk' = disk, body' = body, boot' = boot,
               \A x \in Clients \ {i} : op'[x] = op[x]
        PROVE  ArchiveInv'
    <2>1. /\ import'[i].at = import[i].at /\ import'[i].how = how
          /\ \A j \in Importers \ {i} : import'[j] = import[j]
      BY <1>4, <1>7
    <2>2. Reached(i)'
      BY <1>5, <1>7, <2>1 DEF ImportInv, Reached
    <2>3. Told(i)'
      BY <1>7 DEF Told, Idle
    <2>4. ImportInv(i)'
      BY <1>7, <2>1, <2>2, <2>3 DEF ImportInv
    <2> QED
      BY <1>7, <2>1, <2>4, ImportMoves
  <1>8. ASSUME NEW i \in Importers, Import(i) PROVE ArchiveInv'
    <2>1. /\ boot = "serving" /\ boot' = boot /\ body' = body
          /\ import' = [import EXCEPT ![i] = [at |-> 1, how |-> "running"]]
          /\ CallAs(i, Opening(Script[1]))
      BY <1>8 DEF Import
    <2>2. /\ import'[i].at = 1 /\ import'[i].how = "running"
          /\ \A j \in Importers \ {i} : import'[j] = import[j]
      BY <1>1, <2>1
    <2>3. op'[i] = Opening(Script[1]) /\ disk' = disk /\ \A x \in Clients \ {i} : op'[x] = op[x]
      BY <1>2, <1>3, <2>1
    <2>4. Asks(i)' /\ op'[i].pc = "asked"
      BY <2>2, <2>3, OpeningAsks
    <2>5. Reached(i)' /\ Told(i)'
      BY <2>2, <2>4 DEF Reached, Told
    <2>6. ImportInv(i)'
      BY <2>2, <2>4, <2>5 DEF ImportInv
    <2> QED
      BY <2>1, <2>2, <2>3, <2>6, ImportMoves
  <1>9. ASSUME NEW i \in Importers, Continue(i) PROVE ArchiveInv'
    <2>1. /\ op[i].pc = "done" /\ import[i].how = "running" /\ Satisfied(i) /\ import[i].at < 10
          /\ boot' = boot /\ body' = body
          /\ import' = [import EXCEPT ![i].at = @ + 1]
          /\ CallAs(i, Opening(Script[import[i].at + 1]))
      BY <1>9, ScriptSteps DEF Continue, Importing, Answered, At
    <2> DEFINE n == import[i].at
    <2>2. n \in 1..10 /\ n + 1 \in 1..10 /\ boot # "recovering"
      BY <1>6, <2>1
    <2>3. /\ import'[i].at = n + 1 /\ import'[i].how = "running"
          /\ \A j \in Importers \ {i} : import'[j] = import[j]
      BY <1>1, <2>1 DEF ImportType
    <2>4. op'[i] = Opening(Script[n + 1]) /\ disk' = disk /\ \A x \in Clients \ {i} : op'[x] = op[x]
      BY <1>2, <1>3, <2>1
    <2>5. Asks(i)' /\ op'[i].pc = "asked"
      BY <2>2, <2>3, <2>4, OpeningAsks
    <2>6. Asks(i) /\ Reached(i) /\ Told(i)
      BY <1>5, <2>1 DEF ImportInv
    <2>7. /\ n = 4 => disk["artifact"] = Same
          /\ n = 5 => disk["snapshot"] = Same
          /\ n = 6 => disk["issue"] = Archived
          /\ n = 7 => disk["job"] = Exported
      <3>1. Step(i) = Script[n]
        BY DEF Step
      <3>2. CASE Step(i).does = "ensure"
        <4>1. /\ Step(i).value = Same
              /\ \/ n = 4 /\ Step(i).doc = "artifact"
                 \/ n = 5 /\ Step(i).doc = "snapshot"
          BY <2>2, <3>1, <3>2, ScriptShape
        <4>2. op[i].doc = Step(i).doc /\ op[i].doc \in Session
          BY <2>6, <4>1 DEF Asks, Session
        <4>3. CASE op[i].kind = "get"
          BY <2>1, <2>6, <3>2, <4>1, <4>2, <4>3 DEF Satisfied, Got, Told
        <4>4. CASE op[i].kind = "insert" /\ op[i].new = Same
          BY <2>1, <2>6, <3>2, <4>1, <4>2, <4>4 DEF Satisfied, Got, Told
        <4> QED
          BY <2>6, <3>2, <4>3, <4>4 DEF Asks
      <3>3. CASE Step(i).does = "put"
        <4>1. /\ op[i].kind = "insert" /\ op[i].new = Step(i).value /\ op[i].doc = Step(i).doc
              /\ op[i].reply = "ok"
          BY <2>1, <2>6, <3>3 DEF Asks, Satisfied, Got
        <4>2. \/ n = 6 /\ Step(i).doc = "issue" /\ Step(i).value = Archived
              \/ n = 7 /\ Step(i).doc = "job" /\ Step(i).value = Exported
              \/ n = 8 /\ Step(i).doc = "run" /\ Step(i).value = Exported
          BY <2>2, <3>1, <3>3, ScriptShape
        <4>3. disk[op[i].doc] = op[i].new
          BY <2>1, <2>6, <4>1, <4>2 DEF Told, Session
        <4> QED
          BY <4>1, <4>2, <4>3
      <3>4. CASE Step(i).does = "look" \/ Step(i).does = "report"
        BY <2>2, <3>1, <3>4, ScriptShape
      <3> QED
        BY <2>2, <3>1, <3>2, <3>3, <3>4, ScriptShape
    <2>8. Reached(i)'
      <3>1. n + 1 > 4 => n > 4 \/ n = 4
        BY <2>2
      <3>2. (n + 1 > 5 => n > 5 \/ n = 5) /\ (n + 1 > 6 => n > 6 \/ n = 6) /\ (n + 1 > 7 => n > 7 \/ n = 7)
        BY <2>2
      <3> QED
        BY <2>3, <2>4, <2>6, <2>7, <3>1, <3>2 DEF Reached
    <2>9. ImportInv(i)'
      BY <2>3, <2>5, <2>8 DEF ImportInv, Told
    <2> QED
      BY <2>1, <2>2, <2>3, <2>4, <2>9, ImportMoves
  <1>10. ASSUME NEW i \in Importers, Imported(i) \/ Refused(i) \/ RestoreFails(i) PROVE ArchiveInv'
    <2>1. PICK how \in {"done", "failed"} : import' = Moved(i, how)
      BY <1>10 DEF Imported, Refused, RestoreFails
    <2>2. CallAs(i, Idle) /\ boot' = boot /\ body' = body
      BY <1>10 DEF Imported, Refused, RestoreFails
    <2> QED
      BY <1>2, <1>3, <1>7, <2>1, <2>2
  <1>11. ASSUME NEW i \in Importers, RestoreBody(i) PROVE ArchiveInv'
    <2>1. /\ import[i].how = "running" /\ op[i].pc = "done" /\ op[i].kind = "get"
          /\ body' = Torn /\ import' = Moved(i, "restoring") /\ op' = op /\ disk' = disk /\ boot' = boot
      BY <1>11 DEF RestoreBody, Importing, Answered, At, Missing, storeVars
    <2>2. /\ import'[i].at = import[i].at /\ import'[i].how = "restoring"
          /\ \A j \in Importers \ {i} : import'[j] = import[j]
      BY <1>4, <2>1
    <2>3. Reached(i)' /\ Told(i)'
      BY <1>5, <2>1, <2>2 DEF ImportInv, Reached, Told
    <2>4. ImportInv(i)'
      BY <2>1, <2>2, <2>3 DEF ImportInv
    <2> QED
      BY <1>6, <2>1, <2>2, <2>4, Contents, ImportMoves
  <1>12. ASSUME NEW i \in Importers, BodyRestored(i) \/ InsertMissing(i) PROVE ArchiveInv'
    <2>1. /\ import'[i].at = import[i].at /\ import'[i].how = "running"
          /\ \A j \in Importers \ {i} : import'[j] = import[j]
          /\ import[i].how \in {"running", "restoring"}
      <3>1. CASE BodyRestored(i)
        BY <1>4, <3>1 DEF BodyRestored
      <3>2. CASE InsertMissing(i)
        BY <3>2 DEF InsertMissing, Importing, archiveVars
      <3> QED
        BY <1>12, <3>1, <3>2
    <2>2. /\ CallAs(i, Asking("insert", Step(i).doc, None, Step(i).value)) /\ boot' = boot
          /\ body' = body \/ body' # None
          /\ Step(i).doc = "artifact" => body' # None
      BY <1>12, Contents DEF BodyRestored, InsertMissing, Insert, archiveVars
    <2>3. Step(i).does = "ensure"
      <3>1. CASE BodyRestored(i)
        <4>1. import[i].at = 4
          BY <3>1 DEF BodyRestored, StoreInv, ClientsInv
        <4> QED
          BY <4>1, ScriptSteps DEF Step, Ensure
      <3>2. CASE InsertMissing(i)
        BY <3>2 DEF InsertMissing, Missing
      <3> QED
        BY <1>12, <3>1, <3>2
    <2>4. Step(i).value = Same /\ Step(i)' = Step(i)
      BY <1>6, <2>1, <2>3, ScriptShape DEF Step
    <2>5. /\ op'[i] = Asking("insert", Step(i).doc, None, Step(i).value) /\ disk' = disk
          /\ \A x \in Clients \ {i} : op'[x] = op[x]
      BY <1>2, <1>3, <2>2
    <2>6. /\ op'[i].pc = "asked" /\ op'[i].kind = "insert" /\ op'[i].doc = Step(i).doc
          /\ op'[i].new = Same
      BY <2>4, <2>5 DEF Asking
    <2>7. Asks(i)'
      BY <2>2, <2>3, <2>4, <2>6 DEF Asks
    <2>8. Reached(i)' /\ Told(i)'
      BY <1>5, <2>1, <2>5, <2>6 DEF ImportInv, Reached, Told
    <2>9. ImportInv(i)'
      BY <2>1, <2>6, <2>7, <2>8 DEF ImportInv
    <2> QED
      BY <1>6, <2>1, <2>2, <2>5, <2>9, ImportMoves
  <1>13. ASSUME NEW i \in Importers, ImportDropped(i) PROVE ArchiveInv'
    <2>1. import' = Moved(i, "failed") /\ Dropped({i}) /\ boot' = boot /\ body' = body
      BY <1>13 DEF ImportDropped
    <2>2. disk' = disk /\ op'[i] = Idle /\ \A x \in Clients \ {i} : op'[x] = op[x]
      BY <1>1, <1>5, <2>1 DEF Dropped, filesVars
    <2> QED
      BY <1>7, <2>1, <2>2
  <1>14. PICK i \in Importers :
           \/ Import(i) \/ Continue(i) \/ Imported(i) \/ Refused(i) \/ RestoreBody(i)
           \/ BodyRestored(i) \/ InsertMissing(i) \/ RestoreFails(i) \/ ImportDropped(i)
    BY DEF ImportingSessions
  <1> QED
    BY <1>8, <1>9, <1>10, <1>11, <1>12, <1>13, <1>14

\* Nothing of imports or of the session's documents moves.
LEMMA ArchiveStill ==
    ASSUME ArchiveInv, import' = import, disk' = disk, body' = body,
           \A i \in Importers : op'[i] = op[i], OthersInv'
    PROVE  ArchiveInv'
  <1>1. NothingTaken /\ ArchiveInert' /\ EvidenceInv'
    BY UntouchedInOrder
  <1>2. \A i \in Importers : ImportInv(i)'
    BY <1>1, ImportKept DEF ArchiveInv
  <1> QED
    BY <1>1, <1>2 DEF ArchiveInv

\* Every step keeps the archive in order.
LEMMA ArchiveStep ==
    ASSUME StoreInv, StoreInv', ArchiveInv, [Next]_vars
    PROVE  ArchiveInv'
  <1>1. op \in [Clients -> OpType] /\ OthersInv
    BY DEF StoreInv, CallsInv, ArchiveInv
  <1>2. CASE Configuring
    <2>1. /\ import' = import /\ body' = body /\ boot' = boot /\ disk' = disk
          /\ \/ op' = op
             \/ \E p \in Patchers : CallAs(p, Asking("event", None, None, Change))
             \/ \E p \in Patchers : CallAs(p, Idle)
             \/ \E p \in Patchers : Dropped({p})
      <3>1. \/ Freeze \/ Resume
            \/ \E p \in Patchers :
                 \/ Ask(p) \/ Lock(p) \/ CheckMode(p) \/ WriteConfig(p) \/ Apply(p)
                 \/ Accept(p) \/ Unrecorded(p) \/ WriteConfigFails(p) \/ PatchDropped(p)
        BY <1>2 DEF Configuring
      <3>2. import' = import /\ body' = body /\ boot' = boot
        BY <1>2 DEF Configuring, archiveVars
      <3>3. CASE Freeze \/ Resume
        BY <3>2, <3>3 DEF Freeze, Resume, storeVars
      <3>4. ASSUME NEW p \in Patchers,
                   Ask(p) \/ Lock(p) \/ CheckMode(p) \/ WriteConfig(p) \/ WriteConfigFails(p)
            PROVE  op' = op /\ disk' = disk
        BY <3>4 DEF Ask, Lock, CheckMode, WriteConfig, WriteConfigFails, storeVars
      <3>5. ASSUME NEW p \in Patchers, Apply(p)
            PROVE  CallAs(p, Asking("event", None, None, Change)) /\ disk' = disk
        BY <3>5 DEF Apply, CallAs, filesVars
      <3>6. ASSUME NEW p \in Patchers, Accept(p) \/ Unrecorded(p) PROVE CallAs(p, Idle) /\ disk' = disk
        BY <3>6 DEF Accept, Unrecorded, CallAs, filesVars
      <3>7. ASSUME NEW p \in Patchers, PatchDropped(p) PROVE Dropped({p}) /\ disk' = disk
        BY <3>7 DEF PatchDropped, Dropped, filesVars
      <3> QED
        BY <3>1, <3>2, <3>3, <3>4, <3>5, <3>6, <3>7
    <2>2. CASE op' = op
      BY <1>1, <2>1, <2>2, ArchiveStill DEF OthersInv
    <2>3. ASSUME NEW p \in Patchers, \A x \in Clients \ {p} : op'[x] = op[x],
                 op'[p].pc # "idle" => op'[p].kind = "event"
          PROVE  ArchiveInv'
      <3>1. OthersInv'
        BY <1>1, <2>1, <2>3, Contents DEF OthersInv
      <3>2. \A i \in Importers : op'[i] = op[i]
        BY <2>3, Contents
      <3> QED
        BY <2>1, <3>1, <3>2, ArchiveStill
    <2>4. ASSUME NEW p \in Patchers, CallAs(p, Asking("event", None, None, Change)) PROVE ArchiveInv'
      <3>1. op'[p].kind = "event" /\ \A x \in Clients \ {p} : op'[x] = op[x]
        BY <1>1, <2>4, Contents DEF CallAs, Asking
      <3> QED
        BY <2>3, <3>1
    <2>5. ASSUME NEW p \in Patchers, CallAs(p, Idle) PROVE ArchiveInv'
      <3>1. op'[p].pc = "idle" /\ \A x \in Clients \ {p} : op'[x] = op[x]
        BY <1>1, <2>5, Contents DEF CallAs, Idle
      <3> QED
        BY <2>3, <3>1
    <2>6. ASSUME NEW p \in Patchers, Dropped({p}) PROVE ArchiveInv'
      <3>1. op'[p].pc = "idle" /\ \A x \in Clients \ {p} : op'[x] = op[x]
        BY <1>1, <2>6, Contents DEF Dropped, Idle
      <3> QED
        BY <2>3, <3>1
    <2> QED
      BY <2>1, <2>2, <2>4, <2>5, <2>6
  <1>3. CASE Recovering
    <2>1. ASSUME NEW d \in Docs, Recover(d) PROVE ArchiveInv'
      <3>1. /\ boot = "recovering" /\ up = "up" /\ op[Recovery].pc = "idle" /\ LiveUnfinished(d)
            /\ CallAs(Recovery, Asking("updateIf", d, index[d], Ended))
            /\ boot' = boot /\ body' = body /\ import' = import
        BY <2>1 DEF Recover, At, archiveVars
      \* Nobody else is at work, so the index is what the files say ...
      <3>2. \A c \in Clients : op[c].pc # "index"
        <4>1. \A i \in Importers : op[i] = Idle
          <5> SUFFICES ASSUME NEW i \in Importers PROVE op[i] = Idle
            OBVIOUS
          <5>1. import[i].how \in {"none", "done", "failed"}
            BY <1>1, <3>1 DEF OthersInv, StoreInv, ClientsInv, ImportType
          <5> QED
            BY <5>1 DEF ArchiveInv, ImportInv
        <4>2. \A p \in Patchers : op[p].pc # "index"
          <5> SUFFICES ASSUME NEW p \in Patchers, op[p].pc = "index" PROVE FALSE
            OBVIOUS
          <5>1. op[p].kind = "event" /\ op[p].kind \in Writes
            BY <1>1, Contents DEF OthersInv, StoreInv, CallsInv, Formed
          <5> QED
            BY <5>1 DEF Writes
        <4> QED
          BY <1>1, <3>1, <4>1, <4>2 DEF OthersInv, Idle
      <3>3. index = disk
        BY <3>1, <3>2, IndexTrue DEF StoreInv
      \* ... and a Job or a run is there only behind its archived Issue.
      <3>4. d = Own
        BY <3>1, <3>3, Contents DEF LiveUnfinished, ArchiveInv, ArchiveInert
      <3>5. /\ op'[Recovery].kind = "updateIf" /\ op'[Recovery].doc = Own
            /\ \A x \in Clients \ {Recovery} : op'[x] = op[x] /\ disk' = disk
        BY <1>1, <3>1, <3>4, Contents DEF CallAs, Asking, filesVars
      <3>6. disk' = disk
        BY <3>1 DEF CallAs, filesVars
      <3>7. OthersInv'
        BY <1>1, <3>1, <3>5, Contents DEF OthersInv
      <3>8. \A i \in Importers : op'[i] = op[i]
        BY <3>5, Contents
      <3> QED
        BY <3>1, <3>6, <3>7, <3>8, ArchiveStill
    <2>2. CASE Recovered
      <3>1. CallAs(Recovery, Idle) /\ boot' = boot /\ body' = body /\ import' = import
        BY <2>2 DEF Recovered, archiveVars
      <3>2. op'[Recovery] = Idle /\ disk' = disk /\ \A x \in Clients : x # Recovery => op'[x] = op[x]
        BY <1>1, <3>1, Contents DEF CallAs, filesVars
      <3>3. OthersInv'
        BY <1>1, <3>1, <3>2, Contents DEF OthersInv, Idle
      <3>4. \A i \in Importers : op'[i] = op[i]
        BY <3>2, Contents
      <3> QED
        BY <3>1, <3>2, <3>3, <3>4, ArchiveStill
    <2>3. CASE Serve
      <3>1. op[Recovery].pc = "idle" /\ boot' = "serving" /\ op' = op /\ disk' = disk /\ body' = body
            /\ import' = import
        BY <2>3 DEF Serve, At, storeVars
      <3>2. op[Recovery] = Idle
        BY <3>1, Contents DEF StoreInv, CallsInv, Formed
      <3>3. OthersInv'
        BY <1>1, <3>1, <3>2 DEF OthersInv
      <3> QED
        BY <3>1, <3>3, ArchiveStill
    <2> QED
      BY <1>3, <2>1, <2>2, <2>3 DEF Recovering
  <1>4. CASE Crash
    <2>1. /\ op' = [x \in Clients |-> Idle] /\ disk' = disk /\ body' = body /\ boot' = "recovering"
          /\ import' = [i \in Importers |->
                          IF import[i].how \in {"running", "restoring"}
                          THEN [import[i] EXCEPT !.how = "failed"] ELSE import[i]]
      BY <1>4 DEF Crash, StoreCrash, ArchiveCrash
    <2>2. NothingTaken /\ ArchiveInert' /\ EvidenceInv'
      BY <2>1, UntouchedInOrder
    <2>3. \A i \in Importers : import'[i].at = import[i].at /\ import'[i].how \notin {"running", "restoring"}
      BY <2>1 DEF StoreInv, ClientsInv, ImportType
    <2>4. ASSUME NEW i \in Importers PROVE ImportInv(i)'
      <3>1. ImportInv(i) /\ op'[i] = Idle
        BY <2>1, Contents DEF ArchiveInv
      <3>2. Reached(i)'
        BY <2>1, <2>3, <3>1 DEF ImportInv, Reached
      <3> QED
        BY <2>3, <3>1, <3>2 DEF ImportInv, Told, Idle
    <2>5. OthersInv'
      <3>1. \A x \in Clients : op'[x] = Idle
        BY <2>1
      <3> QED
        BY <2>1, <2>3, <3>1, Contents DEF OthersInv, Idle
    <2> QED
      BY <2>2, <2>4, <2>5 DEF ArchiveInv
  <1>5. CASE Start \/ UNCHANGED vars
    <2>1. import' = import /\ body' = body /\ boot' = boot /\ disk' = disk /\ op' = op
      BY <1>5 DEF Start, Open, OpenFails, vars, storeVars, archiveVars, filesVars
    <2> QED
      BY <1>1, <2>1, ArchiveStill DEF OthersInv
  <1> QED
    BY <1>2, <1>3, <1>4, <1>5, ArchiveStored, ArchiveImports DEF Next

\* Imports that overlap, fail half-way or are cut off by a restart leave an Issue only behind its
\* evidence, and its Jobs and runs only behind the Issue; recovery never touches what an archive
\* holds (import_session of the export, recover of the Scheduler).
THEOREM ArchivesStayInert == Spec => []ArchiveInert
  <1>1. Init => ArchiveInv
    <2> SUFFICES ASSUME Init PROVE ArchiveInv
      OBVIOUS
    <2>1. /\ op = [c \in Clients |-> Idle] /\ ArchiveInit /\ boot = "serving"
          /\ import = [i \in Importers |-> Unused]
      BY DEF Init, StoreInit, ArchiveInit
    <2>2. /\ disk["issue"] = None /\ disk["job"] = None /\ disk["run"] = None
          /\ body = IF disk["artifact"] = None THEN None ELSE disk["artifact"]
      BY <2>1, FoundDocs
    <2>3. ArchiveInert /\ EvidenceInv
      BY <2>2, Contents DEF ArchiveInert, EvidenceInv
    <2>4. \A c \in Clients : op[c] = Idle
      BY <2>1
    <2>5. \A i \in Importers : ImportInv(i)
      BY <2>1, <2>4, Contents DEF ImportInv, Unused, Reached, Told, Idle
    <2>6. OthersInv
      BY <2>1, <2>4, Contents DEF OthersInv, Idle
    <2> QED
      BY <2>3, <2>5, <2>6 DEF ArchiveInv
  <1>2. StoreInv /\ StoreInv' /\ ArchiveInv /\ [Next]_vars => ArchiveInv'
    BY ArchiveStep
  <1>3. ArchiveInv => ArchiveInert
    BY DEF ArchiveInv
  <1> QED
    BY <1>1, <1>2, <1>3, StoreAlways, PTL DEF Spec
=============================================================================
