------------------------------ MODULE FileStore ------------------------------
(***************************************************************************)
(* The file-backed store: one JSON document per object, replaced through a *)
(* temporary file, and an append-only events.jsonl, both mirrored in a     *)
(* memory index behind one lock.  The process may end between any two of   *)
(* its file operations, each of which may also fail, an append after a     *)
(* part of its line; open rebuilds the index from the files.               *)
(***************************************************************************)
EXTENDS Naturals, Sequences, FiniteSets

CONSTANTS
    Clients,    \* callers inside the process
    Docs,       \* documents, of every kind
    Values,     \* their contents, and those of events
    None,
    Torn        \* the content of a file or a line of which a part was written

ASSUME StoreConstants ==
    /\ None \notin Values \cup Clients \cup Docs \cup {"duplicate", "notFound", "conflict"}
    /\ {None, Torn} \cap (Values \cup [seq : Nat, event : Values]) = {} /\ None # Torn

VARIABLES
    up,         \* the process: "up", "down", or "broken" when open has failed
    disk,       \* the documents under their final names
    temp,       \* their temporary siblings
    file,       \* the lines of events.jsonl that parse
    tail,       \* what follows the last newline: None, Torn, or a record without its newline
    garbled,    \* whether a line was written onto such a tail: it does not parse
    index,      \* the memory's documents
    events,     \* the memory's events
    next,       \* next_event_sequence
    holder,     \* who holds the index lock across file operations
    op,         \* what each client has called, how far it is, and its reply
    acked       \* auxiliary: the records whose append returned Ok, ever

storeVars ==
    <<up, disk, temp, file, tail, garbled, index, events, next, holder, op, acked>>
logVars == <<file, tail, garbled>>
filesVars == <<disk, temp, file, tail, garbled>>
memoryVars == <<index, events, next>>

Idle == [pc |-> "idle", kind |-> "get", doc |-> None, old |-> None, new |-> None, reply |-> None]

StoreInit ==
    /\ up = "up"
    /\ temp = [d \in Docs |-> None]
    /\ file = <<>> /\ tail = None /\ garbled = FALSE
    /\ events = <<>> /\ next = 1
    /\ index = disk
    /\ holder = None
    /\ op = [c \in Clients |-> Idle]
    /\ acked = <<>>

-----------------------------------------------------------------------------
(* Calls.  A client may call again in the step in which it takes its last reply. *)

At(c, pc) == up = "up" /\ op[c].pc = pc

Asking(kind, doc, old, new) ==
    [pc |-> "asked", kind |-> kind, doc |-> doc, old |-> old, new |-> new, reply |-> None]

CallAs(c, q) ==
    /\ op' = [op EXCEPT ![c] = q]
    /\ UNCHANGED <<up, filesVars, memoryVars, holder, acked>>

Got(c) == op[c].reply
Answered(c) == At(c, "done")

Stage(c, pc) == [op EXCEPT ![c].pc = pc]
Reply(c, answer) == [op EXCEPT ![c].pc = "done", ![c].reply = answer]

(* Under the lock the index is asked first. *)
Refuses(q) ==
    CASE q.kind = "insert" /\ index[q.doc] # None -> "duplicate"
      [] q.kind \in {"get", "update", "updateIf"} /\ index[q.doc] = None -> "notFound"
      [] q.kind = "updateIf" /\ index[q.doc] \notin {None, q.old} -> "conflict"
      [] OTHER -> None

\* Readers answer and leave, and so does a refusal; no file is touched.
Answer(c) ==
    /\ At(c, "asked") /\ holder = None /\ op[c].kind # "event"
    /\ op[c].kind = "get" \/ Refuses(op[c]) # None
    /\ op' = Reply(c, IF Refuses(op[c]) # None THEN Refuses(op[c]) ELSE index[op[c].doc])
    /\ UNCHANGED <<up, filesVars, memoryVars, holder, acked>>

(* write_doc: the temporary file is created, written and synced, then renamed. *)
CreateTemp(c) ==
    /\ At(c, "asked") /\ holder = None /\ op[c].kind \notin {"get", "event"}
    /\ Refuses(op[c]) = None
    /\ holder' = c
    /\ temp' = [temp EXCEPT ![op[c].doc] = Torn]
    /\ op' = Stage(c, "write")
    /\ UNCHANGED <<up, disk, logVars, memoryVars, acked>>

\* Fault: the file is moved to its name before it is written.
WriteTempInPlace(c) ==
    /\ At(c, "write")
    /\ disk' = [disk EXCEPT ![op[c].doc] = Torn]
    /\ temp' = [temp EXCEPT ![op[c].doc] = op[c].new]
    /\ op' = Stage(c, "rename")
    /\ UNCHANGED <<up, logVars, memoryVars, holder, acked>>

WriteTemp(c) ==
    /\ At(c, "write")
    /\ temp' = [temp EXCEPT ![op[c].doc] = op[c].new]
    /\ op' = Stage(c, "rename")
    /\ UNCHANGED <<up, disk, logVars, memoryVars, holder, acked>>

Rename(c) ==
    /\ At(c, "rename")
    /\ disk' = [disk EXCEPT ![op[c].doc] = temp[op[c].doc]]
    /\ temp' = [temp EXCEPT ![op[c].doc] = None]
    /\ op' = Stage(c, "index")
    /\ UNCHANGED <<up, logVars, memoryVars, holder, acked>>

\* Only then the memory: readers never see what a crash could take back.
Indexed(c) ==
    /\ At(c, "index")
    /\ index' = [index EXCEPT ![op[c].doc] = op[c].new]
    /\ op' = Reply(c, "ok")
    /\ holder' = None
    /\ UNCHANGED <<up, filesVars, events, next, acked>>

(* append_event: the line, its sync, then the memory. *)
Record(c) == [seq |-> next, event |-> op[c].new]

OpenLog(c) ==
    /\ At(c, "asked") /\ holder = None /\ op[c].kind = "event"
    /\ holder' = c
    /\ op' = Stage(c, "line")
    /\ UNCHANGED <<up, filesVars, memoryVars, acked>>

\* The file is open for appending: what follows a tail becomes one line with it.
WriteLine(c) ==
    /\ At(c, "line")
    /\ IF tail = None THEN file' = Append(file, Record(c)) /\ UNCHANGED garbled
                      ELSE garbled' = TRUE /\ UNCHANGED file
    /\ tail' = None
    /\ op' = Stage(c, "sync")
    /\ UNCHANGED <<up, disk, temp, memoryVars, holder, acked>>

\* Where a line is cut off: before it, inside it, or before its newline.
CutOff(c) == IF tail = None THEN {None, Torn, Record(c)} ELSE {tail, Torn}

SyncLine(c) ==
    /\ At(c, "sync")
    /\ next' = next + 1
    /\ events' = Append(events, Record(c))
    /\ acked' = Append(acked, Record(c))
    /\ op' = Reply(c, "ok")
    /\ holder' = None
    /\ UNCHANGED <<up, filesVars, index>>

\* An error at any of the file operations gives the lock back; what was written stays, of a
\* line as much as was.
FileError(c) ==
    /\ up = "up" /\ op[c].pc \in {"write", "rename", "line", "sync"}
    /\ IF op[c].pc = "line" THEN tail' \in CutOff(c) ELSE tail' = tail
    /\ op' = Reply(c, "io")
    /\ holder' = None
    /\ UNCHANGED <<up, disk, temp, file, garbled, memoryVars, acked>>

-----------------------------------------------------------------------------
\* The callers in gone are dropped where they wait.  A future holds the lock only while it
\* runs file operations without an await, so it cannot be dropped there.
Dropped(gone) ==
    /\ \A c \in gone : op[c].pc \in {"idle", "asked", "done"}
    /\ op' = [c \in Clients |-> IF c \in gone THEN Idle ELSE op[c]]
    /\ UNCHANGED <<up, filesVars, memoryVars, holder, acked>>

\* The process ends; a line being written may be cut off.
StoreCrash ==
    /\ up = "up"
    /\ up' = "down"
    /\ \/ tail' = tail
       \/ \E c \in Clients : op[c].pc = "line" /\ tail' \in CutOff(c)
    /\ op' = [c \in Clients |-> Idle]
    /\ holder' = None
    /\ UNCHANGED <<disk, temp, file, garbled, memoryVars, acked>>

Parses == ~garbled /\ tail # Torn

\* A last line counts without its newline.
Lines == IF tail = None THEN file ELSE Append(file, tail)

\* Fault: sequences start again.
NextFromOne == 1
NextSequence == IF Lines = <<>> THEN 1 ELSE Lines[Len(Lines)].seq + 1

\* open: every line must parse; a temporary file is no document.  No file is touched: a
\* missing newline stays missing.
Open ==
    /\ up = "down" /\ Parses
    /\ up' = "up"
    /\ index' = disk /\ events' = Lines /\ next' = NextSequence
    /\ UNCHANGED <<filesVars, holder, op, acked>>

\* Over a line that does not parse no process starts: a human has to repair the file.
OpenFails ==
    /\ up = "down" /\ ~Parses
    /\ up' = "broken"
    /\ UNCHANGED <<filesVars, memoryVars, holder, op, acked>>

StoreStep(c) ==
    \/ Answer(c)
    \/ CreateTemp(c) \/ WriteTemp(c) \/ Rename(c) \/ Indexed(c)
    \/ OpenLog(c) \/ WriteLine(c) \/ SyncLine(c)

-----------------------------------------------------------------------------
StoreTypeOK ==
    /\ up \in {"up", "down", "broken"}
    /\ disk \in [Docs -> Values \cup {None}] /\ index \in [Docs -> Values \cup {None}]
    /\ temp \in [Docs -> Values \cup {None, Torn}]
    /\ next \in Nat /\ holder \in Clients \cup {None}

(* The store it implements.  What the disk holds is what has taken effect; a call that has *)
(* been renamed or written has committed; a line is one that parses and ended.              *)
Seen(c) ==
    [op[c] EXCEPT !.pc = CASE op[c].pc \in {"write", "rename", "line"} -> "asked"
                           [] op[c].pc \in {"index", "sync"} -> "committed"
                           [] OTHER -> op[c].pc]

Contract == INSTANCE AtomicStore
    WITH docs <- disk, log <- [n \in DOMAIN file |-> file[n].event], marred <- tail # None,
         call <- [c \in Clients |-> Seen(c)]

\* FileStore implements AtomicStore: whatever file operation fails or is cut off, a document
\* is its old or its new version, reads agree with what a crash would leave, compare-and-sets
\* decide on what is stored, and events take their place in the log once and for all, but for
\* the one appended onto a line that was cut off.
StoreIsAtomic == Contract!Spec

\* Across errors and restarts whoever is served finds every acknowledged event, behind those
\* acknowledged before it and under a higher sequence number, and none is lost in silence: the
\* file has the line of each, or a line that keeps every later process from starting.
AcknowledgedKept ==
    /\ up = "up" => \A n \in DOMAIN acked : \E m \in DOMAIN events : events[m] = acked[n]
    /\ \A m, n \in DOMAIN acked : m < n => acked[m].seq < acked[n].seq
    /\ \A m, n \in DOMAIN events : m < n => events[m].seq <= events[n].seq
    /\ \A n \in DOMAIN acked : garbled \/ \E m \in DOMAIN file : file[m] = acked[n]

\* What file.rs says of a restart: all that the previous process persisted is readable again.
ReadableAgain == \A n \in DOMAIN acked : \E m \in DOMAIN file : file[m] = acked[n]
=============================================================================
