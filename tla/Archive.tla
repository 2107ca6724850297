------------------------------- MODULE Archive -------------------------------
(***************************************************************************)
(* Importing a session as a read-only archive, over the file-backed store: *)
(* the checks, the immutable records, then the Issue, its Job, its action  *)
(* run and their events, one store operation after the other, beside other *)
(* imports of the same session; and the recovery of a restart, which must  *)
(* leave alone what an archive holds.  One Job and one run stand for all.  *)
(***************************************************************************)
EXTENDS FileStore

CONSTANTS
    Importers,  \* requests that import the session, among Clients
    Recovery,   \* the client startup recovery is
    Found       \* the artifact and Snapshot a store may hold under the session's IDs already

\* Documents: the session's, and an unfinished Job of this controller's own.
Session == {"artifact", "snapshot", "issue", "job", "run"}
Own == "own"

\* Contents: an immutable record equal to the session's or another under its ID, an Issue with
\* provenance, Jobs and runs as they were exported or as recovery ends them.
Same == "same"
Other == "other"
Archived == "archived"
Exported == "unfinished"
Ended == "ended"

ASSUME ArchiveConstants ==
    /\ Importers \cup {Recovery} \subseteq Clients
    /\ Docs = Session \cup {Own}
    /\ {Same, Other, Archived, Exported, Ended} \subseteq Values
    /\ Found \subseteq {None, Same, Other} \X {None, Same, Other}

VARIABLES
    boot,       \* "recovering", or "serving" once the API takes requests
    body,       \* the artifact's file: None, Torn or whole
    import      \* each import: the step of the script it is at, and how it went

archiveVars == <<boot, body, import>>

-----------------------------------------------------------------------------
(* The import, as the sequence of its store operations.  Look refuses what exists, Ensure   *)
(* keeps an equal record, refuses another and inserts a missing one, Put inserts.            *)
Look(d) == [does |-> "look", doc |-> d, value |-> None]
Ensure(d) == [does |-> "ensure", doc |-> d, value |-> Same]
Put(d, v) == [does |-> "put", doc |-> d, value |-> v]
Report(v) == [does |-> "report", doc |-> None, value |-> v]

Script ==
    << Look("issue"), Look("job"), Look("run"), Ensure("artifact"), Ensure("snapshot"),
       Put("issue", Archived), Put("job", Exported), Put("run", Exported),
       Report(Exported), Report(Archived) >>

\* The first store operation of a step.
Opening(s) ==
    CASE s.does \in {"look", "ensure"} -> Asking("get", s.doc, None, None)
      [] s.does = "put" -> Asking("insert", s.doc, None, s.value)
      [] s.does = "report" -> Asking("event", None, None, s.value)

Unused == [at |-> 0, how |-> "none"]
Step(i) == Script[import[i].at]
Importing(i) == Answered(i) /\ import[i].how = "running"

Moved(i, how) == [import EXCEPT ![i].how = how]

\* The format is accepted and the Issue is looked for.
Import(i) ==
    /\ boot = "serving" /\ import[i] = Unused /\ At(i, "idle")
    /\ import' = [import EXCEPT ![i] = [at |-> 1, how |-> "running"]]
    /\ CallAs(i, Opening(Script[1]))
    /\ UNCHANGED <<boot, body>>

\* What a step asks of the reply to its operation.
Satisfied(i) ==
    CASE Step(i).does = "look" -> Got(i) = "notFound"
      [] Step(i).does = "ensure" -> Got(i) = IF op[i].kind = "get" THEN Step(i).value ELSE "ok"
      [] OTHER -> Got(i) = "ok"

Missing(i) == Step(i).does = "ensure" /\ op[i].kind = "get" /\ Got(i) = "notFound"

Continue(i) ==
    /\ Importing(i) /\ Satisfied(i) /\ import[i].at < Len(Script)
    /\ import' = [import EXCEPT ![i].at = @ + 1]
    /\ CallAs(i, Opening(Script[import[i].at + 1]))
    /\ UNCHANGED <<boot, body>>

Imported(i) ==
    /\ Importing(i) /\ Satisfied(i) /\ import[i].at = Len(Script)
    /\ import' = Moved(i, "done")
    /\ CallAs(i, Idle)
    /\ UNCHANGED <<boot, body>>

\* Any other reply ends the import where it is: nothing is taken back.
Refused(i) ==
    /\ Importing(i) /\ ~Satisfied(i) /\ ~Missing(i)
    /\ import' = Moved(i, "failed")
    /\ CallAs(i, Idle)
    /\ UNCHANGED <<boot, body>>

\* restore: the body is written over whatever is there, without a temporary file ...
RestoreBody(i) ==
    /\ Importing(i) /\ Missing(i) /\ Step(i).doc = "artifact"
    /\ body' = Torn
    /\ import' = Moved(i, "restoring")
    /\ UNCHANGED <<storeVars, boot>>

Insert(i) == CallAs(i, Asking("insert", Step(i).doc, None, Step(i).value))

\* ... and the record goes in behind it.
BodyRestored(i) ==
    /\ Answered(i) /\ import[i].how = "restoring"
    /\ body' = Same
    /\ import' = Moved(i, "running")
    /\ Insert(i)
    /\ UNCHANGED boot

RestoreFails(i) ==
    /\ Answered(i) /\ import[i].how = "restoring"
    /\ import' = Moved(i, "failed")
    /\ CallAs(i, Idle)
    /\ UNCHANGED <<boot, body>>

\* A Snapshot has no body.
InsertMissing(i) ==
    /\ Importing(i) /\ Missing(i) /\ Step(i).doc # "artifact"
    /\ Insert(i)
    /\ UNCHANGED archiveVars

\* The request is gone; what it has inserted stays.
ImportDropped(i) ==
    /\ up = "up" /\ import[i].how = "running"
    /\ Dropped({i})
    /\ import' = Moved(i, "failed")
    /\ UNCHANGED <<boot, body>>

-----------------------------------------------------------------------------
(* Startup recovery ends what an earlier process left unfinished, archives excepted. *)

\* Fault: recovery does not ask whose Issue a Job belongs to.
UnfinishedOfAll(d) == d \in {Own, "job", "run"} /\ index[d] = Exported

LiveUnfinished(d) ==
    \/ d = Own /\ index[d] = Exported
    \/ d \in {"job", "run"} /\ index[d] = Exported /\ index["issue"] # Archived

Recover(d) ==
    /\ boot = "recovering" /\ At(Recovery, "idle") /\ LiveUnfinished(d)
    /\ CallAs(Recovery, Asking("updateIf", d, index[d], Ended))
    /\ UNCHANGED archiveVars

Recovered ==
    /\ Answered(Recovery) /\ Got(Recovery) = "ok"
    /\ CallAs(Recovery, Idle)
    /\ UNCHANGED archiveVars

Serve ==
    /\ boot = "recovering" /\ At(Recovery, "idle")
    /\ \A d \in Docs : ~LiveUnfinished(d)
    /\ boot' = "serving"
    /\ UNCHANGED <<storeVars, body, import>>

\* With the process every import ends; recovery starts over at the next start.
ArchiveCrash ==
    /\ boot' = "recovering"
    /\ import' = [i \in Importers |->
                     IF import[i].how \in {"running", "restoring"}
                     THEN [import[i] EXCEPT !.how = "failed"] ELSE import[i]]
    /\ body' = body

ArchiveInit ==
    /\ disk \in {[d \in Docs |-> CASE d = "artifact" -> f[1] [] d = "snapshot" -> f[2]
                                   [] d = Own -> Exported [] OTHER -> None] : f \in Found}
    /\ body = IF disk["artifact"] = None THEN None ELSE disk["artifact"]
    /\ boot = "serving"
    /\ import = [i \in Importers |-> Unused]

-----------------------------------------------------------------------------
\* However imports of one session overlap, fail half-way and are cut off by a restart: the
\* Issue is there only behind its evidence, its Jobs and runs only behind the Issue, and so
\* recovery, which ends unfinished work, never touches what the archive holds.
ArchiveInert ==
    /\ disk["job"] \in {None, Exported} /\ disk["run"] \in {None, Exported}
    /\ disk["run"] # None => disk["job"] # None
    /\ disk["job"] # None => disk["issue"] = Archived
    /\ disk["issue"] # None => disk["artifact"] = Same /\ disk["snapshot"] = Same /\ body # None
=============================================================================
