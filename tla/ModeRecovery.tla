----------------------------- MODULE ModeRecovery -----------------------------
(***************************************************************************)
(* The Scheduler's mode, the event log it is read back from after a        *)
(* restart, and the work a restart interrupts: freezing and resuming while *)
(* Jobs and actions start and end, crashes at any step, startup recovery,  *)
(* and the decision of `serve` to resume by itself.                        *)
(*                                                                         *)
(* Setting a mode is two steps, the process's memory and then the event,   *)
(* as in set_mode, with no lock over both: requests overlap, and one may   *)
(* end between its steps.  The log is kept as what persisted_mode reads.   *)
(***************************************************************************)
EXTENDS Naturals

CONSTANTS
    Jobs,        \* work that a Team does
    Actions,     \* work that the Platform executes
    Callers,     \* requests that may change the mode at once
    StayFrozen,  \* the values --stay-frozen may have at a start
    MaxCrashes   \* bound: times the process ends

ASSUME ModeConstants ==
    /\ StayFrozen \subseteq BOOLEAN
    /\ MaxCrashes \in Nat

VARIABLES
    mode,      \* the mode in memory
    log,       \* what the event log says, persisted
    work,      \* [Jobs \cup Actions -> WorkStatus], persisted
    carrier,   \* who carries each piece of work in this process
    caller,    \* the mode each request has set and not recorded yet
    boot,      \* where the process is between a crash and serving
    crashes,
    decided,   \* history: the mode last recorded outside recovery
    unlooked,  \* history: what was interrupted since a human last resumed
    astray     \* history: the last change crossed another one, or lost its event

vars == <<mode, log, work, carrier, caller, boot, crashes, decided, unlooked, astray>>

Work == Jobs \cup Actions
Decisions == {"Running", "DispatchFrozen", "FullyFrozen"}
Modes == Decisions \cup {"Recovering"}
WorkStatus == {"Queued", "Running", "Verifying", "Interrupted", "Done"}

NewLog == [mode |-> "Running", inside |-> FALSE, pending |-> FALSE]

-----------------------------------------------------------------------------
(* What an event adds to what the log says: one turn of persisted_mode's loop. *)

\* Fault: the freezes recovery itself writes count as decisions.
ReadModeAnywhere(l, m) ==
    [l EXCEPT !.mode = m, !.pending = @ /\ m # "Running"]

\* A mode event counts only outside recovery; resuming is a human's look at the inbox.
ReadMode(l, m) ==
    IF l.inside THEN l
    ELSE [l EXCEPT !.mode = m, !.pending = @ /\ m # "Running"]

ReadRecoveryStarted(l) == [l EXCEPT !.inside = TRUE]

ReadRecovered(l, interrupted) ==
    [l EXCEPT !.inside = FALSE, !.pending = @ \/ interrupted]

-----------------------------------------------------------------------------
(* Requests that change the mode. *)

Up == boot.phase = "up"

\* set_mode, first the memory.  The queue lock admits one resume at a time.
SetMode(c, m) ==
    /\ Up /\ caller[c] = "none"
    /\ m = "Running" => \A d \in Callers : caller[d] # "Running"
    /\ mode' = m
    /\ caller' = [caller EXCEPT ![c] = m]
    /\ unlooked' = IF m = "Running" THEN {} ELSE unlooked
    /\ astray' = \E d \in Callers : caller[d] \notin {"none", m}
    /\ UNCHANGED <<log, work, carrier, boot, crashes, decided>>

\* ... then the event.
RecordMode(c) ==
    /\ Up /\ caller[c] # "none"
    /\ log' = ReadMode(log, caller[c])
    /\ decided' = caller[c]
    /\ caller' = [caller EXCEPT ![c] = "none"]
    /\ UNCHANGED <<mode, work, carrier, boot, crashes, unlooked, astray>>

\* The request is dropped, or the store refuses the event: the memory keeps the mode.
LoseMode(c) ==
    /\ Up /\ caller[c] # "none"
    /\ caller' = [caller EXCEPT ![c] = "none"]
    /\ astray' = TRUE
    /\ UNCHANGED <<mode, log, work, carrier, boot, crashes, decided, unlooked>>

-----------------------------------------------------------------------------
(* Work that starts and ends. *)

\* create_job checks the mode ...
CheckDispatch(j) ==
    /\ Up /\ mode = "Running"
    /\ work[j] = "Queued" /\ carrier[j] = "none"
    /\ carrier' = [carrier EXCEPT ![j] = "checked"]
    /\ UNCHANGED <<mode, log, work, caller, boot, crashes, decided, unlooked, astray>>

\* ... and inserts the Job, Running, with a Team to run it.
InsertJob(j) ==
    /\ Up /\ carrier[j] = "checked"
    /\ work' = [work EXCEPT ![j] = "Running"]
    /\ carrier' = [carrier EXCEPT ![j] = "runs"]
    /\ UNCHANGED <<mode, log, caller, boot, crashes, decided, unlooked, astray>>

\* execute_action admits a queued action while it holds the mode.
AdmitAction(a) ==
    /\ Up /\ mode \in {"Running", "DispatchFrozen"}
    /\ work[a] = "Queued"
    /\ work' = [work EXCEPT ![a] = "Running"]
    /\ carrier' = [carrier EXCEPT ![a] = "runs"]
    /\ UNCHANGED <<mode, log, caller, boot, crashes, decided, unlooked, astray>>

\* The Platform returned: the action awaits its verification.
Executed(a) ==
    /\ Up /\ carrier[a] = "runs" /\ work[a] = "Running"
    /\ work' = [work EXCEPT ![a] = "Verifying"]
    /\ UNCHANGED <<mode, log, carrier, caller, boot, crashes, decided, unlooked, astray>>

\* A Team's result, or a verification, is recorded.
Finish(w) ==
    /\ Up /\ carrier[w] = "runs"
    /\ work[w] = IF w \in Jobs THEN "Running" ELSE "Verifying"
    /\ work' = [work EXCEPT ![w] = "Done"]
    /\ carrier' = [carrier EXCEPT ![w] = "none"]
    /\ UNCHANGED <<mode, log, caller, boot, crashes, decided, unlooked, astray>>

-----------------------------------------------------------------------------
(* Crashes and startup recovery. *)

Serving == [phase |-> "up", previous |-> "Running", pending |-> FALSE,
            interrupted |-> FALSE, verified |-> FALSE]

\* The process ends between any two steps; a new one starts in Running.
Crash ==
    /\ crashes < MaxCrashes /\ crashes' = crashes + 1
    /\ mode' = "Running"
    /\ carrier' = [w \in Work |-> "none"]
    /\ caller' = [c \in Callers |-> "none"]
    /\ boot' = [Serving EXCEPT !.phase = "down"]
    /\ astray' = FALSE
    /\ UNCHANGED <<log, work, decided, unlooked>>

\* recover_with reads the log back before it touches it ...
BootRead ==
    /\ boot.phase = "down"
    /\ boot' = [Serving EXCEPT !.phase = "entering",
                               !.previous = log.mode, !.pending = log.pending]
    /\ mode' = "Recovering"
    /\ UNCHANGED <<log, work, carrier, caller, crashes, decided, unlooked, astray>>

\* ... and records that recovery started.
BootEnter ==
    /\ boot.phase = "entering"
    /\ log' = ReadRecoveryStarted(log)
    /\ boot' = [boot EXCEPT !.phase = "reconciling"]
    /\ UNCHANGED <<mode, work, carrier, caller, crashes, decided, unlooked, astray>>

\* A running Job has no Team, a running action's outcome is unknown: both fail.
BootInterrupt(w) ==
    /\ boot.phase = "reconciling" /\ work[w] = "Running"
    /\ work' = [work EXCEPT ![w] = "Interrupted"]
    /\ unlooked' = unlooked \cup {w}
    /\ boot' = [boot EXCEPT !.interrupted = TRUE]
    /\ UNCHANGED <<mode, log, carrier, caller, crashes, decided, astray>>

\* What awaited its verification is verified now.
BootVerify(a) ==
    /\ boot.phase = "reconciling" /\ work[a] = "Verifying"
    /\ work' = [work EXCEPT ![a] = "Done"]
    /\ boot' = [boot EXCEPT !.verified = TRUE]
    /\ UNCHANGED <<mode, log, carrier, caller, crashes, decided, unlooked, astray>>

\* Fault: what only awaits its verification is left alone.
RunningOnly == {"Running"}

\* Statuses recovery leaves nothing in.
InFlight == {"Running", "Verifying"}

\* Fault: the freeze before the restart is not restored.
AlwaysDispatchFrozen(previous) == "DispatchFrozen"

\* The mode recovery ends in.
FinalMode(previous) ==
    IF previous = "FullyFrozen" THEN "FullyFrozen" ELSE "DispatchFrozen"

\* When nothing is in flight any more the final mode is set and recorded ...
BootMode ==
    /\ boot.phase = "reconciling"
    /\ \A w \in Work : work[w] \notin InFlight
    /\ mode' = FinalMode(boot.previous)
    /\ log' = ReadMode(log, FinalMode(boot.previous))
    /\ boot' = [boot EXCEPT !.phase = "closing"]
    /\ UNCHANGED <<work, carrier, caller, crashes, decided, unlooked, astray>>

\* ... and the summary of what it did, last.
BootRecovered ==
    /\ boot.phase = "closing"
    /\ log' = ReadRecovered(log, boot.interrupted)
    /\ boot' = [boot EXCEPT !.phase = "deciding"]
    /\ UNCHANGED <<mode, work, carrier, caller, crashes, decided, unlooked, astray>>

\* Fault: an earlier recovery's findings are not asked about.
CleanThisTime == boot.previous = "Running" /\ ~boot.interrupted /\ ~boot.verified

\* is_clean_restart.
CleanRestart ==
    boot.previous = "Running" /\ ~boot.interrupted /\ ~boot.verified /\ ~boot.pending

\* serve resumes by itself after a clean restart, and stays frozen otherwise.
BootDecide ==
    /\ boot.phase = "deciding"
    /\ \E stay \in StayFrozen :
         IF CleanRestart /\ ~stay
         THEN mode' = "Running" /\ boot' = [boot EXCEPT !.phase = "resuming"]
         ELSE UNCHANGED mode /\ boot' = Serving
    /\ UNCHANGED <<log, work, carrier, caller, crashes, decided, unlooked, astray>>

BootResume ==
    /\ boot.phase = "resuming"
    /\ log' = ReadMode(log, "Running")
    /\ boot' = Serving
    /\ UNCHANGED <<mode, work, carrier, caller, crashes, decided, unlooked, astray>>

-----------------------------------------------------------------------------
Init ==
    /\ mode = "Running" /\ log = NewLog
    /\ work = [w \in Work |-> "Queued"]
    /\ carrier = [w \in Work |-> "none"]
    /\ caller = [c \in Callers |-> "none"]
    /\ boot = Serving /\ crashes = 0
    /\ decided = "Running" /\ unlooked = {} /\ astray = FALSE

Request ==
    \E c \in Callers :
        RecordMode(c) \/ LoseMode(c) \/ (\E m \in Decisions : SetMode(c, m))

Progress ==
    \/ \E j \in Jobs : CheckDispatch(j) \/ InsertJob(j)
    \/ \E a \in Actions : AdmitAction(a) \/ Executed(a)
    \/ \E w \in Work : Finish(w)

Boot ==
    \/ BootRead \/ BootEnter \/ BootMode \/ BootRecovered \/ BootDecide \/ BootResume
    \/ (\E w \in Work : BootInterrupt(w)) \/ (\E a \in Actions : BootVerify(a))

Next == Request \/ Progress \/ Boot \/ Crash

Spec == Init /\ [][Next]_vars

-----------------------------------------------------------------------------
Phases == {"up", "down", "entering", "reconciling", "closing", "deciding", "resuming"}

\* Every variable is of its type, and a serving process has left Recovering.
TypeOK ==
    /\ mode \in Modes /\ (Up => mode \in Decisions)
    /\ log \in [mode : Decisions, inside : BOOLEAN, pending : BOOLEAN]
    /\ work \in [Work -> WorkStatus]
    /\ carrier \in [Work -> {"none", "checked", "runs"}]
    /\ caller \in [Callers -> Decisions \cup {"none"}]
    /\ boot \in [phase : Phases, previous : Decisions, pending : BOOLEAN,
                 interrupted : BOOLEAN, verified : BOOLEAN]
    /\ crashes \in 0 .. MaxCrashes
    /\ decided \in Decisions /\ unlooked \subseteq Work /\ astray \in BOOLEAN

\* While the process serves, whatever the store calls running or verifying is carried by
\* this process: recovery left nothing behind that nobody will ever finish.
NoOrphans ==
    Up => \A w \in Work : work[w] \in {"Running", "Verifying"} => carrier[w] = "runs"

\* A mode event counts only when a request, or a clean start, wrote it: the freezes that
\* recoveries write, even recoveries that crashed half-way, never replace the decision.
OnlyRequestsDecide == log.mode = decided

\* Once no change of mode is under way the log tells a restart what it has to keep: it is
\* fully frozen exactly when the process is, and a running process left nothing of a recovery
\* unlooked at.  Only a change that crossed another one, or lost its event, is excepted, and
\* only until the mode is changed again or the process ends.
RestartKeepsMode ==
    Up /\ ~astray /\ (\A c \in Callers : caller[c] = "none") =>
        /\ ~log.inside
        /\ mode = "FullyFrozen" <=> log.mode = "FullyFrozen"
        /\ mode = "Running" => log.mode = "Running" /\ ~log.pending

\* What docs/architecture.md says of the event stream: it alone reconstructs the mode history.
LogTellsMode ==
    Up /\ (\A c \in Callers : caller[c] = "none") =>
        (mode = "FullyFrozen" <=> log.mode = "FullyFrozen")

\* A start resumes by itself only over a log whose last decision is to run and in which no
\* recovery, this one or an earlier one, left anything a human has yet to look at.
HeedsEarlierRecoveries == boot.phase = "resuming" => log.mode = "Running" /\ ~log.pending

\* What docs/architecture.md says of a start: it resumes by itself only when nothing had to
\* be reconciled and nobody has yet to look at what was.
ResumesOnlyWhenLooked == boot.phase = "resuming" => unlooked = {}
=============================================================================
