--------------------------- MODULE ExecutionLanes ---------------------------
(***************************************************************************)
(* The Platform's execution block (platform.rs): a request (an ActionRun or *)
(* an inspection) takes the lane of each of its resources in sorted order,  *)
(* runs one command per target, and gives the lanes back when it returns.   *)
(*                                                                         *)
(* A lane is a tokio mutex, which is a queue: queued[t] are the requests     *)
(* that have asked for the lane of t and not left it, ahead[t][r] those      *)
(* among them that asked before r.  The request with nobody ahead holds it.  *)
(***************************************************************************)
EXTENDS Naturals, Sequences, FiniteSets

CONSTANTS Requests,      \* the executions asked of the Platform
          Resources,     \* resource ids, by their place in the sort order
          TargetIds,     \* the targets of a request, in the order it gives them
          Scoped,        \* the requests that run inside an operation
          MaxDrops       \* bound: how many requests are dropped by their callers

ASSUME LaneConstants ==
    /\ Resources \subseteq Nat
    /\ TargetIds \in [Requests -> Seq(Resources)]
    /\ Scoped \subseteq Requests
    /\ MaxDrops \in Nat

VARIABLES stage,         \* where a request is in `run`
          queued, ahead, \* the lanes
          ran,           \* how many of its commands are accounted for
          shell,         \* the live processes: <<request, target>>
          signalled,     \* whether its operation was cancelled
          outcome,       \* what its record says, so far
          earlier,       \* history: who was queueing for its first lane before it
          dropped        \* how many requests were dropped

lanes == <<queued, ahead>>
vars == <<stage, queued, ahead, ran, shell, signalled, outcome, earlier, dropped>>

Stages == {"idle", "acquiring", "looping", "starting", "running", "finishing", "ended"}
Outcomes == {"good", "failed", "cancelled", "declined", "unrecorded"}

(***************************************************************************)
(* The lanes.                                                              *)
(***************************************************************************)
\* The targets sorted and without duplicates, as a set.
Wanted(r) == {TargetIds[r][i] : i \in DOMAIN TargetIds[r]}

Lowest(r, t) == t \in Wanted(r) /\ \A u \in Wanted(r) : t <= u
SameFirstLane(q, r) == \E t \in Resources : Lowest(q, t) /\ Lowest(r, t)

Holds(r, t) == r \in queued[t] /\ ahead[t][r] = {}
HoldsWhatItAskedFor(r) == \A t \in Resources : r \in queued[t] => Holds(r, t)

\* The lanes a request has still to ask for, and the one it asks for next.
Missing(r) == {t \in Wanted(r) : r \notin queued[t]}
\* Fault: the lanes are taken in the order the targets are given.
IsNextAsGiven(r, t) ==
    t \in Missing(r) /\ \E i \in DOMAIN TargetIds[r] :
        TargetIds[r][i] = t /\ \A j \in 1..i - 1 : TargetIds[r][j] \notin Missing(r)
IsNext(r, t) == t \in Missing(r) /\ \A u \in Missing(r) : t <= u

\* Fault: the lock is not a queue, only its holder is waited for.
BeforeBarging(r, t) == {q \in queued[t] : Holds(q, t)} \ {r}
\* Whom a request finds on a lane it joins.
Before(r, t) == queued[t] \ {r}

Join(r, t) ==
    /\ queued' = [queued EXCEPT ![t] = @ \cup {r}]
    /\ ahead' = [ahead EXCEPT ![t][r] = Before(r, t)]

\* The guards, and the place in a queue, are dropped.
LeaveLanes(r) ==
    /\ queued' = [t \in Resources |-> queued[t] \ {r}]
    /\ ahead' = [t \in Resources |->
                    [q \in Requests |-> IF q = r THEN {} ELSE ahead[t][q] \ {r}]]

Init ==
    /\ stage = [r \in Requests |-> "idle"]
    /\ queued = [t \in Resources |-> {}]
    /\ ahead = [t \in Resources |-> [r \in Requests |-> {}]]
    /\ ran = [r \in Requests |-> 0]
    /\ shell = {}
    /\ signalled = [r \in Requests |-> FALSE]
    /\ outcome = [r \in Requests |-> "good"]
    /\ earlier = [r \in Requests |-> {}]
    /\ dropped = 0

Goto(r, next) == stage' = [stage EXCEPT ![r] = next]
Say(r, word) == outcome' = [outcome EXCEPT ![r] = word]

(***************************************************************************)
(* Before the lanes.                                                       *)
(***************************************************************************)
\* A refusal, a runbook without a command, a target that does not render, or
\* a dry run: recorded, and nothing executed.
Decline(r) ==
    /\ stage[r] = "idle"
    /\ Goto(r, "ended")
    /\ Say(r, "declined")
    /\ UNCHANGED <<lanes, ran, shell, signalled, earlier, dropped>>

\* The request begins to acquire: its first lane is asked for in the same poll.
Admit(r) ==
    /\ stage[r] = "idle"
    /\ ~ signalled[r]
    /\ Goto(r, "acquiring")
    /\ earlier' = [earlier EXCEPT ![r] = 
                    {q \in Requests : stage[q] = "acquiring" /\ SameFirstLane(q, r)}]
    /\ IF Missing(r) = {} THEN UNCHANGED lanes
       ELSE \E t \in Resources : IsNext(r, t) /\ Join(r, t)
    /\ UNCHANGED <<ran, shell, signalled, outcome, dropped>>

\* The lock it waited for is granted and the next one asked for.
Acquire(r) ==
    /\ stage[r] = "acquiring"
    /\ HoldsWhatItAskedFor(r)
    /\ \E t \in Resources : IsNext(r, t) /\ Join(r, t)
    /\ UNCHANGED <<stage, ran, shell, signalled, outcome, earlier, dropped>>

Acquired(r) ==
    /\ stage[r] = "acquiring"
    /\ HoldsWhatItAskedFor(r)
    /\ Missing(r) = {}
    /\ Goto(r, "looping")
    /\ UNCHANGED <<lanes, ran, shell, signalled, outcome, earlier, dropped>>

\* Cancelled before or while it acquires: a record that no command started.
GiveUp(r) ==
    /\ stage[r] \in {"idle", "acquiring"}
    /\ signalled[r]
    /\ Goto(r, "ended")
    /\ Say(r, "cancelled")
    /\ LeaveLanes(r)
    /\ UNCHANGED <<ran, shell, signalled, earlier, dropped>>

(***************************************************************************)
(* The commands, one after the other, under all the lanes.                 *)
(***************************************************************************)
Commands(r) == Len(TargetIds[r])
Target(r) == TargetIds[r][ran[r] + 1]
ShellsOf(r) == {r} \X Resources

Advance(r) == ran' = [ran EXCEPT ![r] = @ + 1]

AllRun(r) ==
    /\ stage[r] = "looping"
    /\ ran[r] = Commands(r)
    /\ Goto(r, "finishing")
    /\ UNCHANGED <<lanes, ran, shell, signalled, outcome, earlier, dropped>>

\* Fault: a cancellation between two commands ends the loop and says nothing.
StoppedSilently(r) == UNCHANGED outcome
Stopped(r) == Say(r, "cancelled")

\* Cancelled between two commands: the rest stays unstarted.
Stop(r) ==
    /\ stage[r] = "looping"
    /\ ran[r] < Commands(r)
    /\ signalled[r]
    /\ Goto(r, "finishing")
    /\ Stopped(r)
    /\ UNCHANGED <<lanes, ran, shell, signalled, earlier, dropped>>

\* Not cancelled; a signal that comes after this finds the command starting.
Check(r) ==
    /\ stage[r] = "looping"
    /\ ran[r] < Commands(r)
    /\ ~ signalled[r]
    /\ Goto(r, "starting")
    /\ UNCHANGED <<lanes, ran, shell, signalled, outcome, earlier, dropped>>

Spawn(r) ==
    /\ stage[r] = "starting"
    /\ Goto(r, "running")
    /\ shell' = shell \cup {<<r, Target(r)>>}
    /\ UNCHANGED <<lanes, ran, signalled, outcome, earlier, dropped>>

\* The shell cannot be started; the next target is tried all the same.
SpawnError(r) ==
    /\ stage[r] = "starting"
    /\ Goto(r, "looping")
    /\ Advance(r)
    /\ Say(r, "failed")
    /\ UNCHANGED <<lanes, shell, signalled, earlier, dropped>>

\* The shell is gone: exited, or killed and waited for.
Reap(r) == shell' = shell \ ShellsOf(r)

\* An exit is looked at before the signal and the time limit; a failure does
\* not keep the following targets from their command.
Exit(r) ==
    /\ stage[r] = "running"
    /\ Goto(r, "looping")
    /\ Reap(r)
    /\ Advance(r)
    /\ Say(r, "failed") \/ UNCHANGED outcome
    /\ UNCHANGED <<lanes, signalled, earlier, dropped>>

TimeOut(r) ==
    /\ stage[r] = "running"
    /\ ~ signalled[r]
    /\ Goto(r, "looping")
    /\ Reap(r)
    /\ Advance(r)
    /\ Say(r, "failed")
    /\ UNCHANGED <<lanes, signalled, earlier, dropped>>

Kill(r) ==
    /\ stage[r] = "running"
    /\ signalled[r]
    /\ Goto(r, "finishing")
    /\ Reap(r)
    /\ Advance(r)
    /\ Say(r, "cancelled")
    /\ UNCHANGED <<lanes, signalled, earlier, dropped>>

\* The record is stored, and the lanes go with the return.
Finish(r) ==
    /\ stage[r] = "finishing"
    /\ Goto(r, "ended")
    /\ LeaveLanes(r)
    /\ UNCHANGED <<ran, shell, signalled, outcome, earlier, dropped>>

(***************************************************************************)
(* From outside.                                                           *)
(***************************************************************************)
\* Outside an operation there is nothing to cancel.
Cancel(r) ==
    /\ r \in Scoped
    /\ stage[r] # "ended"
    /\ ~ signalled[r]
    /\ signalled' = [signalled EXCEPT ![r] = TRUE]
    /\ UNCHANGED <<stage, lanes, ran, shell, outcome, earlier, dropped>>

\* Fault: a dropped child is left running.
ReapNothing(r) == UNCHANGED shell
\* What the drop of a child does to its shell (kill_on_drop).
ReapDropped(r) == Reap(r)

\* The future is dropped where it stands: the innermost await first, so the
\* shell is killed before the lanes are free.
Drop(r) ==
    /\ stage[r] \notin {"idle", "ended"}
    /\ dropped < MaxDrops
    /\ dropped' = dropped + 1
    /\ Goto(r, "ended")
    /\ Say(r, "unrecorded")
    /\ ReapDropped(r)
    /\ LeaveLanes(r)
    /\ UNCHANGED <<ran, signalled, earlier>>

\* Every request was served; the Platform waits for others.
Rest ==
    /\ \A r \in Requests : stage[r] = "ended"
    /\ UNCHANGED vars

Work(r) ==
    \/ Acquire(r)
    \/ Acquired(r)
    \/ GiveUp(r)
    \/ AllRun(r)
    \/ Stop(r)
    \/ Check(r)
    \/ Spawn(r)
    \/ SpawnError(r)
    \/ Exit(r)
    \/ TimeOut(r)
    \/ Kill(r)
    \/ Finish(r)

Next ==
    \/ \E r \in Requests : Decline(r) \/ Admit(r) \/ Work(r) \/ Cancel(r) \/ Drop(r)
    \/ Rest

Spec == Init /\ [][Next]_vars

\* A request that can go on does: the locks are queues, every command has a
\* time limit, and nothing is asked of callers.
FairSpec == Spec /\ \A r \in Requests : WF_vars(Work(r))

(***************************************************************************)
(* Properties.                                                             *)
(***************************************************************************)
\* The lanes are queues: of two requests on a lane exactly one was there
\* first, and whoever is ahead is still there (tokio's mutex, platform.rs:100).
LaneOK ==
    \A t \in Resources :
        /\ \A r \in Requests : ahead[t][r] \subseteq queued[t] \ {r}
        /\ \A r \in Requests : r \notin queued[t] => ahead[t][r] = {}
        /\ \A r, q \in queued[t] : r # q => (r \in ahead[t][q] <=> q \notin ahead[t][r])

\* Types; a shell lives exactly while its request runs it; a request is on
\* lanes only from its admission to its end (platform.rs:120-127, 155-240).
TypeOK ==
    /\ stage \in [Requests -> Stages]
    /\ queued \in [Resources -> SUBSET Requests]
    /\ ahead \in [Resources -> [Requests -> SUBSET Requests]]
    /\ ran \in [Requests -> Nat]
    /\ shell \subseteq Requests \X Resources
    /\ signalled \in [Requests -> BOOLEAN]
    /\ outcome \in [Requests -> Outcomes]
    /\ earlier \in [Requests -> SUBSET Requests]
    /\ dropped \in 0..MaxDrops
    /\ LaneOK
    /\ \A r \in Requests : ran[r] <= Commands(r)
    /\ \A r \in Requests :
        stage[r] \in {"starting", "running"} => ran[r] < Commands(r)
    /\ \A r \in Requests : shell \cap ShellsOf(r) =
        IF stage[r] = "running" THEN {<<r, Target(r)>>} ELSE {}
    /\ \A r \in Requests, t \in Resources :
        r \in queued[t] => stage[r] \notin {"idle", "ended"} /\ t \in Wanted(r)

\* The requests in the execution block, whose commands may run.
Inside == {r \in Requests : stage[r] \in {"looping", "starting", "running", "finishing"}}

\* A request asks for a lane only when it holds the lanes of all its lower
\* targets: no circle of requests can wait for each other (platform.rs:97-98).
OrderedWaits ==
    \A r \in Requests, t \in Resources : r \in queued[t] =>
        \A u \in Wanted(r) : u < t => Holds(r, u)

\* Whoever is inside holds every lane of its targets, until it returns,
\* whatever happens to its commands, its signal or the others (platform.rs:538-541).
InsideHoldsAll == \A r \in Inside : \A t \in Wanted(r) : Holds(r, t)

\* Two requests whose lowest target is the same are served in the order in
\* which they were admitted (platform.rs:94-96; other requests may not be).
FirstComeFirstServed ==
    \A r \in Inside : \A q \in earlier[r] : stage[q] # "acquiring"

\* A record that says the commands succeeded or failed accounts for all of
\* them: neither a failure, a time limit nor a signal skips a target unsaid
\* (platform.rs:562-601).
EveryTargetAccounted ==
    \A r \in Requests :
        stage[r] = "ended" /\ outcome[r] \in {"good", "failed"} => ran[r] = Commands(r)

\* The promise of the lanes, without locks, queues and processes.
Exclusion == INSTANCE ResourceExclusion WITH inside <- Inside, touching <- shell
Serialized == Exclusion!Spec

\* Every request that was let in to the Platform's queues ends, with its
\* lanes free, whatever the overlap of targets (architecture.md:499-500).
EveryRequestEnds ==
    \A r \in Requests : stage[r] # "idle" ~> stage[r] = "ended"
=============================================================================
