------------------------ MODULE ExecutionLanesProofs ------------------------
(***************************************************************************)
(* Proofs about ExecutionLanes, for any requests and any resources: types,  *)
(* the order in which lanes are waited for, the order of service, what a    *)
(* record says, and that the lanes implement ResourceExclusion.             *)
(***************************************************************************)
EXTENDS ExecutionLanes, TLAPS

(***************************************************************************)
(* What the two operations do to the lanes.                                *)
(***************************************************************************)
LaneTypes ==
    /\ queued \in [Resources -> SUBSET Requests]
    /\ ahead \in [Resources -> [Requests -> SUBSET Requests]]

\* Joining a lane puts one request at the end of one queue (platform.rs:115-125).
LEMMA JoinQueues ==
    ASSUME LaneTypes, LaneOK,
           NEW r \in Requests, NEW t \in Resources, r \notin queued[t], Join(r, t)
    PROVE  /\ LaneTypes' /\ LaneOK'
           /\ \A q \in Requests, u \in Resources :
                /\ q \in queued'[u] <=> (q \in queued[u] \/ (q = r /\ u = t))
                /\ q \in queued[u] => ahead'[u][q] = ahead[u][q]
           /\ ahead'[t][r] = queued[t]
<1>1. /\ queued' = [queued EXCEPT ![t] = @ \cup {r}]
      /\ ahead' = [ahead EXCEPT ![t][r] = queued[t]]
  BY DEF Join, Before
<1>2. LaneTypes'
  BY <1>1 DEF LaneTypes
<1>3. \A q \in Requests, u \in Resources :
        /\ q \in queued'[u] <=> (q \in queued[u] \/ (q = r /\ u = t))
        /\ ~ (q = r /\ u = t) => ahead'[u][q] = ahead[u][q]
  BY <1>1 DEF LaneTypes
<1>4. ahead'[t][r] = queued[t]
  BY <1>1 DEF LaneTypes
<1>5. LaneOK'
  <2> SUFFICES ASSUME NEW u \in Resources
               PROVE  /\ \A q \in Requests : ahead'[u][q] \subseteq queued'[u] \ {q}
                      /\ \A q \in Requests : q \notin queued'[u] => ahead'[u][q] = {}
                      /\ \A q, p \in queued'[u] : q # p => (q \in ahead'[u][p] <=> p \notin ahead'[u][q])
    BY DEF LaneOK
  <2>1. CASE u # t
    <3>1. queued'[u] = queued[u] /\ \A q \in Requests : ahead'[u][q] = ahead[u][q]
      BY <1>1, <2>1 DEF LaneTypes
    <3> QED  BY <3>1 DEF LaneOK, LaneTypes
  <2>2. CASE u = t
    <3>1. queued'[u] = queued[u] \cup {r}
      BY <1>1, <2>2 DEF LaneTypes
    <3>2. \A q \in Requests : q # r => ahead'[u][q] = ahead[u][q]
      BY <1>3
    <3>3. ahead'[u][r] = queued[u]
      BY <1>4, <2>2
    <3>4. \A q \in Requests : r \notin ahead[u][q]
      BY <2>2 DEF LaneOK
    <3>5. \A q \in Requests : ahead'[u][q] \subseteq queued'[u] \ {q}
      BY <2>2, <3>1, <3>2, <3>3, <3>4 DEF LaneOK
    <3>6. \A q \in Requests : q \notin queued'[u] => ahead'[u][q] = {}
      BY <3>1, <3>2 DEF LaneOK
    <3>7. \A q, p \in queued'[u] : q # p => (q \in ahead'[u][p] <=> p \notin ahead'[u][q])
      <4> SUFFICES ASSUME NEW q \in queued'[u], NEW p \in queued'[u], q # p
                   PROVE  q \in ahead'[u][p] <=> p \notin ahead'[u][q]
        OBVIOUS
      <4>1. q \in Requests /\ p \in Requests
        BY <1>2 DEF LaneTypes
      <4>2. CASE q = r
        BY <4>1, <4>2, <3>1, <3>2, <3>3, <3>4
      <4>3. CASE p = r
        BY <4>1, <4>3, <3>1, <3>2, <3>3, <3>4
      <4>4. CASE q # r /\ p # r
        BY <4>1, <4>4, <3>1, <3>2 DEF LaneOK
      <4> QED  BY <4>2, <4>3, <4>4
    <3> QED  BY <3>5, <3>6, <3>7
  <2> QED  BY <2>1, <2>2
<1>6. \A q \in Requests, u \in Resources : q \in queued[u] => ahead'[u][q] = ahead[u][q]
  BY <1>3
<1> QED  BY <1>2, <1>3, <1>4, <1>5, <1>6

\* Leaving takes one request out of every queue (platform.rs:118, 538-548).
LEMMA LeaveQueues ==
    ASSUME LaneTypes, LaneOK, NEW r \in Requests, LeaveLanes(r)
    PROVE  /\ LaneTypes' /\ LaneOK'
           /\ \A q \in Requests, u \in Resources :
                /\ q \in queued'[u] <=> (q \in queued[u] /\ q # r)
                /\ q # r => ahead'[u][q] = ahead[u][q] \ {r}
<1>1. \A u \in Resources : queued'[u] = queued[u] \ {r}
  BY DEF LeaveLanes
<1>2. \A u \in Resources : ahead'[u][r] = {}
  BY DEF LeaveLanes
<1>3. \A u \in Resources, q \in Requests : q # r => ahead'[u][q] = ahead[u][q] \ {r}
  BY DEF LeaveLanes
<1>4. LaneTypes'
  BY DEF LeaveLanes, LaneTypes
<1>5. LaneOK'
  <2> SUFFICES ASSUME NEW u \in Resources
               PROVE  /\ \A q \in Requests : ahead'[u][q] \subseteq queued'[u] \ {q}
                      /\ \A q \in Requests : q \notin queued'[u] => ahead'[u][q] = {}
                      /\ \A q, p \in queued'[u] : q # p => (q \in ahead'[u][p] <=> p \notin ahead'[u][q])
    BY DEF LaneOK
  <2>1. ASSUME NEW q \in Requests
        PROVE  ahead'[u][q] \subseteq queued'[u] \ {q}
    <3>1. CASE q = r
      BY <1>2, <3>1
    <3>2. CASE q # r
      <4>1. ahead[u][q] \subseteq queued[u] \ {q}
        BY DEF LaneOK
      <4>2. queued'[u] = queued[u] \ {r} /\ ahead'[u][q] = ahead[u][q] \ {r}
        BY <1>1, <1>3, <3>2
      <4> QED  BY <4>1, <4>2
    <3> QED  BY <3>1, <3>2
  <2>2. ASSUME NEW q \in Requests, q \notin queued'[u]
        PROVE  ahead'[u][q] = {}
    <3>1. CASE q = r
      BY <1>2, <3>1
    <3>2. CASE q # r
      <4>1. q \notin queued[u]
        BY <1>1, <2>2, <3>2
      <4>2. ahead[u][q] = {}
        BY <4>1 DEF LaneOK
      <4> QED  BY <4>2, <1>3, <3>2
    <3> QED  BY <3>1, <3>2
  <2>3. ASSUME NEW q \in queued'[u], NEW p \in queued'[u], q # p
        PROVE  q \in ahead'[u][p] <=> p \notin ahead'[u][q]
    <3>1. q \in queued[u] /\ p \in queued[u] /\ q # r /\ p # r
      BY <1>1
    <3>2. q \in Requests /\ p \in Requests
      BY <1>4 DEF LaneTypes
    <3>3. q \in ahead[u][p] <=> p \notin ahead[u][q]
      BY <2>3, <3>1 DEF LaneOK
    <3>4. ahead'[u][p] = ahead[u][p] \ {r} /\ ahead'[u][q] = ahead[u][q] \ {r}
      BY <1>3, <3>1, <3>2
    <3> QED  BY <3>1, <3>3, <3>4
  <2> QED  BY <2>1, <2>2, <2>3
<1>6. \A q \in Requests, u \in Resources : q \in queued'[u] <=> (q \in queued[u] /\ q # r)
  BY <1>1
<1> QED  BY <1>3, <1>4, <1>5, <1>6

(***************************************************************************)
(* Types.                                                                  *)
(***************************************************************************)
PlainTypes ==
    /\ stage \in [Requests -> Stages]
    /\ ran \in [Requests -> Nat]
    /\ shell \subseteq Requests \X Resources
    /\ signalled \in [Requests -> BOOLEAN]
    /\ outcome \in [Requests -> Outcomes]
    /\ earlier \in [Requests -> SUBSET Requests]
    /\ dropped \in 0..MaxDrops

\* What one request has done of its commands.
CommandsOK(r) ==
    /\ ran[r] <= Commands(r)
    /\ stage[r] \in {"starting", "running"} => ran[r] < Commands(r)
    /\ shell \cap ShellsOf(r) =
            IF stage[r] = "running" THEN {<<r, Target(r)>>} ELSE {}

OnLanes(r) ==
    \A t \in Resources :
        r \in queued[t] => stage[r] \notin {"idle", "ended"} /\ t \in Wanted(r)

LEMMA TypeParts ==
    TypeOK <=> /\ PlainTypes /\ LaneTypes /\ LaneOK
               /\ \A r \in Requests : CommandsOK(r) /\ OnLanes(r)
BY DEF TypeOK, PlainTypes, LaneTypes, CommandsOK, OnLanes

\* The targets of a request are resources, and wanted (platform.rs:512-527).
LEMMA Targets ==
    ASSUME NEW r \in Requests
    PROVE  /\ Commands(r) \in Nat
           /\ Wanted(r) \subseteq Resources
           /\ \A i \in 1..Commands(r) : TargetIds[r][i] \in Wanted(r)
BY LaneConstants DEF Commands, Wanted

\* What a step of one request leaves alone of the others.
OthersKeep(r) ==
    \A q \in Requests \ {r} :
        /\ stage'[q] = stage[q] /\ ran'[q] = ran[q]
        /\ shell' \cap ShellsOf(q) = shell \cap ShellsOf(q)

LEMMA OthersCommands ==
    ASSUME NEW r \in Requests, OthersKeep(r), \A q \in Requests : CommandsOK(q),
           CommandsOK(r)'
    PROVE  \A q \in Requests : CommandsOK(q)'
BY DEF OthersKeep, CommandsOK, Target

\* A step of r that leaves the lanes alone and does not end it.
LEMMA SameLanes ==
    ASSUME NEW r \in Requests, UNCHANGED lanes, OthersKeep(r),
           LaneTypes, LaneOK, \A q \in Requests : OnLanes(q),
           stage'[r] \notin {"idle", "ended"} \/ \A t \in Resources : r \notin queued[t]
    PROVE  LaneTypes' /\ LaneOK' /\ \A q \in Requests : OnLanes(q)'
BY DEF lanes, OthersKeep, LaneTypes, LaneOK, OnLanes

LEMMA JoinedLanes ==
    ASSUME NEW r \in Requests, NEW t \in Resources, OthersKeep(r),
           LaneTypes, LaneOK, \A q \in Requests : OnLanes(q),
           t \in Missing(r), Join(r, t), stage'[r] \notin {"idle", "ended"}
    PROVE  LaneTypes' /\ LaneOK' /\ \A q \in Requests : OnLanes(q)'
<1>1. r \notin queued[t] /\ t \in Wanted(r)
  BY DEF Missing
<1>2. /\ LaneTypes' /\ LaneOK'
      /\ \A q \in Requests, u \in Resources :
            q \in queued'[u] <=> (q \in queued[u] \/ (q = r /\ u = t))
  BY <1>1, JoinQueues
<1>3. \A q \in Requests : OnLanes(q)'
  BY <1>1, <1>2 DEF OnLanes, OthersKeep
<1> QED  BY <1>2, <1>3

LEMMA LeftLanes ==
    ASSUME NEW r \in Requests, OthersKeep(r), LaneTypes, LaneOK,
           \A q \in Requests : OnLanes(q), LeaveLanes(r)
    PROVE  LaneTypes' /\ LaneOK' /\ \A q \in Requests : OnLanes(q)'
<1>1. /\ LaneTypes' /\ LaneOK'
      /\ \A q \in Requests, u \in Resources : q \in queued'[u] <=> (q \in queued[u] /\ q # r)
  BY LeaveQueues
<1>2. \A q \in Requests : OnLanes(q)'
  BY <1>1 DEF OnLanes, OthersKeep
<1> QED  BY <1>1, <1>2

\* Every action is a step of one request.
LEMMA OneRequest ==
    ASSUME PlainTypes, NEW r \in Requests,
           Decline(r) \/ Admit(r) \/ Work(r) \/ Cancel(r) \/ Drop(r)
    PROVE  OthersKeep(r)
<1> USE DEF PlainTypes, OthersKeep, ShellsOf, Goto
<1>Decline. CASE Decline(r)
  BY <1>Decline DEF Decline
<1>Admit. CASE Admit(r)
  BY <1>Admit DEF Admit
<1>Acquire. CASE Acquire(r)
  BY <1>Acquire DEF Acquire
<1>Acquired. CASE Acquired(r)
  BY <1>Acquired DEF Acquired
<1>GiveUp. CASE GiveUp(r)
  BY <1>GiveUp DEF GiveUp
<1>AllRun. CASE AllRun(r)
  BY <1>AllRun DEF AllRun
<1>Stop. CASE Stop(r)
  BY <1>Stop DEF Stop
<1>Check. CASE Check(r)
  BY <1>Check DEF Check
<1>Spawn. CASE Spawn(r)
  BY <1>Spawn DEF Spawn
<1>SpawnError. CASE SpawnError(r)
  BY <1>SpawnError DEF SpawnError, Advance
<1>Exit. CASE Exit(r)
  BY <1>Exit DEF Exit, Reap, Advance
<1>TimeOut. CASE TimeOut(r)
  BY <1>TimeOut DEF TimeOut, Reap, Advance
<1>Kill. CASE Kill(r)
  BY <1>Kill DEF Kill, Reap, Advance
<1>Finish. CASE Finish(r)
  BY <1>Finish DEF Finish
<1>Cancel. CASE Cancel(r)
  BY <1>Cancel DEF Cancel
<1>Drop. CASE Drop(r)
  BY <1>Drop DEF Drop, ReapDropped, Reap
<1> QED
  BY <1>Decline, <1>Admit, <1>Acquire, <1>Acquired, <1>GiveUp, <1>AllRun, 
     <1>Stop, <1>Check, <1>Spawn, <1>SpawnError, <1>Exit, <1>TimeOut, <1>Kill, <1>Finish, <1>Cancel, <1>Drop DEF Work

LEMMA PlainTypesKept ==
    ASSUME TypeOK, NEW r \in Requests,
           Decline(r) \/ Admit(r) \/ Work(r) \/ Cancel(r) \/ Drop(r)
    PROVE  PlainTypes'
<1> USE LaneConstants, TypeParts DEF PlainTypes, Goto, Stages, Outcomes
<1>0. Commands(r) \in Nat /\ (stage[r] \in {"starting", "running"} => ran[r] < Commands(r))
  BY Targets DEF CommandsOK
<1>1. stage[r] = "starting" => Target(r) \in Resources
  BY <1>0, Targets DEF Target
<1>Decline. CASE Decline(r)
  BY <1>Decline, <1>1 DEF Decline, Say
<1>Admit. CASE Admit(r)
  BY <1>Admit, <1>1 DEF Admit
<1>Acquire. CASE Acquire(r)
  BY <1>Acquire, <1>1 DEF Acquire
<1>Acquired. CASE Acquired(r)
  BY <1>Acquired, <1>1 DEF Acquired
<1>GiveUp. CASE GiveUp(r)
  BY <1>GiveUp, <1>1 DEF GiveUp, Say
<1>AllRun. CASE AllRun(r)
  BY <1>AllRun, <1>1 DEF AllRun
<1>Stop. CASE Stop(r)
  BY <1>Stop, <1>1 DEF Stop, Stopped, Say
<1>Check. CASE Check(r)
  BY <1>Check, <1>1 DEF Check
<1>Spawn. CASE Spawn(r)
  BY <1>Spawn, <1>1 DEF Spawn
<1>SpawnError. CASE SpawnError(r)
  BY <1>SpawnError, <1>1 DEF SpawnError, Advance, Say
<1>Exit. CASE Exit(r)
  BY <1>Exit, <1>1 DEF Exit, Reap, Advance, Say
<1>TimeOut. CASE TimeOut(r)
  BY <1>TimeOut, <1>1 DEF TimeOut, Reap, Advance, Say
<1>Kill. CASE Kill(r)
  BY <1>Kill, <1>1 DEF Kill, Reap, Advance, Say
<1>Finish. CASE Finish(r)
  BY <1>Finish, <1>1 DEF Finish
<1>Cancel. CASE Cancel(r)
  BY <1>Cancel, <1>1 DEF Cancel
<1>Drop. CASE Drop(r)
  BY <1>Drop, <1>1 DEF Drop, ReapDropped, Reap, Say
<1> QED
  BY <1>Decline, <1>Admit, <1>Acquire, <1>Acquired, <1>GiveUp, <1>AllRun,
     <1>Stop, <1>Check, <1>Spawn, <1>SpawnError, <1>Exit, <1>TimeOut, <1>Kill, <1>Finish, <1>Cancel, <1>Drop DEF Work

LEMMA CommandsKept ==
    ASSUME TypeOK, NEW r \in Requests,
           Decline(r) \/ Admit(r) \/ Work(r) \/ Cancel(r) \/ Drop(r)
    PROVE  CommandsOK(r)'
<1> USE TypeParts DEF PlainTypes, CommandsOK, Goto, Target, ShellsOf
<1>0. Commands(r) \in Nat
  BY Targets
<1>1. stage[r] = "starting" => Target(r) \in Resources
  BY <1>0, Targets DEF Target
<1>Decline. CASE Decline(r)
  BY <1>Decline, <1>0, <1>1 DEF Decline
<1>Admit. CASE Admit(r)
  BY <1>Admit, <1>0, <1>1 DEF Admit
<1>Acquire. CASE Acquire(r)
  BY <1>Acquire, <1>0, <1>1 DEF Acquire
<1>Acquired. CASE Acquired(r)
  BY <1>Acquired, <1>0, <1>1 DEF Acquired
<1>GiveUp. CASE GiveUp(r)
  BY <1>GiveUp, <1>0, <1>1 DEF GiveUp
<1>AllRun. CASE AllRun(r)
  BY <1>AllRun, <1>0, <1>1 DEF AllRun
<1>Stop. CASE Stop(r)
  BY <1>Stop, <1>0, <1>1 DEF Stop
<1>Check. CASE Check(r)
  BY <1>Check, <1>0, <1>1 DEF Check
<1>Spawn. CASE Spawn(r)
  BY <1>Spawn, <1>0, <1>1 DEF Spawn
<1>SpawnError. CASE SpawnError(r)
  BY <1>SpawnError, <1>0, <1>1 DEF SpawnError, Advance
<1>Exit. CASE Exit(r)
  BY <1>Exit, <1>0, <1>1 DEF Exit, Reap, Advance
<1>TimeOut. CASE TimeOut(r)
  BY <1>TimeOut, <1>0, <1>1 DEF TimeOut, Reap, Advance
<1>Kill. CASE Kill(r)
  BY <1>Kill, <1>0, <1>1 DEF Kill, Reap, Advance
<1>Finish. CASE Finish(r)
  BY <1>Finish, <1>0, <1>1 DEF Finish
<1>Cancel. CASE Cancel(r)
  BY <1>Cancel, <1>0, <1>1 DEF Cancel
<1>Drop. CASE Drop(r)
  BY <1>Drop, <1>0, <1>1 DEF Drop, ReapDropped, Reap
<1> QED
  BY <1>Decline, <1>Admit, <1>Acquire, <1>Acquired, <1>GiveUp, <1>AllRun,
     <1>Stop, <1>Check, <1>Spawn, <1>SpawnError, <1>Exit, <1>TimeOut, <1>Kill, <1>Finish, <1>Cancel, <1>Drop DEF Work

LEMMA LanesKept ==
    ASSUME TypeOK, NEW r \in Requests,
           Decline(r) \/ Admit(r) \/ Work(r) \/ Cancel(r) \/ Drop(r)
    PROVE  LaneTypes' /\ LaneOK' /\ \A q \in Requests : OnLanes(q)'
<1>0. OthersKeep(r) /\ PlainTypes /\ LaneTypes /\ LaneOK /\ \A q \in Requests : OnLanes(q)
  BY OneRequest, TypeParts
<1>1. stage[r] \in {"idle", "ended"} => \A t \in Resources : r \notin queued[t]
  BY <1>0 DEF OnLanes
<1> USE <1>0 DEF PlainTypes, Goto
<1>Decline. CASE Decline(r)
  BY <1>Decline, <1>1, SameLanes DEF Decline
<1>Admit. CASE Admit(r)
  <2>1. stage'[r] = "acquiring"
    BY <1>Admit DEF Admit
  <2>2. CASE UNCHANGED lanes
    BY <2>1, <2>2, SameLanes
  <2>3. CASE \E t \in Resources : IsNext(r, t) /\ Join(r, t)
    BY <2>1, <2>3, JoinedLanes DEF IsNext
  <2> QED  BY <1>Admit, <2>2, <2>3 DEF Admit
<1>Acquire. CASE Acquire(r)
  BY <1>Acquire, JoinedLanes DEF Acquire, IsNext
<1>Acquired. CASE Acquired(r)
  BY <1>Acquired, <1>1, SameLanes DEF Acquired
<1>GiveUp. CASE GiveUp(r)
  BY <1>GiveUp, LeftLanes DEF GiveUp
<1>AllRun. CASE AllRun(r)
  BY <1>AllRun, <1>1, SameLanes DEF AllRun
<1>Stop. CASE Stop(r)
  BY <1>Stop, <1>1, SameLanes DEF Stop
<1>Check. CASE Check(r)
  BY <1>Check, <1>1, SameLanes DEF Check
<1>Spawn. CASE Spawn(r)
  BY <1>Spawn, <1>1, SameLanes DEF Spawn
<1>SpawnError. CASE SpawnError(r)
  BY <1>SpawnError, <1>1, SameLanes DEF SpawnError
<1>Exit. CASE Exit(r)
  BY <1>Exit, <1>1, SameLanes DEF Exit
<1>TimeOut. CASE TimeOut(r)
  BY <1>TimeOut, <1>1, SameLanes DEF TimeOut
<1>Kill. CASE Kill(r)
  BY <1>Kill, <1>1, SameLanes DEF Kill
<1>Finish. CASE Finish(r)
  BY <1>Finish, LeftLanes DEF Finish
<1>Cancel. CASE Cancel(r)
  BY <1>Cancel, <1>1, SameLanes DEF Cancel
<1>Drop. CASE Drop(r)
  BY <1>Drop, LeftLanes DEF Drop
<1> QED
  BY <1>Decline, <1>Admit, <1>Acquire, <1>Acquired, <1>GiveUp, <1>AllRun,
     <1>Stop, <1>Check, <1>Spawn, <1>SpawnError, <1>Exit, <1>TimeOut, <1>Kill, <1>Finish, <1>Cancel, <1>Drop DEF Work

\* TypeOK holds in every reachable state: the lanes stay queues, whichever of
\* the waiters gives up, and a shell lives exactly while its request runs it
\* (platform.rs:115-128, 155-240).
THEOREM LaneTyping == Spec => []TypeOK
<1>1. Init => TypeOK
  BY LaneConstants, Targets DEF Init, TypeOK, LaneOK, Stages, Outcomes
<1>2. TypeOK /\ [Next]_vars => TypeOK'
  <2> SUFFICES ASSUME TypeOK, [Next]_vars
               PROVE  TypeOK'
    OBVIOUS
  <2>1. CASE UNCHANGED vars
    BY <2>1 DEF vars, TypeOK, LaneOK, Target
  <2>2. ASSUME NEW r \in Requests,
               Decline(r) \/ Admit(r) \/ Work(r) \/ Cancel(r) \/ Drop(r)
        PROVE  TypeOK'
    <3>1. OthersKeep(r) /\ \A q \in Requests : CommandsOK(q)
      BY <2>2, OneRequest, TypeParts
    <3>2. CommandsOK(r)'
      BY <2>2, CommandsKept
    <3>3. \A q \in Requests : CommandsOK(q)'
      BY <3>1, <3>2, OthersCommands
    <3>4. PlainTypes'
      BY <2>2, PlainTypesKept
    <3>5. LaneTypes' /\ LaneOK' /\ \A q \in Requests : OnLanes(q)'
      BY <2>2, LanesKept
    <3>6. TypeOK' <=> /\ PlainTypes' /\ LaneTypes' /\ LaneOK'
                      /\ \A q \in Requests : CommandsOK(q)' /\ OnLanes(q)'
      BY DEF TypeOK, PlainTypes, LaneTypes, CommandsOK, OnLanes
    <3> QED  BY <3>3, <3>4, <3>5, <3>6
  <2> QED  BY <2>1, <2>2 DEF Next, Rest
<1> QED  BY <1>1, <1>2, PTL DEF Spec

(***************************************************************************)
(* The order of waiting, and of service.                                   *)
(***************************************************************************)
\* Whoever queues for its first lane is on it, and behind those that were.
FirstLaneTaken ==
    \A r \in Requests, t \in Resources :
        stage[r] = "acquiring" /\ Lowest(r, t) => r \in queued[t]

Behind ==
    \A r \in Requests : \A q \in earlier[r] :
        /\ stage[q] # "idle" /\ stage[r] # "idle"
        /\ SameFirstLane(q, r)
        /\ \A t \in Resources :
            Lowest(r, t) /\ stage[q] = "acquiring" /\ r \in queued[t] => q \in ahead[t][r]

LaneInv == TypeOK /\ OrderedWaits /\ InsideHoldsAll /\ FirstLaneTaken /\ Behind

\* The three ways a step treats the lanes, and what it does besides.
JoinsNext(r) ==
    /\ HoldsWhatItAskedFor(r)
    /\ \E t \in Resources : IsNext(r, t) /\ Join(r, t)
    /\ stage[r] \in {"idle", "acquiring"} /\ stage'[r] = "acquiring"

Leaves(r) == LeaveLanes(r) /\ stage'[r] = "ended" /\ UNCHANGED earlier

Stays(r) == UNCHANGED lanes /\ stage'[r] # "idle" /\ (r \in Inside' => r \in Inside)

\* A cancelled or declined request may also still be idle.
LEMMA ThreeWays ==
    ASSUME TypeOK, NEW r \in Requests,
           Decline(r) \/ Admit(r) \/ Work(r) \/ Cancel(r) \/ Drop(r)
    PROVE  \/ Leaves(r)
           \/ JoinsNext(r) /\ (Admit(r) \/ Acquire(r))
           \/ UNCHANGED lanes /\ (Admit(r) \/ Acquired(r))
           \/ Stays(r) /\ UNCHANGED earlier /\ (stage'[r] = "acquiring" => stage[r] = "acquiring")
           \/ UNCHANGED <<stage, lanes, earlier>>
<1> USE TypeParts DEF PlainTypes, Goto, Stays, Leaves, JoinsNext, Inside
<1>Decline. CASE Decline(r)
  BY <1>Decline DEF Decline
<1>Admit. CASE Admit(r)
  <2>1. HoldsWhatItAskedFor(r)
    BY <1>Admit DEF Admit, OnLanes, HoldsWhatItAskedFor
  <2> QED  BY <1>Admit, <2>1 DEF Admit
<1>Acquire. CASE Acquire(r)
  BY <1>Acquire DEF Acquire
<1>Acquired. CASE Acquired(r)
  BY <1>Acquired DEF Acquired
<1>GiveUp. CASE GiveUp(r)
  BY <1>GiveUp DEF GiveUp
<1>AllRun. CASE AllRun(r)
  BY <1>AllRun DEF AllRun
<1>Stop. CASE Stop(r)
  BY <1>Stop DEF Stop
<1>Check. CASE Check(r)
  BY <1>Check DEF Check
<1>Spawn. CASE Spawn(r)
  BY <1>Spawn DEF Spawn
<1>SpawnError. CASE SpawnError(r)
  BY <1>SpawnError DEF SpawnError
<1>Exit. CASE Exit(r)
  BY <1>Exit DEF Exit
<1>TimeOut. CASE TimeOut(r)
  BY <1>TimeOut DEF TimeOut
<1>Kill. CASE Kill(r)
  BY <1>Kill DEF Kill
<1>Finish. CASE Finish(r)
  BY <1>Finish DEF Finish
<1>Cancel. CASE Cancel(r)
  BY <1>Cancel DEF Cancel
<1>Drop. CASE Drop(r)
  BY <1>Drop DEF Drop
<1> QED
  BY <1>Decline, <1>Admit, <1>Acquire, <1>Acquired, <1>GiveUp, <1>AllRun,
     <1>Stop, <1>Check, <1>Spawn, <1>SpawnError, <1>Exit, <1>TimeOut, <1>Kill, <1>Finish, <1>Cancel, <1>Drop DEF Work

\* A request that holds a lane keeps it, whatever the others do.
LEMMA HeldWhileJoining ==
    ASSUME LaneTypes, LaneOK, NEW r \in Requests, NEW t \in Missing(r), t \in Resources, Join(r, t),
           NEW q \in Requests, NEW u \in Resources, Holds(q, u)
    PROVE  Holds(q, u)'
BY JoinQueues DEF Holds, Missing

LEMMA HeldWhileLeaving ==
    ASSUME LaneTypes, LaneOK, NEW r \in Requests, LeaveLanes(r),
           NEW q \in Requests, q # r, NEW u \in Resources, Holds(q, u)
    PROVE  Holds(q, u)'
BY LeaveQueues DEF Holds

LEMMA LeavingKeepsLaneInv ==
    ASSUME LaneInv, NEW r \in Requests, OthersKeep(r), Leaves(r), earlier \in [Requests -> SUBSET Requests]
    PROVE  (OrderedWaits /\ InsideHoldsAll /\ FirstLaneTaken /\ Behind)'
<1>0. /\ LaneTypes /\ LaneOK
      /\ stage'[r] = "ended" /\ LeaveLanes(r) /\ earlier' = earlier
      /\ \A q \in Requests : q # r => stage'[q] = stage[q]
  BY TypeParts DEF LaneInv, Leaves, OthersKeep
<1>1. \A q \in Requests, u \in Resources :
        /\ q \in queued'[u] <=> (q \in queued[u] /\ q # r)
        /\ q # r => ahead'[u][q] = ahead[u][q] \ {r}
  BY <1>0, LeaveQueues
<1>2. \A q \in Requests, u \in Resources : q # r /\ Holds(q, u) => Holds(q, u)'
  BY <1>0, HeldWhileLeaving
<1>3. OrderedWaits'
  BY <1>1, <1>2, Targets DEF LaneInv, OrderedWaits
<1>4. InsideHoldsAll'
  BY <1>0, <1>2, Targets DEF LaneInv, InsideHoldsAll, Inside
<1>5. FirstLaneTaken'
  BY <1>0, <1>1 DEF LaneInv, FirstLaneTaken, Lowest
<1>6. Behind'
  <2> SUFFICES ASSUME NEW p \in Requests, NEW q \in earlier'[p]
               PROVE  /\ stage'[q] # "idle" /\ stage'[p] # "idle"
                      /\ SameFirstLane(q, p)
                      /\ \A t \in Resources :
                            Lowest(p, t) /\ stage'[q] = "acquiring" /\ p \in queued'[t] => q \in ahead'[t][p]
    BY DEF Behind, SameFirstLane, Lowest
  <2>1. q \in earlier[p] /\ q \in Requests
    BY <1>0
  <2>2. /\ stage[q] # "idle" /\ stage[p] # "idle"
        /\ SameFirstLane(q, p)
        /\ \A t \in Resources :
                Lowest(p, t) /\ stage[q] = "acquiring" /\ p \in queued[t] => q \in ahead[t][p]
    BY <2>1 DEF LaneInv, Behind
  <2>3. stage'[q] # "idle" /\ stage'[p] # "idle"
    BY <1>0, <2>1, <2>2
  <2>4. ASSUME NEW t \in Resources, Lowest(p, t), stage'[q] = "acquiring", p \in queued'[t]
        PROVE  q \in ahead'[t][p]
    <3>1. q # r /\ p # r /\ stage[q] = "acquiring" /\ p \in queued[t]
      BY <1>0, <1>1, <2>1, <2>4
    <3> QED  BY <1>1, <2>2, <2>4, <3>1
  <2> QED  BY <2>2, <2>3, <2>4
<1> QED  BY <1>3, <1>4, <1>5, <1>6

\* What joining the next lane does to everyone, before it is asked who was
\* earlier (Admit) or that nothing changed there (Acquire).
LEMMA JoiningKeepsOrder ==
    ASSUME LaneInv, NEW r \in Requests, OthersKeep(r), JoinsNext(r)
    PROVE  /\ (OrderedWaits /\ InsideHoldsAll /\ FirstLaneTaken)'
           /\ \A q \in Requests, u \in Resources :
                q \in queued[u] => q \in queued'[u] /\ ahead'[u][q] = ahead[u][q]
           /\ \A t \in Resources : r \in queued'[t] => r \in queued[t] \/ ahead'[t][r] = queued[t]
<1>0. /\ LaneTypes /\ LaneOK
      /\ HoldsWhatItAskedFor(r) /\ stage[r] \in {"idle", "acquiring"} /\ stage'[r] = "acquiring"
      /\ \A q \in Requests : q # r => stage'[q] = stage[q]
  BY TypeParts DEF LaneInv, JoinsNext, OthersKeep
<1>1. PICK t \in Resources : IsNext(r, t) /\ Join(r, t)
  BY DEF JoinsNext
<1>2. t \in Missing(r) /\ t \in Wanted(r) /\ r \notin queued[t] /\ \A u \in Missing(r) : t <= u
  BY <1>1 DEF IsNext, Missing
<1>3. /\ \A q \in Requests, u \in Resources :
            /\ q \in queued'[u] <=> (q \in queued[u] \/ (q = r /\ u = t))
            /\ q \in queued[u] => ahead'[u][q] = ahead[u][q]
      /\ ahead'[t][r] = queued[t]
  BY <1>0, <1>1, <1>2, JoinQueues
<1>4. \A q \in Requests, u \in Resources : Holds(q, u) => Holds(q, u)'
  BY <1>0, <1>1, <1>2, HeldWhileJoining
<1>5. OrderedWaits'
  <2> SUFFICES ASSUME NEW q \in Requests, NEW u \in Resources, q \in queued'[u],
                      NEW v \in Wanted(q), v < u
               PROVE  Holds(q, v)'
    BY DEF OrderedWaits
  <2>0. v \in Resources
    BY Targets
  <2>1. CASE q \in queued[u]
    BY <2>0, <2>1, <1>4 DEF LaneInv, OrderedWaits
  <2>2. CASE q = r /\ u = t
    <3>1. v \notin Missing(r)
      <4>1. v \in Nat /\ t \in Nat /\ v < t
        BY <2>0, <2>2, LaneConstants
      <4> QED  BY <4>1, <1>2
    <3>2. r \in queued[v]
      BY <2>2, <3>1 DEF Missing
    <3> QED  BY <2>0, <2>2, <3>2, <1>0, <1>4 DEF HoldsWhatItAskedFor
  <2> QED  BY <2>1, <2>2, <1>3
<1>6. InsideHoldsAll'
  BY <1>0, <1>4, Targets DEF LaneInv, InsideHoldsAll, Inside
<1>7. FirstLaneTaken'
  <2> SUFFICES ASSUME NEW q \in Requests, NEW u \in Resources, stage'[q] = "acquiring", Lowest(q, u)
               PROVE  q \in queued'[u]
    BY DEF FirstLaneTaken, Lowest
  <2>1. CASE stage[q] = "acquiring"
    BY <2>1, <1>3 DEF LaneInv, FirstLaneTaken
  <2>2. CASE q = r /\ u \in Missing(r)
    <3>1. t <= u /\ u <= t /\ t \in Nat /\ u \in Nat
      BY <2>2, <1>2, LaneConstants DEF Lowest
    <3> QED  BY <2>2, <3>1, <1>3
  <2>3. CASE q = r /\ u \notin Missing(r)
    BY <2>3, <1>3 DEF Missing, Lowest
  <2> QED  BY <2>1, <2>2, <2>3, <1>0
<1>8. \A u \in Resources : r \in queued'[u] => r \in queued[u] \/ ahead'[u][r] = queued[u]
  BY <1>3
<1> QED  BY <1>3, <1>5, <1>6, <1>7, <1>8

\* Who was earlier stays behind nobody new: a step that leaves the lanes and
\* the history alone, and admits nobody.
LEMMA StayingKeepsLaneInv ==
    ASSUME LaneInv, NEW r \in Requests, OthersKeep(r), UNCHANGED <<lanes, earlier>>,
           stage'[r] # "idle", stage'[r] = "acquiring" => stage[r] = "acquiring",
           r \in Inside' => r \in Inside \/ \A t \in Wanted(r) : Holds(r, t)
    PROVE  (OrderedWaits /\ InsideHoldsAll /\ FirstLaneTaken /\ Behind)'
<1>0. /\ queued' = queued /\ ahead' = ahead /\ earlier' = earlier
      /\ \A q \in Requests : q # r => stage'[q] = stage[q]
  BY DEF lanes, OthersKeep
<1>1. OrderedWaits' /\ FirstLaneTaken'
  BY <1>0 DEF LaneInv, OrderedWaits, Holds, FirstLaneTaken, Lowest
<1>2. InsideHoldsAll'
  BY <1>0 DEF LaneInv, InsideHoldsAll, Inside, Holds
<1>3. Behind'
  <2>1. earlier \in [Requests -> SUBSET Requests]
    BY DEF LaneInv, TypeOK
  <2> QED  BY <1>0, <2>1 DEF LaneInv, Behind, Lowest, SameFirstLane
<1> QED  BY <1>1, <1>2, <1>3

LEMMA AdmittingKeepsBehind ==
    ASSUME LaneInv, NEW r \in Requests, OthersKeep(r), JoinsNext(r), Admit(r)
    PROVE  Behind'
<1>0. /\ earlier \in [Requests -> SUBSET Requests]
      /\ stage[r] = "idle" /\ stage'[r] = "acquiring"
      /\ \A q \in Requests : q # r => stage'[q] = stage[q]
      /\ \A q \in Requests : q # r => earlier'[q] = earlier[q]
      /\ earlier'[r] = {q \in Requests : stage[q] = "acquiring" /\ SameFirstLane(q, r)}
  BY DEF LaneInv, TypeOK, JoinsNext, OthersKeep, Admit
<1>1. /\ \A q \in Requests, u \in Resources :
            q \in queued[u] => q \in queued'[u] /\ ahead'[u][q] = ahead[u][q]
      /\ \A t \in Resources : r \in queued'[t] => r \in queued[t] \/ ahead'[t][r] = queued[t]
      /\ \A q \in Requests, u \in Resources : q # r => (q \in queued'[u] <=> q \in queued[u])
  <2>1. LaneTypes /\ LaneOK
    BY TypeParts DEF LaneInv
  <2>2. PICK t \in Resources : IsNext(r, t) /\ Join(r, t)
    BY DEF JoinsNext
  <2>3. r \notin queued[t]
    BY <2>2 DEF IsNext, Missing
  <2> QED  BY <2>1, <2>2, <2>3, JoinQueues, JoiningKeepsOrder
<1>2. \A t \in Resources : r \notin queued[t]
  BY <1>0 DEF LaneInv, TypeOK
<1>3. Behind'
  <2> SUFFICES ASSUME NEW p \in Requests, NEW q \in earlier'[p]
               PROVE  /\ stage'[q] # "idle" /\ stage'[p] # "idle"
                      /\ SameFirstLane(q, p)
                      /\ \A t \in Resources :
                            Lowest(p, t) /\ stage'[q] = "acquiring" /\ p \in queued'[t] => q \in ahead'[t][p]
    BY DEF Behind, SameFirstLane, Lowest
  <2>1. CASE p = r
    <3>1. q # r /\ stage[q] = "acquiring" /\ SameFirstLane(q, p) /\ q \in Requests
      BY <1>0, <2>1
    <3>2. ASSUME NEW t \in Resources, Lowest(p, t), p \in queued'[t]
          PROVE  q \in ahead'[t][p]
      <4>1. ahead'[t][p] = queued[t]
        BY <1>1, <1>2, <2>1, <3>2
      <4>2. Lowest(q, t)
        <5>1. PICK u \in Resources : Lowest(q, u) /\ Lowest(p, u)
          BY <3>1 DEF SameFirstLane
        <5>2. u <= t /\ t <= u /\ u \in Nat /\ t \in Nat
          BY <3>2, <5>1, LaneConstants DEF Lowest
        <5> QED  BY <5>1, <5>2
      <4>3. q \in queued[t]
        BY <3>1, <4>2 DEF LaneInv, FirstLaneTaken
      <4> QED  BY <4>1, <4>3
    <3> QED  BY <1>0, <2>1, <3>1, <3>2
  <2>2. CASE p # r
    <3>1. q \in earlier[p] /\ q \in Requests
      BY <1>0, <2>2
    <3>2. /\ stage[q] # "idle" /\ stage[p] # "idle"
          /\ SameFirstLane(q, p)
          /\ \A t \in Resources :
                Lowest(p, t) /\ stage[q] = "acquiring" /\ p \in queued[t] => q \in ahead[t][p]
      BY <3>1 DEF LaneInv, Behind
    <3>3. q # r /\ stage'[q] = stage[q] /\ stage'[p] = stage[p]
      BY <1>0, <2>2, <3>1, <3>2
    <3> QED  BY <1>1, <2>2, <3>2, <3>3
  <2> QED  BY <2>1, <2>2
<1> QED  BY <1>3

LEMMA AcquiringKeepsBehind ==
    ASSUME LaneInv, NEW r \in Requests, OthersKeep(r), JoinsNext(r), Acquire(r)
    PROVE  Behind'
<1>0. /\ earlier \in [Requests -> SUBSET Requests]
      /\ earlier' = earlier /\ stage' = stage /\ stage[r] = "acquiring"
  BY DEF LaneInv, TypeOK, Acquire
<1>1. /\ \A q \in Requests, u \in Resources :
            q \in queued[u] => q \in queued'[u] /\ ahead'[u][q] = ahead[u][q]
      /\ \A q \in Requests, u \in Resources : q # r => (q \in queued'[u] <=> q \in queued[u])
  <2>1. LaneTypes /\ LaneOK
    BY TypeParts DEF LaneInv
  <2>2. PICK t \in Resources : IsNext(r, t) /\ Join(r, t)
    BY DEF JoinsNext
  <2>3. r \notin queued[t]
    BY <2>2 DEF IsNext, Missing
  <2> QED  BY <2>1, <2>2, <2>3, JoinQueues
<1>2. \A t \in Resources : Lowest(r, t) => r \in queued[t]
  BY <1>0 DEF LaneInv, FirstLaneTaken
<1>3. Behind'
  <2> SUFFICES ASSUME NEW p \in Requests, NEW q \in earlier'[p]
               PROVE  /\ stage'[q] # "idle" /\ stage'[p] # "idle"
                      /\ SameFirstLane(q, p)
                      /\ \A t \in Resources :
                            Lowest(p, t) /\ stage'[q] = "acquiring" /\ p \in queued'[t] => q \in ahead'[t][p]
    BY DEF Behind, SameFirstLane, Lowest
  <2>1. q \in earlier[p] /\ q \in Requests
    BY <1>0
  <2>2. /\ stage[q] # "idle" /\ stage[p] # "idle"
        /\ SameFirstLane(q, p)
        /\ \A t \in Resources :
              Lowest(p, t) /\ stage[q] = "acquiring" /\ p \in queued[t] => q \in ahead[t][p]
    BY <2>1 DEF LaneInv, Behind
  <2>3. ASSUME NEW t \in Resources, Lowest(p, t), stage'[q] = "acquiring", p \in queued'[t]
        PROVE  q \in ahead'[t][p]
    <3>1. p \in queued[t]
      BY <1>1, <1>2, <2>3
    <3> QED  BY <1>0, <1>1, <2>2, <2>3, <3>1
  <2> QED  BY <1>0, <2>2, <2>3
<1> QED  BY <1>3

LEMMA LaneInvKept ==
    ASSUME LaneInv, TypeOK', NEW r \in Requests,
           Decline(r) \/ Admit(r) \/ Work(r) \/ Cancel(r) \/ Drop(r)
    PROVE  LaneInv'
<1>0. OthersKeep(r) /\ PlainTypes
  BY OneRequest, TypeParts DEF LaneInv
<1>1. CASE Leaves(r)
  BY <1>0, <1>1, LeavingKeepsLaneInv DEF LaneInv, PlainTypes
<1>2. CASE JoinsNext(r) /\ (Admit(r) \/ Acquire(r))
  BY <1>0, <1>2, JoiningKeepsOrder, AdmittingKeepsBehind, AcquiringKeepsBehind DEF LaneInv
<1>3. CASE UNCHANGED lanes /\ Acquired(r)
  <2>1. \A t \in Wanted(r) : Holds(r, t)
    BY <1>3, Targets DEF Acquired, HoldsWhatItAskedFor, Missing
  <2>2. UNCHANGED <<lanes, earlier>> /\ stage'[r] = "looping"
    BY <1>0, <1>3 DEF Acquired, Goto, PlainTypes
  <2> QED  BY <1>0, <2>1, <2>2, StayingKeepsLaneInv DEF LaneInv
<1>4. CASE UNCHANGED lanes /\ Admit(r)
  <2>1. /\ stage[r] = "idle" /\ stage'[r] = "acquiring"
        /\ queued' = queued /\ ahead' = ahead
        /\ \A q \in Requests : q # r => stage'[q] = stage[q] /\ earlier'[q] = earlier[q]
        /\ earlier'[r] = {q \in Requests : stage[q] = "acquiring" /\ SameFirstLane(q, r)}
    BY <1>0, <1>4 DEF Admit, Goto, PlainTypes, lanes
  <2>2. \A t \in Resources : r \notin queued[t]
    BY <2>1 DEF LaneInv, TypeOK
  <2>3. Wanted(r) = {}
    <3>1. CASE Missing(r) = {}
      BY <2>2, <3>1, Targets DEF Missing
    <3>2. CASE \E t \in Resources : IsNext(r, t) /\ Join(r, t)
      <4>1. PICK t \in Resources : IsNext(r, t) /\ Join(r, t)
        BY <3>2
      <4>2. r \in queued'[t]
        BY <4>1 DEF Join, LaneInv, TypeOK
      <4> QED  BY <2>1, <2>2, <4>2
    <3> QED  BY <1>4, <3>1, <3>2 DEF Admit
  <2>4. \A q \in Requests : ~ SameFirstLane(q, r)
    BY <2>3 DEF SameFirstLane, Lowest
  <2>5. OrderedWaits' /\ InsideHoldsAll'
    BY <2>1 DEF LaneInv, OrderedWaits, InsideHoldsAll, Inside, Holds
  <2>6. FirstLaneTaken'
    BY <2>1, <2>3 DEF LaneInv, FirstLaneTaken, Lowest
  <2>7. Behind'
    <3> SUFFICES ASSUME NEW p \in Requests, NEW q \in earlier'[p]
                 PROVE  /\ stage'[q] # "idle" /\ stage'[p] # "idle"
                        /\ SameFirstLane(q, p)
                        /\ \A t \in Resources :
                              Lowest(p, t) /\ stage'[q] = "acquiring" /\ p \in queued'[t] => q \in ahead'[t][p]
      BY DEF Behind, SameFirstLane, Lowest
    <3>1. q \in earlier[p] /\ q \in Requests /\ p # r
      BY <1>0, <2>1, <2>4 DEF PlainTypes
    <3>2. /\ stage[q] # "idle" /\ stage[p] # "idle"
          /\ SameFirstLane(q, p)
          /\ \A t \in Resources :
                Lowest(p, t) /\ stage[q] = "acquiring" /\ p \in queued[t] => q \in ahead[t][p]
      BY <3>1 DEF LaneInv, Behind
    <3> QED  BY <2>1, <3>1, <3>2
  <2> QED  BY <2>5, <2>6, <2>7 DEF LaneInv
<1>5. CASE Stays(r) /\ UNCHANGED earlier /\ (stage'[r] = "acquiring" => stage[r] = "acquiring")
  BY <1>0, <1>5, StayingKeepsLaneInv DEF LaneInv, Stays
<1>6. CASE UNCHANGED <<stage, lanes, earlier>>
  BY <1>6 DEF LaneInv, lanes, OrderedWaits, InsideHoldsAll, Inside, FirstLaneTaken, Behind, Holds,
              SameFirstLane, Lowest
<1> QED  BY <1>1, <1>2, <1>3, <1>4, <1>5, <1>6, ThreeWays DEF LaneInv

LEMMA LaneInvAlways == Spec => []LaneInv
<1>1. Init => LaneInv
  <2> SUFFICES ASSUME Init
               PROVE  OrderedWaits /\ InsideHoldsAll /\ FirstLaneTaken /\ Behind /\ TypeOK
    BY DEF LaneInv
  <2>1. TypeOK
    BY LaneConstants, Targets DEF Init, TypeOK, LaneOK, Stages, Outcomes
  <2> QED  BY <2>1 DEF Init, OrderedWaits, InsideHoldsAll, Inside, FirstLaneTaken, Behind
<1>2. LaneInv /\ TypeOK' /\ [Next]_vars => LaneInv'
  <2> SUFFICES ASSUME LaneInv, TypeOK', [Next]_vars
               PROVE  LaneInv'
    OBVIOUS
  <2>1. CASE UNCHANGED vars
    BY <2>1 DEF vars, LaneInv, OrderedWaits, InsideHoldsAll, Inside, FirstLaneTaken, Behind, Holds,
                SameFirstLane, Lowest
  <2>2. ASSUME NEW r \in Requests,
               Decline(r) \/ Admit(r) \/ Work(r) \/ Cancel(r) \/ Drop(r)
        PROVE  LaneInv'
    BY <2>2, LaneInvKept
  <2> QED  BY <2>1, <2>2 DEF Next, Rest
<1> QED  BY <1>1, <1>2, LaneTyping, PTL DEF Spec

\* OrderedWaits for any number of requests and lanes: whoever waits for a lane
\* holds all its lower ones, so no circle can form (platform.rs:97-98).
THEOREM WaitsAreOrdered == Spec => []OrderedWaits
BY LaneInvAlways, PTL DEF LaneInv

\* FirstComeFirstServed for any number of requests: on a common first lane the
\* order of admission is the order of service (platform.rs:94-96).
THEOREM ServedInOrder == Spec => []FirstComeFirstServed
<1>1. LaneInv => FirstComeFirstServed
  <2> SUFFICES ASSUME LaneInv, NEW r \in Inside, NEW q \in earlier[r], stage[q] = "acquiring"
               PROVE  FALSE
    BY DEF FirstComeFirstServed
  <2>1. r \in Requests
    BY DEF Inside
  <2>2. PICK t \in Resources : Lowest(q, t) /\ Lowest(r, t)
    BY <2>1 DEF LaneInv, Behind, SameFirstLane
  <2>3. r \in queued[t] /\ ahead[t][r] = {}
    BY <2>2 DEF LaneInv, InsideHoldsAll, Holds, Lowest
  <2>4. q \in ahead[t][r]
    BY <2>1, <2>2, <2>3 DEF LaneInv, Behind
  <2> QED  BY <2>3, <2>4
<1> QED  BY <1>1, LaneInvAlways, PTL

(***************************************************************************)
(* What a record says of the commands.                                     *)
(***************************************************************************)
\* Already when the commands are over, before the record is stored.
Accounted(r) ==
    stage[r] \in {"finishing", "ended"} /\ outcome[r] \in {"good", "failed"} => ran[r] = Commands(r)

\* The request that moves is accounted for, and the records of the others stay.
LEMMA StepAccounts ==
    ASSUME TypeOK, NEW r \in Requests, Accounted(r),
           Decline(r) \/ Admit(r) \/ Work(r) \/ Cancel(r) \/ Drop(r)
    PROVE  Accounted(r)' /\ \A q \in Requests \ {r} : outcome'[q] = outcome[q]
<1> USE DEF Accounted, Commands, Goto, Say
<1>1. stage \in [Requests -> Stages] /\ ran \in [Requests -> Nat] /\ outcome \in [Requests -> Outcomes]
  BY DEF TypeOK
<1>2. CASE Decline(r) \/ Drop(r) \/ Cancel(r)
  BY <1>1, <1>2 DEF Decline, Drop, Cancel
<1>3. CASE Admit(r) \/ Acquire(r) \/ Acquired(r)
  BY <1>1, <1>3 DEF Admit, Acquire, Acquired
<1>4. CASE GiveUp(r) \/ Stop(r) \/ Kill(r)
  BY <1>1, <1>4 DEF GiveUp, Stop, Stopped, Kill
<1>5. CASE AllRun(r) \/ Finish(r)
  BY <1>1, <1>5 DEF AllRun, Finish
<1>6. CASE Check(r) \/ Spawn(r)
  BY <1>1, <1>6 DEF Check, Spawn
<1>7. CASE SpawnError(r) \/ Exit(r) \/ TimeOut(r)
  BY <1>1, <1>7 DEF SpawnError, Exit, TimeOut
<1> QED  BY <1>2, <1>3, <1>4, <1>5, <1>6, <1>7 DEF Work

\* EveryTargetAccounted for any number of requests and targets: a record of
\* success or failure stands for every command of its request, through
\* failures, time limits, signals and drops (platform.rs:562-601).
THEOREM TargetsAccounted == Spec => []EveryTargetAccounted
<1> DEFINE AllAccounted == \A r \in Requests : Accounted(r)
<1>1. Init => AllAccounted
  BY DEF Init, Accounted
<1>2. TypeOK /\ AllAccounted /\ [Next]_vars => AllAccounted'
  <2> SUFFICES ASSUME TypeOK, AllAccounted, [Next]_vars
               PROVE  AllAccounted'
    OBVIOUS
  <2>1. CASE UNCHANGED vars
    BY <2>1 DEF vars, Accounted
  <2>2. ASSUME NEW r \in Requests,
               Decline(r) \/ Admit(r) \/ Work(r) \/ Cancel(r) \/ Drop(r)
        PROVE  AllAccounted'
    <3>1. Accounted(r)' /\ \A q \in Requests \ {r} : outcome'[q] = outcome[q]
      BY <2>2, StepAccounts
    <3>2. OthersKeep(r)
      BY <2>2, OneRequest, TypeParts
    <3>3. ASSUME NEW q \in Requests, q # r PROVE Accounted(q)'
      BY <3>1, <3>2, <3>3 DEF Accounted, OthersKeep
    <3> QED  BY <3>1, <3>3
  <2> QED  BY <2>1, <2>2 DEF Next, Rest
<1>3. AllAccounted => EveryTargetAccounted
  BY DEF Accounted, EveryTargetAccounted
<1> HIDE DEF AllAccounted
<1> QED  BY <1>1, <1>2, <1>3, LaneTyping, PTL DEF Spec

(***************************************************************************)
(* The lanes implement ResourceExclusion.                                  *)
(***************************************************************************)
\* Two requests inside have no target in common.
LEMMA InsideApart ==
    ASSUME LaneInv, NEW r \in Requests, NEW q \in Requests, r # q,
           \A t \in Wanted(r) : Holds(r, t), \A t \in Wanted(q) : Holds(q, t)
    PROVE  Wanted(r) \cap Wanted(q) = {}
<1> SUFFICES ASSUME NEW t \in Wanted(r), t \in Wanted(q)
             PROVE  FALSE
  OBVIOUS
<1>1. t \in Resources /\ Holds(r, t) /\ Holds(q, t)
  BY Targets
<1>2. r \in ahead[t][q] <=> q \notin ahead[t][r]
  BY <1>1 DEF LaneInv, TypeOK, LaneOK, Holds
<1> QED  BY <1>1, <1>2 DEF Holds

\* A step nobody outside the lanes can see.
Unseen == Inside' = Inside /\ shell' = shell

LEMMA StepsMap ==
    ASSUME LaneInv, NEW r \in Requests,
           Decline(r) \/ Admit(r) \/ Work(r) \/ Cancel(r) \/ Drop(r)
    PROVE  Exclusion!Next \/ Unseen
<1>0. /\ stage \in [Requests -> Stages] /\ shell \subseteq Requests \X Resources
      /\ OthersKeep(r)
      /\ shell \cap ShellsOf(r) = IF stage[r] = "running" THEN {<<r, Target(r)>>} ELSE {}
      /\ stage[r] \in {"starting", "running"} => Target(r) \in Wanted(r) /\ Target(r) \in Resources
  <2>1. PlainTypes /\ CommandsOK(r) /\ OthersKeep(r)
    BY OneRequest, TypeParts DEF LaneInv
  <2>2. stage[r] \in {"starting", "running"} => Target(r) \in Wanted(r)
    BY <2>1, Targets DEF CommandsOK, Target, PlainTypes
  <2> QED  BY <2>1, <2>2, Targets DEF PlainTypes, CommandsOK
<1>1. /\ Exclusion!TouchedBy(r) = ShellsOf(r)
      /\ (\E t \in Resources : Exclusion!Touch(r, t) \/ Exclusion!Release(r, t)) => Exclusion!Next
      /\ Exclusion!LetIn(r) => Exclusion!Next
      /\ Exclusion!Leave(r) => Exclusion!Next
  BY DEF Exclusion!Next, Exclusion!TouchedBy, ShellsOf
<1>Acquired. CASE Acquired(r)
  <2>1. r \notin Inside /\ Inside' = Inside \cup {r} /\ shell' = shell
    BY <1>0, <1>Acquired DEF Acquired, Inside, Goto
  <2>2. \A t \in Wanted(r) : Holds(r, t)
    BY <1>Acquired, Targets DEF Acquired, HoldsWhatItAskedFor, Missing
  <2>3. ASSUME NEW q \in Inside
        PROVE  Wanted(r) \cap Wanted(q) = {}
    <3>1. q \in Requests /\ q # r /\ \A t \in Wanted(q) : Holds(q, t)
      BY <2>1 DEF LaneInv, InsideHoldsAll, Inside
    <3> QED  BY <2>2, <3>1, InsideApart
  <2>4. Exclusion!LetIn(r)
    BY <2>1, <2>3 DEF Exclusion!LetIn, Exclusion!Conflict
  <2> QED  BY <1>1, <2>4
<1>Spawn. CASE Spawn(r)
  <2>1. /\ r \in Inside /\ Inside' = Inside
        /\ shell' = shell \cup {<<r, Target(r)>>} /\ shell \cap ShellsOf(r) = {}
        /\ Target(r) \in Wanted(r) /\ Target(r) \in Resources
    BY <1>0, <1>Spawn DEF Spawn, Inside, Goto
  <2>2. Exclusion!Touch(r, Target(r))
    BY <1>1, <2>1 DEF Exclusion!Touch
  <2> QED  BY <1>1, <2>1, <2>2
<1>Ended. CASE Exit(r) \/ TimeOut(r) \/ Kill(r)
  <2>1. /\ Inside' = Inside /\ shell' = shell \ ShellsOf(r)
        /\ stage[r] = "running"
    <3>1. CASE Exit(r)
      BY <1>0, <3>1 DEF Exit, Inside, Goto, Reap
    <3>2. CASE TimeOut(r)
      BY <1>0, <3>2 DEF TimeOut, Inside, Goto, Reap
    <3>3. CASE Kill(r)
      BY <1>0, <3>3 DEF Kill, Inside, Goto, Reap
    <3> QED  BY <1>Ended, <3>1, <3>2, <3>3
  <2>2. shell \cap ShellsOf(r) = {<<r, Target(r)>>} /\ Target(r) \in Resources
    BY <1>0, <2>1
  <2>3. shell' = shell \ {<<r, Target(r)>>} /\ <<r, Target(r)>> \in shell
    BY <2>1, <2>2
  <2>4. Exclusion!Release(r, Target(r))
    BY <2>1, <2>3 DEF Exclusion!Release
  <2> QED  BY <1>1, <2>2, <2>4
<1>Left. CASE r \in Inside /\ (Finish(r) \/ Drop(r))
  <2>1. stage'[r] = "ended" /\ shell' = shell \ ShellsOf(r)
    <3>1. CASE Finish(r)
      <4>1. shell' = shell /\ shell \cap ShellsOf(r) = {} /\ stage'[r] = "ended"
        BY <1>0, <3>1 DEF Finish, Goto
      <4> QED  BY <4>1
    <3>2. CASE Drop(r)
      BY <1>0, <3>2 DEF Drop, Goto, ReapDropped, Reap
    <3> QED  BY <1>Left, <3>1, <3>2
  <2>2. Inside' = Inside \ {r}
    BY <1>0, <2>1 DEF Inside, OthersKeep
  <2>3. Exclusion!Leave(r)
    BY <1>1, <1>Left, <2>1, <2>2 DEF Exclusion!Leave
  <2> QED  BY <1>1, <2>3
<1>Abandoned. CASE r \notin Inside /\ Drop(r)
  <2>1. shell \cap ShellsOf(r) = {} /\ shell' = shell \ ShellsOf(r) /\ stage'[r] = "ended"
    BY <1>0, <1>Abandoned DEF Drop, Goto, ReapDropped, Reap, Inside
  <2>2. Inside' = Inside
    BY <1>0, <1>Abandoned, <2>1 DEF Inside, OthersKeep
  <2> QED  BY <2>1, <2>2 DEF Unseen
<1>Decline. CASE Decline(r)
  BY <1>0, <1>Decline DEF Decline, Goto, Inside, Unseen
<1>Admit. CASE Admit(r)
  BY <1>0, <1>Admit DEF Admit, Goto, Inside, Unseen
<1>Acquire. CASE Acquire(r)
  BY <1>0, <1>Acquire DEF Acquire, Goto, Inside, Unseen
<1>GiveUp. CASE GiveUp(r)
  BY <1>0, <1>GiveUp DEF GiveUp, Goto, Inside, Unseen
<1>AllRun. CASE AllRun(r)
  BY <1>0, <1>AllRun DEF AllRun, Goto, Inside, Unseen
<1>Stop. CASE Stop(r)
  BY <1>0, <1>Stop DEF Stop, Goto, Inside, Unseen
<1>Check. CASE Check(r)
  BY <1>0, <1>Check DEF Check, Goto, Inside, Unseen
<1>SpawnError. CASE SpawnError(r)
  BY <1>0, <1>SpawnError DEF SpawnError, Goto, Inside, Unseen
<1>Cancel. CASE Cancel(r)
  BY <1>0, <1>Cancel DEF Cancel, Goto, Inside, Unseen
<1>Finish. Finish(r) => r \in Inside
  BY DEF Finish, Inside
<1> QED
  BY <1>Acquired, <1>Spawn, <1>Ended, <1>Left, <1>Abandoned, <1>Decline, <1>Admit, <1>Acquire,
     <1>GiveUp, <1>AllRun, <1>Stop, <1>Check, <1>SpawnError, <1>Cancel, <1>Finish DEF Work

\* The Platform serializes commands per resource: every behaviour of the lanes
\* is one of ResourceExclusion (architecture.md:497-503, platform.rs:92-98).
THEOREM LanesSerialize == Spec => Serialized
<1>1. Init => Exclusion!Init
  BY DEF Init, Exclusion!Init, Inside
<1>2. LaneInv /\ [Next]_vars => [Exclusion!Next]_(Exclusion!vars)
  <2> SUFFICES ASSUME LaneInv, [Next]_vars
               PROVE  Exclusion!Next \/ Unseen
    BY DEF Unseen, Exclusion!vars
  <2>1. CASE UNCHANGED vars
    BY <2>1 DEF vars, Unseen, Inside
  <2>2. ASSUME NEW r \in Requests,
               Decline(r) \/ Admit(r) \/ Work(r) \/ Cancel(r) \/ Drop(r)
        PROVE  Exclusion!Next \/ Unseen
    BY <2>2, StepsMap
  <2> QED  BY <2>1, <2>2 DEF Next, Rest
<1> QED  BY <1>1, <1>2, LaneInvAlways, PTL DEF Spec, Exclusion!Spec, Serialized
=============================================================================
