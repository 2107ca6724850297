-------------------------- MODULE ModeRecoveryProofs --------------------------
(***************************************************************************)
(* What ModeRecovery's runs check on two Jobs and two actions, proved for  *)
(* any work, any number of crashes and any number of requests at once.     *)
(***************************************************************************)
EXTENDS ModeRecovery, TLAPS

-----------------------------------------------------------------------------
(* Where the process is says what it has done of its recovery: types first. *)

ReadBack == {"closing", "deciding", "resuming"}

\* Once recovery has set its final mode the process is in a mode a human may choose.
ModeSet == boot.phase \in ReadBack => mode \in Decisions

TypeInv == TypeOK /\ ModeSet

\* The events' effect on what the log says is of the log's type.
LogType == [mode : Decisions, inside : BOOLEAN, pending : BOOLEAN]

LEMMA ReadType ==
    ASSUME NEW l \in LogType, NEW m \in Decisions, NEW touched \in BOOLEAN
    PROVE  /\ ReadMode(l, m) \in LogType
           /\ ReadRecoveryStarted(l) \in LogType
           /\ ReadRecovered(l, touched) \in LogType
  BY DEF LogType, ReadMode, ReadRecoveryStarted, ReadRecovered

LEMMA FinalModeType ==
    ASSUME NEW m \in Decisions
    PROVE  FinalMode(m) \in Decisions
  BY DEF FinalMode, Decisions

LEMMA InitTypes == ModeConstants /\ Init => TypeInv
  <1> SUFFICES ASSUME ModeConstants, Init PROVE TypeInv
    OBVIOUS
  <1>1. /\ log \in [mode : Decisions, inside : BOOLEAN, pending : BOOLEAN]
        /\ boot \in [phase : Phases, previous : Decisions, pending : BOOLEAN,
                     interrupted : BOOLEAN, verified : BOOLEAN]
        /\ boot.phase = "up"
    BY DEF Init, NewLog, Serving, Decisions, Phases
  <1>2. /\ work \in [Work -> WorkStatus]
        /\ carrier \in [Work -> {"none", "checked", "runs"}]
        /\ caller \in [Callers -> Decisions \cup {"none"}]
    BY DEF Init, WorkStatus
  <1>3. /\ mode \in Modes /\ mode \in Decisions
        /\ crashes \in 0 .. MaxCrashes
        /\ decided \in Decisions /\ unlooked \subseteq Work /\ astray \in BOOLEAN
    <2>1. crashes = 0 /\ MaxCrashes \in Nat
      BY DEF Init, ModeConstants
    <2>2. crashes \in 0 .. MaxCrashes
      BY <2>1
    <2> QED
      BY <2>2, Zenon DEF Init, Modes, Decisions
  <1> QED
    BY <1>1, <1>2, <1>3, Zenon DEF TypeInv, TypeOK, ModeSet

LEMMA StepTypes ==
    ASSUME ModeConstants, TypeInv, [Next]_vars
    PROVE  TypeInv'
  <1> USE ModeConstants DEF TypeInv, TypeOK, ModeSet, Modes, Phases, ReadBack, Up
  <1>1. ASSUME NEW c \in Callers, RecordMode(c) PROVE TypeInv'
    <2>1. caller[c] \in Decisions /\ log \in LogType
      BY <1>1 DEF RecordMode, LogType
    <2>2. log' \in LogType
      BY <2>1, <1>1, ReadType DEF RecordMode
    <2> QED
      BY <2>1, <2>2, <1>1 DEF RecordMode, LogType
  <1>2. ASSUME NEW c \in Callers, NEW m \in Decisions, SetMode(c, m) PROVE TypeInv'
    BY <1>2 DEF SetMode
  <1>14. ASSUME NEW c \in Callers, LoseMode(c) PROVE TypeInv'
    BY <1>14 DEF LoseMode
  <1>3. ASSUME Progress PROVE TypeInv'
    BY <1>3 DEF Progress, CheckDispatch, InsertJob, AdmitAction, Executed, Finish, Work,
                WorkStatus
  <1>4. CASE Crash
    <2>1. crashes' \in 0 .. MaxCrashes
      BY <1>4 DEF Crash, ModeConstants
    <2>2. boot' \in [phase : Phases, previous : Decisions, pending : BOOLEAN,
                     interrupted : BOOLEAN, verified : BOOLEAN] /\ boot'.phase = "down"
      BY <1>4 DEF Crash, Serving, Decisions
    <2>3. /\ carrier' \in [Work -> {"none", "checked", "runs"}]
          /\ caller' \in [Callers -> Decisions \cup {"none"}]
          /\ mode' = "Running"
      BY <1>4 DEF Crash
    <2> QED
      BY <1>4, <2>1, <2>2, <2>3 DEF Crash, Decisions
  <1>5. CASE BootRead
    BY <1>5 DEF BootRead, Serving, Decisions
  <1>6. CASE BootEnter
    <2>1. log' \in LogType
      BY <1>6, ReadType DEF BootEnter, LogType
    <2> QED
      BY <2>1, <1>6 DEF BootEnter, LogType
  <1>7. CASE BootMode
    <2>1. FinalMode(boot.previous) \in Decisions
      BY FinalModeType
    <2>2. log' \in LogType
      BY <2>1, <1>7, ReadType DEF BootMode, LogType
    <2> QED
      BY <2>1, <2>2, <1>7 DEF BootMode, LogType
  <1>8. CASE BootRecovered
    <2>1. log' \in LogType
      BY <1>8, ReadType DEF BootRecovered, LogType
    <2> QED
      BY <2>1, <1>8 DEF BootRecovered, LogType
  <1>9. CASE BootDecide
    <2>1. boot' = Serving \/ boot' = [boot EXCEPT !.phase = "resuming"]
      BY <1>9, Zenon DEF BootDecide
    <2>2. boot' \in [phase : Phases, previous : Decisions, pending : BOOLEAN,
                     interrupted : BOOLEAN, verified : BOOLEAN]
      <3>1. Serving \in [phase : Phases, previous : Decisions, pending : BOOLEAN,
                         interrupted : BOOLEAN, verified : BOOLEAN]
        BY DEF Serving, Decisions
      <3>2. [boot EXCEPT !.phase = "resuming"]
              \in [phase : Phases, previous : Decisions, pending : BOOLEAN,
                   interrupted : BOOLEAN, verified : BOOLEAN]
        OBVIOUS
      <3> QED
        BY <2>1, <3>1, <3>2
    <2>3. mode \in Decisions
      BY <1>9 DEF BootDecide
    <2>4. mode' = mode \/ mode' = "Running"
      BY <1>9 DEF BootDecide
    <2>5. mode' \in Decisions
      BY <2>3, <2>4 DEF Decisions
    <2> QED
      BY <1>9, <2>2, <2>5 DEF BootDecide
  <1>10. CASE BootResume
    <2>1. log' \in LogType
      BY <1>10, ReadType DEF BootResume, LogType, Decisions
    <2> QED
      BY <2>1, <1>10 DEF BootResume, LogType, Serving, Decisions
  <1>11. ASSUME NEW w \in Work, BootInterrupt(w) PROVE TypeInv'
    BY <1>11 DEF BootInterrupt, WorkStatus
  <1>12. ASSUME NEW a \in Actions, BootVerify(a) PROVE TypeInv'
    BY <1>12 DEF BootVerify, WorkStatus, Work
  <1>13. CASE UNCHANGED vars
    BY <1>13 DEF vars
  <1> QED
    BY <1>1, <1>2, <1>3, <1>4, <1>5, <1>6, <1>7, <1>8, <1>9, <1>10, <1>11, <1>12, <1>13,
       <1>14
    DEF Next, Request, Boot

\* Every reachable state of ModeRecovery is well-typed, and a serving process has left the
\* mode recovery runs in.
THEOREM ModeTyping == Spec => []TypeOK
  <1>1. Init => TypeInv
    BY InitTypes, ModeConstants
  <1>2. TypeInv /\ [Next]_vars => TypeInv'
    BY StepTypes, ModeConstants
  <1>3. TypeInv => TypeOK
    BY DEF TypeInv
  <1> QED
    BY <1>1, <1>2, <1>3, PTL DEF Spec

-----------------------------------------------------------------------------
(* Recovery leaves nothing behind. *)

Settled == boot.phase \in ReadBack => \A w \in Work : work[w] \notin InFlight

OrphanInv == TypeInv /\ NoOrphans /\ Settled

LEMMA StepOrphans ==
    ASSUME ModeConstants, OrphanInv, [Next]_vars
    PROVE  OrphanInv'
  <1>1. TypeInv'
    BY StepTypes DEF OrphanInv
  <1> USE DEF OrphanInv, NoOrphans, Settled, Up, ReadBack, InFlight
  <1>2. CASE Request \/ UNCHANGED vars
    BY <1>1, <1>2 DEF Request, RecordMode, LoseMode, SetMode, vars
  <1>3. CASE Progress
    <2>1. work \in [Work -> WorkStatus] /\ carrier \in [Work -> {"none", "checked", "runs"}]
      BY DEF TypeInv, TypeOK
    <2> QED
      BY <1>1, <1>3, <2>1 DEF Progress, CheckDispatch, InsertJob, AdmitAction, Executed,
                              Finish, Work
  <1>4. CASE Crash
    BY <1>1, <1>4 DEF Crash, Serving
  <1>5. CASE BootRead \/ BootEnter
    <2>1. boot'.phase \in {"entering", "reconciling"}
      BY <1>5 DEF BootRead, BootEnter, Serving, TypeInv, TypeOK
    <2> QED
      BY <1>1, <2>1
  <1>6. CASE BootMode \/ BootRecovered
    BY <1>1, <1>6 DEF BootMode, BootRecovered, TypeInv, TypeOK
  <1>7. CASE BootDecide \/ BootResume
    BY <1>1, <1>7 DEF BootDecide, BootResume, Serving, TypeInv, TypeOK
  <1>8. CASE (\E w \in Work : BootInterrupt(w)) \/ (\E a \in Actions : BootVerify(a))
    BY <1>1, <1>8 DEF BootInterrupt, BootVerify, TypeInv, TypeOK
  <1> QED
    BY <1>2, <1>3, <1>4, <1>5, <1>6, <1>7, <1>8 DEF Next, Boot

\* Whatever is running or verifying while the process serves is carried by this process,
\* however often and wherever earlier ones, recoveries included, ended.
THEOREM NothingOrphaned == Spec => []NoOrphans
  <1>1. Init => OrphanInv
    BY InitTypes, ModeConstants
    DEF OrphanInv, NoOrphans, Settled, Init, Serving, ReadBack, InFlight
  <1>2. OrphanInv /\ [Next]_vars => OrphanInv'
    BY StepOrphans, ModeConstants
  <1>3. OrphanInv => NoOrphans
    BY DEF OrphanInv
  <1> QED
    BY <1>1, <1>2, <1>3, PTL DEF Spec

-----------------------------------------------------------------------------
(* What the log says, wherever the process is. *)

\* Recovery's events stand between its own two marks, and what it read back is still so.
LogOK ==
    /\ log.mode = decided
    /\ boot.phase \in {"reconciling", "closing"} => log.inside
    /\ boot.phase \in {"up", "deciding", "resuming"} => ~log.inside
    /\ boot.phase \in {"entering", "reconciling", "closing", "deciding", "resuming"} =>
         boot.previous = log.mode
    /\ boot.phase \in {"entering", "reconciling", "closing"} => boot.pending = log.pending
    /\ boot.phase = "deciding" => log.pending = (boot.pending \/ boot.interrupted)
    /\ HeedsEarlierRecoveries

LogInv == TypeInv /\ LogOK

LEMMA StepLog ==
    ASSUME ModeConstants, LogInv, [Next]_vars
    PROVE  LogInv'
  <1>1. TypeInv'
    BY StepTypes DEF LogInv
  <1> USE DEF LogInv, LogOK, HeedsEarlierRecoveries, Up
  <1>2. log \in LogType /\ boot \in [phase : Phases, previous : Decisions, pending : BOOLEAN,
                                     interrupted : BOOLEAN, verified : BOOLEAN]
    BY DEF TypeInv, TypeOK, LogType
  <1>3. CASE Progress \/ UNCHANGED vars
    BY <1>1, <1>3 DEF Progress, CheckDispatch, InsertJob, AdmitAction, Executed, Finish, vars
  <1>4. ASSUME NEW c \in Callers, RecordMode(c) PROVE LogInv'
    BY <1>1, <1>2, <1>4 DEF RecordMode, ReadMode, LogType
  <1>5. ASSUME NEW c \in Callers, NEW m \in Decisions, SetMode(c, m) PROVE LogInv'
    BY <1>1, <1>2, <1>5 DEF SetMode
  <1>14. ASSUME NEW c \in Callers, LoseMode(c) PROVE LogInv'
    BY <1>1, <1>2, <1>14 DEF LoseMode
  <1>6. CASE Crash
    BY <1>1, <1>2, <1>6 DEF Crash, Serving
  <1>7. CASE BootRead
    BY <1>1, <1>2, <1>7 DEF BootRead, Serving, LogType
  <1>8. CASE BootEnter
    BY <1>1, <1>2, <1>8 DEF BootEnter, ReadRecoveryStarted, LogType
  <1>9. CASE BootMode
    BY <1>1, <1>2, <1>9 DEF BootMode, ReadMode, LogType
  <1>10. CASE BootRecovered
    BY <1>1, <1>2, <1>10 DEF BootRecovered, ReadRecovered, LogType
  <1>11. CASE BootDecide
    BY <1>1, <1>2, <1>11 DEF BootDecide, CleanRestart, Serving, LogType
  <1>12. CASE BootResume
    BY <1>1, <1>2, <1>12 DEF BootResume, ReadMode, Serving, LogType
  <1>13. CASE (\E w \in Work : BootInterrupt(w)) \/ (\E a \in Actions : BootVerify(a))
    BY <1>1, <1>2, <1>13 DEF BootInterrupt, BootVerify
  <1> QED
    BY <1>3, <1>4, <1>5, <1>6, <1>7, <1>8, <1>9, <1>10, <1>11, <1>12, <1>13, <1>14
    DEF Next, Boot, Request

LEMMA InitLog == ModeConstants /\ Init => LogInv
  BY InitTypes DEF LogInv, LogOK, HeedsEarlierRecoveries, Init, NewLog, Serving

LEMMA LogAlways == Spec => []LogInv
  <1>1. Init => LogInv
    BY InitLog, ModeConstants
  <1>2. LogInv /\ [Next]_vars => LogInv'
    BY StepLog, ModeConstants
  <1> QED
    BY <1>1, <1>2, PTL DEF Spec

\* Only what requests, or clean starts, recorded counts as a decision: the freezes recovery
\* writes between its own marks never do (persisted_mode).
THEOREM LogHistory == Spec => []OnlyRequestsDecide
  <1>1. LogInv => OnlyRequestsDecide
    BY DEF LogInv, LogOK, OnlyRequestsDecide
  <1> QED
    BY <1>1, LogAlways, PTL

\* A start resumes by itself only over a log whose last decision is to run, and in which no
\* recovery, this one or an earlier one, left anything pending (is_clean_restart).
THEOREM RecoveriesHeeded == Spec => []HeedsEarlierRecoveries
  <1>1. LogInv => HeedsEarlierRecoveries
    BY DEF LogInv, LogOK
  <1> QED
    BY <1>1, LogAlways, PTL

-----------------------------------------------------------------------------
(* The mode in memory and the mode in the log. *)

\* Unless changes crossed, what is still to be recorded is the mode in memory; recovery ends
\* in the mode the log's decision implies.
MemoryOK ==
    /\ \A c \in Callers : caller[c] # "none" => Up
    /\ ~astray => \A c \in Callers : caller[c] \in {"none", mode}
    /\ boot.phase \in {"closing", "deciding"} => mode = FinalMode(log.mode)
    /\ boot.phase = "resuming" => mode = "Running"
    /\ RestartKeepsMode

MemoryInv == LogInv /\ MemoryOK

LEMMA StepMemory ==
    ASSUME ModeConstants, MemoryInv, [Next]_vars
    PROVE  MemoryInv'
  <1>1. LogInv'
    BY StepLog DEF MemoryInv
  <1> USE DEF MemoryInv, MemoryOK, RestartKeepsMode, Up
  <1>2. /\ log \in LogType
        /\ boot \in [phase : Phases, previous : Decisions, pending : BOOLEAN,
                     interrupted : BOOLEAN, verified : BOOLEAN]
        /\ caller \in [Callers -> Decisions \cup {"none"}]
        /\ LogOK
    BY DEF LogInv, TypeInv, TypeOK, LogType
  <1>3. CASE Progress \/ UNCHANGED vars
    BY <1>1, <1>3 DEF Progress, CheckDispatch, InsertJob, AdmitAction, Executed, Finish, vars
  <1>4. ASSUME NEW c \in Callers, RecordMode(c) PROVE MemoryInv'
    <2>1. ~log.inside /\ caller[c] \in Decisions
      BY <1>2, <1>4 DEF RecordMode, LogOK
    <2>2. ~log'.inside /\ log'.mode = caller[c] /\ (caller[c] = "Running" => ~log'.pending)
      BY <1>2, <1>4, <2>1 DEF RecordMode, ReadMode, LogType
    <2>3. ~astray => mode = caller[c]
      BY <1>4 DEF RecordMode
    <2> QED
      BY <1>1, <1>2, <1>4, <2>2, <2>3 DEF RecordMode
  <1>5. ASSUME NEW c \in Callers, NEW m \in Decisions, SetMode(c, m) PROVE MemoryInv'
    <2>1. caller'[c] # "none"
      BY <1>2, <1>5 DEF SetMode, Decisions
    <2>2. ~astray' => \A d \in Callers : caller'[d] \in {"none", mode'}
      BY <1>2, <1>5 DEF SetMode
    <2> QED
      BY <1>1, <1>2, <1>5, <2>1, <2>2 DEF SetMode
  <1>13. ASSUME NEW c \in Callers, LoseMode(c) PROVE MemoryInv'
    BY <1>1, <1>2, <1>13 DEF LoseMode
  <1>6. CASE Crash
    BY <1>1, <1>2, <1>6 DEF Crash, Serving
  <1>7. CASE BootRead \/ BootEnter
    BY <1>1, <1>2, <1>7 DEF BootRead, BootEnter, Serving
  <1>8. CASE BootMode
    BY <1>1, <1>2, <1>8 DEF BootMode, ReadMode, LogOK
  <1>9. CASE BootRecovered
    BY <1>1, <1>2, <1>9 DEF BootRecovered, ReadRecovered, LogType
  <1>10. CASE BootDecide
    BY <1>1, <1>2, <1>10 DEF BootDecide, Serving, LogOK, FinalMode
  <1>11. CASE BootResume
    BY <1>1, <1>2, <1>11 DEF BootResume, ReadMode, Serving, LogType, LogOK,
                             HeedsEarlierRecoveries
  <1>12. CASE (\E w \in Work : BootInterrupt(w)) \/ (\E a \in Actions : BootVerify(a))
    BY <1>1, <1>2, <1>12 DEF BootInterrupt, BootVerify
  <1> QED
    BY <1>3, <1>4, <1>5, <1>6, <1>7, <1>8, <1>9, <1>10, <1>11, <1>12, <1>13
    DEF Next, Boot, Request

\* However many requests change the mode at once, and wherever they end, a restart finds in
\* the log the freeze the process was in, and a running process left nothing a human has yet
\* to look at, unless the last change crossed another one or lost its event (set_mode).
THEOREM RestartRestores == Spec => []RestartKeepsMode
  <1>1. Init => MemoryInv
    BY InitLog, ModeConstants
    DEF MemoryInv, MemoryOK, RestartKeepsMode, Init, NewLog, Serving, Up
  <1>2. MemoryInv /\ [Next]_vars => MemoryInv'
    BY StepMemory, ModeConstants
  <1>3. MemoryInv => RestartKeepsMode
    BY DEF MemoryInv, MemoryOK
  <1> QED
    BY <1>1, <1>2, <1>3, PTL DEF Spec
=============================================================================
