------------------------------ MODULE Settings ------------------------------
(***************************************************************************)
(* Changing settings while the controller runs: the API keeps the accepted *)
(* configuration behind a lock held across a change; a change is checked   *)
(* against its class and the Scheduler's mode, written into the file, put  *)
(* in force, recorded as an event of the store, and only then remembered   *)
(* as the accepted configuration.  Any of that may fail, be dropped or be  *)
(* cut off by a restart, and operators freeze and resume meanwhile.        *)
(***************************************************************************)
EXTENDS FileStore

CONSTANTS
    Patchers,   \* requests that change settings, among Clients
    Changes,    \* what they may ask: functions from some keys to values
    Change      \* the event of a change, among Values

\* One setting of each kind: the capture cadence, dry_run, and a classification list.
Live == {"interval"}
PolicyKeys == {"dryRun", "tunable"}
Keys == Live \cup PolicyKeys
Configs == [Keys -> BOOLEAN]

Frozen == {"DispatchFrozen", "FullyFrozen"}

ASSUME SettingsConstants ==
    /\ Patchers \subseteq Clients
    /\ \A ch \in Changes : DOMAIN ch \subseteq Keys /\ \A k \in DOMAIN ch : ch[k] \in BOOLEAN

VARIABLES
    scheduler,  \* the Scheduler's mode, as far as settings ask
    configFile, \* the config file
    known,      \* ApiState.config: the configuration the API takes for current
    editing,    \* who holds its write lock
    live,       \* SharedSettings: what decisions read
    started,    \* what was wired in at startup
    patch,      \* each request: what it asks, what it makes of it, how far it is
    doubt       \* auxiliary: a change is in force that the API does not know of

settingsVars == <<scheduler, configFile, known, editing, live, started, patch, doubt>>

-----------------------------------------------------------------------------
NoPatch == [pc |-> "off", change |-> <<>>, confirm |-> FALSE, result |-> <<>>]

Merge(base, change) == [k \in Keys |-> IF k \in DOMAIN change THEN change[k] ELSE base[k]]
Diff(base, next_) == {k \in Keys : base[k] # next_[k]}

Patched(p, pc) == [patch EXCEPT ![p].pc = pc]
Is(p, pc) == up = "up" /\ patch[p].pc = pc

Ask(p) ==
    /\ Is(p, "off")
    /\ \E change \in Changes, confirm \in BOOLEAN :
         patch' = [patch EXCEPT ![p] = [pc |-> "waiting", change |-> change,
                                        confirm |-> confirm, result |-> <<>>]]
    /\ UNCHANGED <<storeVars, scheduler, configFile, known, editing, live, started, doubt>>

\* Fault: two operators may edit at once.
Unlocked(p) == TRUE
Lockable(p) == editing = None

\* The lock is taken, the change is laid over the accepted configuration and classified.
\* Nothing changed is a success; a policy setting asks for the mode first.
Lock(p) ==
    /\ Is(p, "waiting") /\ Lockable(p)
    /\ LET result == Merge(known, patch[p].change)
           changed == Diff(known, result)
       IN IF changed = {}
          THEN /\ patch' = Patched(p, "accepted")
               /\ editing' = editing
          ELSE /\ patch' = [patch EXCEPT ![p].result = result,
                                         ![p].pc = IF changed \subseteq Live THEN "write" ELSE "mode"]
               /\ editing' = p
    /\ UNCHANGED <<storeVars, scheduler, configFile, known, live, started, doubt>>

GoesLive(p) == known["dryRun"] /\ ~patch[p].result["dryRun"]

CheckMode(p) ==
    /\ Is(p, "mode")
    /\ IF scheduler \in Frozen /\ (GoesLive(p) => patch[p].confirm)
       THEN patch' = Patched(p, "write") /\ editing' = editing
       ELSE patch' = Patched(p, "refused") /\ editing' = None
    /\ UNCHANGED <<storeVars, scheduler, configFile, known, live, started, doubt>>

\* The file first, only the keys that changed: a temporary file and a rename ...
WriteConfig(p) ==
    /\ Is(p, "write")
    /\ configFile' = [k \in Keys |-> IF k \in Diff(known, patch[p].result)
                                     THEN patch[p].result[k] ELSE configFile[k]]
    /\ patch' = Patched(p, "apply")
    /\ UNCHANGED <<storeVars, scheduler, known, editing, live, started, doubt>>

\* ... so a file that cannot be written leaves everything as it was.
WriteConfigFails(p) ==
    /\ Is(p, "write")
    /\ patch' = Patched(p, "refused")
    /\ editing' = None
    /\ UNCHANGED <<storeVars, scheduler, configFile, known, live, started, doubt>>

\* Then every live value is replaced at once, and the event is appended.
Apply(p) ==
    /\ Is(p, "apply")
    /\ live' = patch[p].result
    /\ patch' = Patched(p, "recording")
    /\ CallAs(p, Asking("event", None, None, Change))
    /\ UNCHANGED <<scheduler, configFile, known, editing, started, doubt>>

Accept(p) ==
    /\ Is(p, "recording") /\ Answered(p) /\ Got(p) = "ok"
    /\ known' = patch[p].result
    /\ patch' = Patched(p, "accepted")
    /\ editing' = None
    /\ CallAs(p, Idle)
    /\ UNCHANGED <<scheduler, configFile, live, started, doubt>>

\* An event that cannot be appended is an error of a change that is in force.
Unrecorded(p) ==
    /\ Is(p, "recording") /\ Answered(p) /\ Got(p) # "ok"
    /\ patch' = Patched(p, "refused")
    /\ editing' = None
    /\ doubt' = TRUE
    /\ CallAs(p, Idle)
    /\ UNCHANGED <<scheduler, configFile, known, live, started>>

\* The request's future is dropped where it awaits: the lock, the mode, or the store.
PatchDropped(p) ==
    /\ up = "up" /\ patch[p].pc \in {"waiting", "mode", "recording"}
    /\ Dropped({p})
    /\ patch' = Patched(p, "gone")
    /\ editing' = IF editing = p THEN None ELSE editing
    /\ doubt' = (doubt \/ patch[p].pc = "recording")
    /\ UNCHANGED <<scheduler, configFile, known, live, started>>

Freeze ==
    /\ up = "up" /\ scheduler = "Running"
    /\ scheduler' \in Frozen
    /\ UNCHANGED <<storeVars, configFile, known, editing, live, started, patch, doubt>>

Resume ==
    /\ up = "up" /\ scheduler \in Frozen
    /\ scheduler' = "Running"
    /\ UNCHANGED <<storeVars, configFile, known, editing, live, started, patch, doubt>>

\* The process ends with its memory; the file is what the next one starts from.
SettingsCrash ==
    /\ scheduler' = "DispatchFrozen"
    /\ known' = configFile /\ live' = configFile /\ started' = configFile
    /\ editing' = None /\ doubt' = FALSE
    /\ patch' = [p \in Patchers |->
                   IF patch[p].pc \in {"off", "accepted", "refused", "gone"}
                   THEN patch[p] ELSE [patch[p] EXCEPT !.pc = "gone"]]
    /\ configFile' = configFile

SettingsInit ==
    /\ scheduler = "Running"
    /\ configFile = [k \in Keys |-> TRUE]
    /\ known = configFile /\ live = configFile /\ started = configFile
    /\ editing = None
    /\ patch = [p \in Patchers |-> NoPatch]
    /\ doubt = FALSE

-----------------------------------------------------------------------------
Asked(p, k) == k \in DOMAIN patch[p].change

\* A live value changes only because a request under way asked for that very setting, confirmed
\* when it lets commands execute - never because of the rest of what the request wrote, and not
\* by a restart either; and a request that is told its change was accepted finds it in force
\* and in the file.  Changes that were in force when their record failed are excepted: the
\* API does not know of them until the next start.
SettingsHold ==
    [][~doubt =>
         /\ \A k \in Keys : live'[k] # live[k] =>
              \E p \in Patchers :
                 /\ patch[p].pc \in {"apply", "recording"} /\ Asked(p, k)
                 /\ k = "dryRun" /\ ~live'[k] => patch[p].confirm
         /\ \A p \in Patchers :
              patch[p].pc # "accepted" /\ patch'[p].pc = "accepted" =>
                 \A k \in DOMAIN patch[p].change :
                    live'[k] = patch[p].change[k] /\ configFile'[k] = patch[p].change[k]
      ]_<<storeVars, settingsVars>>
=============================================================================
