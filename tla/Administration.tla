--------------------------- MODULE Administration ---------------------------
(***************************************************************************)
(* A running controller under administration: imports of a session and     *)
(* changes of settings share one file-backed store and end together with   *)
(* the process; a start rebuilds the store, loads the config file and      *)
(* recovers before it serves.                                              *)
(***************************************************************************)
EXTENDS Archive, Settings, Authority

CONSTANTS
    MaxRequests,    \* bound: imports and changes of settings together
    MaxFaults       \* bound: crashes, failed file operations and dropped requests

\* Every request is a client of its own, and recovery is one.
ASSUME AdministrationConstants ==
    /\ Importers \cap Patchers = {} /\ Recovery \notin Importers \cup Patchers
    /\ Change \in Values

VARIABLES requests, faults

vars == <<storeVars, archiveVars, settingsVars, requests, faults>>

Init ==
    /\ ArchiveInit /\ SettingsInit /\ StoreInit
    /\ requests = 0 /\ faults = 0

Counted == requests < MaxRequests /\ requests' = requests + 1 /\ faults' = faults
Faulty == faults < MaxFaults /\ faults' = faults + 1 /\ requests' = requests
Bounds == UNCHANGED <<requests, faults>>

Store ==
    /\ \E c \in Clients : StoreStep(c)
    /\ UNCHANGED <<archiveVars, settingsVars>> /\ Bounds

StoreFails ==
    /\ \E c \in Clients : FileError(c)
    /\ UNCHANGED <<archiveVars, settingsVars>> /\ Faulty

ImportingSessions ==
    /\ UNCHANGED settingsVars
    /\ \E i \in Importers :
         \/ Import(i) /\ Counted
         \/ (Continue(i) \/ Imported(i) \/ Refused(i)) /\ Bounds
         \/ (RestoreBody(i) \/ BodyRestored(i) \/ InsertMissing(i)) /\ Bounds
         \/ (RestoreFails(i) \/ ImportDropped(i)) /\ Faulty

Configuring ==
    /\ boot = "serving" /\ UNCHANGED archiveVars
    /\ \/ (Freeze \/ Resume) /\ Bounds
       \/ \E p \in Patchers :
            \/ Ask(p) /\ Counted
            \/ (Lock(p) \/ CheckMode(p) \/ WriteConfig(p) \/ Apply(p)) /\ Bounds
            \/ (Accept(p) \/ Unrecorded(p)) /\ Bounds
            \/ (WriteConfigFails(p) \/ PatchDropped(p)) /\ Faulty

Recovering ==
    /\ (\E d \in Docs : Recover(d)) \/ Recovered \/ Serve
    /\ UNCHANGED settingsVars /\ Bounds

\* The process ends with all its requests; it also exits when its recovery cannot finish.
Crash ==
    /\ StoreCrash /\ ArchiveCrash /\ SettingsCrash
    /\ IF Answered(Recovery) /\ Got(Recovery) # "ok" THEN Bounds ELSE Faulty

Start ==
    /\ Open \/ OpenFails
    /\ UNCHANGED <<archiveVars, settingsVars>> /\ Bounds

Next == Store \/ StoreFails \/ ImportingSessions \/ Configuring \/ Recovering \/ Crash \/ Start

Spec == Init /\ [][Next]_vars

-----------------------------------------------------------------------------
\* Which class a change of one config key falls into: the authority keeps the lists it was
\* built with, whatever the live settings hold.
ListsOf(config) ==
    [tunable |-> IF config["tunable"] THEN {"pool_size"} ELSE {}, security |-> {}, known |-> {}]

ClassOf(config) ==
    Classify(ListsOf(config), "config.set", [key |-> "pool_size", value |-> "8"])

DecidedClass == ClassOf(started)

\* What settings.rs says of the authority matrix: a changed list applies to the next decision.
DecidedByListsInForce == up = "up" => DecidedClass = ClassOf(live)
=============================================================================
