------------------------------ MODULE Authority ------------------------------
(***************************************************************************)
(* The action authority: what class a proposal falls into, what the matrix *)
(* says of that class in an operation mode, and the decision over a whole  *)
(* proposal.  Pure operators; ActionGateway takes their results as rows,   *)
(* Settings changes the lists they classify by.                            *)
(***************************************************************************)
EXTENDS Naturals

Modes == {"Rehearsal", "ContestLocked", "PostContest"}

Kinds == {"BroccoliServer", "Worker", "Frontend", "Gateway", "PrinterStation", "BalloonStation",
          "Printer", "Redis", "PostgreSql", "ObjectStorage", "Other"}

Authorities == {"auto", "approve", "deny", "humanOnly"}

-----------------------------------------------------------------------------
(* The matrix: operation classes by the column pattern of their row. *)

AlwaysAuto == {"Observe", "WorkerRestart", "StationRestart", "DbReadonly"}

\* Automatic outside a contest, a human's decision during one.
AutoUnlessLocked ==
    {"WorkerStart", "ServerRestart", "RedisRestart", "PostgresRestart", "FrontendRestart",
     "DlqRequeue", "ConfigTunable", "FirewallAllowKnown", "Rollback", "DbMaintain"}

AlwaysApprove == {"FirewallDeny", "StorageDaemon", "MachineReboot"}

\* A human's decision outside a contest, refused during one.
ApproveUnlessLocked ==
    {"QueuePurge", "ConfigContest", "ConfigSecurity", "WasmDeploy", "BundleDeploy",
     "DbMigrate", "RedisDestructive", "StorageDestructive"}

Classes ==
    AlwaysAuto \cup AutoUnlessLocked \cup AlwaysApprove \cup ApproveUnlessLocked
      \cup {"DbWrite", "Shell", "ModeChange"}

AuthorityOf(class, mode) ==
    CASE class \in AlwaysAuto -> "auto"
      [] class \in AutoUnlessLocked -> IF mode = "ContestLocked" THEN "approve" ELSE "auto"
      [] class \in AlwaysApprove -> "approve"
      [] class \in ApproveUnlessLocked -> IF mode = "ContestLocked" THEN "deny" ELSE "approve"
      [] class = "DbWrite" -> IF mode = "PostContest" THEN "approve" ELSE "deny"
      [] class = "Shell" -> "deny"
      [] class = "ModeChange" -> "humanOnly"

\* The classes in the order of their row numbers.
RowOrder ==
    <<"Observe", "WorkerRestart", "WorkerStart", "ServerRestart", "FrontendRestart",
      "StationRestart", "DlqRequeue", "QueuePurge", "ConfigTunable", "ConfigContest",
      "ConfigSecurity", "FirewallAllowKnown", "FirewallDeny", "WasmDeploy", "BundleDeploy",
      "Rollback", "DbReadonly", "DbMaintain", "DbMigrate", "DbWrite", "RedisDestructive",
      "StorageDestructive", "StorageDaemon", "MachineReboot", "Shell", "ModeChange",
      "RedisRestart", "PostgresRestart">>

IsMutating(class) == class \notin {"Observe", "DbReadonly"}

-----------------------------------------------------------------------------
(* What a class applies to, and what a Job must hold to propose it. *)

RedisClasses == {"DlqRequeue", "QueuePurge", "RedisDestructive", "RedisRestart"}
ConfigClasses == {"ConfigTunable", "ConfigContest", "ConfigSecurity"}
DeployClasses == {"WasmDeploy", "BundleDeploy", "Rollback"}
DatabaseClasses == {"DbReadonly", "DbMaintain", "DbMigrate", "DbWrite", "PostgresRestart"}
StorageClasses == {"StorageDestructive", "StorageDaemon"}
FirewallClasses == {"FirewallAllowKnown", "FirewallDeny"}

\* Kinds a class may target; a class bound to none of them applies to any resource.
ClassKinds(class) ==
    CASE class \in {"WorkerRestart", "WorkerStart"} -> {"Worker"}
      [] class = "ServerRestart" -> {"BroccoliServer"}
      [] class = "FrontendRestart" -> {"Frontend", "Gateway"}
      [] class = "StationRestart" -> {"PrinterStation", "BalloonStation", "Printer"}
      [] class \in RedisClasses -> {"Redis"}
      [] class \in ConfigClasses -> {"BroccoliServer", "Worker", "Frontend", "Gateway",
                                     "PrinterStation", "BalloonStation"}
      [] class \in DeployClasses -> {"BroccoliServer", "Frontend", "Worker"}
      [] class \in DatabaseClasses -> {"PostgreSql"}
      [] class \in StorageClasses -> {"ObjectStorage"}
      [] OTHER -> Kinds

\* Diagnostics are bound to the resources they read although their class is not.
TargetKinds(runbook, class) ==
    CASE runbook \in {"redis.ping", "redis.info"} -> {"Redis"}
      [] runbook = "storage.check" -> {"ObjectStorage"}
      [] runbook = "infra.resources" -> {"PostgreSql", "Redis", "ObjectStorage"}
      [] runbook = "app.health" -> {"BroccoliServer", "Frontend"}
      [] OTHER -> ClassKinds(class)

Capability(class) ==
    CASE class = "Observe" -> "observe"
      [] class \in {"WorkerRestart", "WorkerStart", "ServerRestart", "FrontendRestart",
                    "RedisRestart", "StationRestart"} -> "operate.restart"
      [] class \in {"DlqRequeue", "QueuePurge", "RedisDestructive"} -> "operate.queue"
      [] class \in ConfigClasses -> "operate.config"
      [] class \in FirewallClasses -> "operate.firewall"
      [] class \in DeployClasses -> "operate.deploy"
      [] class \in DatabaseClasses -> "operate.database"
      [] class \in StorageClasses -> "operate.storage"
      [] class = "MachineReboot" -> "operate.machine"
      [] class = "Shell" -> "operate.shell"
      [] class = "ModeChange" -> "operate.mode"

\* What a dispatched Job holds: all but the two capabilities no Team may ever hold.
OperateCapabilities == {Capability(c) : c \in Classes \ {"Shell", "ModeChange"}}

-----------------------------------------------------------------------------
(* The Runbook Registry. *)

\* Runbooks of a class; config.set and ufw.allow fall into one by their arguments.
FixedRunbooks ==
    [Observe |-> {"service.status", "log.tail", "redis.ping", "redis.info", "storage.check",
                  "infra.resources", "app.health"},
     RedisRestart |-> {"redis.restart", "redis.start"},
     DbReadonly |-> {"postgres.check", "postgres.locks", "db.query_readonly"},
     PostgresRestart |-> {"postgres.start", "postgres.restart"},
     StorageDaemon |-> {"storage.start", "storage.restart", "storage.remount",
                        "ceph.restart_daemon"},
     WorkerRestart |-> {"worker.restart"}, WorkerStart |-> {"worker.start"},
     ServerRestart |-> {"server.restart"},
     FrontendRestart |-> {"frontend.restart", "gateway.reload"},
     StationRestart |-> {"station.restart"}, DlqRequeue |-> {"mq.dlq_requeue"},
     QueuePurge |-> {"mq.purge"}, FirewallDeny |-> {"ufw.deny", "ufw.delete"},
     WasmDeploy |-> {"wasm.install"}, BundleDeploy |-> {"bundle.install"},
     Rollback |-> {"bundle.rollback", "wasm.rollback"}, DbMaintain |-> {"db.maintain"},
     DbMigrate |-> {"db.migrate"}, RedisDestructive |-> {"redis.flush", "redis.del"},
     StorageDestructive |-> {"storage.delete"}, MachineReboot |-> {"machine.reboot"},
     ModeChange |-> {"mode.set"}]

Runbooks ==
    UNION {FixedRunbooks[c] : c \in DOMAIN FixedRunbooks} \cup {"config.set", "ufw.allow"}

\* Arguments are a function from names to values; a missing one reads as "".
Argument(args, name) == IF name \in DOMAIN args THEN args[name] ELSE ""

\* classify, with the operator's lists: security before tunable, and a key nobody
\* classified is contest-affecting.
ConfigClass(lists, key) ==
    IF key \in lists.security THEN "ConfigSecurity"
    ELSE IF key \in lists.tunable THEN "ConfigTunable" ELSE "ConfigContest"

Classify(lists, runbook, args) ==
    CASE runbook = "config.set" -> ConfigClass(lists, Argument(args, "key"))
      [] runbook = "ufw.allow" -> IF Argument(args, "address") \in lists.known
                                  THEN "FirewallAllowKnown" ELSE "FirewallDeny"
      [] runbook \in Runbooks \ {"config.set", "ufw.allow"} ->
             CHOOSE c \in DOMAIN FixedRunbooks : runbook \in FixedRunbooks[c]
      [] OTHER -> "None"

Required(runbook) ==
    CASE runbook = "config.set" -> {"key", "value"}
      [] runbook \in {"ufw.allow", "ufw.deny", "ufw.delete"} -> {"address"}
      [] runbook = "redis.del" -> {"key"}
      [] runbook = "storage.delete" -> {"object"}
      [] runbook = "db.query_readonly" -> {"statement"}
      [] OTHER -> {}

\* Runbooks whose query, path and endpoint are fixed.
NoArguments ==
    {"redis.info", "redis.ping", "redis.restart", "redis.start", "postgres.check",
     "postgres.locks", "postgres.start", "postgres.restart", "storage.check", "storage.start",
     "storage.restart", "infra.resources", "app.health"}

\* validate_arguments; a value of Unsafe carries a shell metacharacter.
ArgumentsValid(runbook, args, Unsafe) ==
    /\ runbook \in NoArguments => DOMAIN args = {}
    /\ \A name \in Required(runbook) : Argument(args, name) # ""
    /\ \A name \in DOMAIN args : args[name] \notin Unsafe

-----------------------------------------------------------------------------
(* Deciding over a whole proposal p: its runbook, targets and arguments, the capabilities *)
(* and scope of its Job, the mode of its before-Snapshot, and whether rule 5 counts it as *)
(* a repeat.  The policy holds the lists, the catalog of resource kinds, and Unsafe.      *)

\* validate_scope, of a proposal whose runbook is known.
InScope(policy, p) ==
    LET class == Classify(policy.lists, p.runbook, p.args)
    IN /\ class # "None"
       /\ p.targets # {}
       /\ Capability(class) \in p.capabilities
       /\ \A t \in p.targets :
            /\ t \in p.scope /\ t \in DOMAIN policy.catalog
            /\ policy.catalog[t] \in TargetKinds(p.runbook, class)
       /\ ArgumentsValid(p.runbook, p.args, policy.unsafe)

\* decide: a scope failure is a denial, and a repeat makes "auto" a human's decision.
Decide(policy, p) ==
    LET base == AuthorityOf(Classify(policy.lists, p.runbook, p.args), p.mode)
    IN IF ~InScope(policy, p) THEN "deny"
       ELSE IF base = "auto" /\ p.repeat THEN "approve" ELSE base

\* What the Scheduler makes of it: a runbook nobody registered waits for a human when its
\* targets are in scope, and a human-only operation is as good as denied.
Outcome(policy, p) ==
    IF /\ Classify(policy.lists, p.runbook, p.args) = "None"
       /\ p.targets # {}
       /\ \A t \in p.targets : t \in p.scope /\ t \in DOMAIN policy.catalog
    THEN "unclassified"
    ELSE IF Decide(policy, p) \in {"deny", "humanOnly"} THEN "deny" ELSE Decide(policy, p)
=============================================================================
