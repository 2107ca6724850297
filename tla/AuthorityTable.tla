--------------------------- MODULE AuthorityTable ---------------------------
(***************************************************************************)
(* What docs/action-authority.md promises of the matrix, as assumptions    *)
(* TLC evaluates over Authority: the table row by row, and the rules on    *)
(* top of it over every proposal of a small world.                         *)
(***************************************************************************)
EXTENDS Authority, Sequences, FiniteSets

(* The approved table by row number: rehearsal, contest_locked, post_contest. *)
AnyTime == <<"auto", "auto", "auto">>
NotLocked == <<"auto", "approve", "auto">>
AskedAlways == <<"approve", "approve", "approve">>
AskedUnlessLocked == <<"approve", "deny", "approve">>
Afterwards == <<"deny", "deny", "approve">>
Never == <<"deny", "deny", "deny">>
Human == <<"humanOnly", "humanOnly", "humanOnly">>

Approved ==
    <<AnyTime, AnyTime, NotLocked, NotLocked, NotLocked, AnyTime, NotLocked, AskedUnlessLocked,
      NotLocked, AskedUnlessLocked, AskedUnlessLocked, NotLocked, AskedAlways, AskedUnlessLocked,
      AskedUnlessLocked, NotLocked, AnyTime, NotLocked, AskedUnlessLocked, Afterwards,
      AskedUnlessLocked, AskedUnlessLocked, AskedAlways, AskedAlways, Never, Human,
      NotLocked, NotLocked>>

Columns == <<"Rehearsal", "ContestLocked", "PostContest">>

\* Every row of the document's table is what the code decides in every mode.
ASSUME TableEncoded ==
    /\ Len(RowOrder) = Len(Approved)
    /\ {RowOrder[n] : n \in DOMAIN RowOrder} = Classes
    /\ \A n \in DOMAIN Approved, m \in DOMAIN Columns :
         AuthorityOf(RowOrder[n], Columns[m]) = Approved[n][m]

\* A contest only makes the matrix stricter.
Strictness == [auto |-> 0, approve |-> 1, deny |-> 2, humanOnly |-> 3]
ASSUME ContestIsStrictest ==
    \A c \in Classes, m \in Modes :
        Strictness[AuthorityOf(c, m)] <= Strictness[AuthorityOf(c, "ContestLocked")]

\* A runbook has one class, and no registered runbook is a shell command.
ASSUME RunbooksClassified ==
    /\ \A c, d \in DOMAIN FixedRunbooks : c # d => FixedRunbooks[c] \cap FixedRunbooks[d] = {}
    /\ DOMAIN FixedRunbooks \subseteq Classes \ {"Shell"}

-----------------------------------------------------------------------------
(* A small world of proposals: three resources, one of which the Job may not touch. *)

Lists == [tunable |-> {"pool_size"}, security |-> {"cors", "pool_size"}, known |-> {"10.0.0.7"}]

Policy ==
    [lists |-> Lists, unsafe |-> {"a;b"},
     catalog |-> [worker |-> "Worker", redis |-> "Redis", server |-> "BroccoliServer"]]

ArgumentSets ==
    {<<>>, [key |-> "cors", value |-> "x"], [key |-> "unheard", value |-> "x"],
     [key |-> "a;b", value |-> "x"], [key |-> "cors", value |-> ""],
     [address |-> "10.0.0.7"], [address |-> "8.8.8.8"]}

Proposals ==
    [runbook : Runbooks \cup {"no.such"},
     targets : SUBSET {"worker", "redis", "server", "elsewhere"}, args : ArgumentSets,
     capabilities : {{}, {"operate.restart"}, OperateCapabilities},
     scope : {{"worker", "redis", "elsewhere"}}, mode : Modes, repeat : BOOLEAN]

\* Nothing is automatic that touches a resource outside the Job's scope or of a kind its class
\* is not for, that the Job has no capability for, or that repeats an automatic action.
ASSUME AutoIsBound ==
    \A p \in Proposals : Outcome(Policy, p) = "auto" =>
        LET class == Classify(Lists, p.runbook, p.args)
        IN /\ p.targets # {} /\ p.targets \subseteq {"worker", "redis"}
           /\ \A t \in p.targets : Policy.catalog[t] \in ClassKinds(class)
           /\ Capability(class) \in p.capabilities
           /\ ~p.repeat

\* A runbook nobody registered never executes: it waits for a human or is denied.
ASSUME UnknownHeld ==
    \A p \in Proposals :
        p.runbook \notin Runbooks => Outcome(Policy, p) \in {"unclassified", "deny"}

\* A key on two lists takes the stricter one, an unheard one is contest-affecting.
ASSUME KeysByStrictestList ==
    /\ ConfigClass(Lists, "pool_size") = "ConfigSecurity"
    /\ ConfigClass(Lists, "unheard") = "ConfigContest"

\* A mode change is nobody's to propose: no Job is dispatched with its capability.
ASSUME ModeIsHumans ==
    \A p \in Proposals :
        p.runbook = "mode.set" /\ p.capabilities \subseteq OperateCapabilities
            => Outcome(Policy, p) = "deny"
=============================================================================
