----------------------------- MODULE AtomicStore -----------------------------
(***************************************************************************)
(* What StateStore promises its callers, as the in-memory store keeps it:  *)
(* every operation takes effect at once, at some moment between its call   *)
(* and its reply, or has failed and changed no document; the event log     *)
(* only grows, in the order in which its appends took effect.  A process   *)
(* that ends loses calls and replies, never what took effect.  An append   *)
(* that fails may mar the log, and the next one is then not in it.         *)
(* FileStore is shown to implement this.                                   *)
(***************************************************************************)
EXTENDS Sequences

CONSTANTS Clients, Docs, Values, None

VARIABLES
    docs,   \* the documents, of every kind, by ID
    log,    \* the events in the order of their sequence numbers
    marred, \* whether the log ends in a part of an event
    call    \* what each client has called and not yet taken the reply of

vars == <<docs, log, marred, call>>

Stores == {"insert", "update", "updateIf"}
Kinds == Stores \cup {"get", "event"}

\* No call under way.
Quiet == [pc |-> "idle", kind |-> "get", doc |-> None, old |-> None, new |-> None, reply |-> None]

Asked ==
    [pc : {"asked"}, kind : Kinds, doc : Docs \cup {None}, old : Values \cup {None},
     new : Values \cup {None}, reply : {None}]

\* What the store refuses, by what it holds; None when the operation may take effect.
Refusal(q, stored) ==
    CASE q.kind = "insert" /\ stored # None -> "duplicate"
      [] q.kind \in {"get", "update", "updateIf"} /\ stored = None -> "notFound"
      [] q.kind = "updateIf" /\ stored \notin {None, q.old} -> "conflict"
      [] OTHER -> None

Replied(c, answer) == [call EXCEPT ![c].pc = "done", ![c].reply = answer]

-----------------------------------------------------------------------------
Init ==
    /\ docs \in [Docs -> Values \cup {None}]
    /\ log = <<>> /\ marred = FALSE
    /\ call = [c \in Clients |-> Quiet]

\* A client may call again in the step in which it takes its last reply.
Call(c) ==
    /\ call[c].pc \in {"idle", "done"}
    /\ call'[c] \in Asked
    /\ call' = [call EXCEPT ![c] = call'[c]]
    /\ UNCHANGED <<docs, log, marred>>

Refuse(c) ==
    /\ call[c].pc = "asked" /\ call[c].kind # "event"
    /\ Refusal(call[c], docs[call[c].doc]) # None
    /\ call' = Replied(c, Refusal(call[c], docs[call[c].doc]))
    /\ UNCHANGED <<docs, log, marred>>

Get(c) ==
    /\ call[c].pc = "asked" /\ call[c].kind = "get" /\ docs[call[c].doc] # None
    /\ call' = Replied(c, docs[call[c].doc])
    /\ UNCHANGED <<docs, log, marred>>

\* The operation takes effect; its reply comes later.
Commit(c) ==
    /\ call[c].pc = "asked" /\ call[c].kind \in Stores
    /\ Refusal(call[c], docs[call[c].doc]) = None
    /\ docs' = [docs EXCEPT ![call[c].doc] = call[c].new]
    /\ call' = [call EXCEPT ![c].pc = "committed"]
    /\ UNCHANGED <<log, marred>>

CommitEvent(c) ==
    /\ call[c].pc = "asked" /\ call[c].kind = "event"
    /\ log' = IF marred THEN log ELSE Append(log, call[c].new)
    /\ marred' = FALSE
    /\ call' = [call EXCEPT ![c].pc = "committed"]
    /\ docs' = docs

Return(c) ==
    /\ call[c].pc = "committed"
    /\ call' = Replied(c, "ok")
    /\ UNCHANGED <<docs, log, marred>>

\* What the end of these clients' calls may make of the log: only an append mars it.
MarredBy(some) ==
    IF \E c \in some : call[c].pc = "asked" /\ call[c].kind = "event"
    THEN {marred, TRUE} ELSE {marred}

\* The disk failed: a document is as it was, an event may have reached the log all the same.
Fail(c) ==
    /\ \/ call[c].pc = "asked" /\ call[c].kind \in Stores \cup {"event"}
       \/ call[c].pc = "committed" /\ call[c].kind = "event"
    /\ call' = Replied(c, "io")
    /\ marred' \in MarredBy({c})
    /\ UNCHANGED <<docs, log>>

\* A client is gone, alone or with the process: only its call and its reply are lost.
Leave ==
    /\ \E gone \in SUBSET Clients :
         /\ call' = [c \in Clients |-> IF c \in gone THEN Quiet ELSE call[c]]
         /\ marred' \in MarredBy(gone)
    /\ UNCHANGED <<docs, log>>

Next ==
    \/ \E c \in Clients :
         Call(c) \/ Refuse(c) \/ Get(c) \/ Commit(c) \/ CommitEvent(c) \/ Return(c) \/ Fail(c)
    \/ Leave

Spec == Init /\ [][Next]_vars
=============================================================================
