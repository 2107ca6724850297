---------------------------- MODULE TeamRunProofs ----------------------------
(***************************************************************************)
(* The model-backed Team, proved for any number of runs and any budgets,   *)
(* whatever models answer and whoever cancels: the ledger of requests is   *)
(* true, results are whole, a run keeps within its limits, and what all    *)
(* runs spend together overshoots the ceiling by less than one answer of   *)
(* each.                                                                   *)
(***************************************************************************)
EXTENDS TeamRun, SequenceTheorems, FiniteSetTheorems, TLAPS

-----------------------------------------------------------------------------
(* What holds of one run: its task's state s, its rows of the ledger, the  *)
(* requests it sent, its Job and its result.                               *)

\* The tool being run is the first of the calls left.
Typed(s, rows, sent, j, f) ==
    /\ s \in Loops /\ (s.pc = "tool" => s.todo # <<>>)
    /\ rows \in Seq(Rows) /\ sent \in SUBSET Nat
    /\ j \in {None, "Running", "Ended"} /\ f \in Results

\* A request about to be made is paid for already, by a turn or a retry.
Ahead(pc) == IF pc \in {"check", "open", "backoff"} THEN 1 ELSE 0

Limited(s, rows) ==
    /\ Len(rows) <= MaxTurns + WrapUps + MaxRetries
    /\ s.pc \in InLoop =>
         /\ Len(rows) + Ahead(s.pc) <= s.turns + s.retries
         /\ s.turns <= MaxTurns + s.wraps
         /\ s.wrapping => s.wraps > 0
    /\ s.calls <= MaxCalls \/ s.wraps > 0
    /\ s.inspections <= MaxInspections

RowTrue(row, i, rows, sent) ==
    /\ row.status = "started" => i = Len(rows)
    /\ row.status = "not_sent" => i \notin sent
    /\ row.status = "closed" => i \in sent

\* Between two requests every row is closed; during one the last row is open, and the request
\* was sent as far as the task knows.
Between == {"head", "check", "open", "backoff", "calls", "tool"}
During == {"send", "wire", "close"}

Recorded(s, rows, sent) ==
    /\ sent \subseteq 1 .. Len(rows)
    /\ \A i \in 1 .. Len(rows) : RowTrue(rows[i], i, rows, sent)
    /\ s.pc = "off" => rows = <<>>
    /\ s.pc \in Between => \A i \in 1 .. Len(rows) : rows[i].status # "started"
    /\ s.pc \in During => Len(rows) > 0 /\ rows[Len(rows)].status = "started"
    /\ s.pc = "send" => Len(rows) \notin sent
    /\ s.pc = "wire" => Len(rows) \in sent
    /\ s.pc = "close" => (Len(rows) \in sent <=> s.answer.kind # "not_sent")

\* A run that was cancelled in its loop concludes nothing, and one that claims success has
\* proposed nothing.
Whole(s, j, f) ==
    /\ s.pc # "done" => f = NoResult
    /\ s.pc = "off" => j = None
    /\ s.pc = "ended" /\ s.token => s.outcome \notin Terminal
    /\ s.pc = "ended" /\ s.outcome = "solved" => s.proposals = 0
    /\ s.pc = "done" /\ s.token => f.outcome \in {None, "Failed"}
    /\ f.proposals > 0 => f.outcome = "diagnosis"

Good(s, rows, sent, j, f) ==
    Typed(s, rows, sent, j, f) /\ Limited(s, rows) /\ Recorded(s, rows, sent) /\ Whole(s, j, f)

\* What every step relies on.
TeamInv ==
    /\ run \in [Runs -> Loops] /\ ledger \in [Runs -> Seq(Rows)] /\ seen \in [Runs -> SUBSET Nat]
    /\ job \in [Runs -> {None, "Running", "Ended"}] /\ final \in [Runs -> Results]
    /\ mode \in {"Running", "FullyFrozen"}
    /\ up \in BOOLEAN /\ cancels \in 0 .. MaxCancels /\ faults \in 0 .. MaxFaults
    /\ \A r \in Runs : Good(run[r], ledger[r], seen[r], job[r], final[r])
    /\ ~up => \A r \in Runs : run[r].pc \in {"off", "done"}

-----------------------------------------------------------------------------
(* How one run goes on.  Nothing of this is about the others. *)

\* A run whose token is set in its loop, and one that is told to end.
LEMMA Told ==
    ASSUME NEW s, NEW rows, NEW sent, NEW j, NEW f, Good(s, rows, sent, j, f),
           NEW token \in BOOLEAN, NEW grace \in BOOLEAN, s.token => token,
           token => s.token \/ s.pc \in InLoop
    PROVE  Good([s EXCEPT !.token = token, !.grace = grace], rows, sent, j, f)
  <1> DEFINE t == [s EXCEPT !.token = token, !.grace = grace]
  <1>1. s \in Loops
    BY DEF Good, Typed
  <1>2. /\ t \in Loops /\ t.token = token
        /\ t.pc = s.pc /\ t.turns = s.turns /\ t.retries = s.retries /\ t.wraps = s.wraps
        /\ t.wrapping = s.wrapping /\ t.calls = s.calls /\ t.inspections = s.inspections
        /\ t.answer = s.answer /\ t.outcome = s.outcome /\ t.proposals = s.proposals
        /\ t.todo = s.todo
    BY <1>1 DEF Loops
  <1> HIDE DEF t
  <1>3. Typed(t, rows, sent, j, f) /\ Limited(t, rows) /\ Recorded(t, rows, sent)
    BY <1>2 DEF Good, Typed, Limited, Recorded
  <1>4. Whole(t, j, f)
    BY <1>2 DEF Good, Whole, InLoop
  <1> QED
    BY <1>3, <1>4 DEF Good, t

\* A run that is over, in its loop or as a whole.
LEMMA OffTyped == Off \in Loops /\ NoAnswer \in Answer /\ NoResult \in Results
  BY TeamConstants DEF Off, Loops, NoAnswer, Answer, NoResult, Results, Kinds, Outcomes, InLoop

LEMMA EndsRun ==
    ASSUME NEW s, NEW rows, NEW sent, NEW j, NEW f, Good(s, rows, sent, j, f), s.pc \in InLoop,
           NEW outcome \in Outcomes, outcome \in Terminal => ~s.token,
           outcome = "solved" => s.proposals = 0
    PROVE  Good(Ended(s, outcome), rows, sent, j, f)
  <1> DEFINE t == Ended(s, outcome)
  <1>1. s \in Loops
    BY DEF Good, Typed
  <1>2. /\ t \in Loops /\ t.pc = "ended" /\ t.outcome = outcome /\ t.proposals = s.proposals
        /\ t.token = s.token /\ t.calls = 0 /\ t.inspections = 0
    BY <1>1, OffTyped DEF Loops, Ended, Off
  <1> HIDE DEF t
  <1>3. Typed(t, rows, sent, j, f) /\ Limited(t, rows)
    BY <1>2, TeamConstants DEF Good, Typed, Limited, InLoop
  <1>4. Recorded(t, rows, sent)
    BY <1>2 DEF Good, Recorded, Between, During
  <1>5. Whole(t, j, f)
    BY <1>2 DEF Good, Whole, InLoop
  <1> QED
    BY <1>3, <1>4, <1>5 DEF Good, t

LEMMA RunGone ==
    ASSUME NEW s, NEW rows, NEW sent, NEW j, NEW f, Good(s, rows, sent, j, f),
           NEW pc \in {"error", "done"}, NEW k \in {None, "Running", "Ended"}, NEW g \in Results,
           s.pc # "off", pc = "error" => g = NoResult,
           s.token => g.outcome \in {None, "Failed"}, g.proposals > 0 => g.outcome = "diagnosis"
    PROVE  Good(Gone(s, pc), rows, sent, k, g)
  <1> DEFINE t == Gone(s, pc)
  <1>1. s \in Loops
    BY DEF Good, Typed
  <1>2. t \in Loops /\ t.pc = pc /\ t.token = s.token /\ t.calls = 0 /\ t.inspections = 0
    BY <1>1, OffTyped DEF Loops, Gone, Off
  <1> HIDE DEF t
  <1>3. Typed(t, rows, sent, k, g) /\ Limited(t, rows)
    BY <1>2, TeamConstants DEF Good, Typed, Limited, InLoop
  <1>4. Recorded(t, rows, sent)
    BY <1>2 DEF Good, Recorded, Between, During
  <1>5. Whole(t, k, g)
    BY <1>2 DEF Good, Whole
  <1> QED
    BY <1>3, <1>4, <1>5 DEF Good, t

\* Places of the loop.
LEMMA Places ==
    /\ InLoop = Between \cup During /\ Between \cap During = {}
    /\ "off" \notin InLoop /\ "ended" \notin InLoop /\ "done" \notin InLoop
  BY DEF InLoop, Between, During

\* A run goes on from one place of the loop to another, between two requests.
LEMMA GoesOn ==
    ASSUME NEW s, NEW rows, NEW sent, NEW j, NEW f, Good(s, rows, sent, j, f),
           NEW t \in Loops, s.pc \in Between, t.pc \in Between, Limited(t, rows),
           t.pc = "tool" => t.todo # <<>>
    PROVE  Good(t, rows, sent, j, f)
  <1>1. Typed(t, rows, sent, j, f)
    BY DEF Good, Typed
  <1>2. Recorded(t, rows, sent)
    BY DEF Good, Recorded, Between, During
  <1>3. Whole(t, j, f)
    BY DEF Good, Whole, Between
  <1> QED
    BY <1>1, <1>2, <1>3 DEF Good

\* A turn is one of the budget, or one to wrap up.
LEMMA StartsTurn ==
    ASSUME NEW s, NEW rows, NEW sent, NEW j, NEW f, Good(s, rows, sent, j, f), s.pc = "head",
           OutOfBudget(s) => WrapUpLeft(s)
    PROVE  Good(NextTurn(s), rows, sent, j, f)
  <1> DEFINE t == NextTurn(s)
  <1>1. s \in Loops /\ Limited(s, rows) /\ rows \in Seq(Rows) /\ Len(rows) \in Nat
    BY LenProperties DEF Good, Typed
  <1>2. /\ s.turns \in Nat /\ s.wraps \in 0 .. WrapUps /\ s.calls \in Nat /\ s.exhausted \in BOOLEAN
        /\ OutOfBudget(s) \in BOOLEAN
    BY <1>1 DEF Loops, OutOfBudget
  <1>3. OutOfBudget(s) => s.wraps + 1 \in 0 .. WrapUps
    BY <1>2, TeamConstants DEF WrapUpLeft
  <1>4. /\ t \in Loops /\ t.pc = "check" /\ t.turns = s.turns + 1 /\ t.retries = s.retries
        /\ t.calls = s.calls /\ t.inspections = s.inspections
        /\ t.wrapping = OutOfBudget(s)
        /\ t.wraps = IF OutOfBudget(s) THEN s.wraps + 1 ELSE s.wraps
    <2> HIDE DEF t
    <2>2. CASE OutOfBudget(s)
      <3>1. t = [s EXCEPT !.pc = "check", !.turns = s.turns + 1, !.exhausted = TRUE,
                          !.wrapping = TRUE, !.wraps = s.wraps + 1]
        BY <1>2, <2>2 DEF NextTurn, t
      <3>2. s.turns + 1 \in Nat /\ s.wraps + 1 \in 0 .. WrapUps /\ OutOfBudget(s) = TRUE
        BY <1>2, <1>3, <2>2
      <3>3. /\ t \in Loops /\ t.pc = "check" /\ t.turns = s.turns + 1 /\ t.retries = s.retries
            /\ t.calls = s.calls /\ t.inspections = s.inspections
            /\ t.wrapping = TRUE /\ t.wraps = s.wraps + 1
        BY <1>1, <3>1, <3>2 DEF Loops, InLoop
      <3> QED
        BY <2>2, <3>2, <3>3
    <2>3. CASE ~OutOfBudget(s)
      <3>1. t = [s EXCEPT !.pc = "check", !.turns = s.turns + 1, !.exhausted = FALSE,
                          !.wrapping = FALSE, !.wraps = s.wraps]
        BY <1>2, <2>3 DEF NextTurn, t
      <3>2. s.turns + 1 \in Nat /\ s.wraps \in 0 .. WrapUps /\ OutOfBudget(s) = FALSE
        BY <1>2, <2>3
      <3>3. /\ t \in Loops /\ t.pc = "check" /\ t.turns = s.turns + 1 /\ t.retries = s.retries
            /\ t.calls = s.calls /\ t.inspections = s.inspections
            /\ t.wrapping = FALSE /\ t.wraps = s.wraps
        BY <1>1, <3>1, <3>2 DEF Loops, InLoop
      <3> QED
        BY <2>3, <3>2, <3>3
    <2> QED
      BY <2>2, <2>3
  <1> HIDE DEF t
  <1>5. Limited(t, rows)
    <2>1. ~OutOfBudget(s) => s.turns < MaxTurns
      BY <1>2, TeamConstants DEF OutOfBudget
    <2>2. Len(rows) <= s.turns + s.retries /\ s.turns <= MaxTurns + s.wraps /\ s.retries \in Nat
      BY <1>1 DEF Limited, Ahead, InLoop, Loops
    <2> DEFINE length == Len(rows)
    <2>3. length \in Nat /\ length <= MaxTurns + WrapUps + MaxRetries
      BY <1>1 DEF Limited
    <2>4. length + 1 <= t.turns + t.retries /\ t.turns <= MaxTurns + t.wraps
      <3> HIDE DEF length
      <3>1. length <= s.turns + s.retries
        BY <2>2 DEF length
      <3>2. MaxTurns \in Nat /\ s.wraps \in Nat
        BY <1>2, TeamConstants
      <3>3. CASE OutOfBudget(s)
        BY <1>2, <1>4, <2>2, <2>3, <3>1, <3>2, <3>3
      <3>4. CASE ~OutOfBudget(s)
        BY <1>2, <1>4, <2>1, <2>2, <2>3, <3>1, <3>2, <3>4
      <3> QED
        BY <3>3, <3>4
    <2>5. t.wrapping => t.wraps > 0
      BY <1>2, <1>4
    <2>6. t.calls <= MaxCalls \/ t.wraps > 0
      BY <1>1, <1>2, <1>4 DEF Limited
    <2> QED
      BY <1>1, <1>4, <2>4, <2>5, <2>6 DEF Limited, Ahead
  <1> QED
    BY <1>4, <1>5, GoesOn DEF Between, t

\* A step that moves the place only.
LEMMA PlaceMoves ==
    ASSUME NEW s \in Loops, NEW pc \in InLoop \cup {"ended"}
    PROVE  /\ To(s, pc) \in Loops /\ To(s, pc).pc = pc /\ To(s, pc).turns = s.turns
           /\ To(s, pc).retries = s.retries /\ To(s, pc).wraps = s.wraps
           /\ To(s, pc).wrapping = s.wrapping /\ To(s, pc).calls = s.calls
           /\ To(s, pc).inspections = s.inspections /\ To(s, pc).answer = s.answer
           /\ To(s, pc).token = s.token
  BY DEF To, Loops

LEMMA Proceeds ==
    ASSUME NEW s, NEW rows, NEW sent, NEW j, NEW f, Good(s, rows, sent, j, f), NEW pc,
           \/ s.pc = "check" /\ pc = "open"
           \/ s.pc = "backoff" /\ pc = "check"
           \/ s.pc = "calls" /\ pc = "head"
    PROVE  Good(To(s, pc), rows, sent, j, f)
  <1> DEFINE t == To(s, pc)
  <1>1. s \in Loops /\ Limited(s, rows)
    BY DEF Good, Typed
  <1>2. /\ t \in Loops /\ t.pc = pc /\ t.turns = s.turns /\ t.retries = s.retries
        /\ t.wraps = s.wraps /\ t.wrapping = s.wrapping /\ t.calls = s.calls
        /\ t.inspections = s.inspections
    BY <1>1, PlaceMoves DEF InLoop
  <1> HIDE DEF t
  <1>3. Limited(t, rows)
    BY <1>1, <1>2 DEF Limited, Ahead, InLoop
  <1> QED
    BY <1>2, <1>3, GoesOn DEF Between, t

\* The record of a request precedes it.
LEMMA OpensRow ==
    ASSUME NEW s, NEW rows, NEW sent, NEW j, NEW f, Good(s, rows, sent, j, f), s.pc = "open"
    PROVE  Good(To(s, "send"), Append(rows, Row("started", 0)), sent, j, f)
  <1> DEFINE t == To(s, "send")
             more == Append(rows, Row("started", 0))
             length == Len(rows)
  <1>1. /\ s \in Loops /\ Limited(s, rows) /\ Recorded(s, rows, sent) /\ rows \in Seq(Rows)
        /\ length \in Nat
    BY LenProperties DEF Good, Typed
  <1>2. Row("started", 0) \in Rows /\ Row("started", 0).status = "started"
    BY DEF Row, Rows
  <1>3. /\ more \in Seq(Rows) /\ Len(more) = length + 1 /\ more[length + 1].status = "started"
        /\ \A i \in 1 .. length : more[i] = rows[i]
    BY <1>1, <1>2, AppendProperties
  <1>4. /\ t \in Loops /\ t.pc = "send" /\ t.turns = s.turns /\ t.retries = s.retries
        /\ t.wraps = s.wraps /\ t.wrapping = s.wrapping /\ t.calls = s.calls
        /\ t.inspections = s.inspections
    BY <1>1, PlaceMoves DEF InLoop
  <1> HIDE DEF t
  <1>5. Typed(t, more, sent, j, f)
    BY <1>3, <1>4 DEF Good, Typed
  <1>6. Limited(t, more)
    <2>1. /\ length + 1 <= s.turns + s.retries /\ s.turns <= MaxTurns + s.wraps
          /\ s.wraps \in 0 .. WrapUps /\ s.retries \in 0 .. MaxRetries /\ s.turns \in Nat
      BY <1>1 DEF Limited, Ahead, InLoop, Loops
    <2>2. length + 1 <= MaxTurns + WrapUps + MaxRetries
      <3> HIDE DEF length
      <3>1. MaxTurns \in Nat /\ WrapUps \in Nat /\ MaxRetries \in Nat
        BY TeamConstants
      <3>2. s.wraps \in Nat /\ s.wraps <= WrapUps /\ s.retries \in Nat /\ s.retries <= MaxRetries
        BY <2>1, <3>1
      <3> QED
        BY <1>1, <2>1, <3>1, <3>2
    <2> HIDE DEF more, length
    <2> QED
      BY <1>1, <1>3, <1>4, <2>1, <2>2 DEF Limited, Ahead, InLoop
  <1>7. Recorded(t, more, sent)
    <2>1. /\ sent \subseteq 1 .. length
          /\ \A i \in 1 .. length : RowTrue(rows[i], i, rows, sent) /\ rows[i].status # "started"
      BY <1>1 DEF Recorded, Between
    <2> HIDE DEF more, length
    <2>2. /\ sent \subseteq 1 .. length + 1 /\ length + 1 \notin sent
          /\ \A i \in 1 .. length + 1 : i \in 1 .. length \/ i = length + 1
      BY <1>1, <2>1
    <2>3. \A i \in 1 .. length + 1 : RowTrue(more[i], i, more, sent)
      BY <1>1, <1>3, <2>1, <2>2 DEF RowTrue
    <2> QED
      BY <1>1, <1>3, <1>4, <2>2, <2>3 DEF Recorded, Between, During
  <1>8. Whole(t, j, f)
    BY <1>4 DEF Good, Whole
  <1> QED
    BY <1>5, <1>6, <1>7, <1>8 DEF Good, t

\* What becomes of a request: not sent, answered, or hung up on.
LEMMA Replied ==
    ASSUME NEW s, NEW rows, NEW sent, NEW j, NEW f, Good(s, rows, sent, j, f),
           s.pc \in {"send", "wire"}, NEW a \in Answer, a.kind = "not_sent" <=> s.pc = "send"
    PROVE  Good([s EXCEPT !.pc = "close", !.answer = a], rows, sent, j, f)
  <1> DEFINE t == [s EXCEPT !.pc = "close", !.answer = a]
  <1>1. s \in Loops /\ Limited(s, rows) /\ Recorded(s, rows, sent)
    BY DEF Good, Typed
  <1>2. /\ t \in Loops /\ t.pc = "close" /\ t.turns = s.turns /\ t.retries = s.retries
        /\ t.wraps = s.wraps /\ t.wrapping = s.wrapping /\ t.calls = s.calls
        /\ t.inspections = s.inspections /\ t.answer = a
    BY <1>1 DEF Loops, InLoop
  <1> HIDE DEF t
  <1>3. Typed(t, rows, sent, j, f) /\ Limited(t, rows)
    BY <1>1, <1>2 DEF Good, Typed, Limited, Ahead, InLoop
  <1>4. Recorded(t, rows, sent)
    BY <1>1, <1>2 DEF Recorded, Between, During
  <1>5. Whole(t, j, f)
    BY <1>2 DEF Good, Whole
  <1> QED
    BY <1>3, <1>4, <1>5 DEF Good, t

LEMMA KindOnly ==
    ASSUME NEW s \in Loops, NEW kind \in {"not_sent", "cancelled"}
    PROVE  \E a \in Answer :
              a.kind = kind
              /\ [s EXCEPT !.pc = "close", !.answer.kind = kind] = [s EXCEPT !.pc = "close", !.answer = a]
  <1>1. s.answer \in Answer
    BY DEF Loops
  <1>2. [s.answer EXCEPT !.kind = kind] \in Answer /\ [s.answer EXCEPT !.kind = kind].kind = kind
    BY <1>1 DEF Answer
  <1>3. [s EXCEPT !.pc = "close", !.answer.kind = kind]
          = [s EXCEPT !.pc = "close", !.answer = [s.answer EXCEPT !.kind = kind]]
    BY DEF Loops
  <1> QED
    BY <1>2, <1>3

LEMMA Sends ==
    ASSUME NEW s, NEW rows, NEW sent, NEW j, NEW f, Good(s, rows, sent, j, f), s.pc = "send"
    PROVE  Good(To(s, "wire"), rows, sent \cup {Len(rows)}, j, f)
  <1> DEFINE t == To(s, "wire")
             more == sent \cup {Len(rows)}
  <1>1. /\ s \in Loops /\ Limited(s, rows) /\ Recorded(s, rows, sent) /\ rows \in Seq(Rows)
        /\ Len(rows) \in Nat
    BY LenProperties DEF Good, Typed
  <1>2. /\ t \in Loops /\ t.pc = "wire" /\ t.turns = s.turns /\ t.retries = s.retries
        /\ t.wraps = s.wraps /\ t.wrapping = s.wrapping /\ t.calls = s.calls
        /\ t.inspections = s.inspections
    BY <1>1, PlaceMoves DEF InLoop
  <1> HIDE DEF t
  <1>3. Typed(t, rows, more, j, f) /\ Limited(t, rows)
    BY <1>1, <1>2 DEF Good, Typed, Limited, Ahead, InLoop
  <1>4. Recorded(t, rows, more)
    <2>1. Len(rows) > 0 /\ rows[Len(rows)].status = "started" /\ sent \subseteq 1 .. Len(rows)
      BY <1>1 DEF Recorded, During
    <2>2. more \subseteq 1 .. Len(rows)
      <3>1. Len(rows) \in 1 .. Len(rows)
        BY <1>1, <2>1
      <3> QED
        BY <2>1, <3>1
    <2>3. \A i \in 1 .. Len(rows) : RowTrue(rows[i], i, rows, more)
      BY <1>1, <2>1 DEF Recorded, RowTrue
    <2> QED
      BY <1>2, <2>1, <2>2, <2>3 DEF Recorded, Between, During
  <1>5. Whole(t, j, f)
    BY <1>2 DEF Good, Whole
  <1> QED
    BY <1>3, <1>4, <1>5 DEF Good, t

\* The finish record of a request tells whether it was sent.
FinishRow(s) == Row(IF s.answer.kind = "not_sent" THEN "not_sent" ELSE "closed", s.answer.tokens)

LEMMA Settles ==
    ASSUME NEW s, NEW rows, NEW sent, NEW j, NEW f, Good(s, rows, sent, j, f), s.pc = "close",
           NEW t \in Loops, t.pc \in {"ended", "calls", "backoff"}, Limited(t, rows), Whole(t, j, f)
    PROVE  Good(t, [rows EXCEPT ![Len(rows)] = FinishRow(s)], sent, j, f)
  <1> DEFINE row == FinishRow(s)
             more == [rows EXCEPT ![Len(rows)] = row]
             length == Len(rows)
  <1>1. /\ s \in Loops /\ Recorded(s, rows, sent) /\ rows \in Seq(Rows) /\ length \in Nat
        /\ s.answer \in Answer
    BY LenProperties DEF Good, Typed, Loops
  <1>2. /\ row \in Rows /\ row.status # "started"
        /\ row.status = "not_sent" <=> s.answer.kind = "not_sent"
        /\ row.status = "closed" <=> s.answer.kind # "not_sent"
    BY <1>1 DEF FinishRow, Row, Rows, Answer
  <1>3. /\ length > 0 /\ (length \in sent <=> s.answer.kind # "not_sent")
        /\ sent \subseteq 1 .. length /\ \A i \in 1 .. length : RowTrue(rows[i], i, rows, sent)
    BY <1>1 DEF Recorded, During
  <1> HIDE DEF row
  <1>4. /\ more \in Seq(Rows) /\ Len(more) = length
        /\ \A i \in 1 .. length : more[i] = IF i = length THEN row ELSE rows[i]
    <2>1. Len(rows) \in 1 .. Len(rows)
      BY <1>1, <1>3
    <2> QED
      BY <1>1, <1>2, <2>1, ExceptSeq
  <1> HIDE DEF more
  <1>5. \A i \in 1 .. length : RowTrue(more[i], i, more, sent) /\ more[i].status # "started"
    BY <1>1, <1>2, <1>3, <1>4 DEF RowTrue
  <1>6. Typed(t, more, sent, j, f)
    BY <1>4 DEF Good, Typed
  <1>7. Limited(t, more)
    BY <1>4 DEF Limited
  <1>8. Recorded(t, more, sent)
    BY <1>3, <1>4, <1>5 DEF Recorded, Between, During
  <1> QED
    BY <1>6, <1>7, <1>8 DEF Good, more, row

LEMMA EndedFields ==
    ASSUME NEW s \in Loops, NEW outcome \in Outcomes
    PROVE  /\ Ended(s, outcome) \in Loops /\ Ended(s, outcome).pc = "ended"
           /\ Ended(s, outcome).outcome = outcome /\ Ended(s, outcome).calls = 0
           /\ Ended(s, outcome).inspections = 0
  BY OffTyped DEF Loops, Ended, Off

\* What the loop does with an answer once it is recorded.
LEMMA Answered ==
    ASSUME NEW s, NEW rows, NEW sent, NEW j, NEW f, Good(s, rows, sent, j, f), s.pc = "close"
    PROVE  Good(AfterAttempt(s), [rows EXCEPT ![Len(rows)] = FinishRow(s)], sent, j, f)
  <1> DEFINE a == s.answer
             spent == s.spent + a.tokens
             t == [s EXCEPT !.answer = NoAnswer, !.spent = spent]
             more == [rows EXCEPT ![Len(rows)] = FinishRow(s)]
  <1>1. s \in Loops /\ Limited(s, rows) /\ Whole(s, j, f) /\ Len(rows) \in Nat
    BY LenProperties DEF Good, Typed
  <1>2. a.kind \in Kinds \cup {None, "not_sent", "cancelled"} /\ a.tokens \in Nat /\ a.tools \in Seq(Tools)
    BY <1>1 DEF Loops, Answer
  <1>3. /\ t \in Loops /\ t.turns = s.turns /\ t.retries = s.retries /\ t.pc = "close"
        /\ t.wraps = s.wraps /\ t.wrapping = s.wrapping /\ t.calls = s.calls
        /\ t.inspections = s.inspections /\ t.token = s.token
    <2>1. spent \in Nat
      BY <1>1, <1>2 DEF Loops
    <2> HIDE DEF spent, a
    <2> QED
      BY <1>1, <2>1, OffTyped DEF Loops
  <1> HIDE DEF t, a, spent
  <1>4. ASSUME NEW outcome \in {"Cancelled", "Text", "Failed"}
        PROVE  Good(Ended(t, outcome), more, sent, j, f)
    <2> DEFINE u == Ended(t, outcome)
    <2>1. /\ u \in Loops /\ u.pc = "ended" /\ u.outcome = outcome /\ u.calls = 0
          /\ u.inspections = 0
      BY <1>3, EndedFields DEF Outcomes
    <2> HIDE DEF u
    <2>2. Limited(u, rows)
      BY <1>1, <2>1, TeamConstants DEF Limited, InLoop
    <2>3. Whole(u, j, f)
      BY <1>1, <2>1 DEF Whole, Terminal
    <2> QED
      BY <2>1, <2>2, <2>3, Settles DEF u
  <1>5. Good([t EXCEPT !.pc = "calls", !.todo = a.tools], more, sent, j, f)
    <2> DEFINE u == [t EXCEPT !.pc = "calls", !.todo = a.tools]
    <2>1. /\ u \in Loops /\ u.turns = s.turns /\ u.retries = s.retries /\ u.pc = "calls"
          /\ u.wraps = s.wraps /\ u.wrapping = s.wrapping /\ u.calls = s.calls
          /\ u.inspections = s.inspections
      BY <1>2, <1>3 DEF Loops, InLoop
    <2> HIDE DEF u
    <2>2. Limited(u, rows)
      BY <1>1, <2>1 DEF Limited, Ahead, InLoop
    <2>3. Whole(u, j, f)
      BY <1>1, <2>1 DEF Whole
    <2> QED
      BY <2>1, <2>2, <2>3, Settles DEF u
  <1>6. ASSUME s.retries < MaxRetries
        PROVE  Good([t EXCEPT !.pc = "backoff", !.retries = @ + 1], more, sent, j, f)
    <2> DEFINE u == [t EXCEPT !.pc = "backoff", !.retries = @ + 1]
    <2>1. s.retries \in 0 .. MaxRetries /\ s.retries + 1 \in 0 .. MaxRetries
      BY <1>1, <1>6, TeamConstants DEF Loops
    <2>2. /\ u \in Loops /\ u.turns = s.turns /\ u.retries = s.retries + 1 /\ u.pc = "backoff"
          /\ u.wraps = s.wraps /\ u.wrapping = s.wrapping /\ u.calls = s.calls
          /\ u.inspections = s.inspections
      BY <1>3, <2>1 DEF Loops, InLoop
    <2> HIDE DEF u
    <2>3. Limited(u, rows)
      <3>1. Len(rows) <= s.turns + s.retries /\ s.turns \in Nat /\ s.retries \in Nat
        BY <1>1, <2>1 DEF Limited, Ahead, InLoop, Loops
      <3>2. Len(rows) + 1 <= s.turns + (s.retries + 1)
        BY <1>1, <3>1
      <3> QED
        BY <1>1, <2>2, <3>2 DEF Limited, Ahead, InLoop
    <2>4. Whole(u, j, f)
      BY <1>1, <2>2 DEF Whole
    <2> QED
      BY <2>2, <2>3, <2>4, Settles DEF u
  <1>7. CASE a.kind \in {"not_sent", "cancelled"}
    <2>1. AfterAttempt(s) = Ended(t, "Cancelled")
      BY <1>7 DEF AfterAttempt, a, t, spent
    <2> QED
      BY <1>4, <2>1
  <1>8. CASE a.kind = "turn" /\ a.tools # <<>>
    <2>1. AfterAttempt(s) = [t EXCEPT !.pc = "calls", !.todo = a.tools]
      BY <1>8 DEF AfterAttempt, a, t, spent
    <2> QED
      BY <1>5, <2>1
  <1>9. CASE a.kind = "retry" /\ s.retries < MaxRetries
    <2>1. AfterAttempt(s) = [t EXCEPT !.pc = "backoff", !.retries = @ + 1]
      BY <1>9 DEF AfterAttempt, a, t, spent
    <2> QED
      BY <1>6, <1>9, <2>1
  <1>10. CASE a.kind = "text"
    <2>1. AfterAttempt(s) = Ended(t, "Text")
      BY <1>10 DEF AfterAttempt, a, t, spent
    <2> QED
      BY <1>4, <2>1
  <1>11. CASE /\ a.kind \notin {"not_sent", "cancelled", "text"}
              /\ ~(a.kind = "turn" /\ a.tools # <<>>) /\ ~(a.kind = "retry" /\ s.retries < MaxRetries)
    <2>1. AfterAttempt(s) = Ended(t, "Failed")
      BY <1>11 DEF AfterAttempt, a, t, spent
    <2> QED
      BY <1>4, <2>1
  <1> QED
    BY <1>7, <1>8, <1>9, <1>10, <1>11

\* Among the calls of a turn: the conversation stands still, the budgets are kept.
LEMMA CallsGoOn ==
    ASSUME NEW s, NEW rows, NEW sent, NEW j, NEW f, Good(s, rows, sent, j, f),
           s.pc \in {"calls", "tool"}, NEW t \in Loops, t.pc \in {"calls", "tool"},
           t.pc = "tool" => t.todo # <<>>,
           t.turns = s.turns, t.retries = s.retries, t.wraps = s.wraps, t.wrapping = s.wrapping,
           t.calls <= MaxCalls \/ t.wraps > 0, t.inspections <= MaxInspections
    PROVE  Good(t, rows, sent, j, f)
  <1>1. Limited(s, rows)
    BY DEF Good
  <1>2. Limited(t, rows)
    BY <1>1 DEF Limited, Ahead, InLoop
  <1> QED
    BY <1>2, GoesOn DEF Between

\* A call is charged or refused.
LEMMA CallCharged ==
    ASSUME NEW s, NEW rows, NEW sent, NEW j, NEW f, Good(s, rows, sent, j, f), s.pc = "calls",
           s.todo # <<>>, NEW r
    PROVE  Good(AfterCall(s, r), rows, sent, j, f)
  <1>1. /\ s \in Loops /\ s.todo \in Seq(Tools) /\ s.calls \in Nat /\ s.wraps \in Nat
        /\ s.calls <= MaxCalls \/ s.wraps > 0
        /\ s.wrapping => s.wraps > 0
        /\ s.inspections <= MaxInspections /\ s.wrapping \in BOOLEAN
    BY TeamConstants DEF Good, Typed, Limited, InLoop, Loops
  <1>2. Tail(s.todo) \in Seq(Tools)
    BY <1>1, HeadTailProperties
  <1> DEFINE todo == Tail(s.todo)
             calls == s.calls + 1
  <1>3. calls \in Nat /\ (s.calls < MaxCalls => calls <= MaxCalls)
    BY <1>1, TeamConstants
  <1> HIDE DEF todo, calls
  <1>4. Good([s EXCEPT !.todo = todo], rows, sent, j, f)
    <2> DEFINE t == [s EXCEPT !.todo = todo]
    <2>1. /\ t \in Loops /\ t.pc = "calls" /\ t.turns = s.turns /\ t.retries = s.retries
          /\ t.wraps = s.wraps /\ t.wrapping = s.wrapping /\ t.calls = s.calls
          /\ t.inspections = s.inspections
      BY <1>1, <1>2 DEF Loops, todo
    <2> HIDE DEF t
    <2> QED
      BY <1>1, <2>1, CallsGoOn DEF t
  <1>5. Good([[s EXCEPT !.todo = todo] EXCEPT !.exhausted = TRUE], rows, sent, j, f)
    <2> DEFINE t == [[s EXCEPT !.todo = todo] EXCEPT !.exhausted = TRUE]
    <2>1. /\ t \in Loops /\ t.pc = "calls" /\ t.turns = s.turns /\ t.retries = s.retries
          /\ t.wraps = s.wraps /\ t.wrapping = s.wrapping /\ t.calls = s.calls
          /\ t.inspections = s.inspections
      BY <1>1, <1>2 DEF Loops, todo
    <2> HIDE DEF t
    <2> QED
      BY <1>1, <2>1, CallsGoOn DEF t
  <1>6. ASSUME s.wrapping \/ s.calls < MaxCalls
        PROVE  /\ Good([s EXCEPT !.calls = calls, !.pc = "tool"], rows, sent, j, f)
               /\ Good([[s EXCEPT !.todo = todo] EXCEPT !.calls = calls], rows, sent, j, f)
    <2> DEFINE t == [s EXCEPT !.calls = calls, !.pc = "tool"]
               u == [[s EXCEPT !.todo = todo] EXCEPT !.calls = calls]
    <2>1. calls <= MaxCalls \/ s.wraps > 0
      BY <1>1, <1>3, <1>6
    <2>2. /\ t \in Loops /\ t.pc = "tool" /\ t.turns = s.turns /\ t.retries = s.retries
          /\ t.wraps = s.wraps /\ t.wrapping = s.wrapping /\ t.calls = calls
          /\ t.inspections = s.inspections /\ t.todo = s.todo
      BY <1>1, <1>3 DEF Loops, InLoop
    <2>3. /\ u \in Loops /\ u.pc = "calls" /\ u.turns = s.turns /\ u.retries = s.retries
          /\ u.wraps = s.wraps /\ u.wrapping = s.wrapping /\ u.calls = calls
          /\ u.inspections = s.inspections
      BY <1>1, <1>2, <1>3 DEF Loops, todo
    <2> HIDE DEF t, u
    <2>4. Good(t, rows, sent, j, f)
      BY <1>1, <2>1, <2>2, CallsGoOn
    <2>5. Good(u, rows, sent, j, f)
      BY <1>1, <2>1, <2>3, CallsGoOn
    <2> QED
      BY <2>4, <2>5 DEF t, u
  <1> DEFINE tool == Head(s.todo)
             known == Known(r, tool)
  <1>7. /\ s.wrapping /\ ~(known /\ tool \in Terminal) => AfterCall(s, r) = [s EXCEPT !.todo = todo]
        /\ ~s.wrapping /\ s.calls >= MaxCalls
              => AfterCall(s, r) = [[s EXCEPT !.todo = todo] EXCEPT !.exhausted = TRUE]
        /\ ~(s.wrapping /\ ~(known /\ tool \in Terminal)) /\ ~(~s.wrapping /\ s.calls >= MaxCalls) /\ known
              => AfterCall(s, r) = [s EXCEPT !.calls = calls, !.pc = "tool"]
        /\ ~(s.wrapping /\ ~(known /\ tool \in Terminal)) /\ ~(~s.wrapping /\ s.calls >= MaxCalls) /\ ~known
              => AfterCall(s, r) = [[s EXCEPT !.todo = todo] EXCEPT !.calls = calls]
    <2> HIDE DEF Known
    <2> QED
      BY <1>1 DEF AfterCall, Skip, todo, calls
  <1>8. s.calls >= MaxCalls \/ s.calls < MaxCalls
    BY <1>1, TeamConstants
  <1> HIDE DEF tool, known
  <1> QED
    BY <1>4, <1>5, <1>6, <1>7, <1>8

\* A tool does its work and answers, or concludes the run.
LEMMA ToolDone ==
    ASSUME NEW s, NEW rows, NEW sent, NEW j, NEW f, Good(s, rows, sent, j, f), s.pc = "tool",
           NEW tool \in Tools
    PROVE  LET t == [Effect(s, tool) EXCEPT !.todo = Tail(@), !.pc = "calls"]
           IN  Good(IF Concludes(s, tool) THEN Ended(t, tool) ELSE t, rows, sent, j, f)
  <1> DEFINE t == [Effect(s, tool) EXCEPT !.todo = Tail(@), !.pc = "calls"]
  <1>1. /\ s \in Loops /\ s.todo \in Seq(Tools) /\ s.todo # <<>>
        /\ s.calls <= MaxCalls \/ s.wraps > 0
        /\ s.inspections \in Nat /\ s.inspections <= MaxInspections /\ s.proposals \in Nat
    BY DEF Good, Typed, Limited, Loops
  <1>2. Tail(s.todo) \in Seq(Tools)
    BY <1>1, HeadTailProperties
  <1>3. PICK inspections \in Nat, proposals \in Nat :
            /\ Effect(s, tool) = [s EXCEPT !.inspections = inspections, !.proposals = proposals]
            /\ inspections <= MaxInspections
            /\ tool = "solved" /\ ~Refused(s, tool) => proposals = 0
    <2>1. CASE Refused(s, tool)
      <3>1. Effect(s, tool) = [s EXCEPT !.inspections = s.inspections, !.proposals = s.proposals]
        BY <1>1, <2>1 DEF Effect, Loops
      <3> QED
        BY <1>1, <2>1, <3>1
    <2>2. CASE ~Refused(s, tool) /\ tool = "inspect"
      <3>1. Effect(s, tool) = [s EXCEPT !.inspections = s.inspections + 1, !.proposals = s.proposals]
        BY <1>1, <2>2 DEF Effect
      <3>2. s.inspections < MaxInspections
        BY <1>1, <2>2, TeamConstants DEF Refused
      <3>3. s.inspections + 1 \in Nat /\ s.inspections + 1 <= MaxInspections
        BY <1>1, <3>2, TeamConstants
      <3> QED
        BY <1>1, <2>2, <3>1, <3>3
    <2>3. CASE ~Refused(s, tool) /\ tool = "propose"
      <3>1. Effect(s, tool) = [s EXCEPT !.inspections = s.inspections, !.proposals = s.proposals + 1]
        BY <1>1, <2>3 DEF Effect
      <3>2. s.proposals + 1 \in Nat
        BY <1>1
      <3> QED
        BY <1>1, <2>3, <3>1, <3>2
    <2>4. CASE ~Refused(s, tool) /\ tool \notin {"inspect", "propose"}
      <3>1. Effect(s, tool) = [s EXCEPT !.inspections = s.inspections, !.proposals = s.proposals]
        BY <1>1, <2>4 DEF Effect
      <3>2. tool = "solved" => s.proposals = 0
        BY <1>1, <2>4 DEF Refused
      <3> QED
        BY <1>1, <3>1, <3>2
    <2> QED
      BY <2>1, <2>2, <2>3, <2>4
  <1>4. /\ t \in Loops /\ t.pc = "calls" /\ t.turns = s.turns /\ t.retries = s.retries
        /\ t.wraps = s.wraps /\ t.wrapping = s.wrapping /\ t.calls = s.calls
        /\ t.inspections <= MaxInspections /\ t.token = s.token
        /\ tool = "solved" /\ ~Refused(s, tool) => t.proposals = 0
    <2>1. t = [s EXCEPT !.inspections = inspections, !.proposals = proposals,
                        !.todo = Tail(s.todo), !.pc = "calls"]
      BY <1>1, <1>3 DEF Loops
    <2> DEFINE todo == Tail(s.todo)
    <2>2. todo \in Seq(Tools)
      BY <1>2
    <2> HIDE DEF t, todo
    <2>3. t = [s EXCEPT !.inspections = inspections, !.proposals = proposals,
                        !.todo = todo, !.pc = "calls"]
      BY <2>1 DEF todo
    <2> QED
      BY <1>1, <1>3, <2>2, <2>3 DEF Loops, InLoop
  <1> HIDE DEF t
  <1>5. Good(t, rows, sent, j, f)
    BY <1>1, <1>4, CallsGoOn
  <1>6. ASSUME Concludes(s, tool)
        PROVE  Good(Ended(t, tool), rows, sent, j, f)
    <2>1. tool \in Outcomes /\ ~Refused(s, tool) /\ ~t.token
      BY <1>4, <1>6 DEF Concludes, Outcomes
    <2> QED
      BY <1>4, <1>5, <2>1, EndsRun DEF InLoop
  <1> QED
    BY <1>5, <1>6 DEF t

-----------------------------------------------------------------------------
(* The steps of the system: one run moves, and the others may be told.     *)

RunOK(r) == Good(run[r], ledger[r], seen[r], job[r], final[r])

\* A run that moves is the process of a controller that is up.
LEMMA Active ==
    ASSUME TeamInv, NEW r \in Runs, run[r].pc \notin {"off", "done"}
    PROVE  up
  BY DEF TeamInv

LEMMA SetToken ==
    ASSUME NEW s, NEW rows, NEW sent, NEW j, NEW f, Good(s, rows, sent, j, f), s.pc \in InLoop
    PROVE  Good([s EXCEPT !.token = TRUE], rows, sent, j, f)
  <1>1. s \in Loops
    BY DEF Good, Typed
  <1>2. s.grace \in BOOLEAN /\ [s EXCEPT !.token = TRUE] = [s EXCEPT !.token = TRUE, !.grace = s.grace]
    BY <1>1 DEF Loops
  <1>3. Good([s EXCEPT !.token = TRUE, !.grace = s.grace], rows, sent, j, f)
    BY <1>2, Told
  <1> QED
    BY <1>2, <1>3

LEMMA RunMoves ==
    ASSUME TeamInv, NEW r \in Runs, up, up' = up,
           NEW rows, NEW sent, NEW j, NEW f,
           ledger' = [ledger EXCEPT ![r] = rows], seen' = [seen EXCEPT ![r] = sent],
           job' = [job EXCEPT ![r] = j], final' = [final EXCEPT ![r] = f],
           run' = [q \in Runs |-> run'[q]], Good(run'[r], rows, sent, j, f),
           \A q \in Runs \ {r} : \/ run'[q] = run[q]
                                 \/ run[q].pc \in InLoop /\ run'[q] = [run[q] EXCEPT !.token = TRUE],
           mode' \in {"Running", "FullyFrozen"},
           cancels' \in 0 .. MaxCancels, faults' \in 0 .. MaxFaults
    PROVE  TeamInv'
  <1>1. /\ rows \in Seq(Rows) /\ sent \in SUBSET Nat /\ j \in {None, "Running", "Ended"}
        /\ f \in Results
    BY DEF Good, Typed
  <1>2. /\ ledger' \in [Runs -> Seq(Rows)] /\ seen' \in [Runs -> SUBSET Nat]
        /\ job' \in [Runs -> {None, "Running", "Ended"}] /\ final' \in [Runs -> Results]
        /\ ledger'[r] = rows /\ seen'[r] = sent /\ job'[r] = j /\ final'[r] = f
        /\ \A q \in Runs \ {r} : /\ ledger'[q] = ledger[q] /\ seen'[q] = seen[q]
                                 /\ job'[q] = job[q] /\ final'[q] = final[q]
    BY <1>1 DEF TeamInv
  <1>3. \A q \in Runs : Good(run'[q], ledger'[q], seen'[q], job'[q], final'[q])
    <2> TAKE q \in Runs
    <2>1. CASE q = r
      BY <1>2, <2>1
    <2>2. CASE q # r
      <3>1. Good(run[q], ledger[q], seen[q], job[q], final[q])
        BY DEF TeamInv
      <3>2. Good(run'[q], ledger[q], seen[q], job[q], final[q])
        BY <2>2, <3>1, SetToken
      <3> QED
        BY <1>2, <2>2, <3>2
    <2> QED
      BY <2>1, <2>2
  <1>4. \A q \in Runs : run'[q] \in Loops
    BY <1>3 DEF Good, Typed
  <1>5. run' \in [Runs -> Loops]
    BY <1>4
  <1> QED
    BY <1>2, <1>3, <1>5 DEF TeamInv

\* What a step that leaves something alone says of it.
LEMMA Alone ==
    ASSUME TeamInv, NEW r \in Runs
    PROVE  /\ ledger = [ledger EXCEPT ![r] = ledger[r]] /\ seen = [seen EXCEPT ![r] = seen[r]]
           /\ job = [job EXCEPT ![r] = job[r]] /\ final = [final EXCEPT ![r] = final[r]]
           /\ RunOK(r) /\ run[r] \in Loops
           /\ mode \in {"Running", "FullyFrozen"} /\ cancels \in 0 .. MaxCancels
           /\ faults \in 0 .. MaxFaults
  BY DEF TeamInv, RunOK

LEMMA StepMoves ==
    ASSUME TeamInv, NEW r \in Runs, NEW next, Step(r, next)
    PROVE  /\ run' = [q \in Runs |-> run'[q]] /\ run'[r] = next
           /\ \A q \in Runs \ {r} : run'[q] = run[q]
  BY DEF TeamInv, Step

\* A step of one run that leaves everything else alone.
LEMMA OnlyRun ==
    ASSUME TeamInv, NEW r \in Runs, up, NEW next, Step(r, next), Same,
           Good(next, ledger[r], seen[r], job[r], final[r])
    PROVE  TeamInv'
  <1>1. /\ ledger' = [ledger EXCEPT ![r] = ledger[r]] /\ seen' = [seen EXCEPT ![r] = seen[r]]
        /\ job' = [job EXCEPT ![r] = job[r]] /\ final' = [final EXCEPT ![r] = final[r]]
        /\ mode' \in {"Running", "FullyFrozen"} /\ cancels' \in 0 .. MaxCancels
        /\ faults' \in 0 .. MaxFaults /\ up' = up
    BY Alone DEF Same
  <1>2. /\ run' = [q \in Runs |-> run'[q]] /\ run'[r] = next
        /\ \A q \in Runs \ {r} : run'[q] = run[q]
    BY StepMoves
  <1> QED
    BY <1>1, <1>2, RunMoves

\* Reaching the ceiling tells the others.
LEMMA BudgetMoves ==
    ASSUME TeamInv, NEW r \in Runs, NEW rows, NEW next, BudgetReason(rows, r, next)
    PROVE  /\ run' = [q \in Runs |-> run'[q]] /\ run'[r] = next
           /\ \A q \in Runs \ {r} : \/ run'[q] = run[q]
                                    \/ run[q].pc \in InLoop /\ run'[q] = [run[q] EXCEPT !.token = TRUE]
           /\ mode' \in {"Running", "FullyFrozen"}
  <1>1. run \in [Runs -> Loops] /\ mode \in {"Running", "FullyFrozen"}
    BY DEF TeamInv
  <1>2. CASE Spent(rows)
    BY <1>1, <1>2 DEF BudgetReason
  <1>3. CASE ~Spent(rows)
    BY <1>1, <1>3 DEF BudgetReason
  <1> QED
    BY <1>2, <1>3

LEMMA EndsAs ==
    ASSUME TeamInv, NEW r \in Runs, run[r].pc \in InLoop,
           NEW outcome \in {"Failed", "Text", "Cancelled", "LimitReached"}
    PROVE  Good(Ended(run[r], outcome), ledger[r], seen[r], job[r], final[r])
  <1>1. outcome \in Outcomes /\ outcome \notin Terminal /\ outcome # "solved"
    BY DEF Outcomes, Terminal
  <1> QED
    BY <1>1, Alone, EndsRun DEF RunOK

LEMMA TurnKeeps == ASSUME TeamInv, NEW r \in Runs, Turn(r) PROVE TeamInv'
  <1> DEFINE s == run[r]
             limited == RunTokens > 0 /\ s.spent >= RunTokens
             next == IF s.token THEN Ended(s, "Cancelled")
                     ELSE IF limited \/ (OutOfBudget(s) /\ ~WrapUpLeft(s))
                     THEN Ended(s, "LimitReached") ELSE NextTurn(s)
  <1>1. s.pc = "head" /\ Step(r, next) /\ Same
    BY DEF Turn
  <1>2. up
    BY <1>1, Active
  <1>3. /\ Good(Ended(s, "Cancelled"), ledger[r], seen[r], job[r], final[r])
        /\ Good(Ended(s, "LimitReached"), ledger[r], seen[r], job[r], final[r])
    BY <1>1, EndsAs DEF InLoop
  <1>4. ASSUME OutOfBudget(s) => WrapUpLeft(s)
        PROVE  Good(NextTurn(s), ledger[r], seen[r], job[r], final[r])
    BY <1>1, <1>4, Alone, StartsTurn DEF RunOK
  <1> HIDE DEF s, limited
  <1>5. Good(next, ledger[r], seen[r], job[r], final[r])
    BY <1>3, <1>4
  <1> HIDE DEF next
  <1> QED
    BY <1>1, <1>2, <1>5, OnlyRun

\* The variables a step of the loop leaves alone, as RunMoves needs them.
LEMMA FaultCounted ==
    ASSUME TeamInv, faults' = faults \/ (faults < MaxFaults /\ faults' = faults + 1)
    PROVE  faults' \in 0 .. MaxFaults
  BY TeamConstants DEF TeamInv

LEMMA CheckKeeps == ASSUME TeamInv, NEW r \in Runs, Check(r) PROVE TeamInv'
  <1> DEFINE s == run[r]
  <1>1. s.pc = "check" /\ UNCHANGED <<ledger, seen, job, final, up, cancels>>
    BY DEF Check
  <1>2. /\ up /\ up' = up /\ cancels' \in 0 .. MaxCancels /\ RunOK(r)
        /\ ledger' = [ledger EXCEPT ![r] = ledger[r]] /\ seen' = [seen EXCEPT ![r] = seen[r]]
        /\ job' = [job EXCEPT ![r] = job[r]] /\ final' = [final EXCEPT ![r] = final[r]]
    BY <1>1, Active, Alone
  <1>3. /\ Good(Ended(s, "Cancelled"), ledger[r], seen[r], job[r], final[r])
        /\ Good(Ended(s, "Failed"), ledger[r], seen[r], job[r], final[r])
    BY <1>1, EndsAs DEF InLoop
  <1>4. Good(To(s, "open"), ledger[r], seen[r], job[r], final[r])
    BY <1>1, <1>2, Proceeds DEF RunOK
  <1>5. CASE s.token /\ Step(r, Ended(s, "Cancelled")) /\ UNCHANGED <<mode, faults>>
    <2>1. mode' \in {"Running", "FullyFrozen"} /\ faults' \in 0 .. MaxFaults
      BY <1>5, Alone
    <2> HIDE DEF s
    <2>2. /\ run' = [q \in Runs |-> run'[q]] /\ run'[r] = Ended(s, "Cancelled")
          /\ \A q \in Runs \ {r} : run'[q] = run[q]
      BY <1>5, StepMoves
    <2> QED
      BY <1>2, <1>3, <2>1, <2>2, RunMoves
  <1>6. CASE /\ ~s.token
             /\ BudgetReason(ledger, r, IF Gated THEN Ended(s, "Failed") ELSE To(s, "open"))
             /\ faults' = faults
    <2> DEFINE next == IF Gated THEN Ended(s, "Failed") ELSE To(s, "open")
    <2>1. Good(next, ledger[r], seen[r], job[r], final[r]) /\ BudgetReason(ledger, r, next)
      <3> HIDE DEF s
      <3> QED
        BY <1>3, <1>4, <1>6
    <2> HIDE DEF s, next
    <2>2. faults' \in 0 .. MaxFaults
      BY <1>6, FaultCounted
    <2>3. /\ run' = [q \in Runs |-> run'[q]] /\ run'[r] = next
          /\ \A q \in Runs \ {r} : \/ run'[q] = run[q]
                                   \/ run[q].pc \in InLoop /\ run'[q] = [run[q] EXCEPT !.token = TRUE]
          /\ mode' \in {"Running", "FullyFrozen"}
      BY <2>1, BudgetMoves
    <2> QED
      BY <1>2, <2>1, <2>2, <2>3, RunMoves
  <1>7. CASE /\ ~s.token /\ faults < MaxFaults
             /\ Step(r, Ended(s, "Failed")) /\ faults' = faults + 1 /\ mode' = mode
    <2>1. mode' \in {"Running", "FullyFrozen"} /\ faults' \in 0 .. MaxFaults
      BY <1>7, Alone, FaultCounted
    <2> HIDE DEF s
    <2>2. /\ run' = [q \in Runs |-> run'[q]] /\ run'[r] = Ended(s, "Failed")
          /\ \A q \in Runs \ {r} : run'[q] = run[q]
      BY <1>7, StepMoves
    <2> QED
      BY <1>2, <1>3, <2>1, <2>2, RunMoves
  <1> QED
    BY <1>5, <1>6, <1>7 DEF Check

LEMMA OpenKeeps == ASSUME TeamInv, NEW r \in Runs, Open(r) PROVE TeamInv'
  <1> DEFINE s == run[r]
             more == Append(ledger[r], Row("started", 0))
  <1>1. s.pc = "open" /\ UNCHANGED <<seen, job, final, mode, up, cancels>>
    BY DEF Open
  <1>2. /\ up /\ up' = up /\ cancels' \in 0 .. MaxCancels /\ RunOK(r)
        /\ mode' \in {"Running", "FullyFrozen"}
        /\ seen' = [seen EXCEPT ![r] = seen[r]]
        /\ job' = [job EXCEPT ![r] = job[r]] /\ final' = [final EXCEPT ![r] = final[r]]
    BY <1>1, Active, Alone
  <1>3. /\ Good(Ended(s, "Cancelled"), ledger[r], seen[r], job[r], final[r])
        /\ Good(Ended(s, "Failed"), ledger[r], seen[r], job[r], final[r])
    BY <1>1, EndsAs DEF InLoop
  <1>4. Good(To(s, "send"), more, seen[r], job[r], final[r])
    BY <1>1, <1>2, OpensRow DEF RunOK
  <1>5. ASSUME NEW outcome \in {"Cancelled", "Failed"}, Step(r, Ended(s, outcome)), ledger' = ledger,
               faults' \in 0 .. MaxFaults
        PROVE  TeamInv'
    <2>1. /\ Good(Ended(s, outcome), ledger[r], seen[r], job[r], final[r])
          /\ ledger' = [ledger EXCEPT ![r] = ledger[r]]
      BY <1>3, <1>5, Alone
    <2> HIDE DEF s
    <2>2. /\ run' = [q \in Runs |-> run'[q]] /\ run'[r] = Ended(s, outcome)
          /\ \A q \in Runs \ {r} : run'[q] = run[q]
      BY <1>5, StepMoves
    <2> QED
      BY <1>2, <1>5, <2>1, <2>2, RunMoves
  <1>6. CASE s.token /\ Step(r, Ended(s, "Cancelled")) /\ UNCHANGED <<ledger, faults>>
    BY <1>5, <1>6, FaultCounted
  <1>7. CASE /\ ~s.token /\ ledger' = [ledger EXCEPT ![r] = Append(@, Row("started", 0))]
             /\ Step(r, To(s, "send")) /\ faults' = faults
    <2>1. faults' \in 0 .. MaxFaults /\ ledger' = [ledger EXCEPT ![r] = more]
      BY <1>7, FaultCounted
    <2> HIDE DEF s, more
    <2>2. /\ run' = [q \in Runs |-> run'[q]] /\ run'[r] = To(s, "send")
          /\ \A q \in Runs \ {r} : run'[q] = run[q]
      BY <1>7, StepMoves
    <2> QED
      BY <1>2, <1>4, <2>1, <2>2, RunMoves
  <1>8. CASE /\ ~s.token /\ faults < MaxFaults /\ faults' = faults + 1
             /\ Step(r, Ended(s, "Failed")) /\ ledger' = ledger
    BY <1>5, <1>8, FaultCounted
  <1> QED
    BY <1>6, <1>7, <1>8 DEF Open

LEMMA SendKeeps == ASSUME TeamInv, NEW r \in Runs, Send(r) PROVE TeamInv'
  <1> DEFINE s == run[r]
             sent == seen[r] \cup {Len(ledger[r])}
  <1>1. s.pc = "send" /\ UNCHANGED <<ledger, job, final, mode, up, cancels, faults>>
    BY DEF Send
  <1>2. /\ up /\ up' = up /\ cancels' \in 0 .. MaxCancels /\ faults' \in 0 .. MaxFaults /\ RunOK(r)
        /\ s \in Loops /\ mode' \in {"Running", "FullyFrozen"}
        /\ ledger' = [ledger EXCEPT ![r] = ledger[r]]
        /\ job' = [job EXCEPT ![r] = job[r]] /\ final' = [final EXCEPT ![r] = final[r]]
    BY <1>1, Active, Alone
  <1>3. CASE s.token
    <2> DEFINE next == [s EXCEPT !.pc = "close", !.answer.kind = "not_sent"]
    <2>1. PICK a \in Answer : a.kind = "not_sent" /\ next = [s EXCEPT !.pc = "close", !.answer = a]
      BY <1>2, KindOnly
    <2>2. Good([s EXCEPT !.pc = "close", !.answer = a], ledger[r], seen[r], job[r], final[r])
      BY <1>1, <1>2, <2>1, Replied DEF RunOK
    <2>3. Step(r, next) /\ Same
      BY <1>1, <1>3 DEF Send, Same
    <2> HIDE DEF s, next
    <2> QED
      BY <1>2, <2>1, <2>2, <2>3, OnlyRun
  <1>4. CASE ~s.token
    <2>1. Good(To(s, "wire"), ledger[r], sent, job[r], final[r])
      BY <1>1, <1>2, Sends DEF RunOK
    <2>2. Step(r, To(s, "wire")) /\ seen' = [seen EXCEPT ![r] = sent]
      BY <1>4 DEF Send
    <2> HIDE DEF s, sent
    <2>3. /\ run' = [q \in Runs |-> run'[q]] /\ run'[r] = To(s, "wire")
          /\ \A q \in Runs \ {r} : run'[q] = run[q]
      BY <2>2, StepMoves
    <2> QED
      BY <1>2, <2>1, <2>2, <2>3, RunMoves
  <1> QED
    BY <1>3, <1>4

LEMMA ProviderKeeps == ASSUME TeamInv, NEW r \in Runs, Provider(r) PROVE TeamInv'
  <1>1. run[r].pc = "wire" /\ Same
    BY DEF Provider
  <1>2. PICK a \in Answers[r] : Step(r, [run[r] EXCEPT !.pc = "close", !.answer = a])
    BY DEF Provider
  <1>3. a \in Answer /\ a.kind # "not_sent"
    BY TeamConstants DEF Answer, Kinds
  <1>4. up /\ RunOK(r)
    BY <1>1, Active, Alone
  <1>5. Good([run[r] EXCEPT !.pc = "close", !.answer = a], ledger[r], seen[r], job[r], final[r])
    BY <1>1, <1>3, <1>4, Replied DEF RunOK
  <1> QED
    BY <1>1, <1>2, <1>4, <1>5, OnlyRun

LEMMA HangupKeeps == ASSUME TeamInv, NEW r \in Runs, Hangup(r) PROVE TeamInv'
  <1> DEFINE s == run[r]
             next == [s EXCEPT !.pc = "close", !.answer.kind = "cancelled"]
  <1>1. s.pc = "wire" /\ Same /\ Step(r, next)
    BY DEF Hangup
  <1>2. up /\ RunOK(r) /\ s \in Loops
    BY <1>1, Active, Alone
  <1>3. PICK a \in Answer : a.kind = "cancelled" /\ next = [s EXCEPT !.pc = "close", !.answer = a]
    BY <1>2, KindOnly
  <1>4. Good([s EXCEPT !.pc = "close", !.answer = a], ledger[r], seen[r], job[r], final[r])
    BY <1>1, <1>2, <1>3, Replied DEF RunOK
  <1> HIDE DEF s, next
  <1> QED
    BY <1>1, <1>2, <1>3, <1>4, OnlyRun

LEMMA CloseKeeps == ASSUME TeamInv, NEW r \in Runs, Close(r) PROVE TeamInv'
  <1> DEFINE s == run[r]
             next == AfterAttempt(s)
             more == [ledger[r] EXCEPT ![Len(ledger[r])] = FinishRow(s)]
             rows == [ledger EXCEPT ![r][Len(ledger[r])] = Closing(r)]
  <1>1. s.pc = "close" /\ UNCHANGED <<seen, job, final, up, cancels>>
    BY DEF Close
  <1>2. /\ up /\ up' = up /\ cancels' \in 0 .. MaxCancels /\ RunOK(r) /\ s \in Loops
        /\ seen' = [seen EXCEPT ![r] = seen[r]]
        /\ job' = [job EXCEPT ![r] = job[r]] /\ final' = [final EXCEPT ![r] = final[r]]
    BY <1>1, Active, Alone
  <1>3. Good(next, more, seen[r], job[r], final[r])
    BY <1>1, <1>2, Answered DEF RunOK
  <1>4. CASE ledger' = rows /\ BudgetReason(rows, r, next) /\ faults' = faults
    <2>1. rows = [ledger EXCEPT ![r] = more]
      BY DEF TeamInv, Closing, FinishRow
    <2>2. faults' \in 0 .. MaxFaults
      BY <1>4, FaultCounted
    <2> HIDE DEF s, next, more, rows
    <2>3. /\ run' = [q \in Runs |-> run'[q]] /\ run'[r] = next
          /\ \A q \in Runs \ {r} : \/ run'[q] = run[q]
                                   \/ run[q].pc \in InLoop /\ run'[q] = [run[q] EXCEPT !.token = TRUE]
          /\ mode' \in {"Running", "FullyFrozen"}
      BY <1>4, BudgetMoves
    <2>4. ledger' = [ledger EXCEPT ![r] = more]
      BY <1>4, <2>1
    <2> QED
      BY <1>2, <1>3, <2>2, <2>3, <2>4, RunMoves
  <1>5. CASE /\ faults < MaxFaults /\ faults' = faults + 1
             /\ Step(r, Ended([run[r] EXCEPT !.answer = NoAnswer], "Failed"))
             /\ UNCHANGED <<ledger, mode>>
    <2>1. Ended([s EXCEPT !.answer = NoAnswer], "Failed") = Ended(s, "Failed")
      BY <1>2 DEF Ended, Loops
    <2>2. /\ Good(Ended(s, "Failed"), ledger[r], seen[r], job[r], final[r])
          /\ Step(r, Ended(s, "Failed"))
      BY <1>1, <1>5, <2>1, EndsAs DEF InLoop
    <2>3. /\ faults' \in 0 .. MaxFaults /\ mode' \in {"Running", "FullyFrozen"}
          /\ ledger' = [ledger EXCEPT ![r] = ledger[r]]
      BY <1>5, FaultCounted, Alone
    <2> HIDE DEF s
    <2>4. /\ run' = [q \in Runs |-> run'[q]] /\ run'[r] = Ended(s, "Failed")
          /\ \A q \in Runs \ {r} : run'[q] = run[q]
      BY <2>2, StepMoves
    <2> QED
      BY <1>2, <2>2, <2>3, <2>4, RunMoves
  <1> QED
    BY <1>4, <1>5 DEF Close

LEMMA BackoffKeeps == ASSUME TeamInv, NEW r \in Runs, Backoff(r) PROVE TeamInv'
  <1> DEFINE s == run[r]
  <1>1. s.pc = "backoff" /\ Same /\ (Step(r, To(s, "check")) \/ Step(r, Ended(s, "Cancelled")))
    BY DEF Backoff
  <1>2. up /\ RunOK(r)
    BY <1>1, Active, Alone
  <1>3. /\ Good(Ended(s, "Cancelled"), ledger[r], seen[r], job[r], final[r])
        /\ Good(To(s, "check"), ledger[r], seen[r], job[r], final[r])
    BY <1>1, <1>2, EndsAs, Proceeds DEF InLoop, RunOK
  <1> HIDE DEF s
  <1> QED
    BY <1>1, <1>2, <1>3, OnlyRun

LEMMA NextCallKeeps == ASSUME TeamInv, NEW r \in Runs, NextCall(r) PROVE TeamInv'
  <1> DEFINE s == run[r]
  <1>1. /\ s.pc = "calls" /\ Same
        /\ \/ Step(r, Ended(s, "Cancelled"))
           \/ Step(r, To(s, "head"))
           \/ s.todo # <<>> /\ Step(r, AfterCall(s, r))
    BY DEF NextCall
  <1>2. up /\ RunOK(r)
    BY <1>1, Active, Alone
  <1>3. /\ Good(Ended(s, "Cancelled"), ledger[r], seen[r], job[r], final[r])
        /\ Good(To(s, "head"), ledger[r], seen[r], job[r], final[r])
        /\ s.todo # <<>> => Good(AfterCall(s, r), ledger[r], seen[r], job[r], final[r])
    BY <1>1, <1>2, EndsAs, Proceeds, CallCharged DEF InLoop, RunOK
  <1> HIDE DEF s
  <1> QED
    BY <1>1, <1>2, <1>3, OnlyRun

LEMMA ToolKeeps == ASSUME TeamInv, NEW r \in Runs, Tool(r) PROVE TeamInv'
  <1> DEFINE s == run[r]
             tool == Head(s.todo)
             t == [Effect(s, tool) EXCEPT !.todo = Tail(@), !.pc = "calls"]
             next == IF Concludes(s, tool) THEN Ended(t, tool) ELSE t
  <1>1. s.pc = "tool" /\ Same /\ Step(r, next)
    BY DEF Tool
  <1>2. up /\ RunOK(r) /\ s \in Loops
    BY <1>1, Active, Alone
  <1>3. s.todo \in Seq(Tools) /\ s.todo # <<>>
    BY <1>1, <1>2 DEF RunOK, Good, Typed, Loops
  <1>4. tool \in Tools
    BY <1>3, HeadTailProperties
  <1> HIDE DEF tool
  <1>5. Good(next, ledger[r], seen[r], job[r], final[r])
    BY <1>1, <1>2, <1>4, ToolDone DEF RunOK
  <1> HIDE DEF s, t, next
  <1> QED
    BY <1>1, <1>2, <1>5, OnlyRun

\* A run that ends without a result.
LEMMA RunDropped ==
    ASSUME TeamInv, NEW r \in Runs, run[r].pc \in Live, Step(r, Gone(run[r], "error")), Same
    PROVE  TeamInv'
  <1>1. run[r].pc \notin {"off", "done"}
    BY DEF Live, InLoop
  <1>2. up /\ RunOK(r) /\ final[r] = NoResult /\ final[r] \in Results
    BY <1>1, Active, Alone DEF RunOK, Good, Whole, Typed
  <1>3. job[r] \in {None, "Running", "Ended"}
    BY DEF TeamInv
  <1>4. Good(Gone(run[r], "error"), ledger[r], seen[r], job[r], final[r])
    BY <1>1, <1>2, <1>3, RunGone DEF RunOK, NoResult
  <1> QED
    BY <1>2, <1>4, OnlyRun

\* The Scheduler takes a result: the request ledger is not its business.
LedgerAlone == UNCHANGED <<ledger, seen, up, cancels>>

LEMMA Accepted ==
    ASSUME TeamInv, NEW r \in Runs, run[r].pc \notin {"off", "done"}, NEW result \in Results,
           run[r].token => result.outcome \in {None, "Failed"},
           result.proposals > 0 => result.outcome = "diagnosis",
           Accept(r, result), LedgerAlone, faults' \in 0 .. MaxFaults
    PROVE  TeamInv'
  <1>1. /\ up /\ up' = up /\ cancels' \in 0 .. MaxCancels /\ RunOK(r)
        /\ ledger' = [ledger EXCEPT ![r] = ledger[r]] /\ seen' = [seen EXCEPT ![r] = seen[r]]
    BY Active, Alone DEF LedgerAlone
  <1>2. /\ final' = [final EXCEPT ![r] = result] /\ job' = [job EXCEPT ![r] = "Ended"]
        /\ mode' \in {"Running", "FullyFrozen"} /\ Step(r, Gone(run[r], "done"))
    BY Alone DEF Accept, FreezeIfSpent
  <1>3. Good(Gone(run[r], "done"), ledger[r], seen[r], "Ended", result)
    BY <1>1, RunGone DEF RunOK
  <1>4. /\ run' = [q \in Runs |-> run'[q]] /\ run'[r] = Gone(run[r], "done")
        /\ \A q \in Runs \ {r} : run'[q] = run[q]
    BY <1>2, StepMoves
  <1> DEFINE ended == "Ended"
  <1>5. Good(run'[r], ledger[r], seen[r], ended, result) /\ job' = [job EXCEPT ![r] = ended]
    BY <1>2, <1>3, <1>4
  <1> HIDE DEF ended
  <1> QED
    BY <1>1, <1>2, <1>4, <1>5, RunMoves

LEMMA DeliverKeeps == ASSUME TeamInv, NEW r \in Runs, Deliver(r) PROVE TeamInv'
  <1> DEFINE s == run[r]
  <1>1. s.pc = "ended" /\ UNCHANGED <<ledger, seen, up, cancels>>
    BY DEF Deliver
  <1>2. /\ RunOK(r) /\ s \in Loops /\ s.proposals \in Nat /\ s.pc \notin {"off", "done"}
        /\ s.token => s.outcome \notin Terminal
        /\ s.outcome = "solved" => s.proposals = 0
    BY <1>1, Alone DEF RunOK, Good, Whole, Loops
  <1>3. /\ ResultOf(s) \in Results /\ Failed \in Results
        /\ s.token => ResultOf(s).outcome = "Failed"
        /\ ResultOf(s).proposals > 0 => ResultOf(s).outcome = "diagnosis"
        /\ Failed.outcome = "Failed" /\ Failed.proposals = 0
    BY <1>2 DEF ResultOf, Failed, Results, Terminal
  <1> HIDE DEF s
  <1>4. CASE Accept(r, ResultOf(run[r])) /\ faults' = faults
    <2> DEFINE result == ResultOf(s)
    <2>1. /\ result \in Results
          /\ s.token => result.outcome \in {None, "Failed"}
          /\ result.proposals > 0 => result.outcome = "diagnosis"
      BY <1>3
    <2>2. faults' \in 0 .. MaxFaults /\ Accept(r, result)
      BY <1>4, FaultCounted DEF s
    <2> HIDE DEF result
    <2> QED
      BY <1>1, <1>2, <2>1, <2>2, Accepted DEF s, LedgerAlone
  <1>5. CASE faults < MaxFaults /\ faults' = faults + 1 /\ Accept(r, Failed)
    BY <1>1, <1>2, <1>3, <1>5, Accepted, FaultCounted DEF s, LedgerAlone
  <1>6. CASE Step(r, Gone(run[r], "error")) /\ UNCHANGED <<final, job, mode, faults>>
    BY <1>1, <1>6, RunDropped DEF Same, Live, s
  <1> QED
    BY <1>4, <1>5, <1>6 DEF Deliver

LEMMA FallbackKeeps == ASSUME TeamInv, NEW r \in Runs, Fallback(r) PROVE TeamInv'
  <1>1. run[r].pc = "error" /\ UNCHANGED <<ledger, seen, up, cancels, faults>>
    BY DEF Fallback
  <1>2. /\ RunOK(r) /\ up /\ faults' \in 0 .. MaxFaults /\ final[r] = NoResult
    BY <1>1, Active, Alone DEF RunOK, Good, Whole
  <1>3. Failed \in Results /\ Failed.outcome = "Failed" /\ Failed.proposals = 0
    BY DEF Failed, Results
  <1>4. CASE Accept(r, Failed)
    BY <1>1, <1>2, <1>3, <1>4, Accepted DEF LedgerAlone
  <1>5. CASE Step(r, Gone(run[r], "done")) /\ FreezeIfSpent /\ UNCHANGED <<final, job>>
    <2>1. job[r] \in {None, "Running", "Ended"} /\ NoResult \in Results
      BY OffTyped DEF TeamInv
    <2>2. Good(Gone(run[r], "done"), ledger[r], seen[r], job[r], NoResult)
      BY <1>1, <1>2, <2>1, RunGone DEF RunOK, NoResult
    <2>3. /\ up' = up /\ cancels' \in 0 .. MaxCancels /\ mode' \in {"Running", "FullyFrozen"}
          /\ ledger' = [ledger EXCEPT ![r] = ledger[r]] /\ seen' = [seen EXCEPT ![r] = seen[r]]
          /\ job' = [job EXCEPT ![r] = job[r]] /\ final' = [final EXCEPT ![r] = NoResult]
      BY <1>1, <1>2, <1>5, Alone DEF FreezeIfSpent
    <2>4. /\ run' = [q \in Runs |-> run'[q]] /\ run'[r] = Gone(run[r], "done")
          /\ \A q \in Runs \ {r} : run'[q] = run[q]
      BY <1>5, StepMoves
    <2> QED
      BY <1>2, <2>2, <2>3, <2>4, RunMoves
  <1> QED
    BY <1>4, <1>5 DEF Fallback

LEMMA DropKeeps ==
    ASSUME TeamInv, NEW r \in Runs, DeliveryFails(r) \/ Abort(r)
    PROVE  TeamInv'
  BY RunDropped DEF DeliveryFails, Abort

LEMMA BeginKeeps == ASSUME TeamInv, NEW r \in Runs, Begin(r) PROVE TeamInv'
  <1> DEFINE next == To(Off, "head")
             running == "Running"
  <1>1. /\ run[r].pc = "off" /\ job[r] = None /\ up
        /\ UNCHANGED <<ledger, seen, final, up, cancels, faults>>
    BY DEF Begin
  <1>2. /\ RunOK(r) /\ up /\ up' = up /\ cancels' \in 0 .. MaxCancels /\ faults' \in 0 .. MaxFaults
        /\ ledger' = [ledger EXCEPT ![r] = ledger[r]] /\ seen' = [seen EXCEPT ![r] = seen[r]]
        /\ final' = [final EXCEPT ![r] = final[r]]
    BY <1>1, Alone
  <1>3. CASE mode' = "FullyFrozen" /\ UNCHANGED <<run, job>>
    BY <1>1, <1>3 DEF TeamInv
  <1>4. CASE /\ job' = [job EXCEPT ![r] = "Running"] /\ Step(r, To(Off, "head")) /\ mode' = mode
    <2>1. /\ ledger[r] = <<>> /\ seen[r] \subseteq 1 .. 0 /\ final[r] = NoResult
          /\ ledger[r] \in Seq(Rows) /\ seen[r] \in SUBSET Nat
      BY <1>1, <1>2 DEF RunOK, Good, Recorded, Whole, Typed
    <2>2. /\ next \in Loops /\ next.pc = "head" /\ next.turns = 0 /\ next.retries = 0
          /\ next.wraps = 0 /\ next.calls = 0 /\ next.inspections = 0 /\ next.wrapping = FALSE
      BY OffTyped DEF To, Off, Loops, InLoop
    <2> HIDE DEF next
    <2>3. Limited(next, ledger[r])
      BY <2>1, <2>2, TeamConstants DEF Limited, Ahead, InLoop
    <2>4. Recorded(next, ledger[r], seen[r])
      BY <2>1, <2>2 DEF Recorded, Between, During
    <2>5. Typed(next, ledger[r], seen[r], running, final[r]) /\ Whole(next, running, final[r])
      BY <2>1, <2>2, OffTyped DEF Typed, Whole, NoResult
    <2>6. Good(next, ledger[r], seen[r], running, final[r])
      BY <2>3, <2>4, <2>5 DEF Good
    <2>7. mode' \in {"Running", "FullyFrozen"} /\ job' = [job EXCEPT ![r] = running] /\ Step(r, next)
      BY <1>4, Alone DEF next
    <2>8. /\ run' = [q \in Runs |-> run'[q]] /\ run'[r] = next
          /\ \A q \in Runs \ {r} : run'[q] = run[q]
      BY <2>7, StepMoves
    <2> HIDE DEF running
    <2> QED
      BY <1>2, <2>6, <2>7, <2>8, RunMoves
  <1> QED
    BY <1>3, <1>4 DEF Begin

\* A run that is signalled, and one whose Job ends.
LEMMA SignalledOK ==
    ASSUME NEW s, NEW rows, NEW sent, NEW j, NEW f, Good(s, rows, sent, j, f)
    PROVE  Good(Signalled(s), rows, sent, j, f)
  <1>1. s \in Loops
    BY DEF Good, Typed
  <1>2. CASE s.pc \in InLoop
    <2>1. Signalled(s) = [s EXCEPT !.token = TRUE, !.grace = TRUE]
      BY <1>1, <1>2 DEF Signalled, Live, Loops
    <2>2. Good([s EXCEPT !.token = TRUE, !.grace = TRUE], rows, sent, j, f)
      BY <1>2, Told
    <2> QED
      BY <2>1, <2>2
  <1>3. CASE s.pc = "ended"
    <2>1. s.pc \notin InLoop /\ s.token \in BOOLEAN
      BY <1>1, <1>3 DEF InLoop, Loops
    <2>2. Signalled(s) = [s EXCEPT !.token = s.token, !.grace = TRUE]
      BY <1>1, <1>3, <2>1 DEF Signalled, Live, Loops
    <2>3. Good([s EXCEPT !.token = s.token, !.grace = TRUE], rows, sent, j, f)
      BY <2>1, Told
    <2> QED
      BY <2>2, <2>3
  <1>4. CASE s.pc \notin Live
    BY <1>4 DEF Signalled
  <1> QED
    BY <1>2, <1>3, <1>4 DEF Live

LEMMA JobEnds ==
    ASSUME NEW s, NEW rows, NEW sent, NEW j, NEW f, Good(s, rows, sent, j, f), s.pc # "off"
    PROVE  Good(s, rows, sent, "Ended", f)
  BY DEF Good, Typed, Whole

LEMMA CancelPassKeeps == ASSUME TeamInv, NEW r \in Runs, CancelPass(r) PROVE TeamInv'
  <1> DEFINE next == Signalled(run[r])
  <1>1. /\ up /\ cancels < MaxCancels /\ Step(r, next) /\ cancels' = cancels + 1
        /\ UNCHANGED <<ledger, seen, job, final, mode, up, faults>>
    BY DEF CancelPass
  <1>2. /\ RunOK(r) /\ up' = up /\ cancels' \in 0 .. MaxCancels /\ faults' \in 0 .. MaxFaults
        /\ ledger' = [ledger EXCEPT ![r] = ledger[r]] /\ seen' = [seen EXCEPT ![r] = seen[r]]
        /\ job' = [job EXCEPT ![r] = job[r]] /\ final' = [final EXCEPT ![r] = final[r]]
        /\ mode' \in {"Running", "FullyFrozen"}
    BY <1>1, Alone, TeamConstants
  <1>3. Good(next, ledger[r], seen[r], job[r], final[r])
    BY <1>2, SignalledOK DEF RunOK
  <1>4. up /\ Step(r, next)
    BY <1>1
  <1> HIDE DEF next
  <1>5. /\ run' = [q \in Runs |-> run'[q]] /\ run'[r] = next
        /\ \A q \in Runs \ {r} : run'[q] = run[q]
    BY <1>4, StepMoves
  <1> QED
    BY <1>2, <1>3, <1>4, <1>5, RunMoves

LEMMA CloseIssueKeeps == ASSUME TeamInv, NEW r \in Runs, CloseIssue(r) PROVE TeamInv'
  <1> DEFINE next == Signalled(run[r])
             ended == "Ended"
  <1>1. /\ up /\ cancels < MaxCancels /\ job[r] = "Running" /\ Step(r, next)
        /\ cancels' = cancels + 1 /\ job' = [job EXCEPT ![r] = ended]
        /\ UNCHANGED <<ledger, seen, final, mode, up, faults>>
    BY DEF CloseIssue
  <1>2. /\ RunOK(r) /\ up' = up /\ cancels' \in 0 .. MaxCancels /\ faults' \in 0 .. MaxFaults
        /\ ledger' = [ledger EXCEPT ![r] = ledger[r]] /\ seen' = [seen EXCEPT ![r] = seen[r]]
        /\ final' = [final EXCEPT ![r] = final[r]]
        /\ mode' \in {"Running", "FullyFrozen"}
    BY <1>1, Alone, TeamConstants
  <1>3. run[r].pc # "off"
    BY <1>1, <1>2 DEF RunOK, Good, Whole, None
  <1>4. Good(run[r], ledger[r], seen[r], ended, final[r])
    BY <1>2, <1>3, JobEnds DEF RunOK
  <1>5. Good(next, ledger[r], seen[r], ended, final[r])
    BY <1>4, SignalledOK
  <1>6. up /\ Step(r, next) /\ job' = [job EXCEPT ![r] = ended]
    BY <1>1
  <1> HIDE DEF next, ended
  <1>7. /\ run' = [q \in Runs |-> run'[q]] /\ run'[r] = next
        /\ \A q \in Runs \ {r} : run'[q] = run[q]
    BY <1>6, StepMoves
  <1> QED
    BY <1>2, <1>5, <1>6, <1>7, RunMoves

-----------------------------------------------------------------------------
(* The steps of the controller.                                            *)

LEMMA ResumeKeeps == ASSUME TeamInv, Resume PROVE TeamInv'
  BY DEF TeamInv, Resume

LEMMA CrashKeeps == ASSUME TeamInv, Crash PROVE TeamInv'
  <1>1. /\ up' = FALSE /\ faults < MaxFaults /\ faults' = faults + 1
        /\ run' = [r \in Runs |-> IF run[r].pc \in Live \cup {"error"} THEN Gone(run[r], "done") ELSE run[r]]
        /\ UNCHANGED <<ledger, seen, job, final, mode, cancels>>
    BY DEF Crash
  <1>2. faults' \in 0 .. MaxFaults
    BY <1>1, FaultCounted
  <1>3. ASSUME NEW r \in Runs
        PROVE  /\ Good(run'[r], ledger[r], seen[r], job[r], final[r])
               /\ run'[r] \in Loops /\ run'[r].pc \in {"off", "done"}
    <2>1. /\ RunOK(r) /\ run[r] \in Loops /\ job[r] \in {None, "Running", "Ended"}
      BY Alone DEF TeamInv
    <2>2. CASE run[r].pc \in Live \cup {"error"}
      <3>1. run[r].pc \notin {"off", "done"}
        BY <2>2 DEF Live, InLoop
      <3>2. final[r] = NoResult /\ NoResult \in Results
        BY <2>1, <3>1, OffTyped DEF RunOK, Good, Whole
      <3>3. Good(Gone(run[r], "done"), ledger[r], seen[r], job[r], final[r])
        BY <2>1, <3>1, <3>2, RunGone DEF RunOK, NoResult
      <3>4. run'[r] = Gone(run[r], "done") /\ Gone(run[r], "done").pc = "done"
        BY <1>1, <2>2 DEF Gone, Off
      <3> QED
        BY <3>3, <3>4 DEF Good, Typed
    <2>3. CASE run[r].pc \notin Live \cup {"error"}
      <3>1. run[r].pc \in {"off", "done"}
        BY <2>1, <2>3 DEF Live, Loops
      <3> QED
        BY <1>1, <2>1, <2>3, <3>1 DEF RunOK
    <2> QED
      BY <2>2, <2>3
  <1>4. run' \in [Runs -> Loops]
    BY <1>1, <1>3
  <1> QED
    BY <1>1, <1>2, <1>3, <1>4 DEF TeamInv

LEMMA InterruptedRows ==
    ASSUME NEW rows \in Seq(Rows)
    PROVE  /\ Interrupted(rows) \in Seq(Rows) /\ Len(Interrupted(rows)) = Len(rows)
           /\ \A i \in 1 .. Len(rows) :
                 /\ Interrupted(rows)[i].status # "started"
                 /\ rows[i].status # "started" => Interrupted(rows)[i] = rows[i]
                 /\ rows[i].status = "started" => Interrupted(rows)[i].status = "interrupted"
  <1> DEFINE length == Len(rows)
  <1>1. length \in Nat /\ DOMAIN rows = 1 .. length /\ \A i \in 1 .. length : rows[i] \in Rows
    BY LenProperties, ElementOfSeq
  <1>2. ASSUME NEW i \in 1 .. length
        PROVE  IF rows[i].status = "started" THEN [rows[i] EXCEPT !.status = "interrupted"] \in Rows
                                                  /\ [rows[i] EXCEPT !.status = "interrupted"].status = "interrupted"
               ELSE rows[i] \in Rows
    BY <1>1 DEF Rows
  <1>3. Interrupted(rows) = [i \in 1 .. length |->
            IF rows[i].status = "started" THEN [rows[i] EXCEPT !.status = "interrupted"] ELSE rows[i]]
    BY <1>1 DEF Interrupted
  <1> HIDE DEF length
  <1>4. Interrupted(rows) \in [1 .. length -> Rows]
    BY <1>2, <1>3
  <1>5. Interrupted(rows) \in Seq(Rows) /\ Len(Interrupted(rows)) = length
    BY <1>1, <1>4
  <1> QED
    BY <1>2, <1>3, <1>5 DEF length

LEMMA RecoverKeeps == ASSUME TeamInv, Recover PROVE TeamInv'
  <1>1. /\ ~up /\ up' = TRUE /\ UNCHANGED <<run, seen, cancels, faults>>
        /\ ledger' = [r \in Runs |-> Interrupted(ledger[r])]
        /\ job' = [r \in Runs |-> IF job[r] = "Running" THEN "Ended" ELSE job[r]]
        /\ final' = [r \in Runs |-> IF job[r] = "Running" THEN Failed ELSE final[r]]
    BY DEF Recover
  <1>2. mode' \in {"Running", "FullyFrozen"}
    BY DEF Recover, TeamInv
  <1>3. Failed \in Results /\ Failed.outcome = "Failed" /\ Failed.proposals = 0
    BY DEF Failed, Results
  <1>4. ASSUME NEW r \in Runs
        PROVE  /\ Good(run[r], ledger'[r], seen[r], job'[r], final'[r])
               /\ ledger'[r] \in Seq(Rows) /\ job'[r] \in {None, "Running", "Ended"}
               /\ final'[r] \in Results
    <2> DEFINE s == run[r]
               rows == ledger[r]
               more == Interrupted(rows)
               sent == seen[r]
    <2>1. /\ s \in Loops /\ s.pc \in {"off", "done"} /\ rows \in Seq(Rows) /\ sent \in SUBSET Nat
          /\ job[r] \in {None, "Running", "Ended"} /\ final[r] \in Results
          /\ Limited(s, rows) /\ Recorded(s, rows, sent) /\ Whole(s, job[r], final[r])
      BY <1>1 DEF TeamInv, Good
    <2>2. ledger'[r] = more
      BY <1>1
    <2> HIDE DEF s, sent
    <2>3. /\ more \in Seq(Rows) /\ Len(more) = Len(rows)
          /\ \A i \in 1 .. Len(rows) :
                /\ more[i].status # "started"
                /\ rows[i].status # "started" => more[i] = rows[i]
                /\ rows[i].status = "started" => more[i].status = "interrupted"
      BY <2>1, InterruptedRows
    <2> HIDE DEF more, rows
    <2>4. Limited(s, more)
      BY <2>1, <2>3 DEF Limited
    <2>5. Recorded(s, more, sent)
      <3>1. \A i \in 1 .. Len(rows) : RowTrue(more[i], i, more, sent)
        BY <2>1, <2>3 DEF Recorded, RowTrue
      <3>2. s.pc = "off" => more = <<>>
        BY <2>1, <2>3 DEF Recorded
      <3> QED
        BY <2>1, <2>3, <3>1, <3>2 DEF Recorded, Between, During
    <2>6. CASE job[r] = "Running"
      <3>1. job'[r] = "Ended" /\ final'[r] = Failed /\ s.pc = "done"
        BY <1>1, <2>1, <2>6 DEF Whole, None
      <3>2. Typed(s, more, sent, job'[r], final'[r]) /\ Whole(s, job'[r], final'[r])
        BY <1>3, <2>1, <2>3, <3>1 DEF Typed, Whole
      <3> QED
        BY <1>3, <2>2, <2>3, <2>4, <2>5, <3>1, <3>2 DEF Good, s, sent
    <2>7. CASE job[r] # "Running"
      <3>1. job'[r] = job[r] /\ final'[r] = final[r]
        BY <1>1, <2>7
      <3>2. Typed(s, more, sent, job'[r], final'[r]) /\ Whole(s, job'[r], final'[r])
        BY <2>1, <2>3, <3>1 DEF Typed, Whole
      <3> QED
        BY <2>1, <2>2, <2>3, <2>4, <2>5, <3>1, <3>2 DEF Good, s, sent
    <2> QED
      BY <2>6, <2>7
  <1>5. /\ ledger' \in [Runs -> Seq(Rows)] /\ job' \in [Runs -> {None, "Running", "Ended"}]
        /\ final' \in [Runs -> Results]
    BY <1>1, <1>4
  <1> QED
    BY <1>1, <1>2, <1>4, <1>5 DEF TeamInv

-----------------------------------------------------------------------------
(* The invariant, and what it says.                                        *)

LEMMA InitTeam == Init => TeamInv
  <1> SUFFICES ASSUME Init PROVE TeamInv
    OBVIOUS
  <1>1. ASSUME NEW r \in Runs PROVE Good(Off, <<>>, {}, None, NoResult)
    <2>1. /\ Off \in Loops /\ Off.pc = "off" /\ Off.calls = 0 /\ Off.inspections = 0
          /\ NoResult \in Results /\ NoResult.proposals = 0
      BY OffTyped DEF Off, NoResult
    <2>2. Limited(Off, <<>>)
      BY <2>1, TeamConstants DEF Limited, InLoop
    <2>3. Recorded(Off, <<>>, {})
      BY <2>1 DEF Recorded, Between, During
    <2>4. Typed(Off, <<>>, {}, None, NoResult) /\ Whole(Off, None, NoResult)
      BY <2>1 DEF Typed, Whole
    <2> QED
      BY <2>2, <2>3, <2>4 DEF Good
  <1>2. /\ run = [r \in Runs |-> Off] /\ ledger = [r \in Runs |-> <<>>] /\ seen = [r \in Runs |-> {}]
        /\ job = [r \in Runs |-> None] /\ final = [r \in Runs |-> NoResult]
        /\ mode = "Running" /\ up = TRUE /\ cancels = 0 /\ faults = 0
    BY DEF Init
  <1>3. 0 \in 0 .. MaxCancels /\ 0 \in 0 .. MaxFaults
    BY TeamConstants
  <1> QED
    BY <1>1, <1>2, <1>3, OffTyped DEF TeamInv

LEMMA NextTeam == ASSUME TeamInv, [Next]_vars PROVE TeamInv'
  <1>1. CASE UNCHANGED vars
    BY <1>1 DEF TeamInv, vars
  <1>2. ASSUME NEW r \in Runs, Begin(r) \/ CancelPass(r) \/ CloseIssue(r) PROVE TeamInv'
    BY <1>2, BeginKeeps, CancelPassKeeps, CloseIssueKeeps
  <1>3. ASSUME NEW r \in Runs, LoopStep(r) PROVE TeamInv'
    BY <1>3, TurnKeeps, CheckKeeps, OpenKeeps, SendKeeps, HangupKeeps, CloseKeeps, BackoffKeeps,
       NextCallKeeps, ToolKeeps DEF LoopStep
  <1>4. ASSUME NEW r \in Runs, Deliver(r) \/ Fallback(r) \/ Provider(r) PROVE TeamInv'
    BY <1>4, DeliverKeeps, FallbackKeeps, ProviderKeeps
  <1>5. ASSUME NEW r \in Runs, DeliveryFails(r) \/ Abort(r) PROVE TeamInv'
    BY <1>5, DropKeeps
  <1>6. CASE Resume \/ Crash \/ Recover
    BY <1>6, ResumeKeeps, CrashKeeps, RecoverKeeps
  <1> QED
    BY <1>1, <1>2, <1>3, <1>4, <1>5, <1>6 DEF Next, RunStep

\* The invariant holds in every reachable state, for any runs, answers, budgets and faults
\* (harness.run, RequestAccounting, run_job).
THEOREM TeamAlways == Spec => []TeamInv
  BY InitTeam, NextTeam, PTL DEF Spec

\* Every variable keeps its type, and a run counts its retries and its wrap-up turns within
\* their budgets (harness.run, MAX_MODEL_RETRIES and WRAP_UP_TURNS).
THEOREM TeamTyped == Spec => []TypeOK
  <1>1. TeamInv => TypeOK
    BY DEF TeamInv, TypeOK
  <1> QED
    BY <1>1, TeamAlways, PTL

\* The ledger tells the truth: a request is recorded before it is sent and closed before the
\* next one opens; what is recorded as not sent never reached the provider, and what is
\* recorded as closed did - through cancellations, failed writes, crashes and recoveries.
THEOREM LedgerAlwaysTrue == Spec => []LedgerTrue
  <1>1. ASSUME TeamInv PROVE LedgerTrue
    <2> SUFFICES ASSUME NEW r \in Runs
                 PROVE  /\ seen[r] \subseteq DOMAIN ledger[r]
                        /\ \A i \in DOMAIN ledger[r] :
                              /\ ledger[r][i].status = "started" => i = Len(ledger[r])
                              /\ ledger[r][i].status = "not_sent" => i \notin seen[r]
                              /\ ledger[r][i].status = "closed" => i \in seen[r]
      BY DEF LedgerTrue
    <2>1. Recorded(run[r], ledger[r], seen[r]) /\ ledger[r] \in Seq(Rows)
      BY <1>1 DEF TeamInv, Good
    <2>2. DOMAIN ledger[r] = 1 .. Len(ledger[r])
      BY <2>1, LenProperties
    <2> QED
      BY <2>1, <2>2 DEF Recorded, RowTrue
  <1> QED
    BY <1>1, TeamAlways, PTL

\* What the Scheduler is told is whole: a run cancelled before it concluded reports a
\* failure, and only a diagnosis carries proposals.
THEOREM ResultsWhole == Spec => []ResultWhole
  <1>1. TeamInv => ResultWhole
    BY DEF TeamInv, Good, Whole, ResultWhole
  <1> QED
    BY <1>1, TeamAlways, PTL

\* The budgets of a run hold whatever the model answers: its requests, its tool calls and its
\* inspections.
THEOREM LimitsHold == Spec => []WithinLimits
  <1>1. TeamInv => WithinLimits
    BY DEF TeamInv, Good, Limited, WithinLimits
  <1> QED
    BY <1>1, TeamAlways, PTL

-----------------------------------------------------------------------------
(* Sums.  The sums of the model are folds, which the provers see as the    *)
(* functions that solve their recursive equations; a total is counted here *)
(* as the size of a set, and every such function is shown to be the total. *)

\* As many units as the members of s have together.
Pile(w, s) == {p \in s \X Nat : p[2] \in 1 .. w[p[1]]}
Total(w, s) == Cardinality(Pile(w, s))

\* What one member adds is as many units.
LEMMA OnePile ==
    ASSUME NEW w, NEW x, w[x] \in Nat
    PROVE  IsFiniteSet(Pile(w, {x})) /\ Total(w, {x}) = w[x]
  <1>1. Pile(w, {x}) = {x} \X (1 .. w[x])
    <2>1. ASSUME NEW p \in Pile(w, {x}) PROVE p \in {x} \X (1 .. w[x])
      BY <2>1 DEF Pile
    <2>2. ASSUME NEW p \in {x} \X (1 .. w[x]) PROVE p \in Pile(w, {x})
      BY <2>2 DEF Pile
    <2> QED
      BY <2>1, <2>2
  <1>2. IsFiniteSet({x}) /\ Cardinality({x}) = 1
    BY FS_Singleton
  <1>3. IsFiniteSet(1 .. w[x]) /\ Cardinality(1 .. w[x]) = w[x]
    <2>1. /\ IsFiniteSet(1 .. w[x])
          /\ Cardinality(1 .. w[x]) = IF 1 > w[x] THEN 0 ELSE w[x] - 1 + 1
      BY FS_Interval
    <2> QED
      BY <2>1
  <1>4. /\ IsFiniteSet({x} \X (1 .. w[x]))
        /\ Cardinality({x} \X (1 .. w[x])) = Cardinality({x}) * Cardinality(1 .. w[x])
    BY <1>2, <1>3, FS_Product
  <1>5. 1 * w[x] = w[x]
    OBVIOUS
  <1>6. Cardinality(Pile(w, {x})) = w[x]
    BY <1>1, <1>2, <1>3, <1>4, <1>5
  <1> QED
    BY <1>1, <1>4, <1>6 DEF Total

\* A finite set of members has a finite pile.
LEMMA PileFinite ==
    ASSUME NEW S, IsFiniteSet(S), NEW w, \A x \in S : w[x] \in Nat
    PROVE  IsFiniteSet(Pile(w, S)) /\ Total(w, S) \in Nat
  <1> DEFINE piles == {Pile(w, {x}) : x \in S}
             f == [x \in S |-> Pile(w, {x})]
  <1>1. f \in Surjection(S, piles)
    BY DEF Surjection
  <1>2. IsFiniteSet(piles)
    <2> HIDE DEF f, piles
    <2> QED
      BY <1>1, FS_Surjection
  <1>3. \A P \in piles : IsFiniteSet(P)
    BY OnePile
  <1>4. IsFiniteSet(UNION piles)
    <2> HIDE DEF piles
    <2> QED
      BY <1>2, <1>3, FS_UNION
  <1>5. Pile(w, S) \subseteq UNION piles
    <2> SUFFICES ASSUME NEW p \in Pile(w, S) PROVE p \in UNION piles
      OBVIOUS
    <2>1. p[1] \in S /\ p \in {p[1]} \X Nat /\ p[2] \in 1 .. w[p[1]]
      BY DEF Pile
    <2>2. p \in Pile(w, {p[1]})
      BY <2>1 DEF Pile
    <2> QED
      BY <2>1, <2>2
  <1> QED
    BY <1>4, <1>5, FS_Subset, FS_CardinalityType DEF Total

\* A total is one member and the rest of them.
LEMMA TotalTakes ==
    ASSUME NEW S, IsFiniteSet(S), NEW w, \A x \in S : w[x] \in Nat, NEW x \in S
    PROVE  Total(w, S) = w[x] + Total(w, S \ {x})
  <1> DEFINE P == Pile(w, {x})
             Q == Pile(w, S \ {x})
  <1>1. /\ IsFiniteSet(P) /\ Cardinality(P) = w[x]
    BY OnePile DEF Total
  <1>2. IsFiniteSet(S \ {x}) /\ \A y \in S \ {x} : w[y] \in Nat
    BY FS_RemoveElement
  <1>3. IsFiniteSet(Q) /\ Cardinality(Q) \in Nat
    BY <1>2, PileFinite DEF Total
  <1>4. Pile(w, S) = P \cup Q
    BY DEF Pile
  <1>5. P \cap Q = {}
    BY DEF Pile
  <1> HIDE DEF P, Q
  <1>6. Cardinality(P \cup Q) = Cardinality(P) + Cardinality(Q) - Cardinality(P \cap Q)
    BY <1>1, <1>3, FS_Union
  <1>7. Cardinality({}) = 0
    BY FS_EmptySet
  <1>8. Cardinality(P \cap Q) = 0
    BY <1>5, <1>7
  <1>10. Cardinality(P \cup Q) = w[x] + Cardinality(Q)
    BY <1>1, <1>3, <1>6, <1>8
  <1>9. Total(w, S) = w[x] + Cardinality(Q)
    BY <1>4, <1>10 DEF Total
  <1> QED
    BY <1>9 DEF Total, Q

\* Nothing comes to nothing.
LEMMA TotalNothing == ASSUME NEW w PROVE Total(w, {}) = 0
  <1>1. Pile(w, {}) = {}
    BY DEF Pile
  <1> QED
    BY <1>1, FS_EmptySet DEF Total

\* What takes one member after the other, in any order, comes to the total: of the sets it gets
\* wrong there would be a smallest, which is one member and a smaller set.
LEMMA TallyIsTotal ==
    ASSUME NEW S, IsFiniteSet(S), NEW w, \A x \in S : w[x] \in Nat, NEW T, T[{}] = 0,
           \A s \in (SUBSET S) \ {{}} : \E x \in s : \/ T[s] = w[x] + T[s \ {x}]
                                                   \/ T[s] = T[s \ {x}] + w[x]
    PROVE  T[S] = Total(w, S)
  <1> DEFINE wrong == {s \in SUBSET S : T[s] # Total(w, s)}
  <1>1. SUFFICES ASSUME wrong # {} PROVE FALSE
    <2>1. S \in SUBSET S
      OBVIOUS
    <2> QED
      BY <2>1
  <1>2. IsWellFoundedOn(StrictSubsetOrdering(S), SUBSET S)
    BY FS_StrictSubsetOrderingWellFounded, FS_FiniteSubsetsOfFinite
  <1>3. \E s \in wrong : \A t \in wrong : ~(<<t, s>> \in StrictSubsetOrdering(S))
    <2>1. wrong \subseteq SUBSET S
      OBVIOUS
    <2> HIDE DEF wrong
    <2> QED
      BY <1>1, <1>2, <2>1, WFMin
  <1>4. PICK s \in wrong : \A t \in wrong : ~(<<t, s>> \in StrictSubsetOrdering(S))
    BY <1>3
  <1>5. s \in SUBSET S /\ T[s] # Total(w, s) /\ s # {}
    BY TotalNothing
  <1>6. PICK x \in s : T[s] = w[x] + T[s \ {x}] \/ T[s] = T[s \ {x}] + w[x]
    BY <1>5
  <1>7. <<s \ {x}, s>> \in StrictSubsetOrdering(S)
    BY <1>5 DEF StrictSubsetOrdering
  <1>8. s \ {x} \in SUBSET S /\ T[s \ {x}] = Total(w, s \ {x})
    BY <1>4, <1>5, <1>7
  <1>9. IsFiniteSet(s) /\ IsFiniteSet(s \ {x}) /\ \A y \in s : w[y] \in Nat
    BY <1>5, <1>8, FS_Subset
  <1>10. Total(w, s) = w[x] + Total(w, s \ {x})
    BY <1>9, TotalTakes
  <1>11. Total(w, s \ {x}) \in Nat /\ w[x] \in Nat
    BY <1>9, PileFinite
  <1> QED
    BY <1>5, <1>6, <1>8, <1>10, <1>11

\* Totals of counts that are comparable.
LEMMA TotalAtMost ==
    ASSUME NEW S, IsFiniteSet(S), NEW w, NEW v, \A x \in S : w[x] \in Nat /\ v[x] \in Nat /\ w[x] <= v[x]
    PROVE  Total(w, S) <= Total(v, S)
  <1>1. Pile(w, S) \subseteq Pile(v, S)
    BY DEF Pile
  <1> QED
    BY <1>1, PileFinite, FS_Subset DEF Total

\* Equal counts come to the same.
LEMMA TotalSame ==
    ASSUME NEW S, NEW w, NEW v, \A x \in S : w[x] = v[x]
    PROVE  Total(w, S) = Total(v, S)
  <1>1. Pile(w, S) = Pile(v, S)
    BY DEF Pile
  <1> QED
    BY <1>1 DEF Total

\* Two counts that differ in one member differ in the total by that much.
LEMMA TotalChanges ==
    ASSUME NEW S, IsFiniteSet(S), NEW w, NEW v, \A x \in S : w[x] \in Nat /\ v[x] \in Nat,
           NEW x \in S, \A y \in S \ {x} : w[y] = v[y]
    PROVE  Total(w, S) + v[x] = Total(v, S) + w[x]
  <1>1. Total(w, S) = w[x] + Total(w, S \ {x}) /\ Total(v, S) = v[x] + Total(v, S \ {x})
    BY TotalTakes
  <1>2. Total(w, S \ {x}) = Total(v, S \ {x})
    BY TotalSame
  <1>3. Total(w, S \ {x}) \in Nat
    <2>1. IsFiniteSet(S \ {x})
      BY FS_RemoveElement
    <2> QED
      BY <2>1, PileFinite
  <1> QED
    BY <1>1, <1>2, <1>3

\* The sums of the model are such tallies.
LEMMA CountedIsTotal ==
    ASSUME NEW rows, \A r \in Runs : TokensOf(rows[r]) \in Nat
    PROVE  Counted(rows) = Total([r \in Runs |-> TokensOf(rows[r])], Runs)
  <1> DEFINE w == [r \in Runs |-> TokensOf(rows[r])]
             c(s) == CHOOSE x \in s : TRUE
             G == [s \in SUBSET Runs |-> Total(w, s)]
  <1>1. \A s \in SUBSET Runs : s # {} => Total(w, s) = TokensOf(rows[c(s)]) + Total(w, s \ {c(s)})
    <2> SUFFICES ASSUME NEW s \in SUBSET Runs, s # {}
                 PROVE  Total(w, s) = TokensOf(rows[c(s)]) + Total(w, s \ {c(s)})
      OBVIOUS
    <2>1. c(s) \in s
      OBVIOUS
    <2>2. IsFiniteSet(s)
      BY FS_Subset, BudgetConstants
    <2>3. \A x \in s : w[x] \in Nat
      OBVIOUS
    <2>4. w[c(s)] = TokensOf(rows[c(s)])
      BY <2>1
    <2> HIDE DEF c, w
    <2> QED
      BY <2>1, <2>2, <2>3, <2>4, TotalTakes
  <1>2. G = [s \in SUBSET Runs |-> IF s = {} THEN 0
                                   ELSE TokensOf(rows[c(s)]) + G[s \ {c(s)}]]
    <2> HIDE DEF w, c
    <2> QED
      BY <1>1, TotalNothing
  <1> HIDE DEF G, w
  <1>3. \E T : /\ T = [s \in SUBSET Runs |->
                         IF s = {} THEN 0
                         ELSE TokensOf(rows[CHOOSE x \in s : TRUE]) + T[s \ {CHOOSE x \in s : TRUE}]]
               /\ Counted(rows) = T[Runs]
    BY <1>2 DEF MapThenSumSet, MapThenFoldSet, Counted
  <1>4. PICK T : /\ T = [s \in SUBSET Runs |->
                         IF s = {} THEN 0
                         ELSE TokensOf(rows[CHOOSE x \in s : TRUE]) + T[s \ {CHOOSE x \in s : TRUE}]]
                 /\ Counted(rows) = T[Runs]
    BY <1>3
  <1>5. T[{}] = 0
    BY <1>4
  <1>6. \A s \in (SUBSET Runs) \ {{}} : \E x \in s : T[s] = w[x] + T[s \ {x}]
    BY <1>4 DEF w
  <1>7. \A r \in Runs : w[r] \in Nat
    BY DEF w
  <1>8. T[Runs] = Total(w, Runs)
    BY <1>5, <1>6, <1>7, TallyIsTotal, BudgetConstants
  <1> QED
    BY <1>4, <1>8 DEF w

\* And so is what a run's rows come to.
LEMMA TokensAreTotal ==
    ASSUME NEW rows \in Seq(Rows)
    PROVE  TokensOf(rows) = Total([i \in DOMAIN rows |-> rows[i].tokens], DOMAIN rows)
  <1> DEFINE D == DOMAIN rows
             w == [i \in D |-> rows[i].tokens]
             c(s) == CHOOSE x \in s : TRUE
             G == [s \in SUBSET D |-> Total(w, s)]
  <1>1. D = 1 .. Len(rows) /\ Len(rows) \in Nat /\ \A i \in D : rows[i] \in Rows
    BY LenProperties, ElementOfSeq
  <1>2. IsFiniteSet(D) /\ \A i \in D : rows[i].tokens \in Nat
    BY <1>1, FS_Interval DEF Rows
  <1>3. \A s \in SUBSET D : s # {} => Total(w, s) = Total(w, s \ {c(s)}) + rows[c(s)].tokens
    <2> SUFFICES ASSUME NEW s \in SUBSET D, s # {}
                 PROVE  Total(w, s) = Total(w, s \ {c(s)}) + rows[c(s)].tokens
      OBVIOUS
    <2>1. c(s) \in s
      OBVIOUS
    <2>2. IsFiniteSet(s) /\ IsFiniteSet(s \ {c(s)})
      BY <1>2, FS_Subset
    <2>3. \A x \in s : w[x] \in Nat
      BY <1>2
    <2>4. w[c(s)] = rows[c(s)].tokens
      BY <2>1
    <2> HIDE DEF c, w
    <2>5. Total(w, s) = w[c(s)] + Total(w, s \ {c(s)})
      BY <2>1, <2>2, <2>3, TotalTakes
    <2>6. Total(w, s \ {c(s)}) \in Nat /\ w[c(s)] \in Nat
      BY <2>1, <2>2, <2>3, PileFinite
    <2> QED
      BY <2>4, <2>5, <2>6
  <1>4. G = [s \in SUBSET D |-> IF s = {} THEN 0 ELSE G[s \ {c(s)}] + rows[c(s)].tokens]
    <2> HIDE DEF w, c, D
    <2> QED
      BY <1>3, TotalNothing
  <1> HIDE DEF G, w
  <1>5. \E T : /\ T = [s \in SUBSET DOMAIN rows |->
                         IF s = {} THEN 0
                         ELSE T[s \ {CHOOSE x \in s : TRUE}] + rows[CHOOSE x \in s : TRUE].tokens]
               /\ TokensOf(rows) = T[DOMAIN rows]
    BY <1>4 DEF FoldSeq, FoldFunction, FoldFunctionOnSet, MapThenFoldSet, TokensOf
  <1>6. PICK T : /\ T = [s \in SUBSET DOMAIN rows |->
                         IF s = {} THEN 0
                         ELSE T[s \ {CHOOSE x \in s : TRUE}] + rows[CHOOSE x \in s : TRUE].tokens]
                 /\ TokensOf(rows) = T[DOMAIN rows]
    BY <1>5
  <1>7. T[{}] = 0
    BY <1>6
  <1>8. \A s \in (SUBSET D) \ {{}} : \E x \in s : T[s] = T[s \ {x}] + w[x]
    BY <1>6 DEF w
  <1>9. \A i \in D : w[i] \in Nat
    BY <1>2 DEF w
  <1> HIDE DEF D
  <1>10. T[D] = Total(w, D)
    BY <1>2, <1>7, <1>8, <1>9, TallyIsTotal
  <1> QED
    BY <1>6, <1>10 DEF w, D

-----------------------------------------------------------------------------
(* What the runs spend together.                                           *)

\* A request past its check may still cost what its run's largest answer costs.
Owing == {"open"} \cup During
Owes(s, r) == IF s.pc \in Owing THEN LargestAnswer(r) ELSE 0
Owed(tasks) == Total([r \in Runs |-> Owes(tasks[r], r)], Runs)

\* What is to be billed is an answer of the run, and an open request has cost nothing yet.
Frugal(s, rows, r) ==
    /\ s.answer.tokens <= LargestAnswer(r)
    /\ \A i \in 1 .. Len(rows) : rows[i].status = "started" => rows[i].tokens = 0

\* What is recorded and what may still be billed overshoot the ceiling by less than an answer
\* of every run.
SpendInv ==
    /\ \A r \in Runs : Frugal(run[r], ledger[r], r)
    /\ Counted(ledger) + Owed(run) < Budget + MapThenSumSet(LargestAnswer, Runs)

\* A largest answer is one.
LEMMA LargestIs ==
    ASSUME NEW r \in Runs
    PROVE  /\ LargestAnswer(r) \in Nat
           /\ \A a \in Answers[r] : a.tokens \in Nat /\ a.tokens <= LargestAnswer(r)
  <1> DEFINE S == {a.tokens : a \in Answers[r]}
  <1>1. \A a \in Answers[r] : a.tokens \in Nat
    BY TeamConstants
  <1>2. PICK a \in Answers[r] : \A b \in Answers[r] : b.tokens <= a.tokens
    BY BudgetConstants
  <1>3. S \subseteq Nat /\ a.tokens \in S /\ \A y \in S : a.tokens >= y
    BY <1>1, <1>2
  <1>4. LargestAnswer(r) = Max(S)
    BY DEF LargestAnswer
  <1> HIDE DEF S
  <1>5. Max(S) \in S /\ \A y \in S : Max(S) >= y
    BY <1>3 DEF Max
  <1>6. Max(S) \in Nat /\ \A y \in S : y <= Max(S)
    BY <1>3, <1>5
  <1> QED
    BY <1>1, <1>4, <1>6 DEF S

\* The bound is a tally of the largest answers.
LEMMA LargestIsTotal ==
    MapThenSumSet(LargestAnswer, Runs) = Total([r \in Runs |-> LargestAnswer(r)], Runs)
  <1> DEFINE w == [r \in Runs |-> LargestAnswer(r)]
             c(s) == CHOOSE x \in s : TRUE
             G == [s \in SUBSET Runs |-> Total(w, s)]
  <1>1. \A s \in SUBSET Runs : s # {} => Total(w, s) = LargestAnswer(c(s)) + Total(w, s \ {c(s)})
    <2> SUFFICES ASSUME NEW s \in SUBSET Runs, s # {}
                 PROVE  Total(w, s) = LargestAnswer(c(s)) + Total(w, s \ {c(s)})
      OBVIOUS
    <2>1. c(s) \in s
      OBVIOUS
    <2>2. IsFiniteSet(s)
      BY FS_Subset, BudgetConstants
    <2>3. \A x \in s : w[x] \in Nat
      BY LargestIs
    <2>4. w[c(s)] = LargestAnswer(c(s))
      BY <2>1
    <2> HIDE DEF c, w
    <2> QED
      BY <2>1, <2>2, <2>3, <2>4, TotalTakes
  <1>2. G = [s \in SUBSET Runs |-> IF s = {} THEN 0 ELSE LargestAnswer(c(s)) + G[s \ {c(s)}]]
    <2> HIDE DEF w, c
    <2> QED
      BY <1>1, TotalNothing
  <1> HIDE DEF G, w
  <1>3. \E T : /\ T = [s \in SUBSET Runs |->
                         IF s = {} THEN 0
                         ELSE LargestAnswer(CHOOSE x \in s : TRUE) + T[s \ {CHOOSE x \in s : TRUE}]]
               /\ MapThenSumSet(LargestAnswer, Runs) = T[Runs]
    BY <1>2 DEF MapThenSumSet, MapThenFoldSet
  <1>4. PICK T : /\ T = [s \in SUBSET Runs |->
                         IF s = {} THEN 0
                         ELSE LargestAnswer(CHOOSE x \in s : TRUE) + T[s \ {CHOOSE x \in s : TRUE}]]
                 /\ MapThenSumSet(LargestAnswer, Runs) = T[Runs]
    BY <1>3
  <1>5. T[{}] = 0
    BY <1>4
  <1>6. \A s \in (SUBSET Runs) \ {{}} : \E x \in s : T[s] = w[x] + T[s \ {x}]
    BY <1>4 DEF w
  <1>7. \A r \in Runs : w[r] \in Nat
    BY LargestIs DEF w
  <1>8. T[Runs] = Total(w, Runs)
    BY <1>5, <1>6, <1>7, TallyIsTotal, BudgetConstants
  <1> QED
    BY <1>4, <1>8 DEF w

\* The tokens of a run's rows are a number.
LEMMA TokensTyped == ASSUME NEW rows \in Seq(Rows) PROVE TokensOf(rows) \in Nat
  <1> DEFINE w == [i \in DOMAIN rows |-> rows[i].tokens]
  <1>1. DOMAIN rows = 1 .. Len(rows) /\ Len(rows) \in Nat /\ \A i \in DOMAIN rows : rows[i] \in Rows
    BY LenProperties, ElementOfSeq
  <1>2. IsFiniteSet(DOMAIN rows) /\ \A i \in DOMAIN rows : w[i] \in Nat
    BY <1>1, FS_Interval DEF Rows
  <1>3. TokensOf(rows) = Total(w, DOMAIN rows)
    BY TokensAreTotal
  <1> HIDE DEF w
  <1> QED
    BY <1>2, <1>3, PileFinite

\* A change of status is no change of tokens.
LEMMA TokensKept ==
    ASSUME NEW rows \in Seq(Rows), NEW more \in Seq(Rows), Len(more) = Len(rows),
           \A i \in 1 .. Len(rows) : more[i].tokens = rows[i].tokens
    PROVE  TokensOf(more) = TokensOf(rows)
  <1>1. DOMAIN rows = 1 .. Len(rows) /\ DOMAIN more = 1 .. Len(rows)
    BY LenProperties
  <1>2. [i \in DOMAIN more |-> more[i].tokens] = [i \in DOMAIN rows |-> rows[i].tokens]
    BY <1>1
  <1> QED
    BY <1>1, <1>2, TokensAreTotal

\* A row that is opened adds nothing.
LEMMA OpenCostsNothing ==
    ASSUME NEW rows \in Seq(Rows)
    PROVE  TokensOf(Append(rows, Row("started", 0))) = TokensOf(rows)
  <1> DEFINE more == Append(rows, Row("started", 0))
             w == [i \in DOMAIN more |-> more[i].tokens]
             v == [i \in DOMAIN rows |-> rows[i].tokens]
             n == Len(rows) + 1
  <1>1. Row("started", 0) \in Rows /\ Row("started", 0).tokens = 0
    BY DEF Row, Rows
  <1>2. /\ more \in Seq(Rows) /\ Len(more) = n /\ more[n] = Row("started", 0)
        /\ \A i \in 1 .. Len(rows) : more[i] = rows[i]
    BY <1>1, AppendProperties
  <1>3. DOMAIN rows = 1 .. Len(rows) /\ DOMAIN more = 1 .. n /\ Len(rows) \in Nat
    BY <1>2, LenProperties
  <1>4. /\ DOMAIN more = DOMAIN rows \cup {n} /\ n \notin DOMAIN rows
        /\ \A i \in DOMAIN rows : w[i] = v[i]
    BY <1>2, <1>3
  <1>5. w[n] = 0
    BY <1>1, <1>2, <1>4
  <1>6. IsFiniteSet(DOMAIN more) /\ \A i \in DOMAIN more : w[i] \in Nat
    <2>1. \A i \in DOMAIN more : more[i] \in Rows
      BY <1>2, <1>3, ElementOfSeq
    <2>2. \A i \in DOMAIN more : w[i] \in Nat
      BY <2>1 DEF Rows
    <2>3. n \in Int
      BY <1>3
    <2> HIDE DEF w, more, n
    <2>4. IsFiniteSet(1 .. n)
      BY <2>3, FS_Interval
    <2> QED
      BY <1>3, <2>2, <2>4
  <1>7. TokensOf(more) = Total(w, DOMAIN more) /\ TokensOf(rows) = Total(v, DOMAIN rows)
    BY <1>2, TokensAreTotal
  <1>8. TokensOf(rows) \in Nat
    BY TokensTyped
  <1> HIDE DEF w, v, more, n
  <1>9. Total(w, DOMAIN more) = w[n] + Total(w, DOMAIN more \ {n})
    BY <1>4, <1>6, TotalTakes
  <1>10. DOMAIN more \ {n} = DOMAIN rows
    BY <1>4
  <1>11. Total(w, DOMAIN rows) = Total(v, DOMAIN rows)
    BY <1>4, TotalSame
  <1>12. TokensOf(more) = TokensOf(rows)
    BY <1>5, <1>7, <1>8, <1>9, <1>10, <1>11
  <1> QED
    BY <1>12 DEF more

\* The last row, when it is closed, adds what its answer cost.
LEMMA CloseCosts ==
    ASSUME NEW rows \in Seq(Rows), rows # <<>>, rows[Len(rows)].tokens = 0, NEW row \in Rows
    PROVE  TokensOf([rows EXCEPT ![Len(rows)] = row]) = TokensOf(rows) + row.tokens
  <1> DEFINE n == Len(rows)
             more == [rows EXCEPT ![n] = row]
             w == [i \in DOMAIN rows |-> rows[i].tokens]
             v == [i \in DOMAIN more |-> more[i].tokens]
             D == DOMAIN rows
  <1>1. D = 1 .. n /\ n \in Nat /\ n \in D /\ \A i \in D : rows[i] \in Rows
    BY EmptySeq, LenProperties, ElementOfSeq
  <1>2. more \in Seq(Rows) /\ DOMAIN more = D
    BY <1>1, ExceptSeq
  <1>3. \A i \in D : more[i] = IF i = n THEN row ELSE rows[i]
    BY <1>1, <1>2
  <1>4. IsFiniteSet(D) /\ \A i \in D : w[i] \in Nat /\ v[i] \in Nat
    <2>1. IsFiniteSet(1 .. n)
      BY <1>1, FS_Interval
    <2>2. \A i \in D : w[i] \in Nat /\ v[i] \in Nat
      BY <1>1, <1>2, <1>3 DEF Rows
    <2> QED
      BY <1>1, <2>1, <2>2
  <1>5. w[n] = 0 /\ v[n] = row.tokens /\ \A i \in D \ {n} : w[i] = v[i]
    BY <1>1, <1>2, <1>3
  <1>6. TokensOf(more) = Total(v, D) /\ TokensOf(rows) = Total(w, D)
    BY <1>2, TokensAreTotal
  <1>7. TokensOf(more) \in Nat /\ TokensOf(rows) \in Nat
    BY <1>2, TokensTyped
  <1> HIDE DEF w, v, more, n, D
  <1>8. Total(w, D) + v[n] = Total(v, D) + w[n]
    <2>1. n \in D /\ \A y \in D \ {n} : w[y] = v[y]
      BY <1>1, <1>5
    <2> QED
      BY <1>4, <2>1, TotalChanges
  <1>9. TokensOf(more) = TokensOf(rows) + row.tokens
    BY <1>5, <1>6, <1>7, <1>8
  <1> QED
    BY <1>9 DEF more, n

\* The sums are numbers.
LEMMA SumsTyped ==
    ASSUME NEW rows \in [Runs -> Seq(Rows)], NEW tasks
    PROVE  /\ Counted(rows) \in Nat /\ Owed(tasks) \in Nat
           /\ MapThenSumSet(LargestAnswer, Runs) \in Nat
           /\ Owed(tasks) <= MapThenSumSet(LargestAnswer, Runs)
  <1> DEFINE w == [r \in Runs |-> TokensOf(rows[r])]
             o == [r \in Runs |-> Owes(tasks[r], r)]
             l == [r \in Runs |-> LargestAnswer(r)]
  <1>1. \A r \in Runs : w[r] \in Nat /\ o[r] \in Nat /\ l[r] \in Nat /\ o[r] <= l[r]
    BY TokensTyped, LargestIs DEF Owes
  <1>2. \A r \in Runs : TokensOf(rows[r]) \in Nat
    BY TokensTyped
  <1>3. Counted(rows) = Total(w, Runs)
    BY <1>2, CountedIsTotal
  <1>4. Owed(tasks) = Total(o, Runs)
    BY DEF Owed
  <1>5. MapThenSumSet(LargestAnswer, Runs) = Total(l, Runs)
    BY LargestIsTotal
  <1> HIDE DEF w, o, l
  <1>6. Total(w, Runs) \in Nat /\ Total(o, Runs) \in Nat /\ Total(l, Runs) \in Nat
    BY <1>1, PileFinite, BudgetConstants
  <1>7. Total(o, Runs) <= Total(l, Runs)
    BY <1>1, TotalAtMost, BudgetConstants
  <1> QED
    BY <1>3, <1>4, <1>5, <1>6, <1>7

\* Runs that owe no more than before.
LEMMA OwedAtMost ==
    ASSUME NEW tasks, NEW more, \A r \in Runs : Owes(more[r], r) <= Owes(tasks[r], r)
    PROVE  Owed(more) <= Owed(tasks)
  <1> DEFINE w == [r \in Runs |-> Owes(more[r], r)]
             v == [r \in Runs |-> Owes(tasks[r], r)]
  <1>1. \A r \in Runs : w[r] \in Nat /\ v[r] \in Nat /\ w[r] <= v[r]
    BY LargestIs DEF Owes
  <1>2. Owed(more) = Total(w, Runs) /\ Owed(tasks) = Total(v, Runs)
    BY DEF Owed
  <1> HIDE DEF w, v
  <1> QED
    BY <1>1, <1>2, TotalAtMost, BudgetConstants

\* Runs whose rows come to the same are counted the same.
LEMMA CountedSame ==
    ASSUME NEW rows \in [Runs -> Seq(Rows)], NEW more \in [Runs -> Seq(Rows)],
           \A r \in Runs : TokensOf(more[r]) = TokensOf(rows[r])
    PROVE  Counted(more) = Counted(rows)
  <1>1. \A r \in Runs : TokensOf(rows[r]) \in Nat /\ TokensOf(more[r]) \in Nat
    BY TokensTyped
  <1>2. [r \in Runs |-> TokensOf(more[r])] = [r \in Runs |-> TokensOf(rows[r])]
    OBVIOUS
  <1> QED
    BY <1>1, <1>2, CountedIsTotal

\* A run that no longer owes its answer.
LEMMA OwedPaid ==
    ASSUME NEW tasks, NEW more, NEW r \in Runs,
           \A q \in Runs \ {r} : Owes(more[q], q) <= Owes(tasks[q], q),
           Owes(tasks[r], r) = LargestAnswer(r), Owes(more[r], r) = 0
    PROVE  Owed(more) + LargestAnswer(r) <= Owed(tasks)
  <1> DEFINE w == [q \in Runs |-> Owes(more[q], q)]
             u == [q \in Runs |-> IF q = r THEN LargestAnswer(r) ELSE Owes(more[q], q)]
             v == [q \in Runs |-> Owes(tasks[q], q)]
  <1>1. \A q \in Runs : w[q] \in Nat /\ u[q] \in Nat /\ v[q] \in Nat /\ u[q] <= v[q]
    BY LargestIs DEF Owes
  <1>2. w[r] = 0 /\ u[r] = LargestAnswer(r) /\ \A q \in Runs \ {r} : w[q] = u[q]
    OBVIOUS
  <1>3. Owed(more) = Total(w, Runs) /\ Owed(tasks) = Total(v, Runs)
    BY DEF Owed
  <1> HIDE DEF w, u, v
  <1>4. Total(w, Runs) + u[r] = Total(u, Runs) + w[r]
    BY <1>1, <1>2, TotalChanges, BudgetConstants
  <1>5. Total(u, Runs) <= Total(v, Runs)
    BY <1>1, TotalAtMost, BudgetConstants
  <1>6. Total(w, Runs) \in Nat /\ Total(u, Runs) \in Nat /\ Total(v, Runs) \in Nat
    BY <1>1, PileFinite, BudgetConstants
  <1> QED
    BY <1>1, <1>2, <1>3, <1>4, <1>5, <1>6

\* One run whose rows come to more is counted for the difference.
LEMMA CountedMore ==
    ASSUME NEW rows \in [Runs -> Seq(Rows)], NEW more \in [Runs -> Seq(Rows)], NEW r \in Runs,
           NEW cost \in Nat, TokensOf(more[r]) = TokensOf(rows[r]) + cost,
           \A q \in Runs \ {r} : more[q] = rows[q]
    PROVE  Counted(more) = Counted(rows) + cost
  <1> DEFINE w == [q \in Runs |-> TokensOf(rows[q])]
             v == [q \in Runs |-> TokensOf(more[q])]
  <1>1. \A q \in Runs : TokensOf(rows[q]) \in Nat /\ TokensOf(more[q]) \in Nat
    BY TokensTyped
  <1>2. \A q \in Runs : w[q] \in Nat /\ v[q] \in Nat
    BY <1>1
  <1>3. v[r] = w[r] + cost
    OBVIOUS
  <1>4. \A q \in Runs \ {r} : w[q] = v[q]
    OBVIOUS
  <1>5. Counted(rows) = Total(w, Runs) /\ Counted(more) = Total(v, Runs)
    BY <1>1, CountedIsTotal
  <1> HIDE DEF w, v
  <1>6. IsFiniteSet(Runs)
    BY BudgetConstants
  <1>7. Total(w, Runs) + v[r] = Total(v, Runs) + w[r]
    <2>1. \A S : IsFiniteSet(S) =>
             \A a, b : (\A x \in S : a[x] \in Nat /\ b[x] \in Nat) =>
                \A x \in S : (\A y \in S \ {x} : a[y] = b[y]) =>
                   Total(a, S) + b[x] = Total(b, S) + a[x]
      BY TotalChanges
    <2>2. r \in Runs
      OBVIOUS
    <2> QED
      BY <1>2, <1>4, <1>6, <2>1, <2>2
  <1>8. Total(w, Runs) \in Nat /\ Total(v, Runs) \in Nat /\ w[r] \in Nat
    BY <1>2, <1>6, PileFinite
  <1>9. Total(w, Runs) + (w[r] + cost) = Total(v, Runs) + w[r]
    BY <1>3, <1>7
  <1>10. \A a, b, c \in Nat : a + (b + cost) = c + b => c = a + cost
    OBVIOUS
  <1>11. Total(v, Runs) = Total(w, Runs) + cost
    BY <1>8, <1>9, <1>10
  <1> QED
    BY <1>5, <1>11

\* A run that goes from s to t owes no more than it did.
Saves(r, s, t) == t.answer.tokens <= LargestAnswer(r) /\ Owes(t, r) <= Owes(s, r)

\* A run that leaves its loop, or its task, owes nothing.
LEMMA EndSaves ==
    ASSUME NEW r \in Runs, NEW s, NEW u, NEW outcome, NEW pc \in {"error", "done"}
    PROVE  /\ Saves(r, s, Ended(u, outcome)) /\ Saves(r, s, Gone(u, pc))
           /\ Owes(Ended(u, outcome), r) = 0
  <1>1. LargestAnswer(r) \in Nat
    BY LargestIs
  <1>2. Ended(u, outcome).pc = "ended" /\ Ended(u, outcome).answer.tokens = 0
    BY DEF Ended, Off, NoAnswer
  <1>3. Gone(u, pc).pc = pc /\ Gone(u, pc).answer.tokens = 0
    BY DEF Gone, Off, NoAnswer
  <1> QED
    BY <1>1, <1>2, <1>3 DEF Saves, Owes, Owing, During

\* One that keeps its answer, and owes nothing or owed as much before.
LEMMA MoveSaves ==
    ASSUME NEW r \in Runs, NEW s, NEW t, s.answer.tokens <= LargestAnswer(r),
           t.answer.tokens = s.answer.tokens, t.pc \in Owing => s.pc \in Owing
    PROVE  Saves(r, s, t)
  BY LargestIs DEF Saves, Owes

\* The others of a step, told or not.
LEMMA ToldSaves ==
    ASSUME NEW r \in Runs, NEW s \in Loops, s.answer.tokens <= LargestAnswer(r),
           NEW t, t = s \/ t = [s EXCEPT !.token = TRUE]
    PROVE  Saves(r, s, t)
  <1>1. t.pc = s.pc /\ t.answer = s.answer
    BY DEF Loops
  <1> QED
    BY <1>1, MoveSaves

\* A step after which every run saves and the rows come to the same.
LEMMA SpendKept ==
    ASSUME TeamInv, TeamInv', SpendInv,
           \A q \in Runs : Saves(q, run[q], run'[q]),
           \A q \in Runs : /\ TokensOf(ledger'[q]) = TokensOf(ledger[q])
                           /\ \A i \in 1 .. Len(ledger'[q]) :
                                 ledger'[q][i].status = "started" => ledger'[q][i].tokens = 0
    PROVE  SpendInv'
  <1>1. \A q \in Runs : Frugal(run'[q], ledger'[q], q)
    BY DEF Saves, Frugal
  <1>2. ledger \in [Runs -> Seq(Rows)] /\ ledger' \in [Runs -> Seq(Rows)]
    BY DEF TeamInv
  <1>3. Counted(ledger') = Counted(ledger)
    BY <1>2, CountedSame
  <1>4. Owed(run') <= Owed(run)
    BY OwedAtMost DEF Saves
  <1>5. /\ Counted(ledger) \in Nat /\ Owed(run) \in Nat /\ Owed(run') \in Nat
        /\ MapThenSumSet(LargestAnswer, Runs) \in Nat
    BY <1>2, SumsTyped
  <1>6. Counted(ledger) + Owed(run) < Budget + MapThenSumSet(LargestAnswer, Runs)
    BY DEF SpendInv
  <1>7. Counted(ledger') + Owed(run') < Budget + MapThenSumSet(LargestAnswer, Runs)
    BY <1>3, <1>4, <1>5, <1>6, BudgetConstants
  <1> QED
    BY <1>1, <1>7 DEF SpendInv

\* A step of one run that leaves the ledger alone.
LEMMA RunSaves ==
    ASSUME TeamInv, TeamInv', SpendInv, NEW r \in Runs, ledger' = ledger,
           Saves(r, run[r], run'[r]),
           \A q \in Runs \ {r} : \/ run'[q] = run[q]
                                 \/ run[q].pc \in InLoop /\ run'[q] = [run[q] EXCEPT !.token = TRUE]
    PROVE  SpendInv'
  <1>1. \A q \in Runs : run[q] \in Loops /\ Frugal(run[q], ledger[q], q)
    BY DEF TeamInv, SpendInv
  <1>2. \A q \in Runs : Saves(q, run[q], run'[q])
    BY <1>1, ToldSaves DEF Frugal
  <1>3. \A q \in Runs : /\ TokensOf(ledger'[q]) = TokensOf(ledger[q])
                        /\ \A i \in 1 .. Len(ledger'[q]) :
                              ledger'[q][i].status = "started" => ledger'[q][i].tokens = 0
    BY <1>1 DEF Frugal
  <1> QED
    BY <1>2, <1>3, SpendKept

\* A step that only moves one run, which saves.
LEMMA StepSaves ==
    ASSUME TeamInv, TeamInv', SpendInv, NEW r \in Runs, ledger' = ledger, NEW next, Step(r, next),
           Saves(r, run[r], next)
    PROVE  SpendInv'
  <1>1. run'[r] = next /\ \A q \in Runs \ {r} : run'[q] = run[q]
    BY StepMoves
  <1> QED
    BY <1>1, RunSaves

\* The fields of a run that moves on in its loop.
LEMMA MoveFields ==
    ASSUME NEW s \in Loops, NEW pc, NEW r
    PROVE  /\ To(s, pc).pc = pc /\ To(s, pc).answer = s.answer
           /\ NextTurn(s).pc = "check" /\ NextTurn(s).answer = s.answer
           /\ Signalled(s).pc = s.pc /\ Signalled(s).answer = s.answer
           /\ s.pc = "calls" => AfterCall(s, r).pc \in {"calls", "tool"}
           /\ AfterCall(s, r).answer = s.answer
           /\ \A a : [s EXCEPT !.pc = "close", !.answer = a].pc = "close"
                     /\ [s EXCEPT !.pc = "close", !.answer = a].answer = a
  <1>1. To(s, pc).pc = pc /\ To(s, pc).answer = s.answer
    BY DEF To, Loops
  <1>2. NextTurn(s).pc = "check" /\ NextTurn(s).answer = s.answer
    BY DEF NextTurn, Loops
  <1>3. Signalled(s).pc = s.pc /\ Signalled(s).answer = s.answer
    BY DEF Signalled, Loops
  <1>4. /\ s.pc = "calls" => AfterCall(s, r).pc \in {"calls", "tool"}
        /\ AfterCall(s, r).answer = s.answer
    BY DEF AfterCall, Skip, Loops
  <1>5. \A a : [s EXCEPT !.pc = "close", !.answer = a].pc = "close"
               /\ [s EXCEPT !.pc = "close", !.answer = a].answer = a
    BY DEF Loops
  <1> QED
    BY <1>1, <1>2, <1>3, <1>4, <1>5

\* What holds of a run before its step.
LEMMA Debtor ==
    ASSUME TeamInv, SpendInv, NEW r \in Runs
    PROVE  /\ run[r] \in Loops /\ run[r].answer.tokens <= LargestAnswer(r)
           /\ ledger[r] \in Seq(Rows) /\ ledger \in [Runs -> Seq(Rows)] /\ run \in [Runs -> Loops]
           /\ \A i \in 1 .. Len(ledger[r]) : ledger[r][i].status = "started" => ledger[r][i].tokens = 0
           /\ run[r].pc \in During => Len(ledger[r]) > 0 /\ ledger[r][Len(ledger[r])].status = "started"
  BY DEF TeamInv, SpendInv, Frugal, Good, Recorded

\* The head of the loop, and what ends a run there.
LEMMA TurnSpends == ASSUME TeamInv, TeamInv', SpendInv, NEW r \in Runs, Turn(r) PROVE SpendInv'
  <1> DEFINE s == run[r]
             limited == RunTokens > 0 /\ s.spent >= RunTokens
             next == IF s.token THEN Ended(s, "Cancelled")
                     ELSE IF limited \/ (OutOfBudget(s) /\ ~WrapUpLeft(s))
                     THEN Ended(s, "LimitReached") ELSE NextTurn(s)
  <1>1. s.pc = "head" /\ Step(r, next) /\ ledger' = ledger
    BY DEF Turn, Same
  <1>2. Saves(r, s, Ended(s, "Cancelled")) /\ Saves(r, s, Ended(s, "LimitReached"))
    BY EndSaves
  <1>3. Saves(r, s, NextTurn(s))
    BY Debtor, MoveFields, MoveSaves DEF Owing, During
  <1> HIDE DEF s, limited
  <1>4. Saves(r, s, next)
    BY <1>2, <1>3
  <1> HIDE DEF next
  <1> QED
    BY <1>1, <1>4, StepSaves DEF s

\* A request that passes its check finds the ceiling unreached: what is owed then is at most
\* an answer of every run.
LEMMA CheckSpends == ASSUME TeamInv, TeamInv', SpendInv, NEW r \in Runs, Check(r) PROVE SpendInv'
  <1> DEFINE s == run[r]
  <1>1. s.pc = "check" /\ ledger' = ledger
    BY DEF Check
  <1>2. ASSUME NEW outcome, Step(r, Ended(s, outcome)) PROVE SpendInv'
    BY <1>1, <1>2, EndSaves, StepSaves
  <1>3. ASSUME BudgetReason(ledger, r, IF Gated THEN Ended(s, "Failed") ELSE To(s, "open"))
        PROVE  SpendInv'
    <2> DEFINE next == IF Gated THEN Ended(s, "Failed") ELSE To(s, "open")
    <2>1. BudgetReason(ledger, r, next)
      BY <1>3
    <2> HIDE DEF next
    <2>2. /\ run'[r] = next
          /\ \A q \in Runs \ {r} : \/ run'[q] = run[q]
                                   \/ run[q].pc \in InLoop /\ run'[q] = [run[q] EXCEPT !.token = TRUE]
      BY <2>1, BudgetMoves
    <2>3. CASE Spent(ledger)
      <3>1. run'[r] = Ended(s, "Failed")
        BY <2>2, <2>3 DEF next, Gated
      <3>2. Saves(r, run[r], run'[r])
        BY <3>1, EndSaves
      <3> QED
        BY <1>1, <2>2, <3>2, RunSaves
    <2>4. CASE ~Spent(ledger)
      <3>1. run'[r] = To(s, "open")
        BY <2>2, <2>4 DEF next, Gated
      <3>2. run'[r].answer.tokens <= LargestAnswer(r)
        <4>1. s \in Loops /\ s.answer.tokens <= LargestAnswer(r)
          BY Debtor
        <4> HIDE DEF s
        <4>2. To(s, "open").answer = s.answer
          BY <4>1, MoveFields
        <4> QED
          BY <3>1, <4>1, <4>2
      <3>3. \A q \in Runs : Frugal(run'[q], ledger'[q], q)
        <4> TAKE q \in Runs
        <4>1. CASE q = r
          BY <1>1, <3>2, <4>1, Debtor DEF Frugal
        <4>2. CASE q # r
          <5>1. Saves(q, run[q], run'[q])
            BY <2>2, <4>2, Debtor, ToldSaves
          <5> QED
            BY <1>1, <5>1, Debtor DEF Frugal, Saves
        <4> QED
          BY <4>1, <4>2
      <3>4. /\ Counted(ledger) \in Nat /\ Owed(run') \in Nat
            /\ MapThenSumSet(LargestAnswer, Runs) \in Nat
            /\ Owed(run') <= MapThenSumSet(LargestAnswer, Runs)
        BY Debtor, SumsTyped
      <3>5. Counted(ledger) < Budget
        BY <2>4, <3>4, BudgetConstants DEF Spent
      <3>6. Counted(ledger') + Owed(run') < Budget + MapThenSumSet(LargestAnswer, Runs)
        BY <1>1, <3>4, <3>5, BudgetConstants
      <3> QED
        BY <3>3, <3>6 DEF SpendInv
    <2> QED
      BY <2>3, <2>4
  <1> HIDE DEF s
  <1> QED
    BY <1>2, <1>3 DEF Check, s

\* Opening a row costs nothing, and the run owes what it owed since its check.
LEMMA OpenSpends == ASSUME TeamInv, TeamInv', SpendInv, NEW r \in Runs, Open(r) PROVE SpendInv'
  <1> DEFINE s == run[r]
             more == Append(ledger[r], Row("started", 0))
  <1>1. s.pc = "open"
    BY DEF Open
  <1>2. ASSUME NEW outcome, Step(r, Ended(s, outcome)), ledger' = ledger PROVE SpendInv'
    BY <1>2, EndSaves, StepSaves
  <1>3. ASSUME ledger' = [ledger EXCEPT ![r] = more], Step(r, To(s, "send")) PROVE SpendInv'
    <2>1. run'[r] = To(s, "send") /\ \A q \in Runs \ {r} : run'[q] = run[q]
      BY <1>3, StepMoves
    <2>2. Saves(r, run[r], run'[r])
      <3>1. s \in Loops /\ s.answer.tokens <= LargestAnswer(r)
        BY Debtor
      <3> HIDE DEF s
      <3>2. To(s, "send").answer = s.answer
        BY <3>1, MoveFields
      <3>3. s.pc \in Owing
        BY <1>1 DEF Owing
      <3>4. Saves(r, s, To(s, "send"))
        BY <3>1, <3>2, <3>3, MoveSaves
      <3> QED
        BY <2>1, <3>4 DEF s
    <2>3. \A q \in Runs : Saves(q, run[q], run'[q])
      BY <2>1, <2>2, Debtor, ToldSaves
    <2>4. ledger'[r] = more /\ \A q \in Runs \ {r} : ledger'[q] = ledger[q]
      BY <1>3, Debtor
    <2>5. TokensOf(more) = TokensOf(ledger[r])
      BY Debtor, OpenCostsNothing
    <2>6. \A i \in 1 .. Len(more) : more[i].status = "started" => more[i].tokens = 0
      <3> DEFINE rows == ledger[r]
      <3>1. rows \in Seq(Rows) /\ Row("started", 0) \in Rows /\ Row("started", 0).tokens = 0
        BY Debtor DEF Row, Rows
      <3>2. Len(rows) \in Nat
        BY <3>1, LenProperties
      <3> HIDE DEF rows
      <3>3. /\ Len(Append(rows, Row("started", 0))) = Len(rows) + 1
            /\ Append(rows, Row("started", 0))[Len(rows) + 1] = Row("started", 0)
            /\ \A i \in 1 .. Len(rows) : Append(rows, Row("started", 0))[i] = rows[i]
        BY <3>1, AppendProperties
      <3>4. \A i \in 1 .. Len(rows) : rows[i].status = "started" => rows[i].tokens = 0
        BY Debtor DEF rows
      <3>5. more = Append(rows, Row("started", 0))
        BY DEF rows
      <3> HIDE DEF more
      <3> QED
        BY <3>1, <3>2, <3>3, <3>4, <3>5
    <2> HIDE DEF more
    <2>7. \A q \in Runs : /\ TokensOf(ledger'[q]) = TokensOf(ledger[q])
                          /\ \A i \in 1 .. Len(ledger'[q]) :
                                ledger'[q][i].status = "started" => ledger'[q][i].tokens = 0
      BY <2>4, <2>5, <2>6, Debtor
    <2> QED
      BY <2>3, <2>7, SpendKept
  <1> HIDE DEF s
  <1> QED
    BY <1>2, <1>3 DEF Open, s

\* Sending, or a cancellation before it.
LEMMA SendSpends == ASSUME TeamInv, TeamInv', SpendInv, NEW r \in Runs, Send(r) PROVE SpendInv'
  <1> DEFINE s == run[r]
  <1>1. s.pc = "send" /\ ledger' = ledger /\ s \in Loops
    BY Debtor DEF Send
  <1>2. CASE s.token
    <2> DEFINE next == [s EXCEPT !.pc = "close", !.answer.kind = "not_sent"]
    <2>1. next.pc = "close" /\ next.answer.tokens = s.answer.tokens
      BY <1>1 DEF Loops, Answer
    <2>2. Step(r, next)
      BY <1>1, <1>2 DEF Send
    <2> HIDE DEF next
    <2>3. Saves(r, s, next)
      BY <1>1, <2>1, Debtor, MoveSaves DEF Owing, During
    <2> QED
      BY <1>1, <2>2, <2>3, StepSaves
  <1>3. CASE ~s.token
    <2>1. Step(r, To(s, "wire"))
      BY <1>3 DEF Send
    <2>2. s.answer.tokens <= LargestAnswer(r)
      BY Debtor
    <2>3. Saves(r, s, To(s, "wire"))
      <3> HIDE DEF s
      <3>1. To(s, "wire").answer = s.answer
        BY <1>1, MoveFields
      <3>2. s.pc \in Owing
        BY <1>1 DEF Owing, During
      <3> QED
        BY <2>2, <3>1, <3>2, MoveSaves
    <2> QED
      BY <1>1, <2>1, <2>3, StepSaves
  <1> QED
    BY <1>2, <1>3

\* An answer costs no more than the run's largest.
LEMMA ProviderSpends == ASSUME TeamInv, TeamInv', SpendInv, NEW r \in Runs, Provider(r) PROVE SpendInv'
  <1>1. run[r].pc = "wire" /\ ledger' = ledger
    BY DEF Provider, Same
  <1>2. PICK a \in Answers[r] : Step(r, [run[r] EXCEPT !.pc = "close", !.answer = a])
    BY DEF Provider
  <1> DEFINE next == [run[r] EXCEPT !.pc = "close", !.answer = a]
  <1>3. next.pc = "close" /\ next.answer = a
    BY Debtor, MoveFields
  <1>4. Step(r, next)
    BY <1>2
  <1> HIDE DEF next
  <1>5. Saves(r, run[r], next)
    BY <1>1, <1>3, LargestIs DEF Saves, Owes, Owing, During
  <1> QED
    BY <1>1, <1>4, <1>5, StepSaves

\* A request that is hung up keeps the tokens it had, none.
LEMMA HangupSpends == ASSUME TeamInv, TeamInv', SpendInv, NEW r \in Runs, Hangup(r) PROVE SpendInv'
  <1> DEFINE next == [run[r] EXCEPT !.pc = "close", !.answer.kind = "cancelled"]
  <1>1. run[r].pc = "wire" /\ ledger' = ledger /\ Step(r, next)
    BY DEF Hangup, Same
  <1>2. next.pc = "close" /\ next.answer.tokens = run[r].answer.tokens
    BY Debtor DEF Loops, Answer
  <1> HIDE DEF next
  <1>3. Saves(r, run[r], next)
    BY <1>1, <1>2, Debtor, MoveSaves DEF Owing, During
  <1> QED
    BY <1>1, <1>3, StepSaves

\* Once its answer is recorded, a run owes nothing.
LEMMA AfterAnswer ==
    ASSUME NEW s \in Loops, s.pc = "close"
    PROVE  AfterAttempt(s).answer.tokens = 0 /\ AfterAttempt(s).pc \notin Owing
  <1> DEFINE a == s.answer
             t == [s EXCEPT !.answer = NoAnswer, !.spent = @ + a.tokens]
  <1>1. NoAnswer.tokens = 0
    BY DEF NoAnswer
  <1>2. /\ [t EXCEPT !.pc = "calls", !.todo = a.tools].pc = "calls"
        /\ [t EXCEPT !.pc = "calls", !.todo = a.tools].answer = NoAnswer
        /\ [t EXCEPT !.pc = "backoff", !.retries = @ + 1].pc = "backoff"
        /\ [t EXCEPT !.pc = "backoff", !.retries = @ + 1].answer = NoAnswer
    BY DEF Loops
  <1>3. \A o : Ended(t, o).pc = "ended" /\ Ended(t, o).answer = NoAnswer
    BY DEF Ended, Off
  <1>4. AfterAttempt(s) \in {Ended(t, "Cancelled"), [t EXCEPT !.pc = "calls", !.todo = a.tools],
                             [t EXCEPT !.pc = "backoff", !.retries = @ + 1],
                             Ended(t, "Text"), Ended(t, "Failed")}
    BY DEF AfterAttempt
  <1> HIDE DEF t, a
  <1>5. /\ AfterAttempt(s).pc \in {"ended", "calls", "backoff"}
        /\ AfterAttempt(s).answer = NoAnswer
    BY <1>2, <1>3, <1>4
  <1> QED
    BY <1>1, <1>5 DEF Owing, During

\* A closed request is billed what it was expected to cost at most.
LEMMA CloseSpends == ASSUME TeamInv, TeamInv', SpendInv, NEW r \in Runs, Close(r) PROVE SpendInv'
  <1> DEFINE s == run[r]
             old == ledger[r]
             row == FinishRow(s)
             more == [old EXCEPT ![Len(old)] = row]
             rows == [ledger EXCEPT ![r][Len(ledger[r])] = Closing(r)]
             cost == s.answer.tokens
  <1>1. /\ s.pc = "close" /\ s \in Loops /\ cost \in Nat /\ cost <= LargestAnswer(r)
        /\ old \in Seq(Rows) /\ Len(old) > 0 /\ old[Len(old)].status = "started"
    BY Debtor DEF Close, During, Loops, Answer
  <1>2. CASE ledger' = rows /\ BudgetReason(rows, r, AfterAttempt(run[r]))
    <2>1. rows = [ledger EXCEPT ![r] = more]
      BY Debtor DEF Closing, FinishRow
    <2>2. row \in Rows /\ row.tokens = cost /\ row.status # "started"
      BY <1>1 DEF FinishRow, Row, Rows
    <2>3. old # <<>> /\ old[Len(old)].tokens = 0
      BY <1>1, Debtor
    <2>4. ledger'[r] = more /\ \A q \in Runs \ {r} : ledger'[q] = ledger[q]
      BY <1>2, <2>1, Debtor
    <2>5. TokensOf(more) = TokensOf(old) + cost
      <3> HIDE DEF row, cost, old
      <3> QED
        BY <1>1, <2>2, <2>3, CloseCosts
    <2>6. /\ run'[r] = AfterAttempt(s)
          /\ \A q \in Runs \ {r} : \/ run'[q] = run[q]
                                   \/ run[q].pc \in InLoop /\ run'[q] = [run[q] EXCEPT !.token = TRUE]
      BY <1>2, BudgetMoves
    <2>7. AfterAttempt(s).answer.tokens = 0 /\ AfterAttempt(s).pc \notin Owing
      BY <1>1, AfterAnswer
    <2>8. \A q \in Runs \ {r} : Saves(q, run[q], run'[q])
      BY <2>6, Debtor, ToldSaves
    <2>9. LargestAnswer(r) \in Nat
      BY LargestIs
    <2>10. \A q \in Runs : Frugal(run'[q], ledger'[q], q)
      <3> TAKE q \in Runs
      <3>1. CASE q = r
        <4>1. Len(more) = Len(old)
          BY <1>1, <2>2, ExceptSeq
        <4>2. \A i \in 1 .. Len(old) : more[i] = IF i = Len(old) THEN row ELSE old[i]
          BY <1>1, LenProperties
        <4>3. \A i \in 1 .. Len(old) : old[i].status = "started" => old[i].tokens = 0
          BY Debtor
        <4> HIDE DEF more, old, row, s
        <4>4. \A i \in 1 .. Len(more) : more[i].status = "started" => more[i].tokens = 0
          BY <2>2, <4>1, <4>2, <4>3
        <4> QED
          BY <2>4, <2>6, <2>7, <2>9, <3>1, <4>4 DEF Frugal
      <3>2. CASE q # r
        BY <2>4, <2>8, <3>2, Debtor DEF Frugal, Saves
      <3> QED
        BY <3>1, <3>2
    <2>11. Counted(ledger') = Counted(ledger) + cost
      <3>1. ledger \in [Runs -> Seq(Rows)] /\ ledger' \in [Runs -> Seq(Rows)]
        BY DEF TeamInv
      <3>2. TokensOf(ledger'[r]) = TokensOf(ledger[r]) + cost
        BY <2>4, <2>5
      <3>3. cost \in Nat /\ \A q \in Runs \ {r} : ledger'[q] = ledger[q]
        BY <1>1, <2>4
      <3> HIDE DEF cost
      <3> QED
        BY <3>1, <3>2, <3>3, CountedMore
    <2>12. Owed(run') + LargestAnswer(r) <= Owed(run)
      <3>1. Owes(run[r], r) = LargestAnswer(r)
        BY <1>1 DEF Owes, Owing, During
      <3>2. Owes(run'[r], r) = 0
        BY <2>6, <2>7 DEF Owes
      <3>3. \A q \in Runs \ {r} : Owes(run'[q], q) <= Owes(run[q], q)
        BY <2>8 DEF Saves
      <3> QED
        BY <3>1, <3>2, <3>3, OwedPaid
    <2>13. /\ Counted(ledger) \in Nat /\ Owed(run) \in Nat /\ Owed(run') \in Nat
           /\ MapThenSumSet(LargestAnswer, Runs) \in Nat
      BY Debtor, SumsTyped
    <2>14. Counted(ledger) + Owed(run) < Budget + MapThenSumSet(LargestAnswer, Runs)
      BY DEF SpendInv
    <2>15. Counted(ledger') + Owed(run') < Budget + MapThenSumSet(LargestAnswer, Runs)
      <3>1. cost \in Nat /\ cost <= LargestAnswer(r) /\ Budget \in Nat
        BY <1>1, BudgetConstants
      <3> HIDE DEF cost
      <3>2. (Counted(ledger) + cost) + Owed(run') <= Counted(ledger) + Owed(run)
        BY <2>9, <2>12, <2>13, <3>1
      <3> QED
        BY <2>11, <2>13, <2>14, <3>1, <3>2
    <2> QED
      BY <2>10, <2>15 DEF SpendInv
  <1>3. CASE /\ Step(r, Ended([run[r] EXCEPT !.answer = NoAnswer], "Failed"))
             /\ ledger' = ledger
    BY <1>3, EndSaves, StepSaves
  <1> QED
    BY <1>2, <1>3 DEF Close

\* Waiting for a retry, and the calls of a turn, owe nothing.
LEMMA BackoffSpends == ASSUME TeamInv, TeamInv', SpendInv, NEW r \in Runs, Backoff(r) PROVE SpendInv'
  <1> DEFINE s == run[r]
  <1>1. ledger' = ledger /\ (Step(r, To(s, "check")) \/ Step(r, Ended(s, "Cancelled")))
    BY DEF Backoff, Same
  <1>2. s \in Loops /\ s.answer.tokens <= LargestAnswer(r)
    BY Debtor
  <1> HIDE DEF s
  <1>3. To(s, "check").pc = "check" /\ To(s, "check").answer = s.answer
    BY <1>2, MoveFields
  <1>4. Saves(r, s, To(s, "check")) /\ Saves(r, s, Ended(s, "Cancelled"))
    BY <1>2, <1>3, EndSaves, MoveSaves DEF Owing, During
  <1> QED
    BY <1>1, <1>4, StepSaves DEF s

LEMMA NextCallSpends == ASSUME TeamInv, TeamInv', SpendInv, NEW r \in Runs, NextCall(r) PROVE SpendInv'
  <1> DEFINE s == run[r]
  <1>1. /\ s.pc = "calls" /\ ledger' = ledger
        /\ Step(r, Ended(s, "Cancelled")) \/ Step(r, To(s, "head")) \/ Step(r, AfterCall(s, r))
    BY DEF NextCall, Same
  <1>2. s \in Loops /\ s.answer.tokens <= LargestAnswer(r)
    BY Debtor
  <1> HIDE DEF s
  <1>3. /\ To(s, "head").pc = "head" /\ To(s, "head").answer = s.answer
        /\ AfterCall(s, r).pc \in {"calls", "tool"} /\ AfterCall(s, r).answer = s.answer
    BY <1>1, <1>2, MoveFields
  <1>4. /\ Saves(r, s, To(s, "head")) /\ Saves(r, s, AfterCall(s, r))
        /\ Saves(r, s, Ended(s, "Cancelled"))
    BY <1>2, <1>3, EndSaves, MoveSaves DEF Owing, During
  <1> QED
    BY <1>1, <1>4, StepSaves DEF s

LEMMA ToolSpends == ASSUME TeamInv, TeamInv', SpendInv, NEW r \in Runs, Tool(r) PROVE SpendInv'
  <1> DEFINE s == run[r]
             tool == Head(s.todo)
             t == [Effect(s, tool) EXCEPT !.todo = Tail(@), !.pc = "calls"]
             next == IF Concludes(s, tool) THEN Ended(t, tool) ELSE t
  <1>1. ledger' = ledger /\ Step(r, next)
    BY DEF Tool, Same
  <1>2. s \in Loops /\ s.answer.tokens <= LargestAnswer(r)
    BY Debtor
  <1>3. t.pc = "calls" /\ t.answer = s.answer
    <2> HIDE DEF s, tool
    <2> QED
      BY <1>2 DEF Effect, Loops
  <1> HIDE DEF s, tool, t
  <1>4. Saves(r, s, t) /\ Saves(r, s, Ended(t, tool))
    BY <1>2, <1>3, EndSaves, MoveSaves DEF Owing, During
  <1>5. Saves(r, s, next)
    BY <1>4
  <1> HIDE DEF next
  <1> QED
    BY <1>1, <1>5, StepSaves DEF s

\* A run that is dropped, or whose result is taken, owes nothing.
LEMMA GoneSpends ==
    ASSUME TeamInv, TeamInv', SpendInv, NEW r \in Runs,
           DeliveryFails(r) \/ Abort(r) \/ Deliver(r) \/ Fallback(r)
    PROVE  SpendInv'
  <1>1. ledger' = ledger
    BY DEF DeliveryFails, Abort, Deliver, Fallback, Same
  <1>2. PICK pc \in {"error", "done"} : Step(r, Gone(run[r], pc))
    BY DEF DeliveryFails, Abort, Deliver, Fallback, Accept
  <1> QED
    BY <1>1, <1>2, EndSaves, StepSaves

\* Who is told to stop still owes what is in flight.
LEMMA TellSpends ==
    ASSUME TeamInv, TeamInv', SpendInv, NEW r \in Runs, CancelPass(r) \/ CloseIssue(r)
    PROVE  SpendInv'
  <1> DEFINE s == run[r]
  <1>1. ledger' = ledger /\ Step(r, Signalled(s))
    BY DEF CancelPass, CloseIssue
  <1>2. s \in Loops /\ s.answer.tokens <= LargestAnswer(r)
    BY Debtor
  <1> HIDE DEF s
  <1>3. Signalled(s).pc = s.pc /\ Signalled(s).answer = s.answer
    BY <1>2, MoveFields
  <1>4. Saves(r, s, Signalled(s))
    BY <1>2, <1>3, MoveSaves
  <1> QED
    BY <1>1, <1>4, StepSaves DEF s

\* A step after which every run is the same and so is the ledger.
LEMMA SameSpends ==
    ASSUME TeamInv, TeamInv', SpendInv, run' = run, ledger' = ledger PROVE SpendInv'
  BY DEF SpendInv, Owed

\* A run that begins has yet to pass a check.
LEMMA BeginSpends == ASSUME TeamInv, TeamInv', SpendInv, NEW r \in Runs, Begin(r) PROVE SpendInv'
  <1>1. ledger' = ledger /\ (run' = run \/ Step(r, To(Off, "head")))
    BY DEF Begin
  <1>2. To(Off, "head").pc = "head" /\ To(Off, "head").answer.tokens = 0
    BY DEF To, Off, NoAnswer
  <1>3. Saves(r, run[r], To(Off, "head"))
    BY <1>2, LargestIs DEF Saves, Owes, Owing, During
  <1>4. CASE run' = run
    BY <1>1, <1>4, SameSpends
  <1>5. CASE Step(r, To(Off, "head"))
    BY <1>1, <1>3, <1>5, StepSaves
  <1> QED
    BY <1>1, <1>4, <1>5

\* With the process its requests are gone, unbilled; recovery keeps what rows cost.
LEMMA CrashSpends == ASSUME TeamInv, TeamInv', SpendInv, Crash PROVE SpendInv'
  <1>1. \A q \in Runs : run'[q] = run[q] \/ run'[q] = Gone(run[q], "done")
    BY DEF Crash
  <1>2. \A q \in Runs : Saves(q, run[q], run'[q])
    <2> TAKE q \in Runs
    <2>1. CASE run'[q] = run[q]
      BY <2>1, Debtor, ToldSaves
    <2>2. CASE run'[q] = Gone(run[q], "done")
      BY <2>2, EndSaves
    <2> QED
      BY <1>1, <2>1, <2>2
  <1>3. ledger' = ledger
    BY DEF Crash
  <1>4. \A q \in Runs : /\ TokensOf(ledger'[q]) = TokensOf(ledger[q])
                        /\ \A i \in 1 .. Len(ledger'[q]) :
                              ledger'[q][i].status = "started" => ledger'[q][i].tokens = 0
    BY <1>3, Debtor
  <1> QED
    BY <1>2, <1>4, SpendKept

LEMMA RecoverSpends == ASSUME TeamInv, TeamInv', SpendInv, Recover PROVE SpendInv'
  <1>1. run' = run /\ \A q \in Runs : ledger'[q] = Interrupted(ledger[q])
    BY DEF Recover
  <1>2. \A q \in Runs : Saves(q, run[q], run'[q])
    <2> TAKE q \in Runs
    <2>1. run'[q] = run[q]
      BY <1>1
    <2> QED
      BY <2>1, Debtor, ToldSaves
  <1>3. ASSUME NEW q \in Runs
        PROVE  /\ TokensOf(ledger'[q]) = TokensOf(ledger[q])
               /\ \A i \in 1 .. Len(ledger'[q]) :
                     ledger'[q][i].status = "started" => ledger'[q][i].tokens = 0
    <2> DEFINE rows == ledger[q]
               more == Interrupted(rows)
    <2>1. rows \in Seq(Rows) /\ DOMAIN rows = 1 .. Len(rows) /\ \A i \in 1 .. Len(rows) : rows[i] \in Rows
      BY Debtor, LenProperties, ElementOfSeq
    <2>2. ledger'[q] = more
      BY <1>1
    <2> HIDE DEF rows
    <2>3. \A i \in 1 .. Len(rows) : more[i].tokens = rows[i].tokens
      BY <2>1 DEF Interrupted, Rows
    <2>4. /\ more \in Seq(Rows) /\ Len(more) = Len(rows)
          /\ \A i \in 1 .. Len(rows) : more[i].status # "started"
      BY <2>1, InterruptedRows
    <2> HIDE DEF more
    <2>5. TokensOf(more) = TokensOf(rows)
      BY <2>1, <2>3, <2>4, TokensKept
    <2> QED
      BY <2>2, <2>4, <2>5 DEF rows
  <1> QED
    BY <1>2, <1>3, SpendKept

\* Nothing is counted before the first request, and a ceiling is more than nothing.
LEMMA InitSpend == Init => SpendInv
  <1> SUFFICES ASSUME Init PROVE SpendInv
    OBVIOUS
  <1>1. TeamInv
    BY InitTeam
  <1>2. \A r \in Runs : /\ run[r] = Off /\ ledger[r] = <<>> /\ ledger[r] \in Seq(Rows)
    BY <1>1 DEF Init, TeamInv
  <1>3. Off.pc = "off" /\ Off.answer.tokens = 0
    BY DEF Off, NoAnswer
  <1>4. \A r \in Runs : Frugal(run[r], ledger[r], r) /\ Owes(run[r], r) = 0
    BY <1>2, <1>3, LargestIs DEF Frugal, Owes, Owing, During
  <1>5. TokensOf(<<>>) = 0
    <2>1. <<>> \in Seq(Rows) /\ DOMAIN <<>> = {}
      OBVIOUS
    <2> QED
      BY <2>1, TokensAreTotal, TotalNothing
  <1>6. Counted(ledger) + Owed(run) = 0
    <2> DEFINE w == [r \in Runs |-> TokensOf(ledger[r])]
               v == [r \in Runs |-> Owes(run[r], r)]
               z == [r \in Runs |-> 0]
    <2>1. w = z /\ v = z
      BY <1>2, <1>4, <1>5
    <2>2. \A r \in Runs : TokensOf(ledger[r]) \in Nat
      BY <1>2, TokensTyped
    <2>3. Counted(ledger) = Total(w, Runs) /\ Owed(run) = Total(v, Runs)
      BY <2>2, CountedIsTotal DEF Owed
    <2>4. Pile(z, Runs) = {}
      BY DEF Pile
    <2>5. Total(z, Runs) = 0
      <3> HIDE DEF z
      <3> QED
        BY <2>4, FS_EmptySet DEF Total
    <2> HIDE DEF w, v, z
    <2> QED
      BY <2>1, <2>3, <2>5
  <1>7. MapThenSumSet(LargestAnswer, Runs) \in Nat
    BY <1>1, SumsTyped DEF TeamInv
  <1>8. Counted(ledger) + Owed(run) < Budget + MapThenSumSet(LargestAnswer, Runs)
    BY <1>6, <1>7, BudgetConstants
  <1> QED
    BY <1>4, <1>8 DEF SpendInv

\* Every step keeps the invariant.
LEMMA NextSpend == ASSUME TeamInv, SpendInv, [Next]_vars PROVE SpendInv'
  <1>1. TeamInv'
    BY NextTeam
  <1>2. CASE UNCHANGED vars \/ Resume
    BY <1>1, <1>2, SameSpends DEF vars, Resume
  <1>3. ASSUME NEW r \in Runs, Begin(r) \/ CancelPass(r) \/ CloseIssue(r) PROVE SpendInv'
    BY <1>1, <1>3, BeginSpends, TellSpends
  <1>4. ASSUME NEW r \in Runs, LoopStep(r) PROVE SpendInv'
    BY <1>1, <1>4, TurnSpends, CheckSpends, OpenSpends, SendSpends, HangupSpends, CloseSpends,
       BackoffSpends, NextCallSpends, ToolSpends DEF LoopStep
  <1>5. ASSUME NEW r \in Runs, Deliver(r) \/ Fallback(r) \/ DeliveryFails(r) \/ Abort(r) PROVE SpendInv'
    BY <1>1, <1>5, GoneSpends
  <1>6. ASSUME NEW r \in Runs, Provider(r) PROVE SpendInv'
    BY <1>1, <1>6, ProviderSpends
  <1>7. CASE Crash \/ Recover
    BY <1>1, <1>7, CrashSpends, RecoverSpends
  <1> QED
    BY <1>2, <1>3, <1>4, <1>5, <1>6, <1>7 DEF Next, RunStep

\* The deployment overshoots its ceiling by less than one answer of every run, however many
\* runs there are: each may have had one request past its check when the ceiling was reached,
\* and none starts another, through cancellations, failed writes, crashes, recoveries and
\* operators who resume (RequestAccounting.before_request and budget_reason).
THEOREM OvershootBounded == Spec => []OvershootBound
  <1>1. ASSUME TeamInv, SpendInv PROVE OvershootBound
    <2>1. /\ Counted(ledger) \in Nat /\ Owed(run) \in Nat
          /\ MapThenSumSet(LargestAnswer, Runs) \in Nat
      BY <1>1, SumsTyped DEF TeamInv
    <2>2. Counted(ledger) + Owed(run) < Budget + MapThenSumSet(LargestAnswer, Runs)
      BY <1>1 DEF SpendInv
    <2> QED
      BY <2>1, <2>2, BudgetConstants DEF OvershootBound
  <1>2. Spec => [](TeamInv /\ SpendInv)
    BY InitTeam, InitSpend, NextTeam, NextSpend, PTL DEF Spec
  <1> QED
    BY <1>1, <1>2, PTL
=============================================================================
