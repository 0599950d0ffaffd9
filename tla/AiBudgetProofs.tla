--------------------------- MODULE AiBudgetProofs ---------------------------
(***************************************************************************)
(* Theorems about AiBudget, for any requests, limits and bounds.           *)
(***************************************************************************)
EXTENDS AiBudget, TLAPS

-----------------------------------------------------------------------------
(* Types, without the bounds of the runs.                                  *)

Usage == [counts : [Budgets -> Nat], next : Nat]
Ask == [pc : {"read", "admitted"}, kind : PaidKinds \cup EditKinds, revision : Nat,
        usage : Usage]
Task == [pc : {"load", "ask", "select", "update", "store", "fail", "end"},
         budget : Budgets, revision : Nat, number : Nat, left : Int, cropped : BOOLEAN,
         answered : BOOLEAN, pictures : Nat,
         change : {"refund", "advance", "remember", "settle", None}, saw : Usage \cup {None}]

Rowed == [revision : Nat, busy : BOOLEAN, usage : Usage, results : SUBSET Nat]

\* update_ai_usage writes only what it has read; what it is to do is known
\* since it was asked for, and an advance is for one picture.
Known ==
    task # None =>
        /\ task.pc \in {"select", "update"} =>
             /\ task.change \in {"refund", "advance", "remember", "settle"}
             /\ task.change = "advance" => task.pictures = 1
             /\ task.budget = "rounds" /\ task.change = "refund" => ~task.answered
        /\ task.pc = "update" => task.saw \in Usage
        /\ task.pc = "load" => ~task.answered

Types ==
    /\ row \in Rowed
    /\ req \in [Requests -> Ask \cup {None}]
    /\ task \in Task \cup {None}
    /\ paid \in [Budgets -> Nat]
    /\ stale \in BOOLEAN
    /\ Known

-----------------------------------------------------------------------------
(* Lemmas about the operators.                                             *)

\* A content change leaves a row.
LEMMA RowsStayRows ==
    ASSUME row \in Rowed, NEW n \in Nat, NEW u \in Usage, NEW R \in SUBSET Nat
    PROVE  /\ [row EXCEPT !.revision = n, !.results = R] \in Rowed
           /\ [row EXCEPT !.revision = n, !.usage = u] \in Rowed
           /\ [row EXCEPT !.busy = FALSE, !.revision = n, !.results = R] \in Rowed
<1>1. [row EXCEPT !.revision = n, !.results = R] \in Rowed
  BY DEF Rowed
<1>2. [row EXCEPT !.revision = n, !.usage = u] \in Rowed
  BY DEF Rowed
<1>3. [row EXCEPT !.busy = FALSE, !.revision = n, !.results = R] \in Rowed
  BY DEF Rowed
<1> QED BY <1>1, <1>2, <1>3

\* Whatever is asked for, a budget pays for it.
LEMMA SomeBudgetPays ==
    ASSUME NEW kind, NEW u PROVE BudgetOf(kind, u) \in Budgets
BY DEF BudgetOf, Budgets

\* Taking from a budget adds one to its count and leaves the rest alone.
LEMMA SpendingAddsOne ==
    ASSUME NEW u \in Usage, NEW b \in Budgets
    PROVE  /\ Spent(u, b) \in Usage
           /\ Spent(u, b).next = u.next
           /\ \A c \in Budgets : Spent(u, b).counts[c]
                                   = IF c = b THEN u.counts[c] + 1 ELSE u.counts[c]
BY DEF Spent, Usage

\* What a job changes of the usage it read: a count goes down by one or
\* stays, the next number moves or stays.
LEMMA ChangesAreSmall ==
    ASSUME Types, task # None, task.pc = "update"
    PROVE  /\ Changed(task.saw) \in Usage
           /\ Changed(task.saw).counts = IF task.change = "refund"
                THEN [task.saw.counts EXCEPT ![task.budget] = MaxOf(0, @ - 1)]
                ELSE task.saw.counts
           /\ Changed(task.saw).next =
                CASE task.change = "advance" -> MaxOf(task.saw.next, task.number + 1)
                  [] task.change = "settle" -> task.number + task.pictures
                  [] task.change \in {"refund", "remember"} -> task.saw.next
<1>1. task.saw \in Usage /\ task.change \in {"refund", "advance", "remember", "settle"}
  BY DEF Types, Known
<1>2. task.budget \in Budgets /\ task.number \in Nat /\ task.pictures \in Nat
  BY DEF Types, Task
<1>3. CASE task.change = "refund"
  BY <1>1, <1>2, <1>3 DEF Changed, Usage, MaxOf
<1>4. CASE task.change = "advance"
  BY <1>1, <1>2, <1>4 DEF Changed, Usage, MaxOf
<1>5. CASE task.change = "settle"
  BY <1>1, <1>2, <1>5 DEF Changed, Usage
<1>6. CASE task.change = "remember"
  BY <1>1, <1>2, <1>6 DEF Changed, Usage
<1> QED BY <1>1, <1>3, <1>4, <1>5, <1>6

\* The steps a job's record takes leave a record, with the fields they set.
LEMMA TasksStayTasks ==
    ASSUME NEW t \in Task
    PROVE  /\ [t EXCEPT !.answered = TRUE] \in Task
           /\ [t EXCEPT !.pictures = 1] \in Task
           /\ [t EXCEPT !.cropped = TRUE] \in Task
           /\ [t EXCEPT !.left = @ - 1] \in Task
           /\ Fails(t) \in Task
           /\ \A c \in {"refund", "advance", "remember", "settle"} : Changes(t, c) \in Task
<1>1. [t EXCEPT !.answered = TRUE] \in Task
  BY DEF Task
<1>2. [t EXCEPT !.pictures = 1] \in Task
  BY DEF Task
<1>3. [t EXCEPT !.cropped = TRUE] \in Task
  BY DEF Task
<1>4. [t EXCEPT !.left = @ - 1] \in Task
  BY DEF Task
<1>5. Fails(t) \in Task
  BY DEF Task, Fails
<1>6. ASSUME NEW c \in {"refund", "advance", "remember", "settle"} PROVE Changes(t, c) \in Task
  BY <1>6 DEF Task, Changes
<1> QED BY <1>1, <1>2, <1>3, <1>4, <1>5, <1>6

\* What stays of a job's record while it asks.
SameJob(t, u) == u.budget = t.budget /\ u.number = t.number /\ u.revision = t.revision

\* An answered candidate adds its picture, or none.
LEMMA PicturesAdd ==
    ASSUME NEW t \in Task, NEW made \in {0, 1}
    PROVE  LET p == [t EXCEPT !.pictures = @ + made] IN
           /\ p \in Task /\ p.pictures = t.pictures + made
           /\ p.pc = t.pc /\ p.answered = t.answered /\ p.left = t.left
           /\ \A s : SameJob(s, t) => SameJob(s, p)
BY DEF Task, SameJob

\* Asking for a change of the usage changes nothing else of the job.
LEMMA ChangeIsAsked ==
    ASSUME NEW t \in Task, NEW c \in {"refund", "advance", "remember", "settle"}
    PROVE  /\ Changes(t, c) \in Task /\ SameJob(t, Changes(t, c))
           /\ Changes(t, c).pc = "select" /\ Changes(t, c).change = c
           /\ Changes(t, c).answered = t.answered
           /\ Changes(t, c).pictures = t.pictures
<1>1. Changes(t, c) \in Task
  BY TasksStayTasks
<1>2. SameJob(t, Changes(t, c)) /\ Changes(t, c).pictures = t.pictures
  BY DEF Changes, SameJob, Task
<1>3. Changes(t, c).pc = "select" /\ Changes(t, c).change = c
  BY DEF Changes, Task
<1>4. Changes(t, c).answered = t.answered
  BY DEF Changes, Task
<1> QED BY <1>1, <1>2, <1>3, <1>4

\* A call of step 3's ends in an advance for one picture, a failure, a second
\* call or a refund; a first answer is billed.
LEMMA AskAiOutcome ==
    ASSUME Types, AskAi
    PROVE  /\ task \in Task /\ task # None /\ task.pc = "ask"
           /\ task.budget \in {"tries", "clears"}
           /\ task' \in Task /\ SameJob(task, task')
           /\ UNCHANGED <<row, req, stale>>
           /\ \/ task'.pc \in {"ask", "fail"}
              \/ task'.pc = "select" /\ task'.change = "refund"
              \/ task'.pc = "select" /\ task'.change = "advance" /\ task'.pictures = 1
           /\ paid' = paid \/ paid' = [paid EXCEPT ![task.budget] = @ + 1]
<1> DEFINE a == [task EXCEPT !.answered = TRUE]
<1>1. task \in Task /\ task # None /\ task.pc = "ask" /\ task.budget \in {"tries", "clears"}
  BY DEF AskAi, Doing, Types
<1>2. a \in Task /\ SameJob(task, a) /\ a.pc = "ask"
  BY <1>1, TasksStayTasks DEF SameJob, Task
<1>3. \/ task' = Changes([a EXCEPT !.pictures = 1], "advance") /\ Bills(a)
      \/ task' = Fails(a) /\ Bills(a)
      \/ task' = [a EXCEPT !.cropped = TRUE] /\ Bills(a)
      \/ task' = Changes(task, "refund") /\ paid' = paid
  BY DEF AskAi, Becomes
<1>4. [a EXCEPT !.pictures = 1] \in Task /\ SameJob(task, [a EXCEPT !.pictures = 1])
  BY <1>2, TasksStayTasks DEF SameJob, Task
<1>5. UNCHANGED <<row, req, stale>>
  BY DEF AskAi
<1> HIDE DEF a
<1>6. task' \in Task
  BY <1>1, <1>2, <1>3, <1>4, TasksStayTasks
<1>7. paid' = paid \/ paid' = [paid EXCEPT ![task.budget] = @ + 1]
  BY <1>2, <1>3, <1>4 DEF Bills, SameJob
<1>8. SameJob(task, task')
  BY <1>1, <1>2, <1>3, <1>4 DEF SameJob, Changes, Fails, Task
<1>9. \/ task'.pc \in {"ask", "fail"}
      \/ task'.pc = "select" /\ task'.change = "refund"
      \/ task'.pc = "select" /\ task'.change = "advance" /\ task'.pictures = 1
  BY <1>1, <1>2, <1>3, <1>4 DEF Changes, Fails, Task
<1> QED BY <1>1, <1>5, <1>6, <1>7, <1>8, <1>9

\* A pass of an adjust round ends in another, a failure, its settling when
\* something was answered or its refund when nothing was; the first answer,
\* and only that, is billed.
LEMMA AskRoundOutcome ==
    ASSUME Types, AskRound
    PROVE  /\ task \in Task /\ task # None /\ task.pc = "ask" /\ task.budget = "rounds"
           /\ task' \in Task /\ SameJob(task, task')
           /\ UNCHANGED <<row, req, stale>>
           /\ \/ task'.pc \in {"ask", "fail"}
              \/ task'.pc = "select" /\ task'.change = "refund" /\ ~task'.answered
              \/ task'.pc = "select" /\ task'.change = "settle"
           /\ task.answered => task'.answered
           /\ paid' = IF task'.answered /\ ~task.answered
                      THEN [paid EXCEPT !["rounds"] = @ + 1] ELSE paid
<1> DEFINE a == [task EXCEPT !.answered = TRUE]
           p(made) == [a EXCEPT !.pictures = @ + made]
           Ended(t) == t \in Task /\ SameJob(task, t)
           Outcome(t) ==
             \/ t.pc \in {"ask", "fail"}
             \/ t.pc = "select" /\ t.change = "refund" /\ ~t.answered
             \/ t.pc = "select" /\ t.change = "settle"
<1>1. task \in Task /\ task # None /\ task.pc = "ask" /\ task.budget = "rounds"
  BY DEF AskRound, Doing, Types
<1>2. a \in Task /\ SameJob(task, a) /\ a.pc = "ask" /\ a.answered
  BY <1>1, TasksStayTasks DEF SameJob, Task
<1>3. ASSUME NEW made \in {0, 1}
      PROVE  /\ p(made) \in Task /\ SameJob(task, p(made))
             /\ p(made).pc = "ask" /\ p(made).answered
  BY <1>2, <1>3, PicturesAdd
<1>4. ASSUME NEW t \in Task, SameJob(task, t), t.pc = "ask"
      PROVE  /\ EndRound(t) \in Task /\ SameJob(task, EndRound(t)) /\ Outcome(EndRound(t))
             /\ EndRound(t).answered = t.answered
             /\ NextCandidate(t) \in Task /\ SameJob(task, NextCandidate(t))
             /\ Outcome(NextCandidate(t)) /\ NextCandidate(t).answered = t.answered
  <2>1. /\ EndRound(t) \in Task /\ SameJob(task, EndRound(t)) /\ Outcome(EndRound(t))
        /\ EndRound(t).answered = t.answered
    <3>1. CASE t.answered
      <4>1. EndRound(t) = Changes(t, "settle")
        BY <3>1 DEF EndRound
      <4> QED BY <4>1, <1>4, ChangeIsAsked DEF SameJob
    <3>2. CASE ~t.answered
      <4>1. EndRound(t) = Changes(t, "refund")
        BY <3>2 DEF EndRound
      <4>2. ~EndRound(t).answered
        BY <3>2, <4>1, ChangeIsAsked
      <4> QED BY <4>1, <4>2, <1>4, ChangeIsAsked DEF SameJob
    <3> QED BY <3>1, <3>2
  <2>2. [t EXCEPT !.left = @ - 1] \in Task
    BY TasksStayTasks
  <2> QED BY <1>4, <2>1, <2>2 DEF NextCandidate, SameJob, Task
<1>5. ASSUME NEW t \in Task, SameJob(task, t)
      PROVE  /\ Fails(t) \in Task /\ SameJob(task, Fails(t)) /\ Fails(t).pc = "fail"
             /\ Fails(t).answered = t.answered
  BY <1>5, TasksStayTasks DEF Fails, SameJob, Task
<1>6. LET g == GiveBackUnlessAnswered(task) IN
        g \in Task /\ SameJob(task, g) /\ Outcome(g) /\ g.answered = task.answered
  BY <1>1, TasksStayTasks DEF GiveBackUnlessAnswered, Fails, Changes, SameJob, Task
<1>7. LET c == [a EXCEPT !.cropped = TRUE] IN
        c \in Task /\ SameJob(task, c) /\ c.pc = "ask" /\ c.answered
  BY <1>2, TasksStayTasks DEF SameJob, Task
<1>8. \/ \E made \in {0, 1} : task' = NextCandidate(p(made)) /\ Bills(a)
      \/ task' = EndRound(a) /\ Bills(a)
      \/ task' = Fails(a) /\ Bills(a)
      \/ task' = [a EXCEPT !.cropped = TRUE] /\ Bills(a)
      \/ task' = NextCandidate(task) /\ paid' = paid
      \/ task' = EndRound(task) /\ paid' = paid
      \/ task' = GiveBackUnlessAnswered(task) /\ paid' = paid
  BY DEF AskRound, Becomes
<1>9. UNCHANGED <<row, req, stale>>
  BY DEF AskRound
<1>10. SameJob(task, task)
  BY DEF SameJob
<1>11. Bills(a) => paid' = IF ~task.answered THEN [paid EXCEPT !["rounds"] = @ + 1] ELSE paid
  BY <1>1, <1>2 DEF Bills, SameJob
<1> HIDE DEF a, p, Outcome
<1>12. task' \in Task /\ SameJob(task, task')
  <2>1. CASE \E made \in {0, 1} : task' = NextCandidate(p(made)) /\ Bills(a)
    BY <2>1, <1>3, <1>4
  <2>2. CASE task' = EndRound(a) /\ Bills(a)
    BY <2>2, <1>2, <1>4
  <2>3. CASE task' = Fails(a) /\ Bills(a)
    BY <2>3, <1>2, <1>5
  <2>4. CASE task' = [a EXCEPT !.cropped = TRUE] /\ Bills(a)
    BY <2>4, <1>7
  <2>5. CASE task' = NextCandidate(task) /\ paid' = paid
    BY <2>5, <1>1, <1>4, <1>10
  <2>6. CASE task' = EndRound(task) /\ paid' = paid
    BY <2>6, <1>1, <1>4, <1>10
  <2>7. CASE task' = GiveBackUnlessAnswered(task) /\ paid' = paid
    BY <2>7, <1>6
  <2> QED BY <1>8, <2>1, <2>2, <2>3, <2>4, <2>5, <2>6, <2>7
<1>13. /\ Outcome(task')
       /\ \/ task'.answered /\ Bills(a)
          \/ task'.answered = task.answered /\ paid' = paid
  <2>1. CASE \E made \in {0, 1} : task' = NextCandidate(p(made)) /\ Bills(a)
    BY <2>1, <1>3, <1>4
  <2>2. CASE task' = EndRound(a) /\ Bills(a)
    BY <2>2, <1>2, <1>4
  <2>3. CASE task' = Fails(a) /\ Bills(a)
    BY <2>3, <1>2, <1>5 DEF Outcome
  <2>4. CASE task' = [a EXCEPT !.cropped = TRUE] /\ Bills(a)
    BY <2>4, <1>7 DEF Outcome
  <2>5. CASE task' = NextCandidate(task) /\ paid' = paid
    BY <2>5, <1>1, <1>4, <1>10
  <2>6. CASE task' = EndRound(task) /\ paid' = paid
    BY <2>6, <1>1, <1>4, <1>10
  <2>7. CASE task' = GiveBackUnlessAnswered(task) /\ paid' = paid
    BY <2>7, <1>6
  <2> QED BY <1>8, <2>1, <2>2, <2>3, <2>4, <2>5, <2>6, <2>7
<1> QED BY <1>1, <1>9, <1>11, <1>12, <1>13 DEF Task, Outcome

-----------------------------------------------------------------------------
(* Types are kept.                                                         *)

\* Nothing starts ill-typed.
LEMMA TypesInit == Init => Types
<1> SUFFICES ASSUME Init PROVE Types
  OBVIOUS
<1>1. [counts |-> [b \in Budgets |-> 0], next |-> 0] \in Usage
  BY DEF Usage
<1>2. row \in Rowed
  BY <1>1 DEF Init, Rowed
<1> QED BY <1>2 DEF Init, Types, Known

\* A request's own steps keep the types.
LEMMA TypesServe ==
    ASSUME Types, NEW r \in Requests, Serve(r)
    PROVE  Types'
<1> USE DEF Types, Known
<1>1. CASE Admit(r)
  BY <1>1 DEF Admit, At, Answer, Ask, counters
<1>2. CASE Enqueue(r)
  <2> DEFINE q == req[r]
             b == BudgetOf(q.kind, q.usage)
  <2>1. q \in Ask /\ req' = [req EXCEPT ![r] = None] /\ paid' = paid
    BY <1>2 DEF Enqueue, At, Answer
  <2>2. b \in Budgets
    BY SomeBudgetPays
  <2>3. CASE Unchanged(q.revision)
    <3>1. /\ row' = [row EXCEPT !.usage = Spent(q.usage, b), !.busy = TRUE]
          /\ task' = NewTask(b, q.revision)
          /\ stale' = (stale \/ q.usage.counts # row.usage.counts)
      BY <1>2, <2>3 DEF Enqueue, Overwrites
    <3>2. Spent(q.usage, b) \in Usage
      BY <2>1, <2>2, SpendingAddsOne DEF Ask
    <3>3. task' \in Task
      BY <2>1, <2>2, <3>1, CandidatesAssumption DEF NewTask, Task, Ask
    <3>4. Known'
      BY <3>1 DEF NewTask
    <3>5. row' \in Rowed
      BY <3>1, <3>2 DEF Rowed
    <3> QED BY <2>1, <3>1, <3>3, <3>4, <3>5
  <2>4. CASE ~Unchanged(q.revision)
    BY <1>2, <2>1, <2>4 DEF Enqueue
  <2> QED BY <2>3, <2>4
<1>3. CASE Frame(r)
  <2>1. req' = [req EXCEPT ![r] = None] /\ UNCHANGED <<task, paid, stale>>
    BY <1>3 DEF Frame, Answer
  <2>2. row' = row \/ row' = [row EXCEPT !.revision = @ + 1, !.results = {}]
    BY <1>3 DEF Frame
  <2>3. row.revision + 1 \in Nat /\ {} \in SUBSET Nat /\ row.usage \in Usage
    BY DEF Rowed
  <2>4. [row EXCEPT !.revision = row.revision + 1, !.results = {}] \in Rowed
    BY <2>3, RowsStayRows, Zenon
  <2>5. row' \in Rowed
    BY <2>2, <2>4
  <2> QED BY <2>1, <2>5
<1>4. CASE UseVersion(r)
  <2>1. req[r] \in Ask /\ req' = [req EXCEPT ![r] = None] /\ UNCHANGED <<task, paid>>
    BY <1>4 DEF UseVersion, At, Answer
  <2>2. \/ row' = row /\ stale' = stale
        \/ /\ row' = [row EXCEPT !.revision = @ + 1, !.usage = req[r].usage]
           /\ stale' = (stale \/ req[r].usage.counts # row.usage.counts)
    BY <1>4 DEF UseVersion, Overwrites
  <2>3. row.revision + 1 \in Nat /\ {} \in SUBSET Nat /\ req[r].usage \in Usage
    BY <2>1 DEF Rowed, Ask
  <2>4. [row EXCEPT !.revision = row.revision + 1, !.usage = req[r].usage] \in Rowed
    BY <2>3, RowsStayRows, Zenon
  <2>5. row' \in Rowed
    BY <2>2, <2>4
  <2>6. stale' \in BOOLEAN
    BY <2>2
  <2> QED BY <2>1, <2>5, <2>6
<1> QED BY <1>1, <1>2, <1>3, <1>4 DEF Serve

\* So do the job's.
LEMMA TypesWork ==
    ASSUME Types, Work
    PROVE  Types'
<1> USE DEF Types
<1>1. CASE JobLoads
  <2>1. task \in Task /\ row.usage.next \in Nat /\ task # None /\ task.pc = "load"
    BY <1>1 DEF JobLoads, Doing, Rowed, Usage
  <2>2. UNCHANGED <<row, req, paid, stale>>
    BY <1>1 DEF JobLoads
  <2>3. task' \in Task
    BY <1>1, <2>1 DEF JobLoads, Becomes, Fails, Changes, Task
  <2>4. \/ task'.pc \in {"ask", "fail"}
        \/ task'.pc = "select" /\ task'.change = "refund" /\ ~task'.answered
    BY <1>1, <2>1 DEF JobLoads, Becomes, Fails, Changes, Task, Known
  <2> QED BY <2>2, <2>3, <2>4 DEF Known
<1>2. CASE AskAi
  <2>1. paid' \in [Budgets -> Nat]
    BY <1>2, AskAiOutcome DEF Budgets
  <2>2. Known'
    BY <1>2, AskAiOutcome DEF Known, SameJob
  <2> QED BY <1>2, <2>1, <2>2, AskAiOutcome
<1>3. CASE AskRound
  <2>1. paid' \in [Budgets -> Nat]
    BY <1>3, AskRoundOutcome DEF Budgets
  <2>2. Known'
    BY <1>3, AskRoundOutcome DEF Known, SameJob
  <2> QED BY <1>3, <2>1, <2>2, AskRoundOutcome
<1>4. CASE JobSelects
  <2>1. task \in Task /\ task # None /\ task.pc = "select" /\ row.usage \in Usage
    BY <1>4 DEF JobSelects, Doing, Rowed
  <2>2. UNCHANGED <<row, req, paid, stale>> /\ task' = [task EXCEPT !.pc = "update", !.saw = row.usage]
    BY <1>4 DEF JobSelects, Becomes
  <2>3. task' \in Task
    BY <2>1, <2>2 DEF Task
  <2>4. Known'
    BY <2>1, <2>2 DEF Task, Known
  <2> QED BY <2>2, <2>3, <2>4
<1>5. CASE JobUpdates
  <2>1. task \in Task /\ task # None /\ task.pc = "update"
    BY <1>5 DEF JobUpdates, Doing
  <2>2. /\ UNCHANGED <<req, paid, stale>>
        /\ row' = [row EXCEPT !.usage = Changed(task.saw)]
    BY <1>5 DEF JobUpdates
  <2>3. row' \in Rowed
    BY <2>1, <2>2, ChangesAreSmall DEF Rowed
  <2>4. task' \in Task
    BY <1>5, <2>1 DEF JobUpdates, Becomes, Fails, Changes, Task, Known
  <2>5. Known'
    <3>1. \A t \in Task : t # None /\ t.pc \in {"fail", "store"}
            => (task' = t => Known')
      BY DEF Known
    <3>2. \A t \in Task : t.pc = "select" /\ t.change = "remember"
            => (task' = t => Known')
      BY DEF Known
    <3>3. task'.pc \in {"fail", "store"} \/ (task'.pc = "select" /\ task'.change = "remember")
      BY <1>5, <2>1 DEF JobUpdates, Becomes, Fails, Changes, Task, Known
    <3> QED BY <2>4, <3>1, <3>2, <3>3 DEF Known
  <2> QED BY <2>2, <2>3, <2>4, <2>5
<1>6. CASE JobStores
  <2>1. task \in Task /\ task # None
    BY <1>6 DEF JobStores, Doing
  <2>2. UNCHANGED <<req, paid, stale>> /\ task' = [task EXCEPT !.pc = "end"]
    BY <1>6 DEF JobStores, Becomes
  <2> DEFINE n == IF Unchanged(task.revision) THEN row.revision + 1 ELSE row.revision
             R == IF Unchanged(task.revision)
                  THEN row.results \cup task.number..(task.number + task.pictures - 1)
                  ELSE row.results
  <2>3. row' = [row EXCEPT !.busy = FALSE, !.revision = n, !.results = R]
    BY <1>6 DEF JobStores
  <2>4. n \in Nat
    BY DEF Rowed
  <2>5. R \in SUBSET Nat
    BY <2>1 DEF Rowed, Task
  <2>6. row.usage \in Usage
    BY DEF Rowed
  <2> HIDE DEF n, R
  <2>7. row' \in Rowed
    BY <2>3, <2>4, <2>5, <2>6, RowsStayRows, Zenon
  <2>8. task' \in Task /\ Known'
    BY <2>1, <2>2 DEF Task, Known
  <2> QED BY <2>2, <2>7, <2>8
<1>7. CASE JobFails
  <2>1. task \in Task /\ task # None /\ task' = [task EXCEPT !.pc = "end"]
    BY <1>7 DEF JobFails, Doing, Becomes
  <2>2. UNCHANGED <<req, paid, stale>> /\ row' = [row EXCEPT !.busy = FALSE]
    BY <1>7 DEF JobFails
  <2>3. row' \in Rowed
    BY <2>2 DEF Rowed
  <2>4. task' \in Task /\ Known'
    BY <2>1 DEF Task, Known
  <2> QED BY <2>2, <2>3, <2>4
<1>8. CASE JobEnds
  BY <1>8 DEF JobEnds, Known
<1> QED BY <1>1, <1>2, <1>3, <1>4, <1>5, <1>6, <1>7, <1>8 DEF Work

\* Types are kept by every step.
LEMMA TypesStep ==
    ASSUME Types, [Next]_vars
    PROVE  Types'
<1> USE DEF Types
<1>1. ASSUME NEW r \in Requests, NEW kind \in PaidKinds \cup EditKinds, Receive(r, kind)
      PROVE  Types'
  <2> DEFINE q == [pc |-> "read", kind |-> kind, revision |-> row.revision, usage |-> row.usage]
  <2>1. req' = [req EXCEPT ![r] = q] /\ UNCHANGED <<row, task, paid, stale>>
    BY <1>1 DEF Receive
  <2>2. q \in Ask
    BY DEF Ask, Rowed
  <2> QED BY <2>1, <2>2 DEF Known
<1>2. ASSUME NEW r \in Requests, Serve(r) PROVE Types'
  BY <1>2, TypesServe
<1>3. CASE Work
  BY <1>3, TypesWork
<1>4. CASE Crash
  <2>1. /\ UNCHANGED <<paid, stale>> /\ task' = None /\ req' = [r \in Requests |-> None]
        /\ row' = [row EXCEPT !.busy = FALSE]
    BY <1>4 DEF Crash
  <2>2. row' \in Rowed
    BY <2>1 DEF Rowed
  <2> QED BY <2>1, <2>2 DEF Known
<1>5. CASE UNCHANGED vars
  BY <1>5 DEF vars, Known
<1> QED BY <1>1, <1>2, <1>3, <1>4, <1>5 DEF Next

-----------------------------------------------------------------------------
(* What the steps do to the fields the invariants speak of.                *)

\* Only these steps write the usage or the results.
RowKept == row' = row \/ row' = [row EXCEPT !.busy = FALSE]

\* Forgetting that a job is active keeps the rest of the row.
LEMMA KeptRows ==
    ASSUME Types, RowKept
    PROVE  /\ row'.usage = row.usage /\ row'.results = row.results
           /\ row'.revision = row.revision
BY DEF Types, Rowed, RowKept

\* An admission takes from the budget of its kind, or is refused.
LEMMA EnqueueOutcome ==
    ASSUME Types, NEW r \in Requests, Enqueue(r)
    PROVE  LET q == req[r]
               b == BudgetOf(q.kind, q.usage)
           IN  /\ q \in Ask /\ q # None /\ q.kind \in PaidKinds /\ b \in Budgets
               /\ req' = [req EXCEPT ![r] = None] /\ paid' = paid
               /\ row'.results = row.results /\ row'.revision = row.revision
               /\ \/ row' = row /\ task' = task /\ stale' = stale
                  \/ /\ q.revision = row.revision
                     /\ row'.usage = Spent(q.usage, b)
                     /\ task' = NewTask(b, q.revision)
                     /\ ~stale' => ~stale /\ q.usage.counts = row.usage.counts
<1> DEFINE q == req[r]
           b == BudgetOf(q.kind, q.usage)
<1>1. /\ q \in Ask /\ q # None /\ q.kind \in PaidKinds
      /\ req' = [req EXCEPT ![r] = None] /\ paid' = paid
  BY DEF Enqueue, At, Answer, Types
<1>2. b \in Budgets
  BY SomeBudgetPays
<1>3. CASE Unchanged(q.revision)
  <2>1. /\ row' = [row EXCEPT !.usage = Spent(q.usage, b), !.busy = TRUE]
        /\ task' = NewTask(b, q.revision)
        /\ stale' = (stale \/ q.usage.counts # row.usage.counts)
    BY <1>3 DEF Enqueue, Overwrites
  <2>2. /\ row'.usage = Spent(q.usage, b)
        /\ row'.results = row.results /\ row'.revision = row.revision
    BY <2>1 DEF Types, Rowed
  <2> QED BY <1>1, <1>2, <1>3, <2>1, <2>2 DEF Unchanged
<1>4. CASE ~Unchanged(q.revision)
  BY <1>1, <1>2, <1>4 DEF Enqueue
<1> QED BY <1>3, <1>4

\* A version chosen brings back the usage it was read with, and moves the
\* revision; or is refused.
LEMMA UseVersionOutcome ==
    ASSUME Types, NEW r \in Requests, UseVersion(r)
    PROVE  LET q == req[r]
           IN  /\ q \in Ask /\ q # None
               /\ req' = [req EXCEPT ![r] = None] /\ UNCHANGED <<task, paid>>
               /\ row'.results = row.results
               /\ \/ row' = row /\ stale' = stale
                  \/ /\ q.revision = row.revision /\ row'.revision = row.revision + 1
                     /\ row'.usage = q.usage
                     /\ ~stale' => ~stale /\ q.usage.counts = row.usage.counts
<1> DEFINE q == req[r]
<1>1. /\ q \in Ask /\ q # None
      /\ req' = [req EXCEPT ![r] = None] /\ UNCHANGED <<task, paid>>
  BY DEF UseVersion, At, Answer, Types
<1>2. CASE Unchanged(q.revision)
  <2>1. /\ row' = [row EXCEPT !.revision = @ + 1, !.usage = q.usage]
        /\ stale' = (stale \/ q.usage.counts # row.usage.counts)
    BY <1>2 DEF UseVersion, Overwrites
  <2>2. /\ row'.results = row.results /\ row'.revision = row.revision + 1
        /\ row'.usage = q.usage
    BY <2>1 DEF Types, Rowed
  <2> QED BY <1>1, <1>2, <2>1, <2>2 DEF Unchanged
<1>3. CASE ~Unchanged(q.revision)
  BY <1>1, <1>3 DEF UseVersion
<1> QED BY <1>2, <1>3

\* A new frame leaves no results and moves the revision; or is refused.
LEMMA FrameOutcome ==
    ASSUME Types, NEW r \in Requests, Frame(r)
    PROVE  /\ req' = [req EXCEPT ![r] = None] /\ UNCHANGED <<task, paid, stale>>
           /\ row'.usage = row.usage
           /\ \/ row' = row
              \/ row'.results = {} /\ row'.revision = row.revision + 1
<1>1. req' = [req EXCEPT ![r] = None] /\ UNCHANGED <<task, paid, stale>>
  BY DEF Frame, Answer
<1>2. row' = row \/ row' = [row EXCEPT !.revision = @ + 1, !.results = {}]
  BY DEF Frame
<1>3. row' = [row EXCEPT !.revision = @ + 1, !.results = {}]
        => row'.usage = row.usage /\ row'.results = {} /\ row'.revision = row.revision + 1
  BY DEF Types, Rowed
<1> QED BY <1>1, <1>2, <1>3

\* An update writes what it changed of what it read.
LEMMA UpdateOutcome ==
    ASSUME Types, JobUpdates
    PROVE  /\ task \in Task /\ task # None /\ task.pc = "update"
           /\ UNCHANGED <<req, paid, stale>>
           /\ row'.usage = Changed(task.saw)
           /\ row'.results = row.results /\ row'.revision = row.revision
           /\ SameJob(task, task') /\ task'.pictures = task.pictures
           /\ \/ task'.pc = "fail"
              \/ task'.pc = "select" /\ task'.change = "remember" /\ task.change = "advance"
              \/ task'.pc = "store" /\ task.change \in {"settle", "remember"}
<1>1. task \in Task /\ task # None /\ task.pc = "update"
  BY DEF JobUpdates, Doing, Types
<1>2. /\ UNCHANGED <<req, paid, stale>>
      /\ row' = [row EXCEPT !.usage = Changed(task.saw)]
  BY DEF JobUpdates
<1>3. /\ row'.usage = Changed(task.saw)
      /\ row'.results = row.results /\ row'.revision = row.revision
  BY <1>2 DEF Types, Rowed
<1> DEFINE t == [task EXCEPT !.saw = None, !.change = None]
<1>4. t \in Task /\ SameJob(task, t) /\ t.pictures = task.pictures
  BY <1>1 DEF Task, SameJob
<1>5. \/ task.change = "refund" /\ task' = Fails(t)
      \/ task.change = "advance" /\ task' \in {Changes(t, "remember"), Fails(t)}
      \/ task.change \in {"settle", "remember"} /\ task' = [t EXCEPT !.pc = "store"]
  BY <1>1 DEF JobUpdates, Becomes, Types, Known
<1> HIDE DEF t
<1>6. /\ SameJob(task, Fails(t)) /\ Fails(t).pictures = task.pictures /\ Fails(t).pc = "fail"
  BY <1>4 DEF Fails, Task, SameJob
<1>7. LET c == Changes(t, "remember") IN
        /\ SameJob(task, c) /\ c.pictures = task.pictures
        /\ c.pc = "select" /\ c.change = "remember"
  BY <1>4, ChangeIsAsked DEF SameJob
<1>8. LET c == [t EXCEPT !.pc = "store"] IN
        SameJob(task, c) /\ c.pictures = task.pictures /\ c.pc = "store"
  BY <1>4 DEF Task, SameJob
<1> QED BY <1>1, <1>2, <1>3, <1>5, <1>6, <1>7, <1>8

\* A job starts from the next number, and has asked nothing.
LEMMA LoadOutcome ==
    ASSUME Types, JobLoads
    PROVE  /\ task \in Task /\ task # None /\ task.pc = "load" /\ ~task.answered
           /\ UNCHANGED <<row, req, paid, stale>>
           /\ task'.budget = task.budget /\ task'.revision = task.revision
           /\ task'.number = row.usage.next
           /\ \/ task'.pc \in {"ask", "fail"}
              \/ task'.pc = "select" /\ task'.change = "refund"
<1>1. task \in Task /\ task # None /\ task.pc = "load" /\ ~task.answered
  <2>1. task \in Task /\ task # None /\ task.pc = "load"
    BY DEF JobLoads, Doing, Types
  <2>2. ~task.answered
    BY <2>1 DEF Types, Known
  <2> QED BY <2>1, <2>2
<1>2. UNCHANGED <<row, req, paid, stale>>
  BY DEF JobLoads
<1> DEFINE t == [task EXCEPT !.number = row.usage.next]
<1>3. /\ t \in Task /\ t.budget = task.budget /\ t.revision = task.revision
      /\ t.number = row.usage.next
  BY <1>1 DEF Task, Types, Rowed, Usage
<1>4. task' \in {[t EXCEPT !.pc = "ask"], Fails(t), Changes(t, "refund")}
  BY DEF JobLoads, Becomes
<1> HIDE DEF t
<1>5. LET c == Changes(t, "refund") IN
        /\ c.budget = t.budget /\ c.revision = t.revision /\ c.number = t.number
        /\ c.pc = "select" /\ c.change = "refund"
  BY <1>3, ChangeIsAsked DEF SameJob
<1>6. LET f == Fails(t) IN
        f.budget = t.budget /\ f.revision = t.revision /\ f.number = t.number /\ f.pc = "fail"
  BY <1>3 DEF Fails, Task
<1>7. LET a == [t EXCEPT !.pc = "ask"] IN
        a.budget = t.budget /\ a.revision = t.revision /\ a.number = t.number /\ a.pc = "ask"
  BY <1>3 DEF Task
<1> QED BY <1>1, <1>2, <1>3, <1>4, <1>5, <1>6, <1>7

\* A SELECT keeps what the row's usage is.
LEMMA SelectOutcome ==
    ASSUME Types, JobSelects
    PROVE  /\ task \in Task /\ task # None /\ task.pc = "select"
           /\ UNCHANGED <<row, req, paid, stale>>
           /\ task'.pc = "update" /\ task'.saw = row.usage /\ SameJob(task, task')
           /\ task'.change = task.change /\ task'.pictures = task.pictures
           /\ task'.answered = task.answered
<1>1. task \in Task /\ task # None /\ task.pc = "select"
  BY DEF JobSelects, Doing, Types
<1>2. /\ UNCHANGED <<row, req, paid, stale>>
      /\ task' = [task EXCEPT !.pc = "update", !.saw = row.usage]
  BY DEF JobSelects, Becomes
<1>3. /\ task'.pc = "update" /\ task'.saw = row.usage /\ SameJob(task, task')
      /\ task'.change = task.change /\ task'.pictures = task.pictures
  BY <1>1, <1>2 DEF Task, SameJob
<1>4. task'.answered = task.answered
  BY <1>1, <1>2 DEF Task
<1> QED BY <1>1, <1>2, <1>3, <1>4

\* A result is stored over the revision it was made from, or not at all.
LEMMA StoreOutcome ==
    ASSUME Types, JobStores
    PROVE  /\ task \in Task /\ task # None /\ task.pc = "store"
           /\ UNCHANGED <<req, paid, stale>> /\ task'.pc = "end"
           /\ row'.usage = row.usage /\ task'.revision = task.revision
           /\ \/ row'.results = row.results /\ row'.revision = row.revision
              \/ /\ task.revision = row.revision /\ row'.revision = row.revision + 1
                 /\ row'.results = row.results
                                     \cup task.number..(task.number + task.pictures - 1)
<1>1. /\ task \in Task /\ task # None /\ task.pc = "store"
      /\ UNCHANGED <<req, paid, stale>> /\ task' = [task EXCEPT !.pc = "end"]
  BY DEF JobStores, Doing, Becomes, Types
<1>2. task'.pc = "end" /\ task'.revision = task.revision
  BY <1>1 DEF Task
<1> DEFINE n == IF Unchanged(task.revision) THEN row.revision + 1 ELSE row.revision
           R == IF Unchanged(task.revision)
                THEN row.results \cup task.number..(task.number + task.pictures - 1)
                ELSE row.results
<1>3. row' = [row EXCEPT !.busy = FALSE, !.revision = n, !.results = R]
  BY DEF JobStores
<1> HIDE DEF n, R
<1>4. row'.usage = row.usage /\ row'.revision = n /\ row'.results = R
  BY <1>3 DEF Types, Rowed
<1> QED BY <1>1, <1>2, <1>4 DEF n, R, Unchanged

\* The remaining steps keep the row and end the job, or leave it alone.
LEMMA QuietOutcome ==
    ASSUME Types, JobFails \/ JobEnds \/ Crash
    PROVE  /\ row'.usage = row.usage /\ row'.results = row.results
           /\ row'.revision = row.revision
           /\ UNCHANGED <<paid, stale>>
           /\ req' = req \/ req' = [r \in Requests |-> None]
           /\ \/ task' = None
              \/ task # None /\ task'.pc = "end" /\ task'.revision = task.revision
<1>1. row'.usage = row.usage /\ row'.results = row.results /\ row'.revision = row.revision
  BY KeptRows DEF RowKept, JobFails, JobEnds, Crash
<1>2. CASE JobFails
  <2>1. task \in Task /\ task # None /\ task' = [task EXCEPT !.pc = "end"]
    BY <1>2 DEF JobFails, Doing, Becomes, Types
  <2>2. task'.pc = "end" /\ task'.revision = task.revision
    BY <2>1 DEF Task
  <2> QED BY <1>1, <1>2, <2>1, <2>2 DEF JobFails
<1>3. CASE JobEnds
  BY <1>1, <1>3 DEF JobEnds
<1>4. CASE Crash
  BY <1>1, <1>4 DEF Crash
<1> QED BY <1>2, <1>3, <1>4

-----------------------------------------------------------------------------
(* No count passes its limit.                                              *)

Fits(u) == \A b \in Budgets : u.counts[b] <= Limit[b]

\* What a request read fitted, and left room for what it will take; what a
\* job read fitted.
LimitsInv ==
    /\ Fits(row.usage)
    /\ \A r \in Requests : req[r] # None =>
         /\ Fits(req[r].usage)
         /\ req[r].kind \in PaidKinds
              => Left(BudgetOf(req[r].kind, req[r].usage), req[r].usage)
    /\ task # None /\ task.pc = "update" => Fits(task.saw)

\* Every step keeps it.
LEMMA LimitsStep ==
    ASSUME Types, LimitsInv, [Next]_vars
    PROVE  LimitsInv'
<1> USE DEF LimitsInv
<1>1. ASSUME NEW r \in Requests, NEW kind \in PaidKinds \cup EditKinds, Receive(r, kind)
      PROVE  LimitsInv'
  <2>1. /\ UNCHANGED <<row, task>> /\ Accepts(kind)
        /\ req' = [req EXCEPT ![r] = [pc |-> "read", kind |-> kind,
                                      revision |-> row.revision, usage |-> row.usage]]
    BY <1>1 DEF Receive
  <2>2. kind \in PaidKinds => Left(BudgetOf(kind, row.usage), row.usage)
    BY <2>1 DEF Accepts, PaidKinds
  <2> QED BY <2>1, <2>2 DEF Types
<1>2. ASSUME NEW r \in Requests, Serve(r) PROVE LimitsInv'
  <2>1. CASE Admit(r)
    BY <2>1 DEF Admit, At, Answer, Types, Ask
  <2>2. CASE Enqueue(r)
    <3> DEFINE q == req[r]
               b == BudgetOf(q.kind, q.usage)
    <3>1. /\ req' = [req EXCEPT ![r] = None] /\ q \in Ask /\ b \in Budgets
          /\ Fits(q.usage) /\ Left(b, q.usage)
      BY <2>2, EnqueueOutcome
    <3>2. Fits(Spent(q.usage, b))
      <4>1. q.usage \in Usage
        BY <3>1 DEF Ask
      <4>2. \A c \in Budgets : Spent(q.usage, b).counts[c]
                               = IF c = b THEN q.usage.counts[c] + 1 ELSE q.usage.counts[c]
        BY <3>1, <4>1, SpendingAddsOne
      <4>3. q.usage.counts[b] + 1 <= Limit[b]
        BY <3>1, <4>1, LimitAssumption DEF Left, Usage
      <4> QED BY <3>1, <4>2, <4>3 DEF Fits
    <3>3. NewTask(b, q.revision).pc = "load"
      BY DEF NewTask
    <3> HIDE DEF q, b
    <3>4. Fits(row'.usage) /\ (task' # None /\ task'.pc = "update" => Fits(task'.saw))
      BY <2>2, <3>2, <3>3, EnqueueOutcome DEF q, b
    <3> QED BY <3>1, <3>4 DEF Types, Fits
  <2>3. CASE Frame(r)
    BY <2>3, FrameOutcome DEF Types, Fits
  <2>4. CASE UseVersion(r)
    BY <2>4, UseVersionOutcome DEF Types, Fits
  <2> QED BY <1>2, <2>1, <2>2, <2>3, <2>4 DEF Serve
<1>3. CASE Work
  <2>1. CASE JobLoads
    BY <2>1, LoadOutcome
  <2>2. CASE AskAi
    BY <2>2, AskAiOutcome
  <2>3. CASE AskRound
    BY <2>3, AskRoundOutcome
  <2>4. CASE JobSelects
    BY <2>4, SelectOutcome
  <2>5. CASE JobUpdates
    <3>1. \A b \in Budgets : Changed(task.saw).counts[b] <= task.saw.counts[b]
      BY <2>5, UpdateOutcome, ChangesAreSmall DEF MaxOf, Types, Known, Usage, Task
    <3>2. Fits(Changed(task.saw))
      <4>1. task.saw \in Usage /\ Changed(task.saw) \in Usage
        BY <2>5, UpdateOutcome, ChangesAreSmall DEF Types, Known
      <4> QED BY <2>5, <3>1, <4>1, UpdateOutcome, LimitAssumption DEF Fits, Usage
    <3> QED BY <2>5, <3>2, UpdateOutcome
  <2>6. CASE JobStores
    BY <2>6, StoreOutcome
  <2>7. CASE JobFails \/ JobEnds
    BY <2>7, QuietOutcome
  <2> QED BY <1>3, <2>1, <2>2, <2>3, <2>4, <2>5, <2>6, <2>7 DEF Work
<1>4. CASE Crash
  BY <1>4, QuietOutcome DEF Crash
<1>5. CASE UNCHANGED vars
  BY <1>5 DEF vars
<1> QED BY <1>1, <1>2, <1>3, <1>4, <1>5 DEF Next

\* Whatever requests read and whenever they write, no budget passes its
\* limit.
THEOREM BudgetsHold == Spec => []WithinLimits
<1>1. Init => Types /\ LimitsInv
  <2>1. Init => LimitsInv
    BY LimitAssumption DEF Init, LimitsInv, Fits
  <2> QED BY <2>1, TypesInit
<1>2. Types /\ LimitsInv /\ [Next]_vars => (Types /\ LimitsInv)'
  BY TypesStep, LimitsStep
<1>3. LimitsInv => WithinLimits
  BY DEF LimitsInv, Fits, WithinLimits
<1> QED BY <1>1, <1>2, <1>3, PTL DEF Spec

-----------------------------------------------------------------------------
(* Numbers stay fresh.                                                     *)

Past(u) == \A n \in row.results : n < u.next

\* A usage can only be written back while the revision it was read at lasts,
\* and the results it was read beside with it.
RequestsArePast ==
    \A r \in Requests : req[r] # None =>
        /\ req[r].revision <= row.revision
        /\ req[r].revision = row.revision => Past(req[r].usage)

\* A job's number is past the results it started beside, none of which join
\* while it works; what it will store is past the next number it has set.
JobIsPast ==
    task # None =>
        /\ task.revision <= row.revision
        /\ task.pc \in {"ask", "select", "update", "store"}
             => \A n \in row.results : n < task.number
        /\ task.pc = "update" => Past(task.saw)
        /\ task.revision = row.revision =>
             /\ task.pc = "store" \/ (task.pc = "select" /\ task.change = "remember")
                  => task.number + task.pictures <= row.usage.next
             /\ task.pc = "update" /\ task.change = "remember"
                  => task.number + task.pictures <= task.saw.next

NumbersInv == NumbersAreFresh /\ RequestsArePast /\ JobIsPast

\* Requests keep the numbers fresh.
LEMMA NumbersServe ==
    ASSUME Types, NumbersInv, NEW r \in Requests, Serve(r)
    PROVE  NumbersInv'
<1> USE DEF NumbersInv
<1>1. CASE Admit(r)
  <2>1. UNCHANGED <<row, task>>
    BY <1>1 DEF Admit
  <2>2. RequestsArePast'
    BY <1>1, <2>1 DEF Admit, At, Answer, Types, Ask, RequestsArePast, Past
  <2> QED BY <2>1, <2>2 DEF NumbersAreFresh, JobIsPast, Past
<1>2. CASE Enqueue(r)
  <2> DEFINE q == req[r]
             b == BudgetOf(q.kind, q.usage)
  <2>1. /\ q \in Ask /\ q # None /\ b \in Budgets /\ q.usage \in Usage /\ q.revision \in Nat
        /\ req' = [req EXCEPT ![r] = None]
        /\ row'.results = row.results /\ row'.revision = row.revision
    BY <1>2, EnqueueOutcome DEF Ask
  <2>2. RequestsArePast'
    BY <2>1 DEF RequestsArePast, Past, Types
  <2>3. CASE row' = row /\ task' = task
    BY <2>2, <2>3 DEF NumbersAreFresh, JobIsPast, Past
  <2>4. CASE /\ q.revision = row.revision /\ row'.usage = Spent(q.usage, b)
             /\ task' = NewTask(b, q.revision)
    <3>1. row'.usage.next = q.usage.next
      BY <2>1, <2>4, SpendingAddsOne
    <3>2. NumbersAreFresh'
      BY <2>1, <2>4, <3>1 DEF NumbersAreFresh, RequestsArePast, Past
    <3>3. task'.pc = "load" /\ task'.revision = row'.revision
      BY <2>1, <2>4 DEF NewTask
    <3>4. JobIsPast'
      BY <2>1, <3>3 DEF JobIsPast, Types, Rowed
    <3> QED BY <2>2, <3>2, <3>4
  <2> QED BY <1>2, <2>3, <2>4, EnqueueOutcome
<1>3. CASE Frame(r)
  <2>1. /\ req' = [req EXCEPT ![r] = None] /\ task' = task /\ row'.usage = row.usage
        /\ row' = row \/ (row'.results = {} /\ row'.revision = row.revision + 1)
    BY <1>3, FrameOutcome
  <2>2. RequestsArePast' /\ NumbersAreFresh'
    BY <2>1 DEF RequestsArePast, Past, NumbersAreFresh, Types, Rowed, Ask
  <2>3. JobIsPast'
    BY <2>1 DEF JobIsPast, Past, Types, Rowed, Task
  <2> QED BY <2>2, <2>3
<1>4. CASE UseVersion(r)
  <2>1. /\ req[r] # None /\ req' = [req EXCEPT ![r] = None] /\ task' = task
        /\ row'.results = row.results
        /\ \/ row' = row
           \/ /\ req[r].revision = row.revision /\ row'.revision = row.revision + 1
              /\ row'.usage = req[r].usage
    BY <1>4, UseVersionOutcome
  <2>2. NumbersAreFresh'
    BY <2>1 DEF NumbersAreFresh, RequestsArePast, Past
  <2>3. RequestsArePast'
    BY <2>1 DEF RequestsArePast, Past, Types, Rowed, Ask
  <2>4. JobIsPast'
    BY <2>1 DEF JobIsPast, Past, Types, Rowed, Task
  <2> QED BY <2>2, <2>3, <2>4
<1> QED BY <1>1, <1>2, <1>3, <1>4 DEF Serve

\* So does the job.
LEMMA NumbersWork ==
    ASSUME Types, NumbersInv, Work
    PROVE  NumbersInv'
<1> USE DEF NumbersInv
<1>1. CASE JobLoads
  BY <1>1, LoadOutcome DEF NumbersAreFresh, RequestsArePast, JobIsPast, Past
<1>2. CASE AskAi
  BY <1>2, AskAiOutcome DEF NumbersAreFresh, RequestsArePast, JobIsPast, Past, SameJob
<1>3. CASE AskRound
  BY <1>3, AskRoundOutcome DEF NumbersAreFresh, RequestsArePast, JobIsPast, Past, SameJob
<1>4. CASE JobSelects
  BY <1>4, SelectOutcome DEF NumbersAreFresh, RequestsArePast, JobIsPast, Past, SameJob
<1>5. CASE JobUpdates
  <2> DEFINE u == Changed(task.saw)
  <2>1. /\ task \in Task /\ task # None /\ task.pc = "update" /\ req' = req
        /\ row'.usage = u /\ row'.results = row.results /\ row'.revision = row.revision
        /\ SameJob(task, task') /\ task'.pictures = task.pictures
    BY <1>5, UpdateOutcome
  <2>2. /\ task.number \in Nat /\ task.pictures \in Nat /\ task.saw \in Usage
        /\ task.change \in {"refund", "advance", "remember", "settle"}
        /\ task.change = "advance" => task.pictures = 1
        /\ row.results \in SUBSET Nat
    BY <2>1 DEF Types, Known, Task, Rowed
  <2>3. u.next = CASE task.change = "advance" -> MaxOf(task.saw.next, task.number + 1)
                   [] task.change = "settle" -> task.number + task.pictures
                   [] task.change \in {"refund", "remember"} -> task.saw.next
    BY <2>1, ChangesAreSmall
  <2> HIDE DEF u
  <2>4. \A n \in row.results : n < task.number /\ n < task.saw.next
    BY <2>1 DEF JobIsPast, Past
  <2>5. task.saw.next \in Nat
    BY <2>2 DEF Usage
  <2>6. Past(u)
    BY <2>2, <2>3, <2>4, <2>5 DEF Past, MaxOf
  <2>7. NumbersAreFresh' /\ RequestsArePast'
    BY <2>1, <2>6 DEF NumbersAreFresh, RequestsArePast, Past
  <2>8. task.revision = row.revision /\ task.change \in {"advance", "settle", "remember"}
          => task.number + task.pictures <= u.next
    BY <2>1, <2>2, <2>3, <2>5 DEF JobIsPast, MaxOf
  <2>9. JobIsPast'
    BY <1>5, <2>1, <2>4, <2>8, UpdateOutcome DEF JobIsPast, SameJob
  <2> QED BY <2>7, <2>9
<1>6. CASE JobStores
  <2>1. /\ task \in Task /\ task # None /\ task.pc = "store" /\ req' = req
        /\ task'.pc = "end" /\ row'.usage = row.usage /\ task'.revision = task.revision
        /\ \/ row'.results = row.results /\ row'.revision = row.revision
           \/ /\ task.revision = row.revision /\ row'.revision = row.revision + 1
              /\ row'.results = row.results
                                  \cup task.number..(task.number + task.pictures - 1)
    BY <1>6, StoreOutcome
  <2>2. /\ task.number \in Nat /\ task.pictures \in Nat /\ row.usage.next \in Nat
        /\ row.revision \in Nat /\ task.revision \in Nat
    BY <2>1 DEF Types, Task, Rowed, Usage
  <2>3. NumbersAreFresh'
    BY <2>1, <2>2 DEF NumbersAreFresh, JobIsPast
  <2>4. RequestsArePast'
    BY <2>1, <2>2 DEF RequestsArePast, Past, Types, Ask
  <2>5. JobIsPast'
    BY <2>1, <2>2 DEF JobIsPast
  <2> QED BY <2>3, <2>4, <2>5
<1>7. CASE JobFails \/ JobEnds
  BY <1>7, QuietOutcome DEF NumbersAreFresh, RequestsArePast, JobIsPast, Past
<1> QED BY <1>1, <1>2, <1>3, <1>4, <1>5, <1>6, <1>7 DEF Work

\* A new result never takes the number of one the creation has, although
\* numbers and results are written apart and counts are written back stale.
THEOREM NumbersStayFresh == Spec => []NumbersAreFresh
<1>1. Init => Types /\ NumbersInv
  <2>1. Init => NumbersInv
    BY DEF Init, NumbersInv, NumbersAreFresh, RequestsArePast, JobIsPast
  <2> QED BY <2>1, TypesInit
<1>2. ASSUME Types, NumbersInv, [Next]_vars PROVE (Types /\ NumbersInv)'
  <2>1. ASSUME NEW r \in Requests, NEW kind \in PaidKinds \cup EditKinds, Receive(r, kind)
        PROVE  NumbersInv'
    <3>1. /\ UNCHANGED <<row, task>>
          /\ req' = [req EXCEPT ![r] = [pc |-> "read", kind |-> kind,
                                        revision |-> row.revision, usage |-> row.usage]]
      BY <1>2, <2>1 DEF Receive
    <3>2. row.revision <= row.revision
      BY <1>2 DEF Types, Rowed
    <3> QED BY <1>2, <3>1, <3>2
            DEF NumbersInv, NumbersAreFresh, RequestsArePast, JobIsPast, Past, Types
  <2>2. ASSUME NEW r \in Requests, Serve(r) PROVE NumbersInv'
    BY <1>2, <2>2, NumbersServe
  <2>3. ASSUME Work PROVE NumbersInv'
    BY <1>2, <2>3, NumbersWork
  <2>4. ASSUME Crash PROVE NumbersInv'
    BY <1>2, <2>4, QuietOutcome
       DEF Crash, NumbersInv, NumbersAreFresh, RequestsArePast, JobIsPast, Past
  <2>5. ASSUME UNCHANGED vars PROVE NumbersInv'
    BY <1>2, <2>5 DEF vars, NumbersInv, NumbersAreFresh, RequestsArePast, JobIsPast, Past
  <2> QED BY <1>2, <2>1, <2>2, <2>3, <2>4, <2>5, TypesStep DEF Next
<1>3. NumbersInv => NumbersAreFresh
  BY DEF NumbersInv
<1> QED BY <1>1, <1>2, <1>3, PTL DEF Spec

-----------------------------------------------------------------------------
(* Answered rounds stay counted.                                           *)

\* The round of a job that may still give it back is counted beyond those
\* answered; no other writer has changed the counts since a job read them.
RoundsPending ==
    /\ task # None /\ task.budget = "rounds"
    /\ \/ task.pc \in {"load", "ask"} /\ ~task.answered
       \/ task.pc \in {"select", "update"} /\ task.change = "refund"
    => paid["rounds"] + 1 <= row.usage.counts["rounds"]

AccountsInv ==
    ~stale =>
        /\ AnsweredRoundsStayCounted
        /\ RoundsPending
        /\ task # None /\ task.pc = "update" => task.saw.counts = row.usage.counts

\* Requests keep the accounts, or are stale.
LEMMA AccountsServe ==
    ASSUME Types, AccountsInv, NEW r \in Requests, Serve(r)
    PROVE  AccountsInv'
<1> USE DEF AccountsInv, AnsweredRoundsStayCounted, RoundsPending
<1>1. CASE Admit(r)
  BY <1>1 DEF Admit
<1>2. CASE Enqueue(r)
  <2> DEFINE q == req[r]
             b == BudgetOf(q.kind, q.usage)
  <2>1. q.usage \in Usage /\ b \in Budgets /\ q.revision \in Nat /\ paid' = paid
    BY <1>2, EnqueueOutcome DEF Ask
  <2>2. CASE row' = row /\ task' = task /\ stale' = stale
    BY <2>1, <2>2
  <2>3. CASE /\ row'.usage = Spent(q.usage, b) /\ task' = NewTask(b, q.revision)
             /\ ~stale' => ~stale /\ q.usage.counts = row.usage.counts
    <3>1. task'.pc = "load" /\ task'.budget = b
      BY <2>1, <2>3 DEF NewTask
    <3>2. row'.usage.counts["rounds"]
            = IF b = "rounds" THEN q.usage.counts["rounds"] + 1 ELSE q.usage.counts["rounds"]
      BY <2>1, <2>3, SpendingAddsOne DEF Budgets
    <3>3. paid["rounds"] \in Nat /\ q.usage.counts["rounds"] \in Nat
      BY <2>1 DEF Types, Usage, Budgets
    <3> QED BY <2>1, <2>3, <3>1, <3>2, <3>3
  <2> QED BY <1>2, <2>2, <2>3, EnqueueOutcome
<1>3. CASE Frame(r)
  BY <1>3, FrameOutcome
<1>4. CASE UseVersion(r)
  BY <1>4, UseVersionOutcome
<1> QED BY <1>1, <1>2, <1>3, <1>4 DEF Serve

\* So does the job.
LEMMA AccountsWork ==
    ASSUME Types, AccountsInv, Work
    PROVE  AccountsInv'
<1> USE DEF AccountsInv, AnsweredRoundsStayCounted, RoundsPending
<1>1. CASE JobLoads
  BY <1>1, LoadOutcome
<1>2. CASE AskAi
  <2>1. paid'["rounds"] = paid["rounds"]
    BY <1>2, AskAiOutcome DEF Types, Budgets
  <2> QED BY <1>2, <2>1, AskAiOutcome DEF SameJob
<1>3. CASE AskRound
  <2>1. paid'["rounds"] = IF task'.answered /\ ~task.answered
                          THEN paid["rounds"] + 1 ELSE paid["rounds"]
    BY <1>3, AskRoundOutcome DEF Types, Budgets
  <2>2. paid["rounds"] \in Nat /\ row.usage.counts["rounds"] \in Nat
    BY DEF Types, Rowed, Usage, Budgets
  <2> QED BY <1>3, <2>1, <2>2, AskRoundOutcome DEF SameJob
<1>4. CASE JobSelects
  BY <1>4, SelectOutcome DEF SameJob
<1>5. CASE JobUpdates
  <2>1. /\ task \in Task /\ task # None /\ task.pc = "update" /\ UNCHANGED <<paid, stale>>
        /\ row'.usage = Changed(task.saw) /\ SameJob(task, task')
        /\ \/ task'.pc \in {"fail", "store"}
           \/ task'.pc = "select" /\ task'.change = "remember"
    BY <1>5, UpdateOutcome
  <2>2. task.saw \in Usage /\ paid["rounds"] \in Nat /\ task.budget \in Budgets
    BY <2>1 DEF Types, Known, Task, Budgets
  <2>3. Changed(task.saw).counts = IF task.change = "refund"
          THEN [task.saw.counts EXCEPT ![task.budget] = MaxOf(0, @ - 1)]
          ELSE task.saw.counts
    BY <2>1, ChangesAreSmall
  <2>4. Changed(task.saw).counts["rounds"] =
          IF task.change = "refund" /\ task.budget = "rounds"
          THEN MaxOf(0, task.saw.counts["rounds"] - 1) ELSE task.saw.counts["rounds"]
    BY <2>2, <2>3 DEF Usage, Budgets
  <2> QED BY <2>1, <2>2, <2>4 DEF MaxOf, Usage, Budgets
<1>6. CASE JobStores
  BY <1>6, StoreOutcome
<1>7. CASE JobFails \/ JobEnds
  BY <1>7, QuietOutcome
<1> QED BY <1>1, <1>2, <1>3, <1>4, <1>5, <1>6, <1>7 DEF Work

\* A round the provider answered stays counted as long as no request writes
\* back counts that have moved since it read them.
THEOREM AnsweredRoundsAreKept == Spec => []AnsweredRoundsStayCounted
<1>1. Init => Types /\ AccountsInv
  <2>1. Init => AccountsInv
    BY DEF Init, AccountsInv, AnsweredRoundsStayCounted, RoundsPending, Budgets
  <2> QED BY <2>1, TypesInit
<1>2. ASSUME Types, AccountsInv, [Next]_vars PROVE (Types /\ AccountsInv)'
  <2> USE DEF AccountsInv, AnsweredRoundsStayCounted, RoundsPending
  <2>1. ASSUME NEW r \in Requests, NEW kind \in PaidKinds \cup EditKinds, Receive(r, kind)
        PROVE  AccountsInv'
    BY <1>2, <2>1 DEF Receive
  <2>2. ASSUME NEW r \in Requests, Serve(r) PROVE AccountsInv'
    BY <1>2, <2>2, AccountsServe
  <2>3. ASSUME Work PROVE AccountsInv'
    BY <1>2, <2>3, AccountsWork
  <2>4. ASSUME Crash PROVE AccountsInv'
    BY <1>2, <2>4, QuietOutcome DEF Crash
  <2>5. ASSUME UNCHANGED vars PROVE AccountsInv'
    BY <1>2, <2>5 DEF vars
  <2> QED BY <1>2, <2>1, <2>2, <2>3, <2>4, <2>5, TypesStep DEF Next
<1>3. AccountsInv => AnsweredRoundsStayCounted
  BY DEF AccountsInv, AnsweredRoundsStayCounted
<1> QED BY <1>1, <1>2, <1>3, PTL DEF Spec

-----------------------------------------------------------------------------
(* Every count stays within what the jobs admitted can account for.        *)

\* The numbers so many jobs may take.
Share(k) == k * Candidates

\* Jobs that may have moved the next number, the revision, and a bill: all
\* that were admitted, but for the one that has not come to it.
Waiting == \E r \in Requests : At(r, "admitted", PaidKinds)
Numbered == IF Waiting \/ (task # None /\ task.pc = "load") THEN usedJobs - 1 ELSE usedJobs
Storing == IF Waiting \/ (task # None /\ task.pc # "end") THEN usedJobs - 1 ELSE usedJobs
Billed == IF Waiting \/ (task # None /\ ~task.answered) THEN usedJobs - 1 ELSE usedJobs

\* One job at a time: an admitted request has the place to itself.
OneJob ==
    /\ active \in BOOLEAN
    /\ usedJobs \in 0..MaxJobs /\ crashes \in 0..MaxCrashes
    /\ task # None => active
    /\ active => usedJobs >= 1
    /\ \A r \in Requests : At(r, "admitted", PaidKinds) =>
         /\ active /\ task = None
         /\ \A s \in Requests : At(s, "admitted", PaidKinds) => s = r

\* A job's pictures are numbered within its own share of the numbers, those
\* it may still ask for counted.
JobNumbers ==
    task # None =>
        /\ task.pc = "load" => task.left \in 1..Candidates /\ task.pictures = 0
        /\ task.pc = "ask" =>
             task.left >= 1 /\ task.number + task.pictures + task.left <= Share(usedJobs)
        /\ task.pc \notin {"load", "ask"} =>
             task.number + task.pictures <= Share(usedJobs)

NumbersBound ==
    /\ row.usage.next <= Share(Numbered)
    /\ \A n \in row.results : n <= Share(usedJobs)
    /\ \A r \in Requests : req[r] # None => req[r].usage.next <= Share(Numbered)
    /\ task # None /\ task.pc = "update" => task.saw.next <= Share(usedJobs)

\* An edit is taken up below the bound on revisions; a job adds one at most.
RevisionsBound ==
    /\ row.revision <= MaxRevision + Storing
    /\ \A r \in Requests : req[r] # None /\ req[r].kind \in EditKinds =>
         req[r].revision < MaxRevision

BillsBound == \A b \in Budgets : paid[b] <= Billed

BoundsInv == OneJob /\ JobNumbers /\ NumbersBound /\ RevisionsBound /\ BillsBound

\* One job more is MAX_CANDIDATES numbers more.
LEMMA SharesAddUp ==
    /\ \A k \in Int : Share(k) \in Int /\ Share(k - 1) = Share(k) - Candidates
                      /\ Share(k + 1) = Share(k) + Candidates
    /\ \A k \in Nat : Share(k) \in Nat /\ Share(k) <= Share(k + 1)
<1>1. \A k \in Int : Share(k) \in Int /\ Share(k - 1) = Share(k) - Candidates
                      /\ Share(k + 1) = Share(k) + Candidates
  BY CandidatesAssumption DEF Share
<1>2. \A k \in Nat : Share(k) \in Nat
  BY CandidatesAssumption DEF Share
<1> QED BY <1>1, <1>2, CandidatesAssumption

\* More jobs take no fewer numbers.
LEMMA SharesGrow ==
    ASSUME NEW j \in Int, NEW k \in Int, j <= k PROVE Share(j) <= Share(k)
<1>1. PICK d \in Nat : k = j + d
  OBVIOUS
<1>2. k * Candidates = j * Candidates + d * Candidates /\ d * Candidates >= 0
  BY <1>1, CandidatesAssumption
<1>3. j * Candidates \in Int /\ d * Candidates \in Int
  BY <1>1, CandidatesAssumption
<1> QED BY <1>2, <1>3 DEF Share

\* All the jobs there may be take the numbers of the type.
LEMMA MostShare ==
    ASSUME NEW k \in 0..MaxJobs PROVE Share(k) <= MaxJobs * Candidates
BY CandidatesAssumption, BoundsAssumption DEF Share

\* Nothing is counted at first.
LEMMA BoundsInit == Init => BoundsInv
<1> SUFFICES ASSUME Init PROVE BoundsInv
  OBVIOUS
<1>1. /\ active = FALSE /\ task = None /\ usedJobs = 0 /\ crashes = 0
      /\ \A r \in Requests : req[r] = None
      /\ row.usage.next = 0 /\ row.results = {} /\ row.revision = 0
      /\ \A b \in Budgets : paid[b] = 0
  BY DEF Init
<1>2. 0 \in 0..MaxJobs /\ 0 \in 0..MaxCrashes
  BY BoundsAssumption
<1>3. ~Waiting
  BY <1>1 DEF Waiting, At
<1>4. Numbered = 0 /\ Storing = 0 /\ Billed = 0 /\ Share(0) = 0
  BY <1>1, <1>3, CandidatesAssumption DEF Numbered, Storing, Billed, Share
<1>5. OneJob
  BY <1>1, <1>2 DEF OneJob, At
<1>6. JobNumbers
  BY <1>1 DEF JobNumbers
<1>7. NumbersBound
  BY <1>1, <1>4 DEF NumbersBound
<1>8. RevisionsBound
  BY <1>1, <1>4, BoundsAssumption DEF RevisionsBound
<1>9. BillsBound
  BY <1>1, <1>4 DEF BillsBound
<1> QED BY <1>5, <1>6, <1>7, <1>8, <1>9 DEF BoundsInv

\* All but at most one of the jobs admitted are counted.
LEMMA CountsAreClose ==
    ASSUME OneJob
    PROVE  /\ usedJobs \in Nat /\ Share(usedJobs) \in Int
           /\ Waiting \/ task # None => usedJobs >= 1
           /\ Numbered \in Nat /\ Storing \in Nat /\ Billed \in Nat
           /\ Numbered <= usedJobs /\ Storing <= usedJobs /\ Billed <= usedJobs
           /\ usedJobs - 1 <= Numbered /\ usedJobs - 1 <= Storing /\ usedJobs - 1 <= Billed
<1>1. usedJobs \in Nat /\ Share(usedJobs) \in Int
  BY SharesAddUp DEF OneJob
<1>2. Waiting \/ task # None => usedJobs >= 1
  BY DEF OneJob, Waiting
<1> QED BY <1>1, <1>2 DEF Numbered, Storing, Billed

\* A step that adds nothing to what is counted, and counts no job less, keeps
\* the bounds.
LEMMA BoundsKept ==
    ASSUME Types, Types', OneJob, OneJob', JobNumbers', usedJobs <= usedJobs',
           Numbered <= Numbered', Storing <= Storing', Billed <= Billed',
           row'.usage.next <= Share(Numbered),
           row'.revision <= MaxRevision + Storing \/ row'.revision <= MaxRevision + Storing',
           \A n \in row'.results : n <= Share(usedJobs),
           \A r \in Requests : req'[r] # None =>
              /\ req'[r].usage.next <= Share(Numbered)
              /\ req'[r].kind \in EditKinds => req'[r].revision < MaxRevision,
           task' # None /\ task'.pc = "update" => task'.saw.next <= Share(usedJobs),
           \A b \in Budgets : paid'[b] <= Billed \/ paid'[b] <= Billed'
    PROVE  BoundsInv'
<1>1. /\ usedJobs \in Nat /\ Numbered \in Nat /\ Storing \in Nat /\ Billed \in Nat
      /\ usedJobs' \in Nat /\ Numbered' \in Nat /\ Storing' \in Nat /\ Billed' \in Nat
  <2>1. usedJobs \in Nat /\ Numbered \in Nat /\ Storing \in Nat /\ Billed \in Nat
    BY CountsAreClose
  <2>2. (OneJob => usedJobs \in Nat /\ Numbered \in Nat /\ Storing \in Nat /\ Billed \in Nat)'
    BY CountsAreClose, PTL
  <2> QED BY <2>1, <2>2
<1>2. /\ Share(Numbered) \in Int /\ Share(Numbered') \in Int
      /\ Share(usedJobs) \in Int /\ Share(usedJobs') \in Int
  BY <1>1, SharesAddUp
<1>3. Share(Numbered) <= Share(Numbered') /\ Share(usedJobs) <= Share(usedJobs')
  BY <1>1, SharesGrow
<1>4. /\ row'.usage.next \in Nat /\ row'.revision \in Nat /\ row'.results \subseteq Nat
      /\ \A r \in Requests : req'[r] # None => req'[r].usage.next \in Nat
      /\ task' # None /\ task'.pc = "update" => task'.saw.next \in Nat
      /\ \A b \in Budgets : paid'[b] \in Nat
  BY DEF Types, Rowed, Usage, Ask, Known
<1>5. NumbersBound'
  <2> HIDE DEF Share, Numbered
  <2> QED BY <1>2, <1>3, <1>4 DEF NumbersBound
<1>6. RevisionsBound'
  BY <1>1, <1>4, BoundsAssumption DEF RevisionsBound
<1>7. BillsBound'
  BY <1>1, <1>4 DEF BillsBound
<1> QED BY <1>5, <1>6, <1>7 DEF BoundsInv

\* A request that reads brings no count along.
LEMMA BoundsReceive ==
    ASSUME Types, Types', BoundsInv, NEW r \in Requests, NEW kind \in PaidKinds \cup EditKinds,
           Receive(r, kind)
    PROVE  BoundsInv'
<1> DEFINE q == [pc |-> "read", kind |-> kind, revision |-> row.revision, usage |-> row.usage]
<1>1. /\ req' = [req EXCEPT ![r] = q] /\ UNCHANGED <<row, active, task, paid, counters>>
      /\ kind \in EditKinds => row.revision < MaxRevision
  BY DEF Receive, Accepts, EditKinds, PaidKinds
<1>2. /\ q.pc = "read" /\ q.kind = kind /\ q.revision = row.revision
      /\ q.usage = row.usage
  OBVIOUS
<1> HIDE DEF q
<1>3. \A s \in Requests : IF s = r THEN req'[s] = q ELSE req'[s] = req[s]
  BY <1>1 DEF Types
<1>4. /\ \A s \in Requests : At(s, "admitted", PaidKinds)' => At(s, "admitted", PaidKinds)
      /\ usedJobs' = usedJobs /\ crashes' = crashes
  BY <1>1, <1>2, <1>3 DEF At, counters
<1>5. OneJob' /\ JobNumbers'
  BY <1>1, <1>4 DEF BoundsInv, OneJob, JobNumbers
<1>6. usedJobs <= usedJobs' /\ Numbered <= Numbered' /\ Storing <= Storing' /\ Billed <= Billed'
  <2>1. Waiting' => Waiting
    BY <1>4 DEF Waiting
  <2> QED BY <1>1, <1>4, <2>1 DEF BoundsInv, OneJob, Numbered, Storing, Billed
<1> HIDE DEF BoundsInv
<1> QED BY <1>1, <1>2, <1>3, <1>5, <1>6, BoundsKept DEF BoundsInv, NumbersBound, RevisionsBound, BillsBound

\* A request's own steps keep the bounds.
LEMMA BoundsServe ==
    ASSUME Types, Types', BoundsInv, NEW r \in Requests, Serve(r)
    PROVE  BoundsInv'
<1>0. /\ usedJobs \in Nat /\ \A b \in Budgets : paid[b] \in Nat
      /\ OneJob /\ JobNumbers /\ NumbersBound /\ RevisionsBound /\ BillsBound
  BY DEF BoundsInv, OneJob, Types
<1>1. CASE Admit(r)
  <2>1. UNCHANGED <<row, task, paid, crashes>> /\ At(r, "read", PaidKinds)
    BY <1>1 DEF Admit
  <2>2. CASE ~active /\ usedJobs < MaxJobs
    <3>1. active' = TRUE /\ usedJobs' = usedJobs + 1 /\ req' = [req EXCEPT ![r].pc = "admitted"]
      BY <1>1, <2>2 DEF Admit
    <3>2. task = None /\ ~Waiting
      BY <1>0, <2>2 DEF OneJob, Waiting
    <3> DEFINE q == [req[r] EXCEPT !.pc = "admitted"]
    <3>3. req' = [req EXCEPT ![r] = q] /\ req[r] \in Ask /\ req[r] # None
      BY <2>1, <3>1 DEF At, Types
    <3>4. /\ q.usage = req[r].usage /\ q.kind = req[r].kind
          /\ q.revision = req[r].revision
      BY <3>3 DEF Ask
    <3> HIDE DEF q
    <3>5. /\ req'[r] = q /\ \A s \in Requests \ {r} : req'[s] = req[s]
      BY <3>3 DEF Types
    <3>6. \A s \in Requests : At(s, "admitted", PaidKinds)' => s = r
      BY <3>2, <3>5 DEF At, Waiting
    <3>7. OneJob' /\ JobNumbers'
      <4>1. usedJobs' \in 0..MaxJobs /\ usedJobs' >= 1
        BY <1>0, <2>2, <3>1, BoundsAssumption
      <4>2. task' = None /\ crashes' \in 0..MaxCrashes
        BY <1>0, <2>1, <3>2 DEF OneJob
      <4> QED BY <3>1, <3>6, <4>1, <4>2 DEF OneJob, JobNumbers
    <3>8. usedJobs <= usedJobs' /\ Numbered <= Numbered' /\ Storing <= Storing' /\ Billed <= Billed'
      BY <1>0, <2>1, <3>1, <3>2 DEF Numbered, Storing, Billed
    <3> QED BY <1>0, <2>1, <3>2, <3>3, <3>4, <3>5, <3>7, <3>8, BoundsKept
            DEF NumbersBound, RevisionsBound, BillsBound
  <2>3. CASE ~(~active /\ usedJobs < MaxJobs)
    <3>1. UNCHANGED <<active, usedJobs>> /\ req' = [req EXCEPT ![r] = None]
      BY <1>1, <2>3 DEF Admit, Answer
    <3>2. \A s \in Requests : req'[s] # None => req'[s] = req[s]
      BY <3>1 DEF Types
    <3>3. OneJob' /\ JobNumbers' /\ (Waiting' => Waiting)
      BY <1>0, <2>1, <3>1, <3>2 DEF OneJob, JobNumbers, Waiting, At
    <3>4. usedJobs <= usedJobs' /\ Numbered <= Numbered' /\ Storing <= Storing' /\ Billed <= Billed'
      BY <1>0, <2>1, <3>1, <3>3 DEF Numbered, Storing, Billed
    <3> QED BY <1>0, <2>1, <3>2, <3>3, <3>4, BoundsKept
            DEF NumbersBound, RevisionsBound, BillsBound
  <2> QED BY <2>2, <2>3
<1>2. CASE Enqueue(r)
  <2> DEFINE q == req[r]
             b == BudgetOf(q.kind, q.usage)
  <2>1. /\ req' = [req EXCEPT ![r] = None] /\ UNCHANGED <<paid, counters>>
        /\ q \in Ask /\ q # None /\ b \in Budgets
        /\ row'.results = row.results /\ row'.revision = row.revision
    BY <1>2, EnqueueOutcome DEF Enqueue
  <2>2. active /\ task = None /\ Waiting /\ \A s \in Requests : At(s, "admitted", PaidKinds) => s = r
    BY <1>0, <1>2 DEF Enqueue, OneJob, Waiting
  <2>3. /\ \A s \in Requests : ~At(s, "admitted", PaidKinds)'
        /\ \A s \in Requests : req'[s] # None => req'[s] = req[s]
    BY <2>1, <2>2 DEF At, Types
  <2>4. usedJobs' = usedJobs /\ crashes' = crashes
    BY <2>1 DEF counters
  <2>5. CASE Unchanged(q.revision)
    <3>1. row' = [row EXCEPT !.usage = Spent(q.usage, b), !.busy = TRUE]
          /\ task' = NewTask(b, q.revision) /\ active' = active
      BY <1>2, <2>5 DEF Enqueue
    <3>2. row'.usage.next = q.usage.next
      BY <2>1, <3>1, SpendingAddsOne DEF Types, Rowed, Ask
    <3>3. /\ task'.pc = "load" /\ ~task'.answered /\ task'.pictures = 0
          /\ task'.left \in 1..Candidates
      BY <3>1, CandidatesAssumption DEF NewTask
    <3>4. Numbered <= Numbered' /\ Storing <= Storing' /\ Billed <= Billed'
      BY <1>0, <2>2, <2>4, <3>3 DEF Numbered, Storing, Billed
    <3>5. OneJob' /\ JobNumbers'
      BY <1>0, <2>2, <2>3, <2>4, <3>1, <3>3 DEF OneJob, JobNumbers
    <3> QED BY <1>0, <2>1, <2>3, <2>4, <3>2, <3>3, <3>4, <3>5, BoundsKept
            DEF NumbersBound, RevisionsBound, BillsBound
  <2>6. CASE ~Unchanged(q.revision)
    <3>1. active' = FALSE /\ UNCHANGED <<row, task>>
      BY <1>2, <2>6 DEF Enqueue
    <3>2. Numbered <= Numbered' /\ Storing <= Storing' /\ Billed <= Billed'
      BY <1>0, <2>2, <2>3, <2>4, <3>1 DEF Numbered, Storing, Billed
    <3>3. OneJob' /\ JobNumbers'
      BY <1>0, <2>2, <2>3, <2>4, <3>1 DEF OneJob, JobNumbers
    <3> QED BY <1>0, <2>1, <2>2, <2>3, <2>4, <3>1, <3>2, <3>3, BoundsKept
            DEF NumbersBound, RevisionsBound, BillsBound
  <2> QED BY <2>5, <2>6
<1>3. CASE Frame(r) \/ UseVersion(r)
  <2> DEFINE q == req[r]
  <2>1. /\ req' = [req EXCEPT ![r] = None] /\ UNCHANGED <<active, task, paid, counters>>
        /\ q \in Ask /\ q # None /\ q.kind \in EditKinds
    BY <1>3 DEF Frame, UseVersion, Answer, At, Types, EditKinds
  <2>2. /\ \/ row'.revision = row.revision
           \/ q.revision = row.revision /\ row'.revision = row.revision + 1
        /\ row'.usage = row.usage \/ row'.usage = q.usage
        /\ row'.results \subseteq row.results
    <3>1. CASE Frame(r)
      <4>1. row'.usage = row.usage
        BY <3>1, FrameOutcome
      <4>2. row' = row \/ /\ q.revision = row.revision /\ row'.results = {}
                          /\ row'.revision = row.revision + 1
        BY <3>1, FrameOutcome DEF Frame, Unchanged
      <4> QED BY <4>1, <4>2
    <3>2. CASE UseVersion(r)
      BY <3>2, UseVersionOutcome
    <3> QED BY <1>3, <3>1, <3>2
  <2>3. \A s \in Requests : req'[s] # None => req'[s] = req[s]
    BY <2>1 DEF Types
  <2>4. usedJobs' = usedJobs /\ crashes' = crashes
    BY <2>1 DEF counters
  <2>5. OneJob' /\ JobNumbers' /\ (Waiting' => Waiting)
    BY <1>0, <2>1, <2>3, <2>4 DEF OneJob, JobNumbers, At, Waiting
  <2>6. usedJobs <= usedJobs' /\ Numbered <= Numbered' /\ Storing <= Storing' /\ Billed <= Billed'
    BY <1>0, <2>1, <2>4, <2>5 DEF Numbered, Storing, Billed
  <2>7. row'.revision <= MaxRevision + Storing
    <3>1. Storing \in Nat /\ row.revision \in Nat
      BY <1>0, CountsAreClose DEF Types, Rowed
    <3> QED BY <1>0, <2>1, <2>2, <3>1, BoundsAssumption DEF RevisionsBound
  <2>8. row'.usage.next <= Share(Numbered) /\ \A n \in row'.results : n <= Share(usedJobs)
    BY <1>0, <2>1, <2>2 DEF NumbersBound
  <2> QED BY <1>0, <2>1, <2>3, <2>5, <2>6, <2>7, <2>8, BoundsKept
          DEF NumbersBound, RevisionsBound, BillsBound
<1> QED BY <1>1, <1>2, <1>3 DEF Serve

\* What a call, or a pass of a round, leaves the job to ask for, and what it
\* bills: once for a job.
LEMMA AskBounds ==
    ASSUME Types, AskAi \/ AskRound, task.left >= 1
    PROVE  /\ task \in Task /\ task # None /\ task.pc = "ask" /\ task'.pc # "load"
           /\ task'.pc = "ask" =>
                task'.left >= 1 /\ task'.pictures + task'.left <= task.pictures + task.left
           /\ task'.pc # "ask" => task'.pictures <= task.pictures + task.left
           /\ \/ paid' = paid
              \/ /\ task'.answered /\ ~task.answered
                 /\ paid' = [paid EXCEPT ![task.budget] = @ + 1]
<1> DEFINE a == [task EXCEPT !.answered = TRUE]
           p(made) == [a EXCEPT !.pictures = @ + made]
           one == [a EXCEPT !.pictures = 1]
           crop == [a EXCEPT !.cropped = TRUE]
           Within(t, n) ==
             /\ t.pc # "load"
             /\ t.pc = "ask" => t.left >= 1 /\ t.pictures + t.left <= n
             /\ t.pc # "ask" => t.pictures <= n
           n == task.pictures + task.left
<1>1. task \in Task /\ task # None /\ task.pc = "ask"
  BY DEF AskAi, AskRound, Doing, Types
<1>2. task.pictures \in Nat /\ task.left \in Int /\ n \in Int
  BY <1>1 DEF Task
<1>3. /\ a \in Task /\ a.answered /\ a.pc = "ask" /\ a.budget = task.budget
      /\ a.pictures = task.pictures /\ a.left = task.left
  BY <1>1, TasksStayTasks DEF Task
<1>4. ASSUME NEW made \in {0, 1}
      PROVE  /\ p(made) \in Task /\ p(made).answered /\ p(made).pc = "ask"
             /\ p(made).pictures = task.pictures + made /\ p(made).left = task.left
  BY <1>3, <1>4, PicturesAdd
<1>5. one \in Task /\ one.answered /\ one.pc = "ask" /\ one.pictures = 1
  BY <1>3, TasksStayTasks DEF Task
<1>6. /\ crop \in Task /\ crop.answered /\ crop.pc = "ask"
      /\ crop.pictures = task.pictures /\ crop.left = task.left
  BY <1>3, TasksStayTasks DEF Task
<1> HIDE DEF a, p, one, crop
<1>7. ASSUME NEW t \in Task, NEW c \in {"refund", "advance", "remember", "settle"}
      PROVE  /\ Changes(t, c).pc = "select" /\ Changes(t, c).pictures = t.pictures
             /\ Changes(t, c).answered = t.answered
  BY ChangeIsAsked
<1>8. ASSUME NEW t \in Task
      PROVE  Fails(t).pc = "fail" /\ Fails(t).pictures = t.pictures /\ Fails(t).answered = t.answered
  BY DEF Fails, Task
<1>9. ASSUME NEW t \in Task
      PROVE  /\ EndRound(t).pc = "select" /\ EndRound(t).pictures = t.pictures
             /\ EndRound(t).answered = t.answered
  BY <1>7 DEF EndRound
<1>10. ASSUME NEW t \in Task, t.pc = "ask", t.left = task.left
       PROVE  /\ NextCandidate(t).answered = t.answered
              /\ NextCandidate(t).pictures = t.pictures
              /\ \/ NextCandidate(t).pc = "ask" /\ NextCandidate(t).left = task.left - 1
                                              /\ task.left > 1
                 \/ NextCandidate(t).pc = "select"
  <2>1. CASE t.left > 1
    <3>1. NextCandidate(t) = [t EXCEPT !.left = @ - 1]
      BY <2>1 DEF NextCandidate
    <3> QED BY <1>10, <2>1, <3>1 DEF Task
  <2>2. CASE ~(t.left > 1)
    BY <1>9, <2>2 DEF NextCandidate
  <2> QED BY <2>1, <2>2
<1>11. \/ \E made \in {0, 1} : task' = NextCandidate(p(made)) /\ Bills(a)
       \/ task' = EndRound(a) /\ Bills(a)
       \/ task' = Fails(a) /\ Bills(a)
       \/ task' = crop /\ Bills(a)
       \/ task' = Changes(one, "advance") /\ Bills(a)
       \/ task' = NextCandidate(task) /\ paid' = paid
       \/ task' = EndRound(task) /\ paid' = paid
       \/ task' = Changes(task, "refund") /\ paid' = paid
       \/ task' = GiveBackUnlessAnswered(task) /\ paid' = paid
  BY DEF AskAi, AskRound, Becomes, a, p, one, crop
<1>12. Bills(a) => \/ paid' = paid
                   \/ ~task.answered /\ paid' = [paid EXCEPT ![task.budget] = @ + 1]
  BY <1>3 DEF Bills
<1>13. GiveBackUnlessAnswered(task) \in {Fails(task), Changes(task, "refund")}
  BY DEF GiveBackUnlessAnswered
<1>14. \/ task'.answered /\ Bills(a)
       \/ paid' = paid
  BY <1>3, <1>4, <1>5, <1>6, <1>7, <1>8, <1>9, <1>10, <1>11
<1>15. Within(task', n)
  <2>1. CASE \E made \in {0, 1} : task' = NextCandidate(p(made))
    BY <2>1, <1>2, <1>4, <1>10
  <2>2. CASE task' = NextCandidate(task)
    BY <2>2, <1>1, <1>2, <1>10
  <2>3. CASE task' \in {EndRound(a), Fails(a)}
    BY <2>3, <1>2, <1>3, <1>8, <1>9
  <2>4. CASE task' = crop
    BY <2>4, <1>2, <1>6
  <2>5. CASE task' = Changes(one, "advance")
    BY <2>5, <1>2, <1>5, <1>7
  <2>6. CASE task' \in {EndRound(task), Fails(task), Changes(task, "refund")}
    BY <2>6, <1>1, <1>2, <1>7, <1>8, <1>9
  <2> QED BY <1>11, <1>13, <2>1, <2>2, <2>3, <2>4, <2>5, <2>6
<1> QED BY <1>1, <1>12, <1>14, <1>15

\* So do the job's: what it numbers, revises and bills is its own share.
LEMMA BoundsWork ==
    ASSUME Types, Types', BoundsInv, Work
    PROVE  BoundsInv'
<1>0. /\ usedJobs \in Nat /\ \A b \in Budgets : paid[b] \in Nat
      /\ row.revision \in Nat /\ row.usage.next \in Nat /\ row.results \subseteq Nat
      /\ OneJob /\ JobNumbers /\ NumbersBound /\ RevisionsBound /\ BillsBound
  BY DEF BoundsInv, OneJob, Types, Rowed, Usage
<1>1. /\ task # None /\ active /\ task \in Task /\ ~Waiting
      /\ UNCHANGED <<req, counters>>
  <2>1. task # None /\ UNCHANGED <<req, counters>>
    BY DEF Work, JobLoads, AskAi, AskRound, JobSelects, JobUpdates, JobStores, JobFails,
           JobEnds, Doing
  <2> QED BY <1>0, <2>1 DEF OneJob, Types, Waiting
<1>2. /\ ~Waiting'
      /\ usedJobs' = usedJobs /\ crashes' = crashes
  BY <1>1 DEF At, Waiting, counters
<1>3. /\ usedJobs >= 1 /\ Share(usedJobs - 1) + Candidates = Share(usedJobs)
      /\ Share(usedJobs) \in Int /\ Share(usedJobs - 1) \in Int
      /\ Numbered = IF task.pc = "load" THEN usedJobs - 1 ELSE usedJobs
      /\ Storing = IF task.pc # "end" THEN usedJobs - 1 ELSE usedJobs
      /\ Billed = IF ~task.answered THEN usedJobs - 1 ELSE usedJobs
  BY <1>0, <1>1, SharesAddUp, CandidatesAssumption DEF OneJob, Numbered, Storing, Billed
<1>4. /\ task'.pc # "load" => Numbered' = usedJobs
      /\ task'.pc = "end" => Storing' = usedJobs
      /\ task'.answered => Billed' = usedJobs
      /\ Numbered' \in {usedJobs - 1, usedJobs} /\ Storing' \in {usedJobs - 1, usedJobs}
      /\ Billed' \in {usedJobs - 1, usedJobs}
  BY <1>2 DEF Numbered, Storing, Billed
<1>5. \A r \in Requests : req'[r] # None =>
        /\ req'[r].usage.next <= Share(Numbered)
        /\ req'[r].kind \in EditKinds => req'[r].revision < MaxRevision
  BY <1>0, <1>1 DEF NumbersBound, RevisionsBound
<1>6. ASSUME UNCHANGED active \/ (task' = None /\ active' \in BOOLEAN) PROVE OneJob'
  BY <1>0, <1>1, <1>2, <1>6 DEF OneJob, Waiting
<1>7. usedJobs <= usedJobs'
  BY <1>0, <1>2
<1>8. UNCHANGED row =>
        /\ row'.usage.next <= Share(Numbered)
        /\ row'.revision <= MaxRevision + Storing
        /\ \A n \in row'.results : n <= Share(usedJobs)
  BY <1>0 DEF NumbersBound, RevisionsBound
<1>9. UNCHANGED paid => \A b \in Budgets : paid'[b] <= Billed
  BY <1>0 DEF BillsBound
<1>10. CASE JobLoads
  <2>1. /\ UNCHANGED <<row, paid, active>> /\ task.pc = "load" /\ ~task.answered
        /\ task'.number = row.usage.next
        /\ task'.pc \in {"ask", "fail", "select"}
    BY <1>10, LoadOutcome DEF JobLoads
  <2>2. task'.left = task.left /\ task'.pictures = task.pictures /\ task'.answered = task.answered
    BY <1>1, <1>10 DEF JobLoads, Becomes, Fails, Changes, Task
  <2>3. JobNumbers'
    <3>1. task'.number <= Share(usedJobs - 1) /\ task'.number \in Nat
      BY <1>0, <1>3, <2>1 DEF NumbersBound
    <3>2. task'.pictures = 0 /\ task'.left \in 1..Candidates
      BY <1>0, <1>1, <2>1, <2>2 DEF JobNumbers
    <3> QED BY <1>2, <1>3, <2>1, <3>1, <3>2, CandidatesAssumption DEF JobNumbers
  <2>4. Numbered <= Numbered' /\ Storing <= Storing' /\ Billed <= Billed'
    BY <1>0, <1>3, <1>4, <2>1, <2>2
  <2> QED BY <1>0, <1>5, <1>6, <1>7, <1>8, <1>9, <2>1, <2>3, <2>4, BoundsKept
<1>11. CASE AskAi \/ AskRound
  <2>1. /\ UNCHANGED <<row, active>> /\ task.pc = "ask" /\ task'.number = task.number
        /\ task' \in Task /\ task'.pc \in {"ask", "fail", "select"}
    BY <1>11, AskAiOutcome, AskRoundOutcome DEF AskAi, AskRound, SameJob
  <2>2. task.left >= 1 /\ task.number + task.pictures + task.left <= Share(usedJobs)
    BY <1>0, <1>1, <2>1 DEF JobNumbers
  <2>3. /\ task'.pc = "ask" =>
             task'.left >= 1 /\ task'.pictures + task'.left <= task.pictures + task.left
        /\ task'.pc # "ask" => task'.pictures <= task.pictures + task.left
        /\ \/ paid' = paid
           \/ /\ task'.answered /\ ~task.answered
              /\ paid' = [paid EXCEPT ![task.budget] = @ + 1]
    BY <1>11, <2>2, AskBounds
  <2>4. task.answered => task'.answered
    <3>1. CASE AskRound
      BY <3>1, AskRoundOutcome
    <3>2. CASE AskAi
      <4> DEFINE a == [task EXCEPT !.answered = TRUE]
      <4>1. a \in Task /\ a.answered
        BY <1>1 DEF Task
      <4>2. [a EXCEPT !.pictures = 1] \in Task /\ [a EXCEPT !.pictures = 1].answered
        BY <4>1 DEF Task
      <4>3. [a EXCEPT !.cropped = TRUE].answered
        BY <4>1 DEF Task
      <4>4. task' \in {Changes([a EXCEPT !.pictures = 1], "advance"), Fails(a),
                      [a EXCEPT !.cropped = TRUE], Changes(task, "refund")}
        BY <3>2 DEF AskAi, Becomes
      <4> HIDE DEF a
      <4>5. Fails(a).answered
        BY <4>1 DEF Fails, Task
      <4>6. Changes(task, "refund").answered = task.answered
        BY <1>1, ChangeIsAsked
      <4>7. Changes([a EXCEPT !.pictures = 1], "advance").answered
        BY <4>2, ChangeIsAsked
      <4> QED BY <4>3, <4>4, <4>5, <4>6, <4>7
    <3> QED BY <1>11, <3>1, <3>2
  <2>5. JobNumbers'
    <3>1. /\ task.number \in Nat /\ task.pictures \in Nat /\ task.left \in Int
          /\ task'.pictures \in Nat /\ task'.left \in Int
      BY <1>1, <2>1 DEF Task
    <3> QED BY <1>2, <1>3, <2>1, <2>2, <2>3, <3>1 DEF JobNumbers
  <2>6. Numbered <= Numbered' /\ Storing <= Storing'
    BY <1>0, <1>3, <1>4, <2>1
  <2>7. Billed <= Billed'
    BY <1>0, <1>3, <1>4, <2>4
  <2>8. \A b \in Budgets : paid'[b] <= Billed \/ paid'[b] <= Billed'
    <3>1. CASE paid' = paid
      BY <1>9, <3>1
    <3>2. CASE /\ task'.answered /\ ~task.answered
               /\ paid' = [paid EXCEPT ![task.budget] = @ + 1]
      <4>1. Billed = usedJobs - 1 /\ Billed' = usedJobs
        BY <1>3, <1>4, <3>2
      <4>2. \A b \in Budgets : paid'[b] <= paid[b] + 1
        BY <1>0, <3>2 DEF Types
      <4> QED BY <1>0, <4>1, <4>2 DEF BillsBound, Types
    <3> QED BY <2>3, <3>1, <3>2
  <2> QED BY <1>0, <1>5, <1>6, <1>7, <1>8, <2>1, <2>5, <2>6, <2>7, <2>8, BoundsKept
<1>12. CASE JobSelects
  <2>1. /\ UNCHANGED <<row, paid, active>> /\ task.pc = "select"
        /\ task'.pc = "update" /\ task'.saw = row.usage /\ task'.number = task.number
        /\ task'.pictures = task.pictures /\ task'.answered = task.answered
    BY <1>12, SelectOutcome DEF JobSelects, SameJob
  <2>2. JobNumbers'
    BY <1>0, <1>1, <1>2, <2>1 DEF JobNumbers
  <2>3. Numbered <= Numbered' /\ Storing <= Storing' /\ Billed <= Billed'
    BY <1>0, <1>3, <1>4, <2>1
  <2>4. task'.saw.next <= Share(usedJobs)
    BY <1>0, <1>3, <2>1 DEF NumbersBound
  <2> QED BY <1>0, <1>5, <1>6, <1>7, <1>8, <1>9, <2>1, <2>2, <2>3, <2>4, BoundsKept
<1>13. CASE JobUpdates
  <2>1. /\ UNCHANGED <<paid, active>> /\ task.pc = "update"
        /\ row'.usage = Changed(task.saw) /\ row'.results = row.results
        /\ row'.revision = row.revision /\ task'.number = task.number
        /\ task'.pictures = task.pictures /\ task'.pc \in {"fail", "select", "store"}
    BY <1>13, UpdateOutcome DEF JobUpdates, SameJob
  <2>2. task'.answered = task.answered
    <3> DEFINE t == [task EXCEPT !.saw = None, !.change = None]
    <3>1. t \in Task /\ t.answered = task.answered
      BY <1>1 DEF Task
    <3>2. task' \in {Fails(t), Changes(t, "remember"), [t EXCEPT !.pc = "store"]}
      BY <1>1, <1>13, <2>1 DEF JobUpdates, Becomes, Types, Known
    <3> HIDE DEF t
    <3>3. Fails(t).answered = t.answered /\ [t EXCEPT !.pc = "store"].answered = t.answered
      BY <3>1 DEF Fails, Task
    <3>4. Changes(t, "remember").answered = t.answered
      BY <3>1, ChangeIsAsked
    <3> QED BY <3>1, <3>2, <3>3, <3>4
  <2>3. JobNumbers'
    BY <1>0, <1>1, <1>2, <2>1 DEF JobNumbers
  <2>4. Numbered <= Numbered' /\ Storing <= Storing' /\ Billed <= Billed'
    BY <1>0, <1>3, <1>4, <2>1, <2>2
  <2>5. row'.usage.next <= Share(Numbered)
    <3>1. /\ task.saw.next <= Share(usedJobs) /\ Numbered = usedJobs
          /\ task.number + task.pictures <= Share(usedJobs)
          /\ task.change = "advance" => task.pictures = 1
          /\ task.change \in {"refund", "advance", "remember", "settle"}
      BY <1>0, <1>1, <1>3, <2>1 DEF NumbersBound, JobNumbers, Types, Known
    <3>2. /\ Changed(task.saw).next =
                CASE task.change = "advance" -> MaxOf(task.saw.next, task.number + 1)
                  [] task.change = "settle" -> task.number + task.pictures
                  [] task.change \in {"refund", "remember"} -> task.saw.next
      BY <1>1, <2>1, ChangesAreSmall
    <3> QED BY <2>1, <3>1, <3>2 DEF MaxOf
  <2>6. /\ row'.revision <= MaxRevision + Storing
        /\ \A n \in row'.results : n <= Share(usedJobs)
    BY <1>0, <2>1 DEF NumbersBound, RevisionsBound
  <2> QED BY <1>0, <1>5, <1>6, <1>7, <1>9, <2>1, <2>3, <2>4, <2>5, <2>6, BoundsKept
<1>14. CASE JobStores
  <2>1. /\ UNCHANGED <<paid, active>> /\ task.pc = "store"
        /\ row'.usage = row.usage /\ task' = [task EXCEPT !.pc = "end"]
        /\ \/ row'.results = row.results /\ row'.revision = row.revision
           \/ /\ row'.revision = row.revision + 1
              /\ row'.results = row.results
                                  \cup task.number..(task.number + task.pictures - 1)
    BY <1>14, StoreOutcome DEF JobStores, Becomes, Doing
  <2>2. /\ task'.pc = "end" /\ task'.number = task.number /\ task'.pictures = task.pictures
        /\ task'.answered = task.answered
    BY <1>1, <2>1 DEF Task
  <2>3. /\ task.number + task.pictures <= Share(usedJobs)
        /\ task.number \in Nat /\ task.pictures \in Nat
    BY <1>0, <1>1, <2>1 DEF JobNumbers, Task
  <2>4. JobNumbers'
    BY <1>2, <2>2, <2>3 DEF JobNumbers
  <2>5. Numbered <= Numbered' /\ Storing <= Storing' /\ Billed <= Billed'
    BY <1>0, <1>3, <1>4, <2>1, <2>2
  <2>6. row'.usage.next <= Share(Numbered)
    BY <1>0, <2>1 DEF NumbersBound
  <2>7. row'.revision <= MaxRevision + Storing'
    <3>1. Storing = usedJobs - 1 /\ Storing' = usedJobs
      BY <1>3, <1>4, <2>1, <2>2
    <3> QED BY <1>0, <2>1, <3>1, BoundsAssumption DEF RevisionsBound
  <2>8. \A n \in row'.results : n <= Share(usedJobs)
    BY <1>0, <1>3, <2>1, <2>3 DEF NumbersBound
  <2> QED BY <1>0, <1>5, <1>6, <1>7, <1>9, <2>1, <2>2, <2>4, <2>5, <2>6, <2>7, <2>8, BoundsKept
<1>15. CASE JobFails
  <2>1. /\ UNCHANGED <<paid, active>> /\ task.pc = "fail"
        /\ row'.usage = row.usage /\ row'.results = row.results
        /\ row'.revision = row.revision /\ task' = [task EXCEPT !.pc = "end"]
    BY <1>15, QuietOutcome DEF JobFails, Becomes, Doing
  <2>2. /\ task'.pc = "end" /\ task'.number = task.number /\ task'.pictures = task.pictures
        /\ task'.answered = task.answered
    BY <1>1, <2>1 DEF Task
  <2>3. JobNumbers'
    BY <1>0, <1>1, <1>2, <2>1, <2>2 DEF JobNumbers
  <2>4. Numbered <= Numbered' /\ Storing <= Storing' /\ Billed <= Billed'
    BY <1>0, <1>3, <1>4, <2>1, <2>2
  <2>5. /\ row'.usage.next <= Share(Numbered) /\ row'.revision <= MaxRevision + Storing
        /\ \A n \in row'.results : n <= Share(usedJobs)
    BY <1>0, <2>1 DEF NumbersBound, RevisionsBound
  <2> QED BY <1>0, <1>5, <1>6, <1>7, <1>9, <2>1, <2>2, <2>3, <2>4, <2>5, BoundsKept
<1>16. CASE JobEnds
  <2>1. UNCHANGED <<row, paid>> /\ task.pc = "end" /\ task' = None /\ active' = FALSE
    BY <1>16 DEF JobEnds, Doing
  <2>2. JobNumbers'
    BY <2>1 DEF JobNumbers
  <2>3. Numbered' = usedJobs /\ Storing' = usedJobs /\ Billed' = usedJobs
    BY <1>2, <2>1 DEF Numbered, Storing, Billed
  <2>4. Numbered <= Numbered' /\ Storing <= Storing' /\ Billed <= Billed'
    BY <1>0, <1>3, <2>3
  <2> QED BY <1>0, <1>5, <1>6, <1>7, <1>8, <1>9, <2>1, <2>2, <2>4, BoundsKept
<1> QED BY <1>10, <1>11, <1>12, <1>13, <1>14, <1>15, <1>16 DEF Work

\* Every step keeps the bounds.
LEMMA BoundsStep ==
    ASSUME Types, BoundsInv, [Next]_vars
    PROVE  BoundsInv'
<1>1. Types'
  BY TypesStep
<1>2. ASSUME NEW r \in Requests, NEW kind \in PaidKinds \cup EditKinds, Receive(r, kind)
      PROVE  BoundsInv'
  BY <1>1, <1>2, BoundsReceive
<1>3. ASSUME NEW r \in Requests, Serve(r) PROVE BoundsInv'
  BY <1>1, <1>3, BoundsServe
<1>4. CASE Work
  BY <1>1, <1>4, BoundsWork
<1>5. CASE Crash
  <2>1. /\ row'.usage = row.usage /\ row'.results = row.results /\ row'.revision = row.revision
        /\ UNCHANGED <<paid, usedJobs>> /\ task' = None /\ active' = FALSE
        /\ crashes < MaxCrashes /\ crashes' = crashes + 1
        /\ \A r \in Requests : req'[r] = None
    BY <1>5, QuietOutcome DEF Crash
  <2>2. OneJob /\ ~Waiting'
    BY <2>1 DEF BoundsInv, Waiting, At
  <2>3. OneJob' /\ JobNumbers'
    <3>1. crashes' \in 0..MaxCrashes /\ usedJobs' \in 0..MaxJobs
      BY <2>1, <2>2, BoundsAssumption DEF OneJob
    <3>2. \A r \in Requests : ~At(r, "admitted", PaidKinds)'
      BY <2>2 DEF Waiting
    <3>3. JobNumbers'
      BY <2>1 DEF JobNumbers
    <3> QED BY <2>1, <3>1, <3>2, <3>3 DEF OneJob
  <2>4. Numbered' = usedJobs /\ Storing' = usedJobs /\ Billed' = usedJobs /\ usedJobs \in Nat
    BY <2>1, <2>2 DEF Numbered, Storing, Billed, OneJob
  <2>5. Numbered <= Numbered' /\ Storing <= Storing' /\ Billed <= Billed' /\ usedJobs <= usedJobs'
    BY <2>1, <2>2, <2>4, CountsAreClose
  <2> QED BY <1>1, <2>1, <2>2, <2>3, <2>5, BoundsKept
          DEF BoundsInv, NumbersBound, RevisionsBound, BillsBound
<1>6. CASE UNCHANGED vars
  BY <1>6 DEF vars, counters, BoundsInv, OneJob, JobNumbers, NumbersBound, RevisionsBound,
              BillsBound, Numbered, Storing, Billed, Waiting, At
<1> QED BY <1>2, <1>3, <1>4, <1>5, <1>6 DEF Next

\* Every variable keeps its type, the bounds on what jobs may number, revise
\* and bill included.
THEOREM BudgetTypes == Spec => []TypeOK
<1>1. Init => Types /\ BoundsInv
  BY TypesInit, BoundsInit
<1>2. Types /\ BoundsInv /\ [Next]_vars => (Types /\ BoundsInv)'
  BY TypesStep, BoundsStep
<1>3. Types /\ BoundsInv => TypeOK
  <2> SUFFICES ASSUME Types, BoundsInv PROVE TypeOK
    OBVIOUS
  <2>1. /\ OneJob /\ usedJobs \in 0..MaxJobs /\ usedJobs \in Nat
        /\ Numbered <= usedJobs /\ Storing <= usedJobs /\ Billed <= usedJobs
        /\ Numbered \in Nat /\ Storing \in Nat /\ Billed \in Nat
    BY CountsAreClose DEF BoundsInv, OneJob
  <2>2. /\ Share(Numbered) <= Share(usedJobs) /\ Share(usedJobs) <= MaxJobs * Candidates
        /\ Share(Numbered) \in Int /\ Share(usedJobs) \in Int /\ MaxJobs * Candidates \in Int
    <3>1. Share(Numbered) <= Share(usedJobs)
      BY <2>1, SharesGrow
    <3>2. Share(usedJobs) <= MaxJobs * Candidates
      BY <2>1, MostShare
    <3>3. Share(Numbered) \in Int /\ Share(usedJobs) \in Int
      BY <2>1, SharesAddUp
    <3>4. MaxJobs * Candidates \in Int
      BY CandidatesAssumption, BoundsAssumption
    <3> QED BY <3>1, <3>2, <3>3, <3>4
  <2>3. row \in Rowed /\ row.revision \in Nat /\ row.usage \in Usage /\ row.usage.next \in Nat
        /\ row.results \subseteq Nat /\ row.busy \in BOOLEAN
    BY DEF Types, Rowed, Usage
  <2>4. row.revision \in 0..(MaxRevision + MaxJobs)
    BY <2>1, <2>3, BoundsAssumption DEF BoundsInv, RevisionsBound
  <2>5. row.usage.next \in Numbers /\ row.results \subseteq Numbers
    BY <2>2, <2>3 DEF BoundsInv, NumbersBound, Numbers
  <2>6. row.usage \in Usages
    BY <2>3, <2>5 DEF Usage, Usages
  <2>7. row \in Rows
    BY <2>3, <2>4, <2>5, <2>6 DEF Rowed, Rows
  <2>8. paid \in [Budgets -> 0..MaxJobs]
    <3>1. \A b \in Budgets : paid[b] \in 0..MaxJobs
      BY <2>1, BoundsAssumption DEF BoundsInv, BillsBound, Types
    <3> QED BY <3>1 DEF Types
  <2>9. \A r \in Requests : req[r] = None \/ req[r].kind \in PaidKinds \cup EditKinds
    BY DEF Types, Ask
  <2>10. task = None \/ (task.budget \in Budgets /\ active)
    BY <2>1 DEF OneJob, Types, Task
  <2> QED BY <2>1, <2>7, <2>8, <2>9, <2>10 DEF TypeOK, OneJob, Types
<1> QED BY <1>1, <1>2, <1>3, PTL DEF Spec
=============================================================================
