------------------------------ MODULE AiBudget ------------------------------
(***************************************************************************)
(* services/creations and services/wizard: what a creation's paid image    *)
(* calls cost its owner.  Its row counts the AI tries, the free "remove    *)
(* this change" redos and the adjust rounds that are spent; admission of a *)
(* job spends one, and the job gives it back when nothing was answered.    *)
(*                                                                         *)
(* The counts ride in one JSON value of the row, written whole: by         *)
(* requests from what they read some awaits before, by jobs from a SELECT  *)
(* of their own, outside the revision rule.                                *)
(*                                                                         *)
(* The creation stays a draft throughout, its face type chosen and its     *)
(* image there (Creations models the rest); jobs and edits that neither    *)
(* spend nor write the usage are left out, as is AI detection.             *)
(***************************************************************************)
EXTENDS Integers, FiniteSets

CONSTANTS
    Requests,      \* requests served at the same time
    Limit,         \* [Budgets -> Nat]: *_PER_CREATION
    Candidates,    \* MAX_CANDIDATES of an adjust round
    MaxJobs,       \* bound: paid jobs over the creation's life
    MaxRevision,   \* bound: revisions from which an owner still edits
    MaxCrashes,    \* bound: times the process dies
    None

\* prepare_rounds, free_clears and adjust_rounds.
Budgets == {"tries", "clears", "rounds"}

ASSUME LimitAssumption == Limit \in [Budgets -> Nat]
ASSUME CandidatesAssumption == Candidates \in Nat \ {0}
ASSUME BoundsAssumption == MaxJobs \in Nat /\ MaxRevision \in Nat /\ MaxCrashes \in Nat

VARIABLES
    row,        \* the columns the budget depends on
    req,        \* each request under way, or None
    active,     \* runner.active_for(creation): a job is admitted
    task,       \* that job's task, or None
    paid,       \* ghost: jobs of each budget the provider billed for
    stale,      \* ghost: a request has written counts the row no longer had
    usedJobs, crashes

counters == <<usedJobs, crashes>>
vars == <<row, req, active, task, paid, stale, counters>>

Numbers == 0..(MaxJobs * Candidates)
Usages == [counts : [Budgets -> Nat], next : Numbers]
Rows == [revision : 0..(MaxRevision + MaxJobs),
         busy : BOOLEAN,               \* the job record is queued or running
         usage : Usages,
         results : SUBSET Numbers]     \* n for each "adjusted:n" among the steps

Init ==
    /\ row = [revision |-> 0, busy |-> FALSE, results |-> {},
              usage |-> [counts |-> [b \in Budgets |-> 0], next |-> 0]]
    /\ req = [r \in Requests |-> None]
    /\ active = FALSE
    /\ task = None
    /\ paid = [b \in Budgets |-> 0]
    /\ stale = FALSE
    /\ usedJobs = 0 /\ crashes = 0

Unchanged(revision) == row.revision = revision

-----------------------------------------------------------------------------
(* Requests.                                                               *)

PaidKinds == {"try", "clear", "adjust"}
EditKinds == {"frame", "version"}

\* A slip: one more than the budget holds.
OneMoreLeft(b, u) == u.counts[b] <= Limit[b]

Left(b, u) == u.counts[b] < Limit[b]

\* A "remove this change" is free while the free ones last, then a try.
BudgetOf(kind, u) ==
    CASE kind = "adjust" -> "rounds"
      [] kind = "clear" /\ Left("clears", u) -> "clears"
      [] OTHER -> "tries"

Spent(u, b) == [u EXCEPT !.counts[b] = @ + 1]

\* What is refused on the row as it is read changes nothing.
Accepts(kind) ==
    CASE kind \in PaidKinds -> Left(BudgetOf(kind, row.usage), row.usage) /\ usedJobs < MaxJobs
      [] kind = "frame" -> row.revision < MaxRevision
      [] kind = "version" -> ~row.busy /\ row.revision < MaxRevision

Receive(r, kind) ==
    /\ req[r] = None
    /\ Accepts(kind)
    /\ req' = [req EXCEPT ![r] =
                [pc |-> "read", kind |-> kind, revision |-> row.revision, usage |-> row.usage]]
    /\ UNCHANGED <<row, active, task, paid, stale, counters>>

At(r, pc, kinds) == req[r] # None /\ req[r].pc = pc /\ req[r].kind \in kinds
Answer(r) == req' = [req EXCEPT ![r] = None]

\* The request's usage replaces the row's.
Overwrites(u) == stale' = (stale \/ u.counts # row.usage.counts)

\* runner.reserve, after the consent's and the monthly limit's reads.
Admit(r) ==
    /\ At(r, "read", PaidKinds)
    /\ IF ~active /\ usedJobs < MaxJobs
       THEN /\ active' = TRUE
            /\ usedJobs' = usedJobs + 1
            /\ req' = [req EXCEPT ![r].pc = "admitted"]
       ELSE Answer(r) /\ UNCHANGED <<active, usedJobs>>
    /\ UNCHANGED <<row, task, paid, stale, crashes>>

NewTask(budget, revision) ==
    [pc |-> "load", budget |-> budget, revision |-> revision, number |-> 0,
     left |-> IF budget = "rounds" THEN Candidates ELSE 1,
     cropped |-> FALSE, answered |-> FALSE, pictures |-> 0, change |-> None, saw |-> None]

\* start_job's write takes the budget with the job; refused, the reservation
\* is dropped.  It does not move the revision.
Enqueue(r) ==
    /\ At(r, "admitted", PaidKinds)
    /\ LET q == req[r]
           b == BudgetOf(q.kind, q.usage)
       IN  IF Unchanged(q.revision)
           THEN /\ row' = [row EXCEPT !.usage = Spent(q.usage, b), !.busy = TRUE]
                /\ Overwrites(q.usage)
                /\ task' = NewTask(b, q.revision)
                /\ UNCHANGED active
           ELSE /\ active' = FALSE
                /\ UNCHANGED <<row, task, stale>>
    /\ Answer(r)
    /\ UNCHANGED <<paid, counters>>

\* A new frame drops the AI results made from the old one; "the rounds they
\* cost stay spent".
Frame(r) ==
    /\ At(r, "read", {"frame"})
    /\ row' = IF Unchanged(req[r].revision)
              THEN [row EXCEPT !.revision = @ + 1, !.results = {}] ELSE row
    /\ Answer(r)
    /\ UNCHANGED <<active, task, paid, stale, counters>>

\* use_version writes the usage it read, its last_prepare changed, after
\* finding the version's points.
UseVersion(r) ==
    /\ At(r, "read", {"version"})
    /\ IF Unchanged(req[r].revision)
       THEN /\ row' = [row EXCEPT !.revision = @ + 1, !.usage = req[r].usage]
            /\ Overwrites(req[r].usage)
       ELSE UNCHANGED <<row, stale>>
    /\ Answer(r)
    /\ UNCHANGED <<active, task, paid, counters>>

Serve(r) == Admit(r) \/ Enqueue(r) \/ Frame(r) \/ UseVersion(r)

-----------------------------------------------------------------------------
(* The job: prepare_job for tries and clears, run_adjust for rounds.       *)

Doing(pc, budgets) == task # None /\ task.pc = pc /\ task.budget \in budgets
Becomes(t) == task' = t
Fails(t) == [t EXCEPT !.pc = "fail"]
Changes(t, change) == [t EXCEPT !.pc = "select", !.change = change]

\* The creation as it is now.  The step it starts from may be gone, or its
\* file out of reach: the job ends, and nothing is given back; or an adjust
\* has no use for the photo, and its round is.
JobLoads ==
    /\ Doing("load", Budgets)
    /\ LET t == [task EXCEPT !.number = row.usage.next] IN
       \/ Becomes([t EXCEPT !.pc = "ask"])
       \/ Becomes(Fails(t))
       \/ task.budget = "rounds" /\ Becomes(Changes(t, "refund"))
    /\ UNCHANGED <<row, req, active, paid, stale, counters>>

\* An answered call is a billed one, whatever it answers.
Bills(t) == paid' = IF t.answered /\ ~task.answered
                    THEN [paid EXCEPT ![t.budget] = @ + 1] ELSE paid

\* _ask_ai, one call: a refusal is asked once more on the head crop.
AskAi ==
    /\ Doing("ask", {"tries", "clears"})
    /\ LET t == [task EXCEPT !.answered = TRUE] IN
       \/ Becomes(Changes([t EXCEPT !.pictures = 1], "advance")) /\ Bills(t)
       \/ Becomes(Fails(t)) /\ Bills(t)            \* no picture, or refused for good
       \/ /\ ~task.cropped                         \* refused the first time
          /\ Becomes([t EXCEPT !.cropped = TRUE]) /\ Bills(t)
       \/ \* Switched off, the limit reached, unavailable, or the call failed.
          Becomes(Changes(task, "refund")) /\ UNCHANGED paid
    /\ UNCHANGED <<row, req, active, stale, counters>>

\* A slip: the provider gone, the round is given back whatever it answered.
GiveBackAnyway(t) == Changes(t, "refund")

\* The provider is not configured any more.
GiveBackUnlessAnswered(t) == IF t.answered THEN Fails(t) ELSE Changes(t, "refund")

\* The round is over: kept if any call was answered, given back if none.
EndRound(t) == Changes(t, IF t.answered THEN "settle" ELSE "refund")
NextCandidate(t) == IF t.left > 1 THEN [t EXCEPT !.left = @ - 1] ELSE EndRound(t)

\* One pass of run_adjust's loop.
AskRound ==
    /\ Doing("ask", {"rounds"})
    /\ LET t == [task EXCEPT !.answered = TRUE] IN
       \/ \E made \in {0, 1} :                     \* answered, with a picture or none
             Becomes(NextCandidate([t EXCEPT !.pictures = @ + made])) /\ Bills(t)
       \/ Becomes(EndRound(t)) /\ Bills(t)         \* refused for good
       \/ Becomes(Fails(t)) /\ Bills(t)            \* its picture could not be kept
       \/ /\ ~task.cropped                         \* refused the first time
          /\ Becomes([t EXCEPT !.cropped = TRUE]) /\ Bills(t)
       \/ Becomes(NextCandidate(task)) /\ UNCHANGED paid    \* the call failed
       \/ Becomes(EndRound(task)) /\ UNCHANGED paid         \* limit, or switched off
       \/ Becomes(GiveBackUnlessAnswered(task)) /\ UNCHANGED paid
    /\ UNCHANGED <<row, req, active, stale, counters>>

\* update_ai_usage reads the row,
JobSelects ==
    /\ Doing("select", Budgets)
    /\ Becomes([task EXCEPT !.pc = "update", !.saw = row.usage])
    /\ UNCHANGED <<row, req, active, paid, stale, counters>>

MaxOf(a, b) == IF a > b THEN a ELSE b

\* A slip: the number of a picture stored outside the revision rule is left
\* free for the next.
ChangedForgetting(u) ==
    IF task.change = "refund"
    THEN [u EXCEPT !.counts[task.budget] = MaxOf(0, @ - 1)]
    ELSE u

\* A slip: a count already at zero is lowered.
ChangedBelowZero(u) ==
    CASE task.change = "refund" -> [u EXCEPT !.counts[task.budget] = @ - 1]
      [] task.change = "advance" -> [u EXCEPT !.next = MaxOf(@, task.number + 1)]
      [] task.change = "settle" -> [u EXCEPT !.next = task.number + task.pictures]
      [] task.change = "remember" -> u

\* refund, refund_free and refund_round; advance; settle; remember, which
\* only sets last_prepare.
Changed(u) ==
    CASE task.change = "refund" -> [u EXCEPT !.counts[task.budget] = MaxOf(0, @ - 1)]
      [] task.change = "advance" -> [u EXCEPT !.next = MaxOf(@, task.number + 1)]
      [] task.change = "settle" -> [u EXCEPT !.next = task.number + task.pictures]
      [] task.change = "remember" -> u

\* and writes it back whole, a query later.
JobUpdates ==
    /\ Doing("update", Budgets)
    /\ row' = [row EXCEPT !.usage = Changed(task.saw)]
    /\ LET t == [task EXCEPT !.saw = None, !.change = None] IN
       CASE task.change = "refund" -> Becomes(Fails(t))
         [] task.change = "advance" ->       \* cut out, its face found; or not
              Becomes(Changes(t, "remember")) \/ Becomes(Fails(t))
         [] task.change \in {"settle", "remember"} -> Becomes([t EXCEPT !.pc = "store"])
    /\ UNCHANGED <<req, active, paid, stale, counters>>

\* store_result, under the revision rule; refused, the pictures go and the
\* job is recorded as superseded.
JobStores ==
    /\ Doing("store", Budgets)
    /\ row' = [row EXCEPT !.busy = FALSE,
                 !.revision = IF Unchanged(task.revision) THEN @ + 1 ELSE @,
                 !.results = IF Unchanged(task.revision)
                             THEN @ \cup task.number..(task.number + task.pictures - 1) ELSE @]
    /\ Becomes([task EXCEPT !.pc = "end"])
    /\ UNCHANGED <<req, active, paid, stale, counters>>

\* write_job records the failure.
JobFails ==
    /\ Doing("fail", Budgets)
    /\ row' = [row EXCEPT !.busy = FALSE]
    /\ Becomes([task EXCEPT !.pc = "end"])
    /\ UNCHANGED <<req, active, paid, stale, counters>>

JobEnds ==
    /\ Doing("end", Budgets)
    /\ task' = None /\ active' = FALSE
    /\ UNCHANGED <<row, req, paid, stale, counters>>

Work ==
    \/ JobLoads \/ AskAi \/ AskRound \/ JobSelects \/ JobUpdates
    \/ JobStores \/ JobFails \/ JobEnds

\* The process dies; before it serves again recovery has ended the job's
\* record, and given nothing back.
Crash ==
    /\ crashes < MaxCrashes
    /\ crashes' = crashes + 1
    /\ req' = [r \in Requests |-> None]
    /\ active' = FALSE /\ task' = None
    /\ row' = [row EXCEPT !.busy = FALSE]
    /\ UNCHANGED <<paid, stale, usedJobs>>

Next ==
    \/ \E r \in Requests, kind \in PaidKinds \cup EditKinds : Receive(r, kind)
    \/ \E r \in Requests : Serve(r)
    \/ Work
    \/ Crash

Spec == Init /\ [][Next]_vars

-----------------------------------------------------------------------------
(* Properties.                                                             *)

\* Every variable keeps its type: no count goes below zero, though a request
\* may bring back a count a job then gives back once more.
TypeOK ==
    /\ row \in Rows
    /\ \A r \in Requests : req[r] = None \/ req[r].kind \in PaidKinds \cup EditKinds
    /\ active \in BOOLEAN
    /\ task = None \/ (task.budget \in Budgets /\ active)
    /\ paid \in [Budgets -> 0..MaxJobs]
    /\ stale \in BOOLEAN
    /\ usedJobs \in 0..MaxJobs /\ crashes \in 0..MaxCrashes

\* No count passes its limit, whatever admissions and refunds come between a
\* request's read and its write.
WithinLimits == \A b \in Budgets : row.usage.counts[b] <= Limit[b]

\* The next picture's number is past every picture the creation has, so a
\* new result never takes the place of an old one: although the number is
\* written outside the revision rule and the pictures inside it, and
\* although a request may write a usage read before the number moved.
NumbersAreFresh == \A n \in row.results : n < row.usage.next

\* An adjust round the provider answered stays counted, through failures,
\* edits that discard its result, crashes, and updates that interleave: as
\* long as no request has written back counts it had read before they moved.
AnsweredRoundsStayCounted == ~stale => paid["rounds"] <= row.usage.counts["rounds"]

-----------------------------------------------------------------------------
(* What the repository says and the code does not keep.                    *)

GivesBack == task # None /\ task.pc = "update" /\ task.change = "refund"

\* update_ai_usage's docstring (records.py 144-148): the budget "stays
\* spent", its unconditional write safe "because the only other writer is
\* job admission, which cannot happen while this job is active".  So nothing
\* but a job's own refund lowers a count.
OnlyRefundsLowerCounts ==
    [][(\E b \in Budgets : row'.usage.counts[b] < row.usage.counts[b]) => GivesBack]_vars

\* prepare_job's own comment (prepare.py 354-355): the try is given back when
\* "nothing was sent, or nothing answered"; "a refusal ... was billed".
RefundsOnlyTheUnanswered ==
    [][task # None /\ task' # None /\ task.change # "refund" /\ task'.change = "refund"
        => ~task.answered]_vars
=============================================================================
