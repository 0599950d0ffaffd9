------------------------------ MODULE JobRunner ------------------------------
(***************************************************************************)
(* services/jobs.py: admission of background jobs and the running slots    *)
(* they share.  One asyncio loop runs everything, so an action is the code *)
(* between two awaits.  The slots are an asyncio.Semaphore (CPython 3.12), *)
(* modelled from its use here: a FIFO of waiters, and waiters that were    *)
(* granted a slot but whose task has not run again yet.                    *)
(*                                                                         *)
(* A member of Jobs is a Job object; once nothing refers to it any more it *)
(* may stand for a later job.  Shutdown is the lifespan's, after the last  *)
(* request: no job is admitted, and none is half admitted, from then on.   *)
(***************************************************************************)
EXTENDS Integers, FiniteSets, Sequences

CONSTANTS
    Jobs, Subjects, Orgs,
    OrgOf,          \* the organization a subject belongs to
    MaxActive,      \* jobs.MAX_ACTIVE
    MaxPerOrg,      \* jobs.MAX_PER_ORG
    MaxRunning,     \* jobs.MAX_RUNNING
    MaxLends,       \* bound: provider calls of one job
    None

ASSUME FiniteAssumption == IsFiniteSet(Jobs) /\ IsFiniteSet(Subjects)
ASSUME OrgAssumption == OrgOf \in [Subjects -> Orgs]
ASSUME LimitAssumption ==
    /\ MaxActive \in Nat
    /\ MaxPerOrg \in Nat
    /\ MaxRunning \in Nat
    /\ MaxLends \in Nat
ASSUME NoneAssumption == None \notin Jobs /\ None \notin Subjects

VARIABLES
    phase,        \* where each job's task stands
    subject,      \* Job.subject_id
    jobs,         \* JobRunner._jobs
    bySubject,    \* JobRunner._by_subject
    holdsSlot,    \* Job.holds_slot
    lends,        \* provider calls made so far
    dying,        \* cancelled jobs whose unwinding is under way
    free,         \* the semaphore's value
    queue,        \* its waiters that are not done, in order
    granted,      \* its waiters with a slot whose task has not resumed
    closing       \* JobRunner.shutdown has cancelled the tasks

taskVars == <<phase, subject, lends, dying>>
registry == <<jobs, bySubject>>
slots == <<holdsSlot, free, queue, granted>>
vars == <<taskVars, registry, slots, closing>>

Phases == {"idle",        \* not a job now
           "reserved",    \* admitted, neither started nor released yet
           "created",     \* its task exists and has not run
           "acquiring",   \* waiting for its first slot
           "working",     \* inside work(job), with a slot
           "away",        \* inside outside_slot, its slot lent back
           "returning",   \* waiting to take a slot back
           "lost"}        \* cancelled before its task ever ran
Waiting == {"acquiring", "returning"}

Holders == {j \in Jobs : holdsSlot[j]}
JobsOf(o) == {j \in jobs : OrgOf[subject[j]] = o}

Init ==
    /\ phase = [j \in Jobs |-> "idle"]
    /\ subject = [j \in Jobs |-> None]
    /\ jobs = {}
    /\ bySubject = [s \in Subjects |-> None]
    /\ holdsSlot = [j \in Jobs |-> FALSE]
    /\ lends = [j \in Jobs |-> 0]
    /\ dying = {}
    /\ free = MaxRunning
    /\ queue = <<>>
    /\ granted = {}
    /\ closing = FALSE

-----------------------------------------------------------------------------
(* The semaphore.                                                          *)

\* A slip: only those who wait already make a job wait.
LockedByWaiters == queue # <<>> \/ granted # {}

\* Semaphore.locked(): nothing free, or somebody before.
Locked == free = 0 \/ queue # <<>> \/ granted # {}

Fewer(a, b) == IF a < b THEN a ELSE b

\* Grant slots to the first n waiters, out of f free ones; g is what is
\* granted besides.
Wake(n, f, g) ==
    /\ free' = f - n
    /\ granted' = g \cup {queue[i] : i \in 1..n}
    /\ queue' = SubSeq(queue, n + 1, Len(queue))

\* The end of acquire(): whatever is free goes to the waiters there are.
WakeAll(f, g) == Wake(Fewer(f, Len(queue)), f, g)

\* A slip: the released slot is offered to nobody.
ReturnSlotsSilently(n) == Wake(0, free + n, granted)

\* release(), n times (0 or 1): each slot returned is offered to one waiter.
ReturnSlots(n) == Wake(Fewer(n, Len(queue)), free + n, granted)

-----------------------------------------------------------------------------
(* Admission.                                                              *)

\* A slip: an off-by-one in the organization's limit.
ReserveOneTooMany(j, s) ==
    /\ ~closing
    /\ phase[j] = "idle"
    /\ bySubject[s] = None
    /\ Cardinality(JobsOf(OrgOf[s])) <= MaxPerOrg
    /\ Cardinality(jobs) < MaxActive
    /\ phase' = [phase EXCEPT ![j] = "reserved"]
    /\ subject' = [subject EXCEPT ![j] = s]
    /\ lends' = [lends EXCEPT ![j] = 0]
    /\ jobs' = jobs \cup {j}
    /\ bySubject' = [bySubject EXCEPT ![s] = j]
    /\ UNCHANGED <<dying, slots, closing>>

Reserve(j, s) ==
    /\ ~closing
    /\ phase[j] = "idle"
    /\ bySubject[s] = None
    /\ Cardinality(JobsOf(OrgOf[s])) < MaxPerOrg
    /\ Cardinality(jobs) < MaxActive
    /\ phase' = [phase EXCEPT ![j] = "reserved"]
    /\ subject' = [subject EXCEPT ![j] = s]
    /\ lends' = [lends EXCEPT ![j] = 0]
    /\ jobs' = jobs \cup {j}
    /\ bySubject' = [bySubject EXCEPT ![s] = j]
    /\ UNCHANGED <<dying, slots, closing>>

\* A slip: the subject's entry outlives its job.
ReleaseJobOnly(j) ==
    /\ jobs' = jobs \ {j}
    /\ phase' = [phase EXCEPT ![j] = "idle"]
    /\ subject' = [subject EXCEPT ![j] = None]
    /\ dying' = dying \ {j}
    /\ UNCHANGED <<bySubject, lends>>

\* JobRunner.release, and the end of the job's life.
Release(j) ==
    /\ jobs' = jobs \ {j}
    /\ bySubject' = IF bySubject[subject[j]] = j
                    THEN [bySubject EXCEPT ![subject[j]] = None]
                    ELSE bySubject
    /\ phase' = [phase EXCEPT ![j] = "idle"]
    /\ subject' = [subject EXCEPT ![j] = None]
    /\ dying' = dying \ {j}
    /\ UNCHANGED lends

\* The admitting request failed to write the queued state.
ReleaseUnstarted(j) ==
    /\ phase[j] = "reserved"
    /\ Release(j)
    /\ UNCHANGED <<slots, closing>>

Start(j) ==
    /\ phase[j] = "reserved"
    /\ phase' = [phase EXCEPT ![j] = "created"]
    /\ UNCHANGED <<subject, lends, dying, registry, slots, closing>>

-----------------------------------------------------------------------------
(* A job's task, while the process serves.                                 *)

\* `await slots.acquire()`: at once, or in line.
Acquire(j, waiting) ==
    IF Locked
    THEN /\ queue' = Append(queue, j)
         /\ phase' = [phase EXCEPT ![j] = waiting]
         /\ UNCHANGED <<free, granted, holdsSlot>>
    ELSE /\ free' = free - 1
         /\ holdsSlot' = [holdsSlot EXCEPT ![j] = TRUE]
         /\ phase' = [phase EXCEPT ![j] = "working"]
         /\ UNCHANGED <<queue, granted>>

Begin(j) ==
    /\ phase[j] = "created"
    /\ Acquire(j, "acquiring")
    /\ UNCHANGED <<subject, lends, dying, registry, closing>>

\* A granted waiter runs again: it has its slot, and passes on any other
\* free one.
Resume(j) ==
    /\ j \in granted
    /\ holdsSlot' = [holdsSlot EXCEPT ![j] = TRUE]
    /\ phase' = [phase EXCEPT ![j] = "working"]
    /\ WakeAll(free, granted \ {j})
    /\ UNCHANGED <<subject, lends, dying, registry, closing>>

\* outside_slot: entered by a job that holds a slot, a no-op otherwise.
Lend(j) ==
    /\ phase[j] = "working"
    /\ holdsSlot[j]
    /\ lends[j] < MaxLends
    /\ lends' = [lends EXCEPT ![j] = @ + 1]
    /\ holdsSlot' = [holdsSlot EXCEPT ![j] = FALSE]
    /\ phase' = [phase EXCEPT ![j] = "away"]
    /\ ReturnSlots(1)
    /\ UNCHANGED <<subject, dying, registry, closing>>

\* The provider answered, or refused, or the call failed.
Return(j) ==
    /\ phase[j] = "away"
    /\ Acquire(j, "returning")
    /\ UNCHANGED <<subject, lends, dying, registry, closing>>

\* A slip: the slot is given back without asking whether it is held.
GivesBackAlways(j) == 1

\* `if job.holds_slot`: how many slots the task's finally gives back.
GivesBack(j) == IF holdsSlot[j] THEN 1 ELSE 0

\* The end of work(job), returned, raised or cancelled while it holds its
\* slot.  No await separates the two releases.
EndWork(j) ==
    /\ phase[j] = "working"
    /\ holdsSlot' = [holdsSlot EXCEPT ![j] = FALSE]
    /\ ReturnSlots(GivesBack(j))
    /\ Release(j)
    /\ UNCHANGED closing

Serve(j) ==
    /\ ~closing
    /\ \/ Begin(j)
       \/ Resume(j)
       \/ Lend(j)
       \/ Return(j)
       \/ EndWork(j)

-----------------------------------------------------------------------------
(* Shutdown: every task is cancelled, and unwinds one step at a time.      *)

HasTask(j) == phase[j] \notin {"idle", "reserved"}

\* A slip: only the jobs that hold a slot are cancelled.
ShutdownHolders ==
    /\ ~closing
    /\ \A j \in Jobs : phase[j] # "reserved"
    /\ closing' = TRUE
    /\ dying' = Holders
    /\ UNCHANGED <<phase, subject, lends, registry, slots>>

\* task.cancel() on a waiting task cancels its future there and then, so the
\* semaphore no longer sees the waiters that were not granted.
Shutdown ==
    /\ ~closing
    /\ \A j \in Jobs : phase[j] # "reserved"
    /\ closing' = TRUE
    /\ dying' = {j \in Jobs : HasTask(j)}
    /\ queue' = <<>>
    /\ UNCHANGED <<phase, subject, lends, registry, holdsSlot, free, granted>>

\* A task cancelled before its first step never runs its body, so nothing
\* releases its job.
CancelUnstarted(j) ==
    /\ phase[j] = "created"
    /\ j \in dying
    /\ phase' = [phase EXCEPT ![j] = "lost"]
    /\ dying' = dying \ {j}
    /\ UNCHANGED <<subject, lends, registry, slots, closing>>

CancelWorking(j) ==
    /\ j \in dying
    /\ EndWork(j)

\* Cancelled outside its slot: outside_slot's finally takes a slot back
\* first, in line behind the others when there is none.  Taken at once, it
\* is given back in the same step.
CancelAway(j) ==
    /\ phase[j] = "away"
    /\ j \in dying
    /\ IF Locked
       THEN /\ queue' = Append(queue, j)
            /\ phase' = [phase EXCEPT ![j] = "returning"]
            /\ dying' = dying \ {j}
            /\ UNCHANGED <<subject, lends, registry, free, granted, holdsSlot>>
       ELSE Release(j) /\ UNCHANGED slots
    /\ UNCHANGED closing

\* Cancelled while waiting: a slot granted meanwhile goes back, the waiters
\* are offered what is free, and the job ends holding none.  Only a job that
\* had begun its work passes the finally that gives a held slot back.
CancelWaiting(j) ==
    /\ phase[j] \in Waiting
    /\ j \in dying
    /\ LET unused == IF j \in granted THEN 1 ELSE 0
           held == IF phase[j] = "returning" THEN GivesBack(j) ELSE 0
       IN  WakeAll(free + unused + held, granted \ {j})
    /\ Release(j)
    /\ UNCHANGED <<holdsSlot, closing>>

\* A cancelled job that had to queue for its slot gets it, and the
\* cancellation under way unwinds the rest in the same step.
ResumeDying(j) ==
    /\ closing
    /\ j \in granted
    /\ j \notin dying
    /\ WakeAll(free + 1, granted \ {j})
    /\ Release(j)
    /\ UNCHANGED <<holdsSlot, closing>>

Unwind(j) ==
    \/ CancelUnstarted(j)
    \/ CancelWorking(j)
    \/ CancelAway(j)
    \/ CancelWaiting(j)
    \/ ResumeDying(j)

\* The loop has nothing left to run: the process exits.
Stopped ==
    /\ closing
    /\ \A j \in Jobs : phase[j] \in {"idle", "lost"}
    /\ UNCHANGED vars

Next ==
    \/ \E j \in Jobs, s \in Subjects : Reserve(j, s)
    \/ \E j \in Jobs : ReleaseUnstarted(j) \/ Start(j) \/ Serve(j) \/ Unwind(j)
    \/ Shutdown
    \/ Stopped

Spec == Init /\ [][Next]_vars

\* The loop runs every task that can run, a request that reserved a job
\* starts or releases it, and work(job) ends: its calls have timeouts.
\* Nothing makes requests come, jobs call providers or the process stop.
Fairness ==
    \A j \in Jobs :
        /\ WF_vars(ReleaseUnstarted(j) \/ Start(j))
        /\ WF_vars(~closing /\ Begin(j))
        /\ WF_vars(~closing /\ Resume(j))
        /\ WF_vars(~closing /\ Return(j))
        /\ WF_vars(~closing /\ EndWork(j))
        /\ WF_vars(Unwind(j))

FairSpec == Spec /\ Fairness

-----------------------------------------------------------------------------
(* Properties.                                                             *)

\* Every variable keeps its type.
TypeOK ==
    /\ phase \in [Jobs -> Phases]
    /\ subject \in [Jobs -> Subjects \cup {None}]
    /\ jobs \subseteq Jobs
    /\ bySubject \in [Subjects -> Jobs \cup {None}]
    /\ holdsSlot \in [Jobs -> BOOLEAN]
    /\ lends \in [Jobs -> 0..MaxLends]
    /\ dying \subseteq Jobs
    /\ free \in Nat
    /\ queue \in Seq(Jobs)
    /\ granted \subseteq Jobs
    /\ closing \in BOOLEAN

\* No sequence of lends, grants, cancellations and releases mints a running
\* slot or loses one (jobs.py 221-225 and 255-261).
SlotConservation ==
    free + Cardinality(Holders) + Cardinality(granted) = MaxRunning

\* The two registries name the same jobs: `active_for` finds every job whose
\* task is alive, which is what recovery trusts, and no subject stays
\* refused by an entry whose job is gone.
RegistriesAgree ==
    /\ jobs = {j \in Jobs : phase[j] # "idle"}
    /\ \A j \in jobs : subject[j] \in Subjects /\ bySubject[subject[j]] = j
    /\ \A s \in Subjects : bySubject[s] # None => bySubject[s] \in jobs

\* No free slot sits beside a waiter that nothing is about to wake.
NoLostWakeup == queue # <<>> /\ free > 0 => granted # {}

\* While the process serves, an admitted job ends, whatever others are
\* admitted, lend their slots or take them back meanwhile; at shutdown it
\* ends or is dropped before it began.
EveryJobEnds == \A j \in Jobs : phase[j] = "reserved" ~> phase[j] \in {"idle", "lost"}

\* Shutdown's gather returns: no cancelled task waits for ever for the slot
\* it takes back while unwinding.
ShutdownEnds == closing ~> \A j \in Jobs : phase[j] \in {"idle", "lost"}

-----------------------------------------------------------------------------
(* Refinement.                                                             *)

workOf ==
    [s \in Subjects |->
        IF bySubject[s] = None THEN "none"
        ELSE IF holdsSlot[bySubject[s]] THEN "running"
        ELSE "admitted"]

Limits == INSTANCE WorkLimits WITH work <- workOf

\* To its callers the runner is WorkLimits: one job per subject, and the
\* organization's, the process's and the running bounds, at every step.
KeepsLimits == Limits!Spec
=============================================================================
