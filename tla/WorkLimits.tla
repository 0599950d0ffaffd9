----------------------------- MODULE WorkLimits -----------------------------
(***************************************************************************)
(* What the job runner promises to its callers, with no queue, semaphore   *)
(* or task in sight: a subject (a creation, an avatar) has at most one     *)
(* piece of work, an organization and the whole process have bounded       *)
(* amounts of it, and only so many pieces run at the same moment.          *)
(* JobRunner.tla implements this specification.                            *)
(***************************************************************************)
EXTENDS Integers, FiniteSets

CONSTANTS
    Subjects,     \* what jobs work on
    Orgs,         \* organizations
    OrgOf,        \* the organization a subject belongs to
    MaxActive,    \* pieces of work in the process
    MaxPerOrg,    \* pieces of work of one organization
    MaxRunning    \* pieces of work running at once

VARIABLE work     \* "none", "admitted" or "running", for each subject

Busy == {s \in Subjects : work[s] # "none"}
BusyOf(o) == {s \in Busy : OrgOf[s] = o}
Running == {s \in Subjects : work[s] = "running"}

Init == work = [s \in Subjects |-> "none"]

Admit(s) ==
    /\ work[s] = "none"
    /\ Cardinality(BusyOf(OrgOf[s])) < MaxPerOrg
    /\ Cardinality(Busy) < MaxActive
    /\ work' = [work EXCEPT ![s] = "admitted"]

Run(s) ==
    /\ work[s] = "admitted"
    /\ Cardinality(Running) < MaxRunning
    /\ work' = [work EXCEPT ![s] = "running"]

\* The work waits for a provider: it keeps its admission, not its slot.
StepAside(s) ==
    /\ work[s] = "running"
    /\ work' = [work EXCEPT ![s] = "admitted"]

End(s) ==
    /\ work[s] # "none"
    /\ work' = [work EXCEPT ![s] = "none"]

Next == \E s \in Subjects : Admit(s) \/ Run(s) \/ StepAside(s) \/ End(s)

Spec == Init /\ [][Next]_work
=============================================================================
