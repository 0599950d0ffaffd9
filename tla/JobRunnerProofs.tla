--------------------------- MODULE JobRunnerProofs ---------------------------
(***************************************************************************)
(* Theorems about JobRunner, for any numbers of jobs, subjects and         *)
(* organizations and any limits.                                           *)
(***************************************************************************)
EXTENDS JobRunner, FiniteSetTheorems, SequenceTheorems, TLAPS

-----------------------------------------------------------------------------
(* The inductive invariant.                                                *)

\* A slot is held exactly by the tasks inside work(job) and not lending it.
HoldersWork == \A j \in Jobs : holdsSlot[j] <=> phase[j] = "working"

\* The semaphore's waiters are tasks that wait, each of them once, either in
\* line or granted a slot.
WaitersWait ==
    /\ \A j \in granted : phase[j] \in Waiting
    /\ \A i \in 1..Len(queue) : phase[queue[i]] \in Waiting /\ queue[i] \notin granted
    /\ \A i, k \in 1..Len(queue) : queue[i] = queue[k] => i = k

\* Tasks are cancelled by a shutdown only, and leave the line at once.
DyingLeave ==
    /\ ~closing => dying = {}
    /\ \A i \in 1..Len(queue) : queue[i] \notin dying

\* An entry of _by_subject is its job's own subject.
SubjectsAgree ==
    \A s \in Subjects : bySubject[s] # None => subject[bySubject[s]] = s

Consistent ==
    /\ TypeOK
    /\ SlotConservation
    /\ RegistriesAgree
    /\ HoldersWork
    /\ WaitersWait
    /\ DyingLeave
    /\ SubjectsAgree

-----------------------------------------------------------------------------
(* Lemmas about the semaphore.                                             *)

\* The first n waiters, all different, are n jobs.
LEMMA FirstWaiters ==
    ASSUME NEW q \in Seq(Jobs), NEW n \in Nat, n <= Len(q),
           \A i, k \in 1..Len(q) : q[i] = q[k] => i = k
    PROVE  /\ IsFiniteSet({q[i] : i \in 1..n})
           /\ Cardinality({q[i] : i \in 1..n}) = n
<1> DEFINE S == {q[i] : i \in 1..n}
           f == [i \in 1..n |-> q[i]]
<1>1. 1..n \subseteq 1..Len(q)
  OBVIOUS
<1>2. f \in Bijection(1..n, S)
  <2>1. f \in Injection(1..n, S)
    BY <1>1 DEF Injection, IsInjective
  <2>2. f \in Surjection(1..n, S)
    BY <2>1 DEF Surjection, Injection
  <2> QED BY <2>1, <2>2 DEF Bijection
<1>3. ExistsBijection(1..n, S)
  BY <1>2 DEF ExistsBijection
<1>4. IsFiniteSet(1..n) /\ Cardinality(1..n) = n
  BY FS_Interval
<1> QED BY <1>3, <1>4, FS_Bijection

\* Waking waiters moves slots from the free ones to the granted, and leaves
\* the rest of the line as it was.
LEMMA WakeMovesSlots ==
    ASSUME queue \in Seq(Jobs), IsFiniteSet(Jobs),
           NEW n \in Nat, n <= Len(queue),
           NEW f \in Nat, n <= f,
           NEW g \in SUBSET Jobs,
           \A i, k \in 1..Len(queue) : queue[i] = queue[k] => i = k,
           \A i \in 1..Len(queue) : queue[i] \notin g,
           Wake(n, f, g)
    PROVE  /\ free' \in Nat
           /\ granted' \subseteq Jobs
           /\ free' + Cardinality(granted') = f + Cardinality(g)
           /\ queue' \in Seq(Jobs)
           /\ \A j \in granted' : j \in g \/ \E i \in 1..Len(queue) : j = queue[i]
           /\ \A i \in 1..Len(queue') :
                \E k \in 1..Len(queue) : k = i + n /\ queue'[i] = queue[k]
           /\ \A i \in 1..Len(queue') : queue'[i] \notin granted'
           /\ \A i, k \in 1..Len(queue') : queue'[i] = queue'[k] => i = k
<1> DEFINE S == {queue[i] : i \in 1..n}
<1>1. free' = f - n /\ granted' = g \cup S /\ queue' = SubSeq(queue, n + 1, Len(queue))
  BY DEF Wake
<1>2. IsFiniteSet(S) /\ Cardinality(S) = n
  BY FirstWaiters
<1>3. S \subseteq Jobs /\ g \cap S = {}
  OBVIOUS
<1>4. IsFiniteSet(g) /\ Cardinality(g) \in Nat
  BY FS_Subset, FS_CardinalityType
<1>5. Cardinality(granted') = Cardinality(g) + n
  <2>1. Cardinality(g \cup S) = Cardinality(g) + Cardinality(S) - Cardinality(g \cap S)
    BY <1>2, <1>4, FS_Union
  <2>2. Cardinality(g \cap S) = 0
    BY <1>3, FS_EmptySet
  <2> QED BY <1>1, <1>2, <1>4, <2>1, <2>2
<1>6. /\ queue' \in Seq(Jobs)
      /\ Len(queue') = Len(queue) - n
      /\ \A i \in 1..Len(queue') : queue'[i] = queue[i + n]
  BY <1>1
<1>7. \A i \in 1..Len(queue') :
        \E k \in 1..Len(queue) : k = i + n /\ queue'[i] = queue[k]
  BY <1>6
<1>8. \A i \in 1..Len(queue') : queue'[i] \notin granted'
  BY <1>1, <1>7
<1>9. \A i, k \in 1..Len(queue') : queue'[i] = queue'[k] => i = k
  BY <1>7
<1>10. \A j \in granted' : j \in g \/ \E i \in 1..Len(queue) : j = queue[i]
  BY <1>1
<1>11. free' \in Nat /\ free' + Cardinality(granted') = f + Cardinality(g)
  BY <1>1, <1>4, <1>5
<1>12. granted' \subseteq Jobs
  BY <1>1, <1>3
<1> QED BY <1>6, <1>7, <1>8, <1>9, <1>10, <1>11, <1>12

\* A sum of slots with one holder more, or one less.
LEMMA HoldersChange ==
    ASSUME holdsSlot \in [Jobs -> BOOLEAN], NEW j \in Jobs
    PROVE  /\ IsFiniteSet(Holders) /\ Cardinality(Holders) \in Nat
           /\ holdsSlot' = [holdsSlot EXCEPT ![j] = TRUE] /\ ~holdsSlot[j]
                => Cardinality(Holders') = Cardinality(Holders) + 1
           /\ holdsSlot' = [holdsSlot EXCEPT ![j] = FALSE] /\ holdsSlot[j]
                => Cardinality(Holders') = Cardinality(Holders) - 1
           /\ holdsSlot' = holdsSlot => Cardinality(Holders') = Cardinality(Holders)
<1>1. IsFiniteSet(Holders)
  BY FiniteAssumption, FS_Subset DEF Holders
<1>2. Cardinality(Holders) \in Nat
  BY <1>1, FS_CardinalityType
<1>3. ASSUME holdsSlot' = [holdsSlot EXCEPT ![j] = TRUE], ~holdsSlot[j]
      PROVE  Cardinality(Holders') = Cardinality(Holders) + 1
  <2>1. Holders' = Holders \cup {j} /\ j \notin Holders
    BY <1>3 DEF Holders
  <2> QED BY <1>1, <2>1, FS_AddElement
<1>4. ASSUME holdsSlot' = [holdsSlot EXCEPT ![j] = FALSE], holdsSlot[j]
      PROVE  Cardinality(Holders') = Cardinality(Holders) - 1
  <2>1. Holders' = Holders \ {j} /\ j \in Holders
    BY <1>4 DEF Holders
  <2> QED BY <1>1, <2>1, FS_RemoveElement
<1>5. holdsSlot' = holdsSlot => Holders' = Holders
  BY DEF Holders
<1> QED BY <1>1, <1>2, <1>3, <1>4, <1>5

\* The granted waiters are finitely many, and one less once one has resumed.
LEMMA GrantedChange ==
    ASSUME granted \subseteq Jobs, NEW j
    PROVE  /\ Cardinality(granted) \in Nat
           /\ Cardinality(granted \ {j})
                = IF j \in granted THEN Cardinality(granted) - 1 ELSE Cardinality(granted)
<1>1. IsFiniteSet(granted)
  BY FiniteAssumption, FS_Subset
<1> QED BY <1>1, FS_CardinalityType, FS_RemoveElement

-----------------------------------------------------------------------------
(* Lemmas about the registries.                                            *)

\* Ending a job takes its own two entries out, and nobody else's.
LEMMA ReleaseKeepsRegistries ==
    ASSUME Consistent, NEW j \in Jobs, phase[j] # "idle", Release(j)
    PROVE  /\ phase' \in [Jobs -> Phases]
           /\ subject' \in [Jobs -> Subjects \cup {None}]
           /\ jobs' \subseteq Jobs
           /\ bySubject' \in [Subjects -> Jobs \cup {None}]
           /\ lends' \in [Jobs -> 0..MaxLends]
           /\ dying' \subseteq Jobs
           /\ RegistriesAgree'
           /\ SubjectsAgree'
<1> USE DEF Consistent, TypeOK
<1>1. phase' \in [Jobs -> Phases] /\ subject' \in [Jobs -> Subjects \cup {None}]
  BY DEF Release, Phases
<1>2. jobs' \subseteq Jobs /\ lends' \in [Jobs -> 0..MaxLends] /\ dying' \subseteq Jobs
  BY DEF Release
<1>3. /\ subject[j] \in Subjects /\ bySubject[subject[j]] = j
      /\ bySubject' = [bySubject EXCEPT ![subject[j]] = None]
      /\ \A s \in Subjects : bySubject[s] = j => s = subject[j]
  BY NoneAssumption DEF Release, RegistriesAgree, SubjectsAgree
<1>4. bySubject' \in [Subjects -> Jobs \cup {None}]
  BY <1>3
<1>5. /\ \A k \in Jobs \ {j} : phase'[k] = phase[k] /\ subject'[k] = subject[k]
      /\ phase'[j] = "idle"
      /\ jobs' = jobs \ {j}
  BY DEF Release
<1>6. jobs' = {k \in Jobs : phase'[k] # "idle"}
  BY <1>5 DEF RegistriesAgree
<1>7. \A k \in jobs' : subject'[k] \in Subjects /\ bySubject'[subject'[k]] = k
  BY <1>3, <1>5 DEF RegistriesAgree
<1>8. \A s \in Subjects : bySubject'[s] # None
                          => bySubject'[s] \in jobs' /\ subject'[bySubject'[s]] = s
  BY <1>3, <1>5, <1>6 DEF RegistriesAgree, SubjectsAgree
<1>9. RegistriesAgree'
  BY <1>6, <1>7, <1>8 DEF RegistriesAgree
<1>10. SubjectsAgree'
  BY <1>8 DEF SubjectsAgree
<1> QED BY <1>1, <1>2, <1>4, <1>9, <1>10

\* A job that moves between two phases of its life keeps its entries.
LEMMA MovingKeepsRegistries ==
    ASSUME Consistent, NEW j \in Jobs, phase[j] # "idle",
           NEW p \in Phases, p # "idle", phase' = [phase EXCEPT ![j] = p],
           UNCHANGED <<subject, jobs, bySubject>>
    PROVE  /\ phase' \in [Jobs -> Phases]
           /\ subject' \in [Jobs -> Subjects \cup {None}]
           /\ jobs' \subseteq Jobs
           /\ bySubject' \in [Subjects -> Jobs \cup {None}]
           /\ RegistriesAgree'
           /\ SubjectsAgree'
BY DEF Consistent, TypeOK, RegistriesAgree, SubjectsAgree

-----------------------------------------------------------------------------
(* The actions.                                                            *)

\* A new runner is consistent.
LEMMA InitConsistent == Init => Consistent
<1> SUFFICES ASSUME Init PROVE Consistent
  OBVIOUS
<1> USE DEF Init
<1>1. TypeOK
  <2>1. phase \in [Jobs -> Phases] /\ subject \in [Jobs -> Subjects \cup {None}]
    BY DEF Phases
  <2>2. lends \in [Jobs -> 0..MaxLends] /\ holdsSlot \in [Jobs -> BOOLEAN]
    BY LimitAssumption
  <2>3. free \in Nat /\ closing \in BOOLEAN
    BY LimitAssumption
  <2>4. queue \in Seq(Jobs)
    BY EmptySeq
  <2>5. bySubject \in [Subjects -> Jobs \cup {None}]
    OBVIOUS
  <2>6. jobs \subseteq Jobs /\ dying \subseteq Jobs /\ granted \subseteq Jobs
    OBVIOUS
  <2> QED BY <2>1, <2>2, <2>3, <2>4, <2>5, <2>6 DEF TypeOK
<1>2. SlotConservation
  <2>1. Holders = {}
    BY DEF Holders
  <2>2. Cardinality(Holders) = 0 /\ Cardinality(granted) = 0
    BY <2>1, FS_EmptySet
  <2> QED BY <2>2, LimitAssumption DEF SlotConservation
<1>3. RegistriesAgree /\ SubjectsAgree
  BY DEF RegistriesAgree, SubjectsAgree
<1>4. HoldersWork /\ WaitersWait /\ DyingLeave
  BY DEF HoldersWork, WaitersWait, DyingLeave
<1> QED BY <1>1, <1>2, <1>3, <1>4 DEF Consistent

\* A new waiter that no one is unwinding goes to the end of the line.
LEMMA JoiningTheLine ==
    ASSUME Consistent, NEW j \in Jobs, phase[j] \in {"created", "away"},
           NEW w \in Waiting, phase' = [phase EXCEPT ![j] = w],
           queue' = Append(queue, j), dying' \subseteq dying, j \notin dying',
           UNCHANGED <<subject, lends, registry, holdsSlot, free, granted, closing>>
    PROVE  Consistent'
<1> USE DEF Consistent
<1>1. /\ phase' \in [Jobs -> Phases]
      /\ subject' \in [Jobs -> Subjects \cup {None}]
      /\ RegistriesAgree' /\ SubjectsAgree'
  BY MovingKeepsRegistries DEF registry, Waiting, Phases
<1>2. /\ queue' \in Seq(Jobs) /\ Len(queue') = Len(queue) + 1
      /\ \A i \in 1..Len(queue) : queue'[i] = queue[i]
      /\ queue'[Len(queue) + 1] = j
  BY DEF TypeOK
<1>3. TypeOK'
  BY <1>1, <1>2 DEF TypeOK, registry
<1>4. SlotConservation'
  <2>1. Holders' = Holders
    BY DEF Holders
  <2> QED BY <2>1 DEF SlotConservation
<1>5. HoldersWork'
  BY DEF HoldersWork, TypeOK, Waiting
<1>6. \A i \in 1..Len(queue) : queue[i] # j
  BY DEF WaitersWait, Waiting
<1>7. WaitersWait'
  <2>1. \A k \in granted' : phase'[k] \in Waiting
    BY DEF WaitersWait, TypeOK
  <2>2. \A i \in 1..Len(queue') : phase'[queue'[i]] \in Waiting /\ queue'[i] \notin granted'
    BY <1>2, <1>6 DEF WaitersWait, TypeOK, Waiting
  <2>3. \A i, k \in 1..Len(queue') : queue'[i] = queue'[k] => i = k
    BY <1>2, <1>6 DEF WaitersWait, TypeOK
  <2> QED BY <2>1, <2>2, <2>3 DEF WaitersWait
<1>8. DyingLeave'
  BY <1>2 DEF DyingLeave, TypeOK, Waiting
<1> QED BY <1>1, <1>3, <1>4, <1>5, <1>7, <1>8

\* A free slot goes to a job that asks for one: nobody waits.
LEMMA TakingASlot ==
    ASSUME Consistent, NEW j \in Jobs, phase[j] \in {"created", "away"}, ~Locked,
           free' = free - 1, holdsSlot' = [holdsSlot EXCEPT ![j] = TRUE],
           phase' = [phase EXCEPT ![j] = "working"],
           UNCHANGED <<subject, lends, dying, registry, queue, granted, closing>>
    PROVE  Consistent'
<1> USE DEF Consistent
<1>1. /\ phase' \in [Jobs -> Phases]
      /\ RegistriesAgree' /\ SubjectsAgree'
  BY MovingKeepsRegistries DEF registry, Phases
<1>2. TypeOK'
  BY <1>1 DEF TypeOK, registry, Locked
<1>3. SlotConservation'
  <2>1. holdsSlot \in [Jobs -> BOOLEAN] /\ ~holdsSlot[j] /\ free \in Nat
    BY DEF HoldersWork, TypeOK
  <2>2. Cardinality(Holders) \in Nat /\ Cardinality(Holders') = Cardinality(Holders) + 1
    BY <2>1, HoldersChange
  <2>3. Cardinality(granted) \in Nat
    BY GrantedChange DEF TypeOK
  <2> QED BY <2>1, <2>2, <2>3 DEF SlotConservation
<1>4. HoldersWork'
  BY DEF HoldersWork, TypeOK
<1>5. WaitersWait'
  BY DEF WaitersWait, TypeOK, Waiting
<1>6. DyingLeave'
  BY DEF DyingLeave, TypeOK
<1> QED BY <1>1, <1>2, <1>3, <1>4, <1>5, <1>6

\* Asking for a slot, in line or at once.
LEMMA AcquireKeeps ==
    ASSUME Consistent, NEW j \in Jobs, phase[j] \in {"created", "away"}, ~closing,
           NEW w \in Waiting, Acquire(j, w),
           UNCHANGED <<subject, lends, dying, registry, closing>>
    PROVE  Consistent'
<1>1. CASE Locked
  <2>1. dying' \subseteq dying /\ j \notin dying'
    BY DEF Consistent, DyingLeave
  <2>2. /\ phase' = [phase EXCEPT ![j] = w] /\ queue' = Append(queue, j)
        /\ UNCHANGED <<holdsSlot, free, granted>>
    BY <1>1 DEF Acquire
  <2> QED BY <2>1, <2>2, JoiningTheLine
<1>2. CASE ~Locked
  <2>1. /\ free' = free - 1 /\ holdsSlot' = [holdsSlot EXCEPT ![j] = TRUE]
        /\ phase' = [phase EXCEPT ![j] = "working"]
        /\ UNCHANGED <<queue, granted>>
    BY <1>2 DEF Acquire
  <2> QED BY <1>2, <2>1, TakingASlot
<1> QED BY <1>1, <1>2

\* A job ends, out of line, and n waiters get slots out of the f free then.
LEMMA EndingKeeps ==
    ASSUME Consistent, NEW j \in Jobs, phase[j] \in {"working", "away"} \cup Waiting,
           \A i \in 1..Len(queue) : queue[i] # j,
           NEW n \in Nat, n <= Len(queue), NEW f \in Nat, n <= f,
           f + Cardinality(granted \ {j}) = free + Cardinality(granted) + GivesBack(j),
           Wake(n, f, granted \ {j}), Release(j),
           holdsSlot' = [holdsSlot EXCEPT ![j] = FALSE], closing' = closing
    PROVE  Consistent'
<1> USE DEF Consistent
<1>1. phase[j] # "idle"
  BY DEF Waiting
<1>2. /\ phase' \in [Jobs -> Phases]
      /\ subject' \in [Jobs -> Subjects \cup {None}]
      /\ jobs' \subseteq Jobs
      /\ bySubject' \in [Subjects -> Jobs \cup {None}]
      /\ lends' \in [Jobs -> 0..MaxLends]
      /\ dying' \subseteq Jobs
      /\ RegistriesAgree' /\ SubjectsAgree'
  BY <1>1, ReleaseKeepsRegistries
<1>3. /\ phase' = [phase EXCEPT ![j] = "idle"] /\ dying' = dying \ {j}
      /\ \A k \in Jobs \ {j} : phase'[k] = phase[k]
  BY DEF Release, TypeOK
<1> DEFINE g == granted \ {j}
<1>4. /\ free' \in Nat
      /\ granted' \subseteq Jobs
      /\ free' + Cardinality(granted') = f + Cardinality(g)
      /\ queue' \in Seq(Jobs)
      /\ \A k \in granted' : k \in g \/ \E i \in 1..Len(queue) : k = queue[i]
      /\ \A i \in 1..Len(queue') :
           \E k \in 1..Len(queue) : k = i + n /\ queue'[i] = queue[k]
      /\ \A i \in 1..Len(queue') : queue'[i] \notin granted'
      /\ \A i, k \in 1..Len(queue') : queue'[i] = queue'[k] => i = k
  <2>1. queue \in Seq(Jobs) /\ IsFiniteSet(Jobs) /\ g \in SUBSET Jobs
    BY FiniteAssumption DEF TypeOK
  <2>2. \A i, k \in 1..Len(queue) : queue[i] = queue[k] => i = k
    BY DEF WaitersWait
  <2>3. \A i \in 1..Len(queue) : queue[i] \notin g
    BY DEF WaitersWait
  <2> HIDE DEF g
  <2> QED BY <2>1, <2>2, <2>3, WakeMovesSlots DEF g
<1>5. TypeOK'
  BY <1>2, <1>4 DEF TypeOK
<1>6. SlotConservation'
  <2>1. /\ Cardinality(Holders) \in Nat
        /\ GivesBack(j) \in Nat
        /\ Cardinality(Holders') = Cardinality(Holders) - GivesBack(j)
    <3>1. CASE holdsSlot[j]
      BY <3>1, HoldersChange DEF TypeOK, GivesBack
    <3>2. CASE ~holdsSlot[j]
      <4>1. holdsSlot' = holdsSlot
        BY <3>2 DEF TypeOK
      <4>2. Cardinality(Holders) \in Nat /\ Cardinality(Holders') = Cardinality(Holders)
        BY <4>1, HoldersChange DEF TypeOK
      <4>3. GivesBack(j) = 0
        BY <3>2 DEF GivesBack
      <4> QED BY <4>2, <4>3
    <3> QED BY <3>1, <3>2
  <2>2. Cardinality(granted) \in Nat /\ Cardinality(granted') \in Nat
    BY <1>4, FiniteAssumption, FS_Subset, FS_CardinalityType DEF TypeOK
  <2>4. free \in Nat
    BY DEF TypeOK
  <2>5. free + Cardinality(Holders) + Cardinality(granted) = MaxRunning
    BY DEF SlotConservation
  <2>6. free' + Cardinality(granted') = free + Cardinality(granted) + GivesBack(j)
    BY <1>4
  <2> QED BY <1>4, <2>1, <2>2, <2>4, <2>5, <2>6 DEF SlotConservation
<1>7. HoldersWork'
  BY <1>3 DEF HoldersWork, TypeOK
<1>8. WaitersWait'
  <2>1. \A k \in granted' : k # j /\ phase[k] \in Waiting
    BY <1>4 DEF WaitersWait
  <2>2. \A k \in granted' : phase'[k] \in Waiting
    BY <1>3, <1>4, <2>1
  <2>3. ASSUME NEW i \in 1..Len(queue')
        PROVE  queue'[i] \in Jobs \ {j} /\ phase[queue'[i]] \in Waiting
    <3>1. PICK k \in 1..Len(queue) : queue'[i] = queue[k]
      BY <1>4
    <3>2. queue[k] \in Jobs
      BY DEF TypeOK
    <3> QED BY <3>1, <3>2 DEF WaitersWait
  <2>4. \A i \in 1..Len(queue') : phase'[queue'[i]] \in Waiting
    BY <1>3, <2>3
  <2> QED BY <1>4, <2>2, <2>4 DEF WaitersWait
<1>9. DyingLeave'
  BY <1>3, <1>4 DEF DyingLeave, TypeOK
<1> QED BY <1>2, <1>5, <1>6, <1>7, <1>8, <1>9

\* The end of work(job), which gives the slot back.
LEMMA EndWorkKeeps ==
    ASSUME Consistent, NEW j \in Jobs, EndWork(j)
    PROVE  Consistent'
<1> USE DEF Consistent
<1>1. phase[j] = "working" /\ holdsSlot[j] /\ GivesBack(j) = 1
  BY DEF EndWork, GivesBack, HoldersWork
<1>2. j \notin granted /\ \A i \in 1..Len(queue) : queue[i] # j
  BY <1>1 DEF WaitersWait, Waiting
<1>3. /\ granted \ {j} = granted
      /\ Cardinality(granted) \in Nat
      /\ Cardinality(granted \ {j}) = Cardinality(granted)
  BY <1>2, GrantedChange DEF TypeOK
<1>4. free \in Nat /\ Len(queue) \in Nat
  BY DEF TypeOK
<1> DEFINE n == Fewer(1, Len(queue))
<1>5. n \in Nat /\ n <= Len(queue) /\ n <= free + 1 /\ free + 1 \in Nat
  BY <1>4 DEF Fewer
<1>6. /\ Wake(n, free + 1, granted \ {j})
      /\ Release(j) /\ closing' = closing
      /\ holdsSlot' = [holdsSlot EXCEPT ![j] = FALSE]
  BY <1>1, <1>3 DEF EndWork, ReturnSlots
<1>7. free + 1 + Cardinality(granted \ {j}) = free + Cardinality(granted) + GivesBack(j)
  BY <1>1, <1>3, <1>4
<1> HIDE DEF n
<1> QED BY <1>1, <1>2, <1>5, <1>6, <1>7, EndingKeeps

\* A cancelled waiter hands on the slot it may have been granted.
LEMMA CancelWaitingKeeps ==
    ASSUME Consistent, NEW j \in Jobs, CancelWaiting(j)
    PROVE  Consistent'
<1> USE DEF Consistent
<1>1. phase[j] \in Waiting /\ ~holdsSlot[j] /\ GivesBack(j) = 0
  BY DEF CancelWaiting, GivesBack, HoldersWork, Waiting
<1>2. \A i \in 1..Len(queue) : queue[i] # j
  BY DEF CancelWaiting, DyingLeave
<1> DEFINE unused == IF j \in granted THEN 1 ELSE 0
           f == free + unused
           n == Fewer(f, Len(queue))
<1>3. free \in Nat /\ Len(queue) \in Nat /\ unused \in Nat
  BY DEF TypeOK
<1>4. f \in Nat /\ n \in Nat /\ n <= Len(queue) /\ n <= f
  BY <1>3 DEF Fewer
<1>5. /\ Cardinality(granted) \in Nat
      /\ Cardinality(granted \ {j}) = Cardinality(granted) - unused
  <2>1. CASE j \in granted
    BY <2>1, GrantedChange DEF TypeOK
  <2>2. CASE j \notin granted
    BY <2>2, GrantedChange DEF TypeOK
  <2> QED BY <2>1, <2>2
<1>6. f + Cardinality(granted \ {j}) = free + Cardinality(granted) + GivesBack(j)
  <2> HIDE DEF unused
  <2> QED BY <1>1, <1>3, <1>5
<1>7. /\ Wake(n, f, granted \ {j})
      /\ Release(j) /\ closing' = closing
  <2>1. f + 0 = f
    BY <1>4
  <2>2. WakeAll(f, granted \ {j})
    BY <1>1, <2>1 DEF CancelWaiting
  <2> QED BY <2>2 DEF CancelWaiting, WakeAll
<1>8. holdsSlot' = [holdsSlot EXCEPT ![j] = FALSE]
  BY <1>1 DEF CancelWaiting, TypeOK
<1> HIDE DEF n, f
<1> QED BY <1>1, <1>2, <1>4, <1>6, <1>7, <1>8, EndingKeeps

\* A cancelled job granted a slot late gives it straight back.
LEMMA ResumeDyingKeeps ==
    ASSUME Consistent, NEW j \in Jobs, ResumeDying(j)
    PROVE  Consistent'
<1> USE DEF Consistent
<1>1. j \in granted /\ phase[j] \in Waiting /\ ~holdsSlot[j] /\ GivesBack(j) = 0
  BY DEF ResumeDying, GivesBack, WaitersWait, HoldersWork, Waiting
<1>2. \A i \in 1..Len(queue) : queue[i] # j
  BY <1>1 DEF WaitersWait
<1> DEFINE f == free + 1
           n == Fewer(f, Len(queue))
<1>3. free \in Nat /\ Len(queue) \in Nat
  BY DEF TypeOK
<1>4. f \in Nat /\ n \in Nat /\ n <= Len(queue) /\ n <= f
  BY <1>3 DEF Fewer
<1>5. /\ Cardinality(granted) \in Nat
      /\ Cardinality(granted \ {j}) = Cardinality(granted) - 1
  BY <1>1, GrantedChange DEF TypeOK
<1>6. f + Cardinality(granted \ {j}) = free + Cardinality(granted) + GivesBack(j)
  BY <1>1, <1>3, <1>5
<1>7. /\ Wake(n, f, granted \ {j})
      /\ Release(j) /\ closing' = closing
  BY DEF ResumeDying, WakeAll
<1>8. holdsSlot' = [holdsSlot EXCEPT ![j] = FALSE]
  BY <1>1 DEF ResumeDying, TypeOK
<1> HIDE DEF n, f
<1> QED BY <1>1, <1>2, <1>4, <1>6, <1>7, <1>8, EndingKeeps

\* A job cancelled outside its slot takes one back first, or queues for it.
LEMMA CancelAwayKeeps ==
    ASSUME Consistent, NEW j \in Jobs, CancelAway(j)
    PROVE  Consistent'
<1> USE DEF Consistent
<1>1. phase[j] = "away" /\ closing' = closing
  BY DEF CancelAway
<1>2. CASE Locked
  <2>1. "returning" \in Waiting
    BY DEF Waiting
  <2>2. /\ phase' = [phase EXCEPT ![j] = "returning"]
        /\ queue' = Append(queue, j)
        /\ dying' \subseteq dying /\ j \notin dying'
        /\ UNCHANGED <<subject, lends, registry, holdsSlot, free, granted, closing>>
    BY <1>2 DEF CancelAway
  <2> QED BY <1>1, <2>1, <2>2, JoiningTheLine
<1>3. CASE ~Locked
  <2>1. Release(j) /\ UNCHANGED slots
    BY <1>3 DEF CancelAway
  <2>2. /\ ~holdsSlot[j] /\ GivesBack(j) = 0 /\ j \notin granted
        /\ \A i \in 1..Len(queue) : queue[i] # j
    BY <1>1 DEF HoldersWork, WaitersWait, GivesBack, Waiting
  <2>3. /\ granted \ {j} = granted
        /\ Cardinality(granted) \in Nat
        /\ Cardinality(granted \ {j}) = Cardinality(granted)
    BY <2>2, GrantedChange DEF TypeOK
  <2>4. free \in Nat /\ Len(queue) \in Nat
    BY DEF TypeOK
  <2>5. Wake(0, free, granted \ {j})
    <3>1. {queue[i] : i \in 1..0} = {}
      OBVIOUS
    <3>2. SubSeq(queue, 0 + 1, Len(queue)) = queue
      BY SubSeqFull DEF TypeOK
    <3>3. granted = (granted \ {j}) \cup {queue[i] : i \in 1..0}
      BY <2>3, <3>1
    <3>4. free = free - 0
      BY <2>4
    <3> QED BY <2>1, <3>2, <3>3, <3>4 DEF Wake, slots
  <2>6. holdsSlot' = [holdsSlot EXCEPT ![j] = FALSE]
    BY <2>1, <2>2 DEF TypeOK, slots
  <2>7. free + Cardinality(granted \ {j}) = free + Cardinality(granted) + GivesBack(j)
    BY <2>2, <2>3, <2>4
  <2>8. 0 \in Nat /\ 0 <= Len(queue) /\ 0 <= free
    BY <2>4
  <2> QED BY <1>1, <2>1, <2>2, <2>4, <2>5, <2>6, <2>7, <2>8, EndingKeeps
<1> QED BY <1>2, <1>3

\* Admission enters a job in both registries.
LEMMA ReserveKeeps ==
    ASSUME Consistent, NEW j \in Jobs, NEW s \in Subjects, Reserve(j, s)
    PROVE  Consistent'
<1> USE DEF Consistent, Reserve
<1>1. /\ phase' \in [Jobs -> Phases] /\ subject' \in [Jobs -> Subjects \cup {None}]
      /\ jobs' \subseteq Jobs /\ bySubject' \in [Subjects -> Jobs \cup {None}]
  BY DEF TypeOK, Phases
<1>2. lends' \in [Jobs -> 0..MaxLends]
  BY LimitAssumption DEF TypeOK
<1>3. TypeOK'
  BY <1>1, <1>2 DEF TypeOK, slots
<1>4. SlotConservation'
  <2>1. Holders' = Holders
    BY DEF Holders, slots
  <2> QED BY <2>1 DEF SlotConservation, slots
<1>5. /\ phase'[j] = "reserved" /\ subject'[j] = s /\ bySubject'[s] = j
      /\ \A k \in Jobs \ {j} : phase'[k] = phase[k] /\ subject'[k] = subject[k]
      /\ \A t \in Subjects \ {s} : bySubject'[t] = bySubject[t]
  BY DEF TypeOK
<1>6. jobs' = {k \in Jobs : phase'[k] # "idle"}
  BY <1>5 DEF RegistriesAgree
<1>7. \A k \in jobs' : subject'[k] \in Subjects /\ bySubject'[subject'[k]] = k
  BY <1>5, NoneAssumption DEF RegistriesAgree, TypeOK
<1>8. \A t \in Subjects : bySubject'[t] # None
                          => bySubject'[t] \in jobs' /\ subject'[bySubject'[t]] = t
  BY <1>5, NoneAssumption DEF RegistriesAgree, SubjectsAgree, TypeOK
<1>9. RegistriesAgree' /\ SubjectsAgree'
  BY <1>6, <1>7, <1>8 DEF RegistriesAgree, SubjectsAgree
<1>10. HoldersWork'
  BY <1>5 DEF HoldersWork, TypeOK, slots
<1>11. WaitersWait'
  BY <1>5 DEF WaitersWait, TypeOK, slots, Waiting
<1>12. DyingLeave'
  BY <1>5 DEF DyingLeave, TypeOK, slots
<1> QED BY <1>3, <1>4, <1>9, <1>10, <1>11, <1>12

\* An admission taken back leaves no trace.
LEMMA ReleaseUnstartedKeeps ==
    ASSUME Consistent, NEW j \in Jobs, ReleaseUnstarted(j)
    PROVE  Consistent'
<1> USE DEF Consistent
<1>1. phase[j] = "reserved" /\ Release(j) /\ UNCHANGED <<slots, closing>>
  BY DEF ReleaseUnstarted
<1>2. /\ phase' \in [Jobs -> Phases]
      /\ subject' \in [Jobs -> Subjects \cup {None}]
      /\ jobs' \subseteq Jobs
      /\ bySubject' \in [Subjects -> Jobs \cup {None}]
      /\ lends' \in [Jobs -> 0..MaxLends]
      /\ dying' \subseteq Jobs
      /\ RegistriesAgree' /\ SubjectsAgree'
  BY <1>1, ReleaseKeepsRegistries
<1>3. /\ phase'[j] = "idle" /\ dying' = dying \ {j}
      /\ \A k \in Jobs \ {j} : phase'[k] = phase[k]
  BY <1>1 DEF Release, TypeOK
<1>4. TypeOK'
  BY <1>1, <1>2 DEF TypeOK, slots
<1>5. SlotConservation'
  <2>1. Holders' = Holders
    BY <1>1 DEF Holders, slots
  <2> QED BY <1>1, <2>1 DEF SlotConservation, slots
<1>6. HoldersWork'
  BY <1>1, <1>3 DEF HoldersWork, slots
<1>7. WaitersWait'
  <2>1. queue' = queue /\ granted' = granted /\ \A i \in 1..Len(queue) : queue[i] \in Jobs
    BY <1>1 DEF TypeOK, slots
  <2>2. \A k \in Jobs : phase[k] \in Waiting => phase'[k] \in Waiting
    BY <1>1, <1>3 DEF Waiting
  <2> QED BY <2>1, <2>2 DEF WaitersWait, TypeOK
<1>8. DyingLeave'
  BY <1>1, <1>3 DEF DyingLeave, TypeOK, slots
<1> QED BY <1>2, <1>4, <1>5, <1>6, <1>7, <1>8

\* A job moves between two phases in which it neither holds a slot nor waits
\* for one.
LEMMA MovingKeeps ==
    ASSUME Consistent, NEW j \in Jobs, phase[j] \in {"reserved", "created"},
           NEW p \in {"created", "lost"}, phase' = [phase EXCEPT ![j] = p],
           dying' \subseteq dying,
           UNCHANGED <<subject, lends, registry, slots, closing>>
    PROVE  Consistent'
<1> USE DEF Consistent
<1>1. /\ phase' \in [Jobs -> Phases]
      /\ RegistriesAgree' /\ SubjectsAgree'
  BY MovingKeepsRegistries DEF registry, Phases
<1>2. TypeOK'
  BY <1>1 DEF TypeOK, registry, slots
<1>3. SlotConservation'
  <2>1. Holders' = Holders
    BY DEF Holders, slots
  <2> QED BY <2>1 DEF SlotConservation, slots
<1>4. HoldersWork'
  BY DEF HoldersWork, TypeOK, slots
<1>5. WaitersWait'
  BY DEF WaitersWait, TypeOK, slots, Waiting
<1>6. DyingLeave'
  BY DEF DyingLeave, TypeOK, slots
<1> QED BY <1>1, <1>2, <1>3, <1>4, <1>5, <1>6

\* Cancelling every task empties the line and moves no slot.
LEMMA ShutdownKeeps ==
    ASSUME Consistent, Shutdown
    PROVE  Consistent'
<1> USE DEF Consistent, Shutdown
<1>1. queue' = <<>> /\ Len(queue') = 0 /\ queue' \in Seq(Jobs)
  BY EmptySeq
<1>2. TypeOK'
  BY <1>1 DEF TypeOK, registry
<1>3. SlotConservation'
  <2>1. Holders' = Holders
    BY DEF Holders
  <2> QED BY <2>1 DEF SlotConservation
<1>4. RegistriesAgree' /\ SubjectsAgree'
  BY DEF RegistriesAgree, SubjectsAgree, registry
<1>5. HoldersWork'
  BY DEF HoldersWork
<1>6. WaitersWait'
  BY <1>1 DEF WaitersWait
<1>7. DyingLeave'
  BY <1>1 DEF DyingLeave
<1> QED BY <1>2, <1>3, <1>4, <1>5, <1>6, <1>7

\* A task goes on with n waiters granted slots out of f: Resume takes the
\* slot it was granted, Lend gives its own back.
LEMMA PassingSlotsKeeps ==
    ASSUME Consistent, NEW j \in Jobs, NEW p \in {"working", "away"},
           phase[j] \in {"working"} \cup Waiting,
           \A i \in 1..Len(queue) : queue[i] # j,
           NEW n \in Nat, n <= Len(queue), NEW f \in Nat, n <= f,
           Wake(n, f, granted \ {j}),
           phase' = [phase EXCEPT ![j] = p],
           holdsSlot' = [holdsSlot EXCEPT ![j] = (p = "working")],
           f + Cardinality(granted \ {j}) + Cardinality(Holders') = MaxRunning,
           lends' \in [Jobs -> 0..MaxLends],
           UNCHANGED <<subject, dying, registry, closing>>
    PROVE  Consistent'
<1> USE DEF Consistent
<1>1. /\ phase' \in [Jobs -> Phases]
      /\ RegistriesAgree' /\ SubjectsAgree'
  BY MovingKeepsRegistries DEF registry, Phases, Waiting
<1>2. \A k \in Jobs \ {j} : phase'[k] = phase[k]
  BY DEF TypeOK
<1> DEFINE g == granted \ {j}
<1>3. /\ free' \in Nat
      /\ granted' \subseteq Jobs
      /\ free' + Cardinality(granted') = f + Cardinality(g)
      /\ queue' \in Seq(Jobs)
      /\ \A k \in granted' : k \in g \/ \E i \in 1..Len(queue) : k = queue[i]
      /\ \A i \in 1..Len(queue') :
           \E k \in 1..Len(queue) : k = i + n /\ queue'[i] = queue[k]
      /\ \A i \in 1..Len(queue') : queue'[i] \notin granted'
      /\ \A i, k \in 1..Len(queue') : queue'[i] = queue'[k] => i = k
  <2>1. queue \in Seq(Jobs) /\ IsFiniteSet(Jobs) /\ g \in SUBSET Jobs
    BY FiniteAssumption DEF TypeOK
  <2>2. \A i, k \in 1..Len(queue) : queue[i] = queue[k] => i = k
    BY DEF WaitersWait
  <2>3. \A i \in 1..Len(queue) : queue[i] \notin g
    BY DEF WaitersWait
  <2> HIDE DEF g
  <2> QED BY <2>1, <2>2, <2>3, WakeMovesSlots DEF g
<1>4. TypeOK'
  <2>1. holdsSlot' \in [Jobs -> BOOLEAN]
    BY DEF TypeOK
  <2> QED BY <1>1, <1>3, <2>1 DEF TypeOK, registry
<1>5. SlotConservation'
  <2>1. Cardinality(granted') \in Nat /\ Cardinality(g) \in Nat
    BY <1>3, FiniteAssumption, FS_Subset, FS_CardinalityType DEF TypeOK
  <2>2. IsFiniteSet(Holders') /\ Cardinality(Holders') \in Nat
    <3>1. Holders' \in SUBSET Jobs
      BY DEF Holders
    <3> QED BY <3>1, FiniteAssumption, FS_Subset, FS_CardinalityType
  <2> QED BY <1>3, <2>1, <2>2 DEF SlotConservation
<1>6. HoldersWork'
  BY <1>2 DEF HoldersWork, TypeOK
<1>7. WaitersWait'
  <2>1. \A k \in granted' : k \in Jobs \ {j} /\ phase[k] \in Waiting
    BY <1>3 DEF WaitersWait
  <2>2. \A k \in granted' : phase'[k] \in Waiting
    BY <1>2, <2>1
  <2>3. ASSUME NEW i \in 1..Len(queue')
        PROVE  phase'[queue'[i]] \in Waiting
    <3>1. PICK k \in 1..Len(queue) : queue'[i] = queue[k]
      BY <1>3
    <3>2. queue[k] \in Jobs \ {j} /\ phase[queue[k]] \in Waiting
      BY DEF TypeOK, WaitersWait
    <3> QED BY <1>2, <3>1, <3>2
  <2> QED BY <1>3, <2>2, <2>3 DEF WaitersWait
<1>8. DyingLeave'
  BY <1>3 DEF DyingLeave
<1> QED BY <1>1, <1>4, <1>5, <1>6, <1>7, <1>8

\* A granted waiter turns its grant into a held slot.
LEMMA ResumeKeeps ==
    ASSUME Consistent, NEW j \in Jobs, Resume(j)
    PROVE  Consistent'
<1> USE DEF Consistent
<1>1. j \in granted /\ phase[j] \in Waiting /\ ~holdsSlot[j]
  BY DEF Resume, WaitersWait, HoldersWork, Waiting
<1>2. \A i \in 1..Len(queue) : queue[i] # j
  BY <1>1 DEF WaitersWait
<1> DEFINE n == Fewer(free, Len(queue))
<1>3. free \in Nat /\ n \in Nat /\ n <= Len(queue) /\ n <= free
  BY DEF TypeOK, Fewer
<1>4. free + Cardinality(granted \ {j}) + Cardinality(Holders') = MaxRunning
  <2>1. /\ Cardinality(granted) \in Nat
        /\ Cardinality(granted \ {j}) = Cardinality(granted) - 1
    BY <1>1, GrantedChange DEF TypeOK
  <2>2. Cardinality(Holders) \in Nat /\ Cardinality(Holders') = Cardinality(Holders) + 1
    BY <1>1, HoldersChange DEF Resume, TypeOK
  <2> QED BY <1>3, <2>1, <2>2 DEF SlotConservation
<1>5. /\ Wake(n, free, granted \ {j})
      /\ phase' = [phase EXCEPT ![j] = "working"]
      /\ holdsSlot' = [holdsSlot EXCEPT ![j] = ("working" = "working")]
      /\ lends' \in [Jobs -> 0..MaxLends]
      /\ UNCHANGED <<subject, dying, registry, closing>>
  BY DEF Resume, WakeAll, TypeOK
<1> HIDE DEF n
<1> QED BY <1>1, <1>2, <1>3, <1>4, <1>5, PassingSlotsKeeps

\* A lent slot is free or granted to the first in line.
LEMMA LendKeeps ==
    ASSUME Consistent, NEW j \in Jobs, Lend(j)
    PROVE  Consistent'
<1> USE DEF Consistent
<1>1. phase[j] = "working" /\ holdsSlot[j]
  BY DEF Lend
<1>2. j \notin granted /\ \A i \in 1..Len(queue) : queue[i] # j
  BY <1>1 DEF WaitersWait, Waiting
<1> DEFINE f == free + 1
           n == Fewer(1, Len(queue))
<1>3. free \in Nat /\ f \in Nat /\ n \in Nat /\ n <= Len(queue) /\ n <= f
  BY DEF TypeOK, Fewer
<1>4. granted \ {j} = granted /\ Cardinality(granted \ {j}) = Cardinality(granted)
  BY <1>2, GrantedChange DEF TypeOK
<1>5. f + Cardinality(granted \ {j}) + Cardinality(Holders') = MaxRunning
  <2>1. Cardinality(granted) \in Nat
    BY GrantedChange DEF TypeOK
  <2>2. Cardinality(Holders) \in Nat /\ Cardinality(Holders') = Cardinality(Holders) - 1
    BY <1>1, HoldersChange DEF Lend, TypeOK
  <2> QED BY <1>3, <1>4, <2>1, <2>2 DEF SlotConservation
<1>6. /\ Wake(n, f, granted \ {j})
      /\ phase' = [phase EXCEPT ![j] = "away"]
      /\ holdsSlot' = [holdsSlot EXCEPT ![j] = ("away" = "working")]
      /\ UNCHANGED <<subject, dying, registry, closing>>
  BY <1>4 DEF Lend, ReturnSlots
<1>7. lends' \in [Jobs -> 0..MaxLends]
  <2>1. lends[j] + 1 \in 0..MaxLends
    BY LimitAssumption DEF Lend, TypeOK
  <2> QED BY <2>1 DEF Lend, TypeOK
<1> HIDE DEF n, f
<1> QED BY <1>1, <1>2, <1>3, <1>5, <1>6, <1>7, PassingSlotsKeeps

\* Every step keeps the runner consistent.
LEMMA StepConsistent == Consistent /\ [Next]_vars => Consistent'
<1> SUFFICES ASSUME Consistent, [Next]_vars PROVE Consistent'
  OBVIOUS
<1>1. CASE UNCHANGED vars
  BY <1>1 DEF vars, taskVars, registry, slots, Consistent, TypeOK, SlotConservation,
              Holders, RegistriesAgree, HoldersWork, WaitersWait, DyingLeave, SubjectsAgree
<1>2. ASSUME NEW j \in Jobs, NEW s \in Subjects, Reserve(j, s) PROVE Consistent'
  BY <1>2, ReserveKeeps
<1>3. ASSUME NEW j \in Jobs, ReleaseUnstarted(j) PROVE Consistent'
  BY <1>3, ReleaseUnstartedKeeps
<1>4. ASSUME NEW j \in Jobs, Start(j) PROVE Consistent'
  <2>1. /\ phase[j] = "reserved" /\ phase' = [phase EXCEPT ![j] = "created"]
        /\ dying' \subseteq dying
        /\ UNCHANGED <<subject, lends, registry, slots, closing>>
    BY <1>4 DEF Start
  <2> QED BY <2>1, MovingKeeps
<1>5. ASSUME NEW j \in Jobs, Serve(j) PROVE Consistent'
  <2>1. ~closing
    BY <1>5 DEF Serve
  <2>2. CASE Begin(j)
    <3>1. /\ phase[j] = "created" /\ Acquire(j, "acquiring") /\ "acquiring" \in Waiting
          /\ UNCHANGED <<subject, lends, dying, registry, closing>>
      BY <2>2 DEF Begin, Waiting
    <3> QED BY <2>1, <3>1, AcquireKeeps
  <2>3. CASE Resume(j)
    BY <2>3, ResumeKeeps
  <2>4. CASE Lend(j)
    BY <2>4, LendKeeps
  <2>5. CASE Return(j)
    <3>1. /\ phase[j] = "away" /\ Acquire(j, "returning") /\ "returning" \in Waiting
          /\ UNCHANGED <<subject, lends, dying, registry, closing>>
      BY <2>5 DEF Return, Waiting
    <3> QED BY <2>1, <3>1, AcquireKeeps
  <2>6. CASE EndWork(j)
    BY <2>6, EndWorkKeeps
  <2> QED BY <1>5, <2>2, <2>3, <2>4, <2>5, <2>6 DEF Serve
<1>6. ASSUME NEW j \in Jobs, Unwind(j) PROVE Consistent'
  <2>1. CASE CancelUnstarted(j)
    <3>1. /\ phase[j] = "created" /\ phase' = [phase EXCEPT ![j] = "lost"]
          /\ dying' \subseteq dying
          /\ UNCHANGED <<subject, lends, registry, slots, closing>>
      BY <2>1 DEF CancelUnstarted
    <3> QED BY <3>1, MovingKeeps
  <2>2. CASE CancelWorking(j)
    BY <2>2, EndWorkKeeps DEF CancelWorking
  <2>3. CASE CancelAway(j)
    BY <2>3, CancelAwayKeeps
  <2>4. CASE CancelWaiting(j)
    BY <2>4, CancelWaitingKeeps
  <2>5. CASE ResumeDying(j)
    BY <2>5, ResumeDyingKeeps
  <2> QED BY <1>6, <2>1, <2>2, <2>3, <2>4, <2>5 DEF Unwind
<1>7. CASE Shutdown
  BY <1>7, ShutdownKeeps
<1>8. CASE Stopped
  BY <1>1, <1>8 DEF Stopped
<1> QED BY <1>1, <1>2, <1>3, <1>4, <1>5, <1>6, <1>7, <1>8 DEF Next

-----------------------------------------------------------------------------
(* What always holds.                                                      *)

\* Every reachable state of the runner satisfies the inductive invariant.
THEOREM AlwaysConsistent == Spec => []Consistent
BY InitConsistent, StepConsistent, PTL DEF Spec

\* The runner's variables keep their types, whatever is admitted, lent,
\* cancelled or released (jobs.py 153-291).
THEOREM TypeCorrectness == Spec => []TypeOK
<1>1. Consistent => TypeOK
  BY DEF Consistent
<1> QED BY <1>1, AlwaysConsistent, PTL

\* No sequence of lends, grants, cancellations and ends mints a running slot
\* or loses one, for any number of jobs and slots (jobs.py 221-225, 255-261).
THEOREM SlotsAreConserved == Spec => []SlotConservation
<1>1. Consistent => SlotConservation
  BY DEF Consistent
<1> QED BY <1>1, AlwaysConsistent, PTL

\* The set of jobs and the index by subject never disagree, so recovery can
\* trust `active_for` and no subject stays blocked by a job that is gone
\* (jobs.py 190-203, 274-275).
THEOREM RegistriesAlwaysAgree == Spec => []RegistriesAgree
<1>1. Consistent => RegistriesAgree
  BY DEF Consistent
<1> QED BY <1>1, AlwaysConsistent, PTL

-----------------------------------------------------------------------------
(* The runner implements WorkLimits.                                       *)

\* Different jobs have different subjects.
LEMMA OneSubjectEach ==
    ASSUME Consistent, NEW T \in SUBSET jobs
    PROVE  Cardinality({subject[j] : j \in T}) = Cardinality(T)
<1> USE DEF Consistent
<1> DEFINE S == {subject[j] : j \in T}
           f == [j \in T |-> subject[j]]
<1>1. T \subseteq Jobs /\ IsFiniteSet(T)
  BY FiniteAssumption, FS_Subset DEF TypeOK
<1>2. \A j, k \in T : subject[j] = subject[k] => j = k
  BY DEF RegistriesAgree
<1>3. f \in Bijection(T, S)
  <2>1. f \in Injection(T, S)
    BY <1>2 DEF Injection, IsInjective
  <2>2. f \in Surjection(T, S)
    BY <2>1 DEF Surjection, Injection
  <2> QED BY <2>1, <2>2 DEF Bijection
<1>4. ExistsBijection(T, S)
  BY <1>3 DEF ExistsBijection
<1> QED BY <1>1, <1>4, FS_Bijection

\* A subject is busy exactly while a job is registered for it, and runs
\* exactly while that job holds a slot.
LEMMA WorkOfRegistries ==
    ASSUME Consistent
    PROVE  /\ Limits!Busy = {subject[j] : j \in jobs}
           /\ \A o : Limits!BusyOf(o) = {subject[j] : j \in JobsOf(o)}
           /\ Limits!Running = {subject[j] : j \in Holders}
           /\ Holders \subseteq jobs
<1> USE DEF Consistent
<1>1. \A s \in Subjects : workOf[s] # "none" <=> bySubject[s] # None
  BY DEF workOf
<1>2. \A s \in Subjects : bySubject[s] # None <=> \E j \in jobs : subject[j] = s
  BY NoneAssumption DEF RegistriesAgree, SubjectsAgree, TypeOK
<1>3. Limits!Busy = {subject[j] : j \in jobs}
  BY <1>1, <1>2 DEF Limits!Busy, RegistriesAgree
<1>4. \A o : Limits!BusyOf(o) = {subject[j] : j \in JobsOf(o)}
  BY <1>3 DEF Limits!BusyOf, JobsOf
<1>5. Holders \subseteq jobs
  BY DEF Holders, HoldersWork, RegistriesAgree
<1>6. ASSUME NEW s \in Subjects
      PROVE  workOf[s] = "running" <=> \E j \in Holders : subject[j] = s
  <2>1. workOf[s] = "running" <=> bySubject[s] # None /\ holdsSlot[bySubject[s]]
    BY DEF workOf
  <2>2. ASSUME bySubject[s] # None, holdsSlot[bySubject[s]]
        PROVE  \E j \in Holders : subject[j] = s
    <3>1. bySubject[s] \in Holders
      BY <2>2 DEF TypeOK, Holders
    <3>2. subject[bySubject[s]] = s
      BY <2>2 DEF SubjectsAgree
    <3> QED BY <3>1, <3>2
  <2>3. ASSUME NEW j \in Holders, subject[j] = s
        PROVE  bySubject[s] # None /\ holdsSlot[bySubject[s]]
    <3>1. bySubject[s] = j
      BY <1>5, <2>3 DEF RegistriesAgree
    <3> QED BY <3>1, NoneAssumption DEF Holders
  <2> QED BY <2>1, <2>2, <2>3
<1>7. Limits!Running = {subject[j] : j \in Holders}
  <2>1. \A j \in Holders : subject[j] \in Subjects
    BY <1>5 DEF RegistriesAgree
  <2> QED BY <1>6, <2>1 DEF Limits!Running
<1> QED BY <1>3, <1>4, <1>5, <1>7

\* WorkLimits counts as JobRunner does.
LEMMA SameCardinality == \A S : Limits!Cardinality(S) = Cardinality(S)
BY DEF Limits!Cardinality, Cardinality

\* What WorkLimits counts by subject the runner counts by job.
LEMMA WorkCounts ==
    ASSUME Consistent
    PROVE  /\ Cardinality(Limits!Busy) = Cardinality(jobs)
           /\ \A o : Cardinality(Limits!BusyOf(o)) = Cardinality(JobsOf(o))
           /\ Cardinality(Limits!Running) = Cardinality(Holders)
<1>1. Cardinality(Limits!Busy) = Cardinality(jobs)
  BY WorkOfRegistries, OneSubjectEach
<1>2. ASSUME NEW o
      PROVE  Cardinality(Limits!BusyOf(o)) = Cardinality(JobsOf(o))
  <2>1. JobsOf(o) \in SUBSET jobs
    BY DEF JobsOf
  <2> QED BY <2>1, WorkOfRegistries, OneSubjectEach
<1>3. Cardinality(Limits!Running) = Cardinality(Holders)
  BY WorkOfRegistries, OneSubjectEach
<1> QED BY <1>1, <1>2, <1>3

\* A registered job's subject, in the abstract state and after each kind of
\* step.
LEMMA WorkOfJob ==
    ASSUME Consistent, NEW j \in Jobs, phase[j] # "idle"
    PROVE  /\ subject[j] \in Subjects
           /\ workOf[subject[j]] = IF holdsSlot[j] THEN "running" ELSE "admitted"
           /\ \A s \in Subjects : bySubject[s] = j <=> s = subject[j]
<1> USE DEF Consistent
<1>1. subject[j] \in Subjects /\ bySubject[subject[j]] = j
  BY DEF RegistriesAgree
<1>2. \A s \in Subjects : bySubject[s] = j <=> s = subject[j]
  BY <1>1, NoneAssumption DEF SubjectsAgree
<1> QED BY <1>1, <1>2, NoneAssumption DEF workOf

\* Ending a job that holds no slot afterwards ends its subject's work.
LEMMA ReleaseEndsWork ==
    ASSUME Consistent, NEW j \in Jobs, phase[j] # "idle", Release(j),
           holdsSlot' = [holdsSlot EXCEPT ![j] = FALSE] \/ holdsSlot' = holdsSlot
    PROVE  Limits!Next
<1> USE DEF Consistent
<1>1. subject[j] \in Subjects /\ workOf[subject[j]] # "none"
  BY WorkOfJob
<1>2. bySubject' = [bySubject EXCEPT ![subject[j]] = None]
  BY WorkOfJob DEF Release
<1>3. \A s \in Subjects \ {subject[j]} :
        /\ bySubject'[s] = bySubject[s]
        /\ bySubject[s] # None => holdsSlot'[bySubject[s]] = holdsSlot[bySubject[s]]
  BY <1>2, WorkOfJob DEF TypeOK
<1>4. workOf' = [workOf EXCEPT ![subject[j]] = "none"]
  BY <1>1, <1>2, <1>3 DEF workOf, TypeOK
<1>5. Limits!End(subject[j])
  BY <1>1, <1>4 DEF Limits!End
<1> QED BY <1>1, <1>5 DEF Limits!Next

\* Taking a slot, which the conservation of slots says there is, runs the
\* subject's work.
LEMMA TakingRuns ==
    ASSUME Consistent, NEW j \in Jobs, phase[j] \in {"created", "away"} \cup Waiting,
           free > 0 \/ granted # {},
           holdsSlot' = [holdsSlot EXCEPT ![j] = TRUE], bySubject' = bySubject
    PROVE  Limits!Next
<1> USE DEF Consistent
<1>1. ~holdsSlot[j] /\ phase[j] # "idle"
  BY DEF HoldersWork, Waiting
<1>2. subject[j] \in Subjects /\ workOf[subject[j]] = "admitted"
  BY <1>1, WorkOfJob
<1>3. ASSUME NEW s \in Subjects \ {subject[j]}, bySubject[s] # None
      PROVE  holdsSlot'[bySubject[s]] = holdsSlot[bySubject[s]]
  <2>1. bySubject[s] \in Jobs \ {j}
    BY <1>1, <1>3, WorkOfJob DEF TypeOK
  <2> QED BY <1>1, <2>1 DEF TypeOK
<1>4. bySubject[subject[j]] = j /\ j # None
  BY <1>1, <1>2, WorkOfJob, NoneAssumption
<1>5. workOf' = [workOf EXCEPT ![subject[j]] = "running"]
  BY <1>2, <1>3, <1>4 DEF workOf, TypeOK
<1>6. Cardinality(Holders) < MaxRunning
  <2>1. Cardinality(Holders) \in Nat
    BY HoldersChange DEF TypeOK
  <2>2. IsFiniteSet(granted) /\ Cardinality(granted) \in Nat
    BY FiniteAssumption, FS_Subset, FS_CardinalityType DEF TypeOK
  <2>3. granted # {} => Cardinality(granted) > 0
    BY <2>2, FS_EmptySet
  <2>4. free \in Nat
    BY DEF TypeOK
  <2> QED BY <2>1, <2>2, <2>3, <2>4, LimitAssumption DEF SlotConservation
<1>7. Limits!Run(subject[j])
  BY <1>2, <1>5, <1>6, WorkCounts, SameCardinality DEF Limits!Run
<1> QED BY <1>2, <1>7 DEF Limits!Next

\* Nothing the abstract specification sees.
LEMMA SameWork ==
    ASSUME UNCHANGED <<bySubject, holdsSlot>>
    PROVE  workOf' = workOf
BY DEF workOf

\* Asking for a slot runs the work or changes nothing abstract.
LEMMA AcquireRefines ==
    ASSUME Consistent, NEW j \in Jobs, phase[j] \in {"created", "away"},
           NEW w \in Waiting, Acquire(j, w), UNCHANGED registry
    PROVE  [Limits!Next]_workOf
<1>1. CASE Locked
  BY <1>1, SameWork DEF Acquire, registry
<1>2. CASE ~Locked
  <2>1. free > 0
    BY <1>2 DEF Locked, Consistent, TypeOK
  <2>2. holdsSlot' = [holdsSlot EXCEPT ![j] = TRUE] /\ bySubject' = bySubject
    BY <1>2 DEF Acquire, registry
  <2> QED BY <2>1, <2>2, TakingRuns
<1> QED BY <1>1, <1>2

\* Admission is Admit, under the same limits.
LEMMA ReserveRefines ==
    ASSUME Consistent, NEW j \in Jobs, NEW s \in Subjects, Reserve(j, s)
    PROVE  Limits!Next
<1> USE DEF Consistent
<1>1. /\ phase[j] = "idle" /\ bySubject[s] = None /\ ~holdsSlot[j]
      /\ bySubject' = [bySubject EXCEPT ![s] = j] /\ holdsSlot' = holdsSlot
  BY DEF Reserve, slots, HoldersWork
<1>2. workOf[s] = "none"
  BY <1>1 DEF workOf
<1>3. workOf' = [workOf EXCEPT ![s] = "admitted"]
  BY <1>1, NoneAssumption DEF workOf, TypeOK
<1>4. /\ Cardinality(Limits!BusyOf(OrgOf[s])) < MaxPerOrg
      /\ Cardinality(Limits!Busy) < MaxActive
  BY WorkCounts DEF Reserve
<1>5. Limits!Admit(s)
  BY <1>2, <1>3, <1>4, SameCardinality DEF Limits!Admit
<1> QED BY <1>5 DEF Limits!Next

\* Lending the slot is StepAside.
LEMMA LendRefines ==
    ASSUME Consistent, NEW j \in Jobs, Lend(j)
    PROVE  Limits!Next
<1> USE DEF Consistent
<1>1. /\ phase[j] # "idle" /\ holdsSlot[j]
      /\ bySubject' = bySubject /\ holdsSlot' = [holdsSlot EXCEPT ![j] = FALSE]
  BY DEF Lend, registry
<1>2. /\ subject[j] \in Subjects /\ workOf[subject[j]] = "running"
      /\ bySubject[subject[j]] = j /\ j # None
  BY <1>1, WorkOfJob, NoneAssumption
<1>3. ASSUME NEW s \in Subjects \ {subject[j]}, bySubject[s] # None
      PROVE  holdsSlot'[bySubject[s]] = holdsSlot[bySubject[s]]
  <2>1. bySubject[s] \in Jobs \ {j}
    BY <1>1, <1>3, WorkOfJob DEF TypeOK
  <2> QED BY <1>1, <2>1 DEF TypeOK
<1>4. workOf' = [workOf EXCEPT ![subject[j]] = "admitted"]
  BY <1>1, <1>2, <1>3 DEF workOf, TypeOK
<1>5. Limits!StepAside(subject[j])
  BY <1>2, <1>4 DEF Limits!StepAside
<1> QED BY <1>2, <1>5 DEF Limits!Next

\* A new runner has no work.
LEMMA InitRefines == Init => Limits!Init
BY DEF Init, Limits!Init, workOf

\* Every step is a step of WorkLimits or a stutter.
LEMMA StepRefines == Consistent /\ [Next]_vars => [Limits!Next]_workOf
<1> SUFFICES ASSUME Consistent, [Next]_vars PROVE [Limits!Next]_workOf
  OBVIOUS
<1>1. CASE UNCHANGED vars
  BY <1>1, SameWork DEF vars, registry, slots
<1>2. ASSUME NEW j \in Jobs, NEW s \in Subjects, Reserve(j, s)
      PROVE  [Limits!Next]_workOf
  BY <1>2, ReserveRefines
<1>3. ASSUME NEW j \in Jobs, ReleaseUnstarted(j) PROVE [Limits!Next]_workOf
  <2>1. phase[j] # "idle" /\ Release(j) /\ holdsSlot' = holdsSlot
    BY <1>3 DEF ReleaseUnstarted, slots
  <2> QED BY <2>1, ReleaseEndsWork
<1>4. ASSUME NEW j \in Jobs, Start(j) PROVE [Limits!Next]_workOf
  BY <1>4, SameWork DEF Start, registry, slots
<1>5. ASSUME NEW j \in Jobs, EndWork(j) PROVE [Limits!Next]_workOf
  <2>1. /\ phase[j] # "idle" /\ Release(j)
        /\ holdsSlot' = [holdsSlot EXCEPT ![j] = FALSE]
    BY <1>5 DEF EndWork
  <2> QED BY <2>1, ReleaseEndsWork
<1>6. ASSUME NEW j \in Jobs, Serve(j) PROVE [Limits!Next]_workOf
  <2>1. CASE Begin(j)
    BY <2>1, AcquireRefines DEF Begin, Waiting
  <2>2. CASE Resume(j)
    <3>1. /\ phase[j] \in Waiting /\ granted # {} /\ bySubject' = bySubject
          /\ holdsSlot' = [holdsSlot EXCEPT ![j] = TRUE]
      BY <2>2 DEF Resume, Consistent, WaitersWait, registry
    <3> QED BY <3>1, TakingRuns
  <2>3. CASE Lend(j)
    BY <2>3, LendRefines
  <2>4. CASE Return(j)
    BY <2>4, AcquireRefines DEF Return, Waiting
  <2> QED BY <1>5, <1>6, <2>1, <2>2, <2>3, <2>4 DEF Serve
<1>7. ASSUME NEW j \in Jobs, Unwind(j) PROVE [Limits!Next]_workOf
  <2>1. CASE CancelUnstarted(j)
    BY <2>1, SameWork DEF CancelUnstarted, registry, slots
  <2>2. CASE CancelWorking(j)
    BY <1>5, <2>2 DEF CancelWorking
  <2>3. CASE CancelAway(j)
    <3>1. CASE Locked
      BY <2>3, <3>1, SameWork DEF CancelAway, registry
    <3>2. CASE ~Locked
      <4>1. phase[j] # "idle" /\ Release(j) /\ holdsSlot' = holdsSlot
        BY <2>3, <3>2 DEF CancelAway, slots
      <4> QED BY <4>1, ReleaseEndsWork
    <3> QED BY <3>1, <3>2
  <2>4. CASE CancelWaiting(j)
    <3>1. phase[j] # "idle" /\ Release(j) /\ holdsSlot' = holdsSlot
      BY <2>4 DEF CancelWaiting, Waiting
    <3> QED BY <3>1, ReleaseEndsWork
  <2>5. CASE ResumeDying(j)
    <3>1. phase[j] # "idle" /\ Release(j) /\ holdsSlot' = holdsSlot
      BY <2>5 DEF ResumeDying, Consistent, WaitersWait, Waiting
    <3> QED BY <3>1, ReleaseEndsWork
  <2> QED BY <1>7, <2>1, <2>2, <2>3, <2>4, <2>5 DEF Unwind
<1>8. CASE Shutdown
  BY <1>8, SameWork DEF Shutdown, registry
<1>9. CASE Stopped
  BY <1>1, <1>9 DEF Stopped
<1> QED BY <1>1, <1>2, <1>3, <1>4, <1>6, <1>7, <1>8, <1>9 DEF Next

\* To its callers the runner is WorkLimits: a subject has one job, and the
\* organization's, the process's and the running bounds hold at every step
\* (jobs.py 169-261).
THEOREM RunnerKeepsLimits == Spec => KeepsLimits
BY InitRefines, StepRefines, AlwaysConsistent, PTL DEF Spec, KeepsLimits, Limits!Spec

-----------------------------------------------------------------------------
(* No waiter is forgotten.                                                 *)

\* Waking n waiters shortens the line by n.
LEMMA WakeShortens ==
    ASSUME queue \in Seq(Jobs), NEW n \in Nat, n <= Len(queue),
           NEW f \in Nat, NEW g, Wake(n, f, g)
    PROVE  /\ free' = f - n
           /\ queue' \in Seq(Jobs) /\ Len(queue') = Len(queue) - n
           /\ n > 0 => granted' # {}
<1>1. free' = f - n /\ granted' = g \cup {queue[i] : i \in 1..n}
      /\ queue' = SubSeq(queue, n + 1, Len(queue))
  BY DEF Wake
<1>2. queue' \in Seq(Jobs) /\ Len(queue') = Len(queue) - n
  BY <1>1
<1>3. n > 0 => queue[1] \in granted'
  BY <1>1
<1> QED BY <1>1, <1>2, <1>3

\* When all that is free is offered, nothing is left free or nobody in line.
LEMMA WakeAllServes ==
    ASSUME queue \in Seq(Jobs), NEW f \in Nat, NEW g, WakeAll(f, g)
    PROVE  NoLostWakeup'
<1> DEFINE n == Fewer(f, Len(queue))
<1>1. n \in Nat /\ n <= Len(queue) /\ Wake(n, f, g) /\ (n = f \/ n = Len(queue))
  BY DEF Fewer, WakeAll
<1> HIDE DEF n
<1>2. free' = f - n /\ queue' \in Seq(Jobs) /\ Len(queue') = Len(queue) - n
  BY <1>1, WakeShortens
<1>3. free' = 0 \/ Len(queue') = 0
  BY <1>1, <1>2
<1> QED BY <1>2, <1>3, EmptySeq DEF NoLostWakeup

\* When one slot is returned to a line, somebody is granted it.
LEMMA ReturnServes ==
    ASSUME queue \in Seq(Jobs), free \in Nat, ReturnSlots(1)
    PROVE  NoLostWakeup'
<1> DEFINE n == Fewer(1, Len(queue))
<1>1. n \in Nat /\ n <= Len(queue) /\ Wake(n, free + 1, granted)
  BY DEF Fewer, ReturnSlots
<1> HIDE DEF n
<1>2. /\ queue' \in Seq(Jobs) /\ Len(queue') = Len(queue) - n
      /\ n > 0 => granted' # {}
  BY <1>1, WakeShortens
<1>3. n > 0 \/ Len(queue) = 0
  BY DEF Fewer, n
<1>4. granted' # {} \/ Len(queue') = 0
  BY <1>1, <1>2, <1>3
<1> QED BY <1>2, <1>4, EmptySeq DEF NoLostWakeup

\* Nobody joins a line beside a free slot unless somebody is being woken.
LEMMA AcquireServes ==
    ASSUME NoLostWakeup, free \in Nat, NEW j, NEW w, Acquire(j, w)
    PROVE  NoLostWakeup'
<1>1. CASE Locked
  BY <1>1 DEF Acquire, Locked, NoLostWakeup
<1>2. CASE ~Locked
  BY <1>2 DEF Acquire, Locked, NoLostWakeup
<1> QED BY <1>1, <1>2

\* The slot of a finished job goes to somebody in line.
LEMMA EndWorkServes ==
    ASSUME Consistent, NEW j \in Jobs, EndWork(j)
    PROVE  NoLostWakeup'
<1>1. queue \in Seq(Jobs) /\ free \in Nat
  BY DEF Consistent, TypeOK
<1>2. GivesBack(j) = 1
  BY DEF EndWork, GivesBack, Consistent, HoldersWork
<1> QED BY <1>1, <1>2, ReturnServes DEF EndWork

\* No step forgets a waiter.
LEMMA StepServes == Consistent /\ NoLostWakeup /\ [Next]_vars => NoLostWakeup'
<1> SUFFICES ASSUME Consistent, NoLostWakeup, [Next]_vars PROVE NoLostWakeup'
  OBVIOUS
<1>1. queue \in Seq(Jobs) /\ free \in Nat
  BY DEF Consistent, TypeOK
<1>2. ASSUME UNCHANGED slots PROVE NoLostWakeup'
  BY <1>2 DEF slots, NoLostWakeup
<1>3. CASE UNCHANGED vars
  BY <1>2, <1>3 DEF vars
<1>4. ASSUME NEW j \in Jobs, NEW s \in Subjects, Reserve(j, s) PROVE NoLostWakeup'
  BY <1>2, <1>4 DEF Reserve
<1>5. ASSUME NEW j \in Jobs, ReleaseUnstarted(j) \/ Start(j) PROVE NoLostWakeup'
  BY <1>2, <1>5 DEF ReleaseUnstarted, Start
<1>6. ASSUME NEW j \in Jobs, Serve(j) PROVE NoLostWakeup'
  <2>1. CASE Begin(j) \/ Return(j)
    BY <1>1, <2>1, AcquireServes DEF Begin, Return
  <2>2. CASE Resume(j)
    BY <1>1, <2>2, WakeAllServes DEF Resume
  <2>3. CASE Lend(j)
    BY <1>1, <2>3, ReturnServes DEF Lend
  <2>4. CASE EndWork(j)
    BY <2>4, EndWorkServes
  <2> QED BY <1>6, <2>1, <2>2, <2>3, <2>4 DEF Serve
<1>7. ASSUME NEW j \in Jobs, Unwind(j) PROVE NoLostWakeup'
  <2>1. CASE CancelUnstarted(j)
    BY <1>2, <2>1 DEF CancelUnstarted
  <2>2. CASE CancelWorking(j)
    BY <2>2, EndWorkServes DEF CancelWorking
  <2>3. CASE CancelAway(j)
    <3>1. CASE Locked
      BY <2>3, <3>1 DEF CancelAway, Locked, NoLostWakeup
    <3>2. CASE ~Locked
      BY <1>2, <2>3, <3>2 DEF CancelAway
    <3> QED BY <3>1, <3>2
  <2>4. CASE CancelWaiting(j)
    <3>1. PICK f \in Nat : WakeAll(f, granted \ {j})
      <4> DEFINE unused == IF j \in granted THEN 1 ELSE 0
                 held == IF phase[j] = "returning" THEN GivesBack(j) ELSE 0
      <4>1. unused \in Nat /\ held \in Nat
        BY DEF GivesBack
      <4>2. WakeAll(free + unused + held, granted \ {j})
        BY <2>4 DEF CancelWaiting
      <4> HIDE DEF unused, held
      <4> QED BY <1>1, <4>1, <4>2
    <3> QED BY <1>1, <3>1, WakeAllServes
  <2>5. CASE ResumeDying(j)
    <3>1. free + 1 \in Nat /\ WakeAll(free + 1, granted \ {j})
      BY <1>1, <2>5 DEF ResumeDying
    <3> QED BY <1>1, <3>1, WakeAllServes
  <2> QED BY <1>7, <2>1, <2>2, <2>3, <2>4, <2>5 DEF Unwind
<1>8. CASE Shutdown
  BY <1>8 DEF Shutdown, NoLostWakeup
<1>9. CASE Stopped
  BY <1>3, <1>9 DEF Stopped
<1> QED BY <1>3, <1>4, <1>5, <1>6, <1>7, <1>8, <1>9 DEF Next

\* A free slot never sits beside a waiter that nothing is about to wake,
\* whatever lends, ends and cancellations come together (jobs.py 215-261).
THEOREM NoWakeupIsLost == Spec => []NoLostWakeup
<1>1. Init => NoLostWakeup
  BY DEF Init, NoLostWakeup
<1> QED BY <1>1, StepServes, AlwaysConsistent, PTL DEF Spec
=============================================================================
