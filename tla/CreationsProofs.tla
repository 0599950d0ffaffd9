---------------------------- MODULE CreationsProofs ----------------------------
(***************************************************************************)
(* Theorems about Creations, for any requests and any numbers of jobs,     *)
(* files, revisions, crashes and outages.                                  *)
(***************************************************************************)
EXTENDS Creations, FiniteSetTheorems, TLAPS

-----------------------------------------------------------------------------
(* The inductive invariant                                                 *)

\* A creation that may still change.
Open == row # None /\ row.status \in {"draft", "finishing"}

\* What a coroutine holds at each of its steps.
RequestIsFilled(q) ==
    /\ q.kind \in EditKinds \cup {"prepare"} => q.steps # None /\ q.steps.original # None
    /\ q.pc \in {"loaded", "made"} => q.kind = "frame"
    /\ q.pc = "made" => q.key # None
    /\ q.kind # "frame" => q.key = None
    /\ q.pc = "tidy" => q.kind \in EditKinds
    /\ q.pc = "admitted" => q.kind \in JobKinds /\ q.job # None
    /\ q.pc = "again" => q.kind = "delete" /\ row = None
    /\ q.kind = "drop" => q.avatar # None
TaskIsFilled(t) ==
    /\ t.pc = "source" => t.step = "prepare"
    /\ t.pc \in {"make", "store", "discard"} => t.step # "finish"
    /\ t.step = "prepare" /\ t.pc \in {"source", "make", "store", "tidy", "discard"} => t.steps # None
    /\ t.step # "finish" /\ t.pc \in {"store", "tidy", "discard"} => t.key # None
    /\ t.pc \in {"build", "commit", "undo", "undofiles"} =>
          t.step = "finish" /\ t.avatar = t.id /\ t.steps # None
Filled ==
    /\ \A r \in Requests : req[r] # None => RequestIsFilled(req[r])
    /\ task # None => TaskIsFilled(task)

\* A creation has its steps until it expires, and no job works on it from
\* when it is past its retention.
Idle ==
    row # None =>
        /\ row.status # "expired" => row.steps # None
        /\ row.old \/ row.status = "expired" => task = None

\* Whoever wrote the steps since a coroutine read them moved the revision.
ReadAt(revision, steps) ==
    Open => /\ revision <= row.revision
            /\ revision = row.revision => row.steps = steps
HasRead(t) == t.pc = "store" \/ (t.step = "prepare" /\ t.pc \in {"source", "make"})
Revised ==
    /\ \A r \in Requests :
        req[r] # None /\ req[r].kind \in EditKinds \cup {"prepare"}
                      /\ req[r].pc \in {"read", "loaded", "made", "admitted"}
            => ReadAt(req[r].revision, req[r].steps)
    /\ task # None /\ Open =>
        /\ task.revision <= row.revision
        /\ HasRead(task) => ReadAt(task.revision, task.steps)

\* One job at a time, admitted or at work, is the runner's; the row's record
\* is the working job's; a number is new when it is given out.
Admitted(r) == req[r] # None /\ req[r].pc = "admitted"
OneJob ==
    /\ active # None => active <= usedJobs
    /\ row # None => row.job.id <= usedJobs
    /\ sweep # None => sweep.job.id <= usedJobs
    /\ task # None => active = task.id /\ (row # None => row.job.id = task.id)
    /\ \A r \in Requests : Admitted(r) =>
        /\ task = None /\ active = req[r].job
        /\ row # None => row.job.id < req[r].job
        /\ sweep # None => sweep.job.id < req[r].job
        /\ \A q \in Requests : Admitted(q) => q = r
    /\ Sweeping("write") => active # sweep.job.id

\* An avatar that was never made, is gone for good, or may be published yet.
Avatared ==
    /\ \A a \in Avatars : a > usedJobs => avatars[a] = "none"
    /\ \A r \in Requests : Admitted(r) => avatars[req[r].job] = "none"
    /\ \A r \in Requests :
        req[r] # None /\ req[r].kind = "drop" => avatars[req[r].avatar] # "none"
    /\ row # None /\ row.status = "finishing" =>
        row.avatar = row.job.id /\ avatars[row.avatar] # "none"
    /\ sweep # None /\ sweep.status = "finishing" => sweep.avatar = sweep.job.id
    /\ Sweeping("files") => sweep.avatar # None /\ avatars[sweep.avatar] = "deleted"
    /\ task # None /\ task.pc \in {"build", "commit", "undo"} =>
        avatars[task.avatar] \notin {"none", "ready"}
    /\ task # None /\ task.pc = "undofiles" => avatars[task.avatar] = "deleted"
    /\ row # None /\ row.status = "finished" =>
        row.avatar # None /\ avatars[row.avatar] \in {"ready", "deleted"}

\* One avatar is published, and only by a creation that is finished.
Published ==
    /\ \A a, b \in Avatars : avatars[a] = "ready" /\ avatars[b] = "ready" => a = b
    /\ Open => \A a \in Avatars : avatars[a] # "ready"

\* An avatar is processing only as the one its creation is finished into.
Owned ==
    \A a \in Avatars : row # None /\ avatars[a] = "processing" =>
        row.status = "finishing" /\ row.avatar = a

\* A published avatar has its files, unless its owner is deleting it.
Dropping(a) == \E r \in Requests : At(r, "row", {"drop"}) /\ req[r].avatar = a
Whole(a) == avatars[a] = "deleted" \/ a \in avatarFiles \/ Dropping(a) \/ crashes > 0
AvatarWhole ==
    /\ row # None /\ row.status = "finished" => Whole(row.avatar)
    /\ task # None /\ task.pc = "commit" => Whole(task.avatar)

\* A file made and not yet in the row is one coroutine's, new to the row and to
\* what others delete; what is to be deleted is not the row's.
HeldBy(q, k) == q # None /\ q.pc = "made" /\ q.key = k
DoomedBy(q, k) == q # None /\ q.pc = "tidy" /\ k \in q.doomed
TaskHolds(k) == task # None /\ task.pc = "store" /\ task.key = k
TaskDooms(k) ==
    task # None /\ \/ task.pc = "discard" /\ task.key = k
                   \/ task.pc = "tidy" /\ task.step # "finish"
                        /\ k \in Named(task.steps) \ Named(Result)
IsHeld(k) == TaskHolds(k) \/ \E r \in Requests : HeldBy(req[r], k)
IsDoomed(k) == TaskDooms(k) \/ \E r \in Requests : DoomedBy(req[r], k)
InRow(k) == Open /\ k \in Named(row.steps)
Apart(k) ==
    /\ ~(IsHeld(k) /\ IsDoomed(k)) /\ ~(IsHeld(k) /\ InRow(k)) /\ ~(IsDoomed(k) /\ InRow(k))
    /\ \A r \in Requests : HeldBy(req[r], k) =>
         ~TaskHolds(k) /\ \A q \in Requests : HeldBy(req[q], k) => q = r
FilesApart ==
    \A k \in Keys :
        /\ IsHeld(k) \/ IsDoomed(k) \/ InRow(k) \/ k \in files => k <= usedKeys
        /\ Apart(k)

\* What the row names and what coroutines have made is there, until a delete.
FilesThere ==
    /\ Open /\ ~Deleting /\ crashes = 0 =>
         \A k \in Keys : InRow(k) \/ IsHeld(k) => k \in files
    /\ Sweeping("purge") \/ (task # None /\ task.pc = "tidy" /\ task.step = "finish") => ~Open

\* Of a deleted creation only what somebody is about to store or delete is left.
Purging == Sweeping("purge") \/ \E r \in Requests : At(r, "again", {"delete"})
NothingLeft ==
    row = None /\ crashes = 0 /\ faults = 0 /\ ~Purging =>
        ~incoming /\ \A k \in files : IsHeld(k) \/ IsDoomed(k)

-----------------------------------------------------------------------------
(* Types                                                                   *)

LEMMA NoneIsNone ==
    /\ None \notin Nat /\ None \notin Keys /\ None \notin JobIds
    /\ None \notin {"original", "framed", "cutout"} /\ None \notin Steps
    /\ None \notin Rows /\ None \notin RequestRecords /\ None \notin TaskRecords
    /\ None \notin SweepRecords
BY CreationsAssumption DEF Keys, JobIds

\* Steps are well formed when their current image is among them.
LEMMA StepsAre ==
    ASSUME NEW st \in AnySteps
    PROVE  st \in Steps <=> /\ st.current = "original" => st.original # None
                            /\ st.current = "framed" => st.framed # None
                            /\ st.current = "cutout" => st.cutout # None
<1>1. CASE st.current = None
  BY <1>1, NoneIsNone DEF Steps
<1>2. CASE st.current = "original"
  BY <1>2, NoneIsNone DEF Steps
<1>3. CASE st.current = "framed"
  BY <1>3, NoneIsNone DEF Steps
<1>4. CASE st.current = "cutout"
  BY <1>4, NoneIsNone DEF Steps
<1> QED BY <1>1, <1>2, <1>3, <1>4 DEF AnySteps

LEMMA StepsTypes ==
    ASSUME NEW st \in Steps
    PROVE  /\ st \in AnySteps /\ st # None
           /\ st.original \in Keys \cup {None} /\ st.framed \in Keys \cup {None}
           /\ st.cutout \in Keys \cup {None}
           /\ Named(st) \subseteq Keys
BY NoneIsNone DEF Steps, AnySteps, Named

LEMMA NoImagesAreSteps == ASSUME NEW p \in BOOLEAN PROVE NoImages(p) \in Steps /\ Named(NoImages(p)) = {}
<1>1. NoImages(p) \in AnySteps
  BY DEF NoImages, AnySteps
<1>2. NoImages(p) \in Steps
  BY <1>1, StepsAre, NoneIsNone DEF NoImages
<1> QED BY <1>2, NoneIsNone DEF Named, NoImages

\* What an edit makes of the steps it read names nothing but those and its file.
LEMMA EditedSteps ==
    ASSUME NEW q \in RequestRecords, RequestIsFilled(q), q.kind \in EditKinds,
           q.kind = "frame" => q.key # None
    PROVE  /\ Edited(q) \in Steps
           /\ Named(Edited(q)) \subseteq Named(q.steps) \cup ({q.key} \ {None})
<1>1. q.steps \in Steps /\ q.steps.original # None /\ q.key \in Keys \cup {None}
  BY DEF RequestRecords, RequestIsFilled
<1> DEFINE st == q.steps
<1>2. st \in AnySteps /\ st # None
  BY <1>1, StepsTypes
<1>3. CASE q.kind = "frame"
  <2> DEFINE e == [st EXCEPT !.framed = q.key, !.cutout = None, !.current = "framed"]
  <2>1. Edited(q) = e
    BY <1>3 DEF Edited, EditKinds
  <2>2. e \in AnySteps /\ e.current = "framed" /\ e.framed = q.key /\ e.cutout = None /\ e.original = st.original
    BY <1>1, <1>2 DEF AnySteps
  <2> HIDE DEF e
  <2>3. e \in Steps
    BY <2>2, <1>3, StepsAre
  <2> QED BY <2>1, <2>2, <2>3, <1>2, NoneIsNone DEF Named
<1>4. CASE q.kind = "line"
  <2> DEFINE e == [st EXCEPT !.cutout = None, !.current = BackgroundSource(st)]
  <2>1. Edited(q) = e
    BY <1>4 DEF Edited, EditKinds
  <2>2. /\ e \in AnySteps /\ e.current = BackgroundSource(st) /\ e.framed = st.framed
        /\ e.cutout = None /\ e.original = st.original
    BY <1>1, <1>2 DEF AnySteps, BackgroundSource
  <2> HIDE DEF e
  <2>3. e \in Steps
    BY <2>2, <1>1, <1>2, StepsAre DEF BackgroundSource
  <2> QED BY <2>1, <2>2, <2>3, <1>2, NoneIsNone DEF Named
<1>5. CASE q.kind = "keep"
  <2> DEFINE e == [st EXCEPT !.current = BackgroundSource(st)]
  <2>1. Edited(q) = e
    BY <1>5 DEF Edited, EditKinds
  <2>2. /\ e \in AnySteps /\ e.current = BackgroundSource(st) /\ e.framed = st.framed
        /\ e.cutout = st.cutout /\ e.original = st.original
    BY <1>1, <1>2 DEF AnySteps, BackgroundSource
  <2> HIDE DEF e
  <2>3. e \in Steps
    BY <2>2, <1>1, <1>2, StepsAre DEF BackgroundSource
  <2> QED BY <2>1, <2>2, <2>3, <1>2, NoneIsNone DEF Named
<1> QED BY <1>3, <1>4, <1>5 DEF EditKinds

\* So does a job's result.
LEMMA ResultSteps ==
    ASSUME task \in TaskRecords, TaskIsFilled(task), task.step # "finish",
           task.pc \in {"store", "tidy"}
    PROVE  /\ Result \in Steps /\ Result.original \in Keys \cup {None}
           /\ Named(Result) \subseteq Named(task.steps) \cup {task.key}
<1>1. task.key \in Keys /\ task.steps \in Steps \cup {None} /\ task.step \in {"ingest", "prepare"}
  BY DEF TaskRecords, TaskIsFilled, JobKinds
<1>2. CASE task.step = "ingest"
  <2> DEFINE plan == IF task.steps = None THEN FALSE ELSE task.steps.plan
             e == [NoImages(plan) EXCEPT !.original = task.key, !.current = "original"]
  <2>1. plan \in BOOLEAN
    BY <1>1, StepsTypes DEF AnySteps
  <2>2. Result = e
    BY <1>2 DEF Result
  <2>3. e \in AnySteps /\ e.current = "original" /\ e.original = task.key /\ e.framed = None /\ e.cutout = None
    BY <1>1, <2>1 DEF AnySteps, NoImages
  <2> HIDE DEF e
  <2>4. e \in Steps
    BY <2>3, <1>1, StepsAre, NoneIsNone
  <2> QED BY <2>2, <2>3, <2>4, <1>1, NoneIsNone DEF Named
<1>3. CASE task.step = "prepare"
  <2>1. task.steps \in Steps /\ task.steps \in AnySteps /\ task.steps # None
    BY <1>1, <1>3, StepsTypes DEF TaskIsFilled
  <2> DEFINE e == [task.steps EXCEPT !.framed = None, !.cutout = task.key, !.current = "cutout"]
  <2>2. Result = e
    BY <1>3 DEF Result
  <2>3. e \in AnySteps /\ e.current = "cutout" /\ e.original = task.steps.original /\ e.framed = None /\ e.cutout = task.key
    BY <1>1, <2>1 DEF AnySteps
  <2> HIDE DEF e
  <2>4. e \in Steps
    BY <2>3, <1>1, StepsAre, NoneIsNone
  <2> QED BY <2>1, <2>2, <2>3, <2>4, <1>1, NoneIsNone, StepsTypes DEF Named
<1> QED BY <1>1, <1>2, <1>3

\* A record with fields replaced is a record.
LEMMA RowTypes ==
    ASSUME NEW r \in Rows
    PROVE  /\ r # None /\ r.status \in Statuses /\ r.revision \in Nat /\ r.job \in JobRecords
           /\ r.avatar \in Avatars \cup {None} /\ r.steps \in Steps \cup {None}
           /\ r.anchors \in Keys \cup {None} /\ r.old \in BOOLEAN
           /\ r.job.id \in JobIds /\ r.job.state \in ActiveStates \cup {"done", "failed", "interrupted"}
BY NoneIsNone DEF Rows, JobRecords

LEMMA JobTypes ==
    ASSUME NEW id \in JobIds, NEW step \in JobKinds,
           NEW state \in ActiveStates \cup {"done", "failed", "interrupted"}
    PROVE  Job(id, step, state) \in JobRecords
BY DEF Job, JobRecords, JobKinds

LEMMA RequestTypes ==
    ASSUME NEW q \in RequestRecords
    PROVE  /\ q # None /\ q.kind \in Kinds /\ q.revision \in Nat /\ q.steps \in Steps \cup {None}
           /\ q.key \in Keys \cup {None} /\ q.doomed \subseteq Keys /\ q.job \in JobIds \cup {None}
           /\ q.avatar \in Avatars \cup {None}
BY NoneIsNone DEF RequestRecords

LEMMA TaskTypes ==
    ASSUME NEW t \in TaskRecords
    PROVE  /\ t # None /\ t.id \in JobIds /\ t.step \in JobKinds /\ t.revision \in Nat
           /\ t.steps \in Steps \cup {None} /\ t.avatar \in Avatars \cup {None}
           /\ t.key \in Keys \cup {None}
BY NoneIsNone DEF TaskRecords

\* A request going on to another step, with or without more in hand.
LEMMA ToTypes ==
    ASSUME TypeOK, NEW r \in Requests, req[r] # None,
           NEW pc \in {"read", "loaded", "made", "tidy", "admitted", "row", "again"}, To(r, pc)
    PROVE  /\ req' \in [Requests -> RequestRecords \cup {None}]
           /\ req'[r] = [req[r] EXCEPT !.pc = pc]
           /\ \A q \in Requests : q # r => req'[q] = req[q]
<1> DEFINE q == [req[r] EXCEPT !.pc = pc]
<1>1. req \in [Requests -> RequestRecords \cup {None}] /\ req[r] \in RequestRecords
  BY DEF TypeOK
<1>2. q \in RequestRecords
  BY <1>1 DEF RequestRecords
<1>3. req' = [req EXCEPT ![r] = q]
  BY <1>1 DEF To
<1> HIDE DEF q
<1>4. req' \in [Requests -> RequestRecords \cup {None}] /\ req'[r] = q /\ \A x \in Requests : x # r => req'[x] = req[x]
  BY <1>1, <1>2, <1>3
<1> QED BY <1>4 DEF q

\* What the request had in hand is kept.
SameRequest(r) == /\ req'[r].kind = req[r].kind /\ req'[r].revision = req[r].revision
                  /\ req'[r].steps = req[r].steps /\ req'[r].key = req[r].key
                  /\ req'[r].doomed = req[r].doomed /\ req'[r].job = req[r].job
                  /\ req'[r].avatar = req[r].avatar
LEMMA ToKeeps ==
    ASSUME TypeOK, NEW r \in Requests, req[r] # None,
           NEW pc \in {"read", "loaded", "made", "tidy", "admitted", "row", "again"}, To(r, pc)
    PROVE  SameRequest(r) /\ req'[r].pc = pc /\ req'[r] # None
<1>1. req[r] \in RequestRecords /\ req'[r] = [req[r] EXCEPT !.pc = pc]
  BY ToTypes DEF TypeOK
<1>2. req'[r] \in RequestRecords
  BY <1>1 DEF RequestRecords
<1> QED BY <1>1, <1>2, RequestTypes DEF RequestRecords, SameRequest

LEMMA AnswerTypes ==
    ASSUME TypeOK, NEW r \in Requests, Answer(r)
    PROVE  /\ req' \in [Requests -> RequestRecords \cup {None}]
           /\ req'[r] = None
           /\ \A q \in Requests : q # r => req'[q] = req[q]
BY DEF TypeOK, Answer

LEMMA ReceiveTypes ==
    ASSUME TypeOK, NEW r \in Requests, NEW kind \in Kinds, Receive(r, kind)
    PROVE  TypeOK'
<1>1. row \in Rows
  BY DEF Receive, TypeOK
<1> DEFINE q == [pc |-> "read", kind |-> kind, key |-> None, doomed |-> {}, job |-> None,
                 revision |-> IF kind \in {"delete", "drop"} THEN 0 ELSE row.revision,
                 steps |-> IF kind \in EditKinds \cup {"prepare"} THEN row.steps ELSE None,
                 avatar |-> IF kind = "drop" THEN row.avatar ELSE None]
<1>2. q \in RequestRecords
  BY <1>1, RowTypes DEF RequestRecords
<1>3. req' = [req EXCEPT ![r] = q]
  BY DEF Receive
<1> HIDE DEF q
<1>4. req' \in [Requests -> RequestRecords \cup {None}]
  BY <1>2, <1>3 DEF TypeOK
<1> QED BY <1>4 DEF Receive, TypeOK, disk, counters

LEMMA EditTypes ==
    ASSUME TypeOK, Filled, NEW r \in Requests, EditLoads(r) \/ EditPut(r) \/ EditTidy(r)
    PROVE  TypeOK'
<1>1. CASE EditLoads(r)
  <2>1. req' \in [Requests -> RequestRecords \cup {None}]
    BY <1>1, ToTypes, AnswerTypes DEF EditLoads, At
  <2> QED BY <1>1, <2>1 DEF EditLoads, TypeOK, disk, counters
<1>2. CASE EditPut(r)
  <2>1. CASE NewKey \in Keys
    <3> DEFINE q == [req[r] EXCEPT !.pc = "made", !.key = NewKey]
    <3>1. req[r] \in RequestRecords
      BY <1>2 DEF EditPut, At, TypeOK
    <3>2. q \in RequestRecords
      BY <2>1, <3>1 DEF RequestRecords
    <3>3. req' = [req EXCEPT ![r] = q]
      BY <1>2, <2>1 DEF EditPut, TypeOK
    <3> HIDE DEF q
    <3>4. req' \in [Requests -> RequestRecords \cup {None}]
      BY <3>2, <3>3 DEF TypeOK
    <3> QED BY <1>2, <2>1, <3>4 DEF EditPut, TypeOK, Keys
  <2>2. CASE NewKey \notin Keys
    BY <1>2, <2>2, AnswerTypes DEF EditPut, TypeOK
  <2> QED BY <2>1, <2>2
<1>3. CASE EditTidy(r)
  BY <1>3, AnswerTypes DEF EditTidy, TypeOK, counters
<1> QED BY <1>1, <1>2, <1>3

\* The row an edit writes.
LEMMA EditedRow ==
    ASSUME TypeOK, NEW r \in Requests, EditWrite(r), Unchanged(req[r].revision),
           Edited(req[r]) \in Steps
    PROVE  /\ row \in Rows /\ row' \in Rows
           /\ row.status = "draft" /\ row.revision = req[r].revision
           /\ row'.status = "draft" /\ row'.revision = row.revision + 1
           /\ row'.steps = Edited(req[r]) /\ row'.old = FALSE
           /\ row'.job = row.job /\ row'.avatar = row.avatar
<1> DEFINE st == Edited(req[r])
           a == IF req[r].kind = "keep" THEN row.anchors ELSE None
           n == row.revision + 1
<1>1. row \in Rows /\ row.status = "draft" /\ row.revision = req[r].revision
  BY DEF Unchanged, TypeOK
<1>2. a \in Keys \cup {None} /\ n \in Nat
  BY <1>1, RowTypes
<1>3. row' = [[row EXCEPT !.steps = st, !.revision = n, !.anchors = a] EXCEPT !.old = FALSE]
  BY DEF EditWrite, Write
<1>4. n = row.revision + 1
  OBVIOUS
<1> HIDE DEF st, a, n
<1>5. /\ row' \in Rows /\ row'.status = row.status /\ row'.revision = n
      /\ row'.steps = st /\ row'.old = FALSE
      /\ row'.job = row.job /\ row'.avatar = row.avatar
  <2>1. st \in Steps
    BY DEF st
  <2> QED BY <1>1, <1>2, <1>3, <2>1 DEF Rows
<1> QED BY <1>1, <1>4, <1>5 DEF st

\* What an edit writes: the row, if it is as read, and the files to delete.
LEMMA EditWrites ==
    ASSUME TypeOK, Filled, NEW r \in Requests, EditWrite(r)
    PROVE  /\ req[r] \in RequestRecords /\ Edited(req[r]) \in Steps
           /\ Named(Edited(req[r])) \subseteq Named(req[r].steps) \cup ({req[r].key} \ {None})
           /\ req' \in [Requests -> RequestRecords \cup {None}]
           /\ \A q \in Requests : q # r => req'[q] = req[q]
           /\ req'[r] = [req[r] EXCEPT !.pc = "tidy", !.doomed =
                            IF Unchanged(req[r].revision) THEN Named(req[r].steps) \ Named(Edited(req[r]))
                            ELSE {req[r].key} \ {None}]
           /\ req'[r] \in RequestRecords /\ req'[r].pc = "tidy"
           /\ row' \in Rows \cup {None}
<1>1. req[r] \in RequestRecords /\ req \in [Requests -> RequestRecords \cup {None}] /\ req[r].kind \in EditKinds
  BY DEF EditWrite, At, TypeOK, EditKinds
<1>2. /\ Edited(req[r]) \in Steps
      /\ Named(Edited(req[r])) \subseteq Named(req[r].steps) \cup ({req[r].key} \ {None})
  <2>1. req[r] # None /\ RequestIsFilled(req[r])
    BY <1>1, RequestTypes DEF Filled
  <2>2. req[r].kind = "frame" => req[r].key # None
    BY <2>1 DEF EditWrite, At, RequestIsFilled
  <2> QED BY <1>1, <2>1, <2>2, EditedSteps
<1> DEFINE d == IF Unchanged(req[r].revision) THEN Named(req[r].steps) \ Named(Edited(req[r]))
                ELSE {req[r].key} \ {None}
           q == [req[r] EXCEPT !.pc = "tidy", !.doomed = d]
<1>3. d \subseteq Keys
  <2>1. Named(req[r].steps) \subseteq Keys
    BY <1>1, RequestTypes, StepsTypes DEF Named
  <2> QED BY <1>1, <2>1, RequestTypes
<1>4. req' = [req EXCEPT ![r] = q]
  BY <1>1 DEF EditWrite
<1> HIDE DEF d
<1>5. q \in RequestRecords /\ q.pc = "tidy"
  BY <1>1, <1>3 DEF RequestRecords
<1> HIDE DEF q
<1>6. req' \in [Requests -> RequestRecords \cup {None}] /\ req'[r] = q /\ \A x \in Requests : x # r => req'[x] = req[x]
  BY <1>1, <1>4, <1>5
<1>7. row' \in Rows \cup {None}
  <2>1. CASE Unchanged(req[r].revision)
    BY <1>2, <2>1, EditedRow
  <2>2. CASE ~Unchanged(req[r].revision)
    BY <2>2 DEF EditWrite, TypeOK
  <2> QED BY <2>1, <2>2
<1> QED BY <1>1, <1>2, <1>5, <1>6, <1>7 DEF q, d

LEMMA EditWriteTypes ==
    ASSUME TypeOK, Filled, NEW r \in Requests, EditWrite(r) PROVE TypeOK'
BY EditWrites DEF EditWrite, TypeOK, counters

\* Admission: refused, or the next job's number and the runner's entry.
LEMMA Admission ==
    ASSUME TypeOK, NEW r \in Requests, Admit(r)
    PROVE  /\ TypeOK'
           /\ \A q \in Requests : q # r => req'[q] = req[q]
           /\ \/ req'[r] = None /\ UNCHANGED <<usedJobs, active>>
              \/ /\ req[r] \in RequestRecords
                 /\ active = None /\ usedJobs' = usedJobs + 1 /\ active' = usedJobs + 1
                 /\ req'[r] = [req[r] EXCEPT !.pc = "admitted", !.job = usedJobs + 1]
<1>1. req[r] \in RequestRecords /\ req \in [Requests -> RequestRecords \cup {None}] /\ usedJobs \in JobIds
  BY DEF Admit, At, TypeOK
<1>2. CASE active = None /\ usedJobs < MaxJobs /\ (req[r].kind = "ingest" => incoming)
  <2> DEFINE n == usedJobs + 1
             q == [req[r] EXCEPT !.pc = "admitted", !.job = n]
  <2>1. n \in JobIds
    BY <1>1, <1>2, CreationsAssumption DEF JobIds
  <2>2. req' = [req EXCEPT ![r] = q] /\ usedJobs' = n /\ active' = n
    BY <1>1, <1>2 DEF Admit
  <2>3. q \in RequestRecords
    <3> HIDE DEF n
    <3> QED BY <1>1, <2>1 DEF RequestRecords
  <2> HIDE DEF q, n
  <2>4. req' \in [Requests -> RequestRecords \cup {None}] /\ req'[r] = q /\ \A x \in Requests : x # r => req'[x] = req[x]
    BY <1>1, <2>2, <2>3
  <2>5. TypeOK'
    BY <2>1, <2>2, <2>4 DEF Admit, TypeOK, disk
  <2> QED BY <1>1, <1>2, <2>2, <2>4, <2>5 DEF q, n
<1>3. CASE ~(active = None /\ usedJobs < MaxJobs /\ (req[r].kind = "ingest" => incoming))
  <2>1. Answer(r) /\ UNCHANGED <<usedJobs, active>>
    BY <1>3 DEF Admit
  <2> QED BY <2>1, AnswerTypes DEF Admit, TypeOK, disk
<1> QED BY <1>2, <1>3

\* Steps with their plan are steps, of the same images.
LEMMA PlannedSteps ==
    ASSUME NEW st \in Steps
    PROVE  /\ [st EXCEPT !.plan = TRUE] \in Steps
           /\ Named([st EXCEPT !.plan = TRUE]) = Named(st)
           /\ st.plan => [st EXCEPT !.plan = TRUE] = st
           /\ st.plan \in BOOLEAN
<1> DEFINE e == [st EXCEPT !.plan = TRUE]
<1>1. st \in AnySteps /\ st # None
  BY StepsTypes
<1>2. e \in AnySteps /\ e.original = st.original /\ e.framed = st.framed /\ e.cutout = st.cutout /\ e.current = st.current
  BY <1>1 DEF AnySteps
<1>3. st.plan => e = st
  BY <1>1 DEF AnySteps
<1> HIDE DEF e
<1>4. e \in Steps
  BY <1>1, <1>2, StepsAre
<1>5. Named(e) = Named(st)
  BY <1>1, <1>2, <1>4, NoneIsNone DEF Named
<1> QED BY <1>1, <1>3, <1>4, <1>5 DEF e, AnySteps

\* What start_job's write makes of the row.
LEMMA QueuedRow ==
    ASSUME TypeOK, Filled, NEW r \in Requests, Enqueue(r), Unchanged(req[r].revision)
    PROVE  /\ row \in Rows /\ row.status = "draft" /\ row.revision = req[r].revision
           /\ row' \in Rows /\ row'.old = FALSE
           /\ row'.job = Job(req[r].job, req[r].kind, "queued")
           /\ row'.revision = row.revision + Bump(req[r])
           /\ row'.status = IF req[r].kind = "finish" THEN "finishing" ELSE "draft"
           /\ row'.avatar = IF req[r].kind = "finish" THEN req[r].job ELSE row.avatar
           /\ row'.steps = IF req[r].kind = "prepare" THEN [req[r].steps EXCEPT !.plan = TRUE]
                           ELSE row.steps
           /\ row'.anchors = row.anchors
<1> DEFINE q == req[r]
           j == Job(q.job, q.kind, "queued")
           n == row.revision + Bump(q)
           st == [q.steps EXCEPT !.plan = TRUE]
           base == [row EXCEPT !.job = j, !.revision = n]
<1>1. q \in RequestRecords /\ q # None /\ q.job \in JobIds /\ q.kind \in JobKinds /\ (q.kind = "prepare" => q.steps \in Steps)
  <2>1. q \in RequestRecords /\ q # None /\ q.pc = "admitted" /\ q.kind \in JobKinds
    BY DEF Enqueue, At, TypeOK
  <2> QED BY <2>1, RequestTypes DEF Filled, RequestIsFilled
<1>2. row \in Rows /\ row.status = "draft" /\ row.revision = q.revision
  BY DEF Unchanged, TypeOK
<1>3. j \in JobRecords
  BY <1>1, JobTypes DEF ActiveStates
<1>4. n \in Nat /\ n = row.revision + Bump(q)
  BY <1>2, RowTypes DEF Bump
<1>5. q.kind = "prepare" => st \in Steps
  BY <1>1, PlannedSteps
<1>6. row' = [Queued(q) EXCEPT !.old = FALSE]
  BY DEF Enqueue, Write
<1>7. Queued(q) = CASE q.kind = "finish" -> [base EXCEPT !.status = "finishing", !.avatar = q.job]
                    [] q.kind = "prepare" -> [base EXCEPT !.steps = st]
                    [] q.kind = "ingest" -> base
  BY DEF Queued
<1>8. /\ base \in Rows /\ base.job = j /\ base.revision = n /\ base.status = "draft"
      /\ base.avatar = row.avatar /\ base.steps = row.steps /\ base.anchors = row.anchors
  <2> HIDE DEF j, n
  <2> QED BY <1>2, <1>3, <1>4 DEF Rows
<1> HIDE DEF base, j, n, st
<1>9. CASE q.kind = "finish"
  BY <1>1, <1>2, <1>4, <1>6, <1>7, <1>8, <1>9 DEF Rows, Statuses, j, Avatars
<1>10. CASE q.kind = "prepare"
  BY <1>1, <1>2, <1>4, <1>5, <1>6, <1>7, <1>8, <1>10 DEF Rows, j, st
<1>11. CASE q.kind = "ingest"
  BY <1>1, <1>2, <1>4, <1>6, <1>7, <1>8, <1>11 DEF Rows, j
<1> QED BY <1>1, <1>9, <1>10, <1>11 DEF JobKinds

LEMMA EnqueueTypes ==
    ASSUME TypeOK, Filled, NEW r \in Requests, Enqueue(r)
    PROVE  /\ TypeOK'
           /\ req[r] \in RequestRecords /\ req[r].kind \in JobKinds /\ req[r].job \in JobIds
           /\ req'[r] = None
           /\ \A q \in Requests : q # r => req'[q] = req[q]
<1>1. /\ req[r] \in RequestRecords /\ req[r].kind \in JobKinds /\ req[r].job \in JobIds
      /\ req[r].revision \in Nat
  <2>1. req[r] \in RequestRecords /\ req[r] # None /\ req[r].pc = "admitted" /\ req[r].kind \in JobKinds
    BY DEF Enqueue, At, TypeOK
  <2> QED BY <2>1, RequestTypes DEF Filled, RequestIsFilled
<1>2. /\ req' \in [Requests -> RequestRecords \cup {None}] /\ req'[r] = None
      /\ \A q \in Requests : q # r => req'[q] = req[q]
  BY AnswerTypes DEF Enqueue
<1>3. CASE Unchanged(req[r].revision)
  <2> DEFINE n == req[r].revision + Bump(req[r])
  <2>1. n \in Nat
    BY <1>1 DEF Bump
  <2>2. task' = [pc |-> "queued", id |-> req[r].job, step |-> req[r].kind, revision |-> n,
                 steps |-> None, avatar |-> None, key |-> None]
    BY <1>3 DEF Enqueue
  <2> HIDE DEF n
  <2>3. task' \in TaskRecords
    BY <1>1, <2>1, <2>2 DEF TaskRecords
  <2>4. row' \in Rows
    BY <1>3, QueuedRow
  <2>5. avatars' \in [Avatars -> {"none", "processing", "ready", "failed", "deleted"}]
    BY <1>1, <1>3 DEF Enqueue, TypeOK, Avatars
  <2> QED BY <1>1, <1>2, <1>3, <2>3, <2>4, <2>5 DEF Enqueue, TypeOK, counters
<1>4. CASE ~Unchanged(req[r].revision)
  BY <1>1, <1>2, <1>4 DEF Enqueue, TypeOK, counters
<1> QED BY <1>3, <1>4

LEMMA DeleteTypes ==
    ASSUME TypeOK, Filled, NEW r \in Requests,
           DeleteFiles(r) \/ DeleteRow(r) \/ DeleteFilesAgain(r) \/ DropAvatarFiles(r) \/ DropAvatarRow(r)
    PROVE  TypeOK'
<1>1. CASE DeleteFiles(r)
  BY <1>1, ToTypes DEF DeleteFiles, At, TypeOK, counters
<1>2. CASE DeleteRow(r)
  BY <1>2, ToTypes DEF DeleteRow, At, TypeOK, counters
<1>3. CASE DeleteFilesAgain(r)
  BY <1>3, AnswerTypes DEF DeleteFilesAgain, TypeOK, counters
<1>4. CASE DropAvatarFiles(r)
  BY <1>4, ToTypes DEF DropAvatarFiles, At, TypeOK, counters
<1>5. CASE DropAvatarRow(r)
  <2>1. req[r].avatar \in Avatars
    BY <1>5, RequestTypes DEF DropAvatarRow, At, TypeOK, Filled, RequestIsFilled
  <2>2. avatars' \in [Avatars -> {"none", "processing", "ready", "failed", "deleted"}]
    BY <1>5, <2>1 DEF DropAvatarRow, TypeOK
  <2> QED BY <1>5, <2>2, AnswerTypes DEF DropAvatarRow, TypeOK, counters
<1> QED BY <1>1, <1>2, <1>3, <1>4, <1>5

\* The task going on, what it has in hand kept.
SameTask == /\ task' \in TaskRecords
            /\ task'.id = task.id /\ task'.step = task.step /\ task'.revision = task.revision
            /\ task'.steps = task.steps /\ task'.avatar = task.avatar /\ task'.key = task.key
TaskPcs == {"queued", "load", "source", "make", "store", "tidy", "discard",
            "build", "commit", "undo", "undofiles", "fail", "end"}
LEMMA GotoTypes ==
    ASSUME TypeOK, task # None, NEW pc \in TaskPcs, Goto(pc)
    PROVE  task \in TaskRecords /\ SameTask /\ task'.pc = pc
<1>1. task \in TaskRecords
  BY DEF TypeOK
<1>2. task' = [task EXCEPT !.pc = pc]
  BY DEF Goto
<1> QED BY <1>1, <1>2 DEF TaskRecords, SameTask, TaskPcs

\* A write of the job's record leaves the rest of the row.
Recorded(state) ==
    /\ row = None => row' = None
    /\ row # None => /\ row \in Rows /\ row' \in Rows /\ row'.old = FALSE
                     /\ row'.status = row.status /\ row'.revision = row.revision
                     /\ row'.steps = row.steps /\ row'.anchors = row.anchors
                     /\ row'.avatar = row.avatar
                     /\ row'.job.id = task.id /\ row'.job.state = state
LEMMA RecordTypes ==
    ASSUME TypeOK, task # None, NEW state \in ActiveStates \cup {"done", "failed", "interrupted"},
           Record(state)
    PROVE  Recorded(state)
<1>1. CASE row = None
  BY <1>1 DEF Record, Recorded
<1>2. CASE row # None
  <2> DEFINE j == Job(task.id, task.step, state)
  <2>1. row \in Rows /\ task \in TaskRecords
    BY <1>2 DEF TypeOK
  <2>2. j \in JobRecords /\ j.id = task.id /\ j.state = state
    <3>1. j \in JobRecords
      BY <2>1, TaskTypes, JobTypes
    <3> QED BY <3>1 DEF Job
  <2>3. row' = [[row EXCEPT !.job = j] EXCEPT !.old = FALSE]
    BY <1>2 DEF Record, Write
  <2> HIDE DEF j
  <2> QED BY <1>2, <2>1, <2>2, <2>3 DEF Recorded, Rows
<1> QED BY <1>1, <1>2

\* A creation caught finishing is a draft again, and the avatar goes unless
\* it is published.
DraftAgain(avatar, j) ==
    /\ IF row # None /\ row.status = "finishing"
       THEN /\ row \in Rows /\ row' \in Rows /\ row'.old = FALSE /\ row'.status = "draft"
            /\ row'.revision = row.revision /\ row'.steps = row.steps
            /\ row'.anchors = row.anchors /\ row'.job = j /\ row'.avatar = None
       ELSE row' = row
    /\ avatars' \in [Avatars -> {"none", "processing", "ready", "failed", "deleted"}]
    /\ avatars'[avatar] = IF avatars[avatar] = "ready" THEN "ready" ELSE "deleted"
    /\ \A a \in Avatars : a # avatar => avatars'[a] = avatars[a]
LEMMA BackToDraftTypes ==
    ASSUME TypeOK, NEW avatar \in Avatars, NEW j,
           row # None /\ row.status = "finishing" => j \in JobRecords, BackToDraft(avatar, j)
    PROVE  DraftAgain(avatar, j)
<1>1. CASE row # None /\ row.status = "finishing"
  <2>1. row \in Rows /\ j \in JobRecords
    BY <1>1 DEF TypeOK
  <2>2. row' = [[row EXCEPT !.status = "draft", !.avatar = None, !.job = j] EXCEPT !.old = FALSE]
    BY <1>1 DEF BackToDraft, Write
  <2>3. /\ row' \in Rows /\ row'.old = FALSE /\ row'.status = "draft"
        /\ row'.revision = row.revision /\ row'.steps = row.steps
        /\ row'.anchors = row.anchors /\ row'.job = j /\ row'.avatar = None
    BY <2>1, <2>2 DEF Rows, Statuses
  <2> QED BY <1>1, <2>1, <2>3 DEF DraftAgain, BackToDraft, TypeOK
<1>2. CASE ~(row # None /\ row.status = "finishing")
  BY <1>2 DEF DraftAgain, BackToDraft, TypeOK
<1> QED BY <1>1, <1>2

LEMMA BeginTypes ==
    ASSUME TypeOK, JobBegins
    PROVE  /\ TypeOK' /\ SameTask
           /\ \/ Recorded("running") /\ task'.pc = "load"
              \/ row' = row /\ task'.pc = "end"
<1>1. task # None
  BY DEF JobBegins, Doing
<1>2. CASE NoFault /\ Record("running") /\ Goto("load")
  <2>1. SameTask /\ task'.pc = "load" /\ Recorded("running")
    BY <1>1, <1>2, GotoTypes, RecordTypes DEF TaskPcs, ActiveStates
  <2>2. row' \in Rows \cup {None} /\ task' \in TaskRecords
    BY <2>1 DEF Recorded, SameTask
  <2> QED BY <1>2, <2>1, <2>2 DEF JobBegins, TypeOK, NoFault
<1>3. CASE Fault /\ UNCHANGED row /\ Goto("end")
  <2>1. SameTask /\ task'.pc = "end" /\ task' \in TaskRecords
    BY <1>1, <1>3, GotoTypes DEF TaskPcs, SameTask
  <2> QED BY <1>3, <2>1, CreationsAssumption DEF JobBegins, TypeOK, Fault
<1> QED BY <1>2, <1>3 DEF JobBegins

LEMMA ReadTypes ==
    ASSUME TypeOK, JobReads
    PROVE  /\ TypeOK' /\ task \in TaskRecords /\ task' \in TaskRecords
           /\ task'.id = task.id /\ task'.step = "prepare" /\ task'.revision = task.revision
           /\ IF row = None THEN task'.pc = "end"
              ELSE task'.pc = "source" /\ task'.steps = row.steps
<1>1. task # None /\ task \in TaskRecords /\ task.step = "prepare"
  BY DEF JobReads, Doing, TypeOK
<1>2. CASE row = None
  BY <1>1, <1>2, GotoTypes DEF JobReads, TaskPcs, SameTask, TypeOK, disk, counters
<1>3. CASE row # None
  <2>1. row \in Rows /\ row.steps \in Steps \cup {None}
    BY <1>3, RowTypes DEF TypeOK
  <2>2. task' = [task EXCEPT !.pc = "source", !.steps = row.steps]
    BY <1>3 DEF JobReads
  <2> DEFINE st == row.steps
  <2>3. task' = [task EXCEPT !.pc = "source", !.steps = st] /\ st \in Steps \cup {None}
    BY <2>1, <2>2
  <2> HIDE DEF st
  <2>4. /\ task' \in TaskRecords /\ task'.id = task.id /\ task'.step = task.step
        /\ task'.revision = task.revision /\ task'.pc = "source" /\ task'.steps = st
    BY <1>1, <2>3 DEF TaskRecords
  <2> QED BY <1>1, <1>3, <2>4 DEF JobReads, TypeOK, disk, counters, st
<1> QED BY <1>2, <1>3

LEMMA LoadTypes ==
    ASSUME TypeOK, JobLoads
    PROVE  TypeOK' /\ SameTask /\ task'.pc \in {"make", "fail"}
<1>1. task # None
  BY DEF JobLoads, Doing
<1>2. Goto("make") \/ Goto("fail")
  BY DEF JobLoads
<1>3. SameTask /\ task'.pc \in {"make", "fail"} /\ task' \in TaskRecords
  BY <1>1, <1>2, GotoTypes DEF TaskPcs, SameTask
<1> QED BY <1>3 DEF JobLoads, TypeOK, disk, counters

LEMMA MakeTypes ==
    ASSUME TypeOK, JobMakes
    PROVE  /\ TypeOK' /\ task \in TaskRecords /\ task' \in TaskRecords
           /\ task'.id = task.id /\ task'.step = task.step /\ task'.revision = task.revision
           /\ task'.pc = "store" /\ task'.key = NewKey /\ NewKey \in Keys
           /\ task'.steps = IF task.step = "prepare" THEN task.steps
                            ELSE IF row = None THEN None ELSE row.steps
           /\ task.step \in {"ingest", "prepare"}
<1>1. task # None /\ task \in TaskRecords /\ task.step \in {"ingest", "prepare"}
  BY DEF JobMakes, Doing, TypeOK
<1> DEFINE st == IF task.step = "prepare" THEN task.steps
                 ELSE IF row = None THEN None ELSE row.steps
           k == NewKey
<1>2. k \in Keys /\ st \in Steps \cup {None}
  <2>1. NewKey \in Keys
    BY DEF JobMakes
  <2>2. task.steps \in Steps \cup {None}
    BY <1>1, TaskTypes
  <2>3. row # None => row.steps \in Steps \cup {None}
    BY RowTypes DEF TypeOK
  <2> QED BY <2>1, <2>2, <2>3
<1>3. task' = [task EXCEPT !.pc = "store", !.key = k, !.steps = st]
  BY DEF JobMakes
<1>4. files' = files \cup {k} /\ usedKeys' = k
  BY DEF JobMakes
<1>5. k \in 0..MaxKeys
  BY <1>2 DEF Keys
<1> HIDE DEF st, k
<1>6. /\ task' \in TaskRecords /\ task'.id = task.id /\ task'.step = task.step
      /\ task'.revision = task.revision /\ task'.pc = "store" /\ task'.key = k /\ task'.steps = st
  BY <1>1, <1>2, <1>3 DEF TaskRecords
<1>7. TypeOK'
  BY <1>2, <1>4, <1>5, <1>6 DEF JobMakes, TypeOK
<1> QED BY <1>1, <1>2, <1>6, <1>7 DEF st, k

LEMMA FailTypes ==
    ASSUME TypeOK, JobFails
    PROVE  TypeOK' /\ SameTask /\ task'.pc = "fail" /\ task.pc \in {"make", "store"}
<1>1. task # None /\ task.pc \in {"make", "store"}
  BY DEF JobFails, Doing
<1>2. SameTask /\ task'.pc = "fail" /\ task' \in TaskRecords
  BY <1>1, GotoTypes DEF JobFails, TaskPcs, SameTask
<1>3. incoming' \in BOOLEAN /\ faults' \in 0..MaxFaults
  <2>1. incoming \in BOOLEAN /\ faults \in 0..MaxFaults
    BY DEF TypeOK
  <2>2. incoming' = incoming \/ incoming' = FALSE
    BY DEF JobFails
  <2>3. faults' \in 0..MaxFaults
    BY <2>1, CreationsAssumption DEF JobFails, Fault, NoFault
  <2> QED BY <2>1, <2>2, <2>3
<1> QED BY <1>1, <1>2, <1>3 DEF JobFails, TypeOK

\* A result is stored over the revision it was made from, or discarded.
LEMMA StoreTypes ==
    ASSUME TypeOK, Filled, StoreResult
    PROVE  /\ TypeOK' /\ SameTask /\ task \in TaskRecords
           /\ IF Unchanged(task.revision)
              THEN /\ task'.pc = "tidy" /\ row \in Rows /\ row' \in Rows
                   /\ row.status = "draft" /\ row.revision = task.revision
                   /\ row'.status = "draft" /\ row'.revision = row.revision + 1
                   /\ row'.steps = Result /\ row'.old = FALSE
                   /\ row'.job.id = task.id /\ row'.job.state = "done" /\ row'.avatar = row.avatar
              ELSE task'.pc = "discard" /\ row' = row
<1>1. task # None /\ task \in TaskRecords /\ task.step \in {"ingest", "prepare"} /\ task.pc = "store"
  BY DEF StoreResult, Doing, TypeOK
<1>2. CASE Unchanged(task.revision)
  <2> DEFINE st == Result
             a == IF task.step = "prepare" THEN Result.original ELSE row.anchors
             n == row.revision + 1
             j == Job(task.id, task.step, "done")
  <2>1. row \in Rows /\ row.status = "draft" /\ row.revision = task.revision
    BY <1>2 DEF Unchanged, TypeOK
  <2>2. st \in Steps /\ Result.original \in Keys \cup {None}
    BY <1>1, ResultSteps DEF Filled
  <2>3. a \in Keys \cup {None} /\ n \in Nat
    BY <2>1, <2>2, RowTypes
  <2>4. j \in JobRecords /\ j.id = task.id /\ j.state = "done"
    <3>1. j \in JobRecords
      BY <1>1, TaskTypes, JobTypes
    <3> QED BY <3>1 DEF Job
  <2>5. row' = [[row EXCEPT !.steps = st, !.revision = n, !.anchors = a, !.job = j] EXCEPT !.old = FALSE]
    BY <1>2 DEF StoreResult, Write
  <2>6. SameTask /\ task'.pc = "tidy" /\ task' \in TaskRecords
    BY <1>1, <1>2, GotoTypes DEF StoreResult, TaskPcs, SameTask
  <2>7. n = row.revision + 1 /\ st = Result
    OBVIOUS
  <2> HIDE DEF st, a, n, j
  <2>8. /\ row' \in Rows /\ row'.status = row.status /\ row'.revision = n
        /\ row'.steps = st /\ row'.old = FALSE /\ row'.job = j /\ row'.avatar = row.avatar
    BY <2>1, <2>2, <2>3, <2>4, <2>5 DEF Rows
  <2>9. TypeOK'
    BY <2>6, <2>8 DEF StoreResult, TypeOK, counters
  <2> QED BY <1>1, <1>2, <2>1, <2>4, <2>6, <2>7, <2>8, <2>9
<1>3. CASE ~Unchanged(task.revision)
  <2>1. SameTask /\ task'.pc = "discard" /\ task' \in TaskRecords /\ row' = row
    BY <1>1, <1>3, GotoTypes DEF StoreResult, TaskPcs, SameTask
  <2> QED BY <1>1, <1>3, <2>1 DEF StoreResult, TypeOK, counters
<1> QED BY <1>2, <1>3

LEMMA TidyTypes ==
    ASSUME TypeOK, JobTidies \/ JobDiscards
    PROVE  TypeOK' /\ SameTask /\ task'.pc \in {"end", "fail"}
<1>1. task # None
  BY DEF JobTidies, JobDiscards, Doing
<1>2. SameTask /\ task'.pc \in {"end", "fail"} /\ task' \in TaskRecords
  BY <1>1, GotoTypes DEF JobTidies, JobDiscards, TaskPcs, SameTask
<1>3. CASE JobTidies
  <2>1. incoming' \in BOOLEAN
    BY <1>3 DEF JobTidies
  <2> QED BY <1>2, <1>3, <2>1 DEF JobTidies, TypeOK, counters
<1>4. CASE JobDiscards
  BY <1>2, <1>4 DEF JobDiscards, TypeOK, counters
<1> QED BY <1>2, <1>3, <1>4

LEMMA FailureTypes ==
    ASSUME TypeOK, JobRecordsFailure
    PROVE  /\ TypeOK' /\ SameTask /\ task'.pc = "end"
           /\ Recorded("failed") \/ row' = row
<1>1. task # None
  BY DEF JobRecordsFailure, Doing
<1>2. SameTask /\ task'.pc = "end" /\ task' \in TaskRecords
  BY <1>1, GotoTypes DEF JobRecordsFailure, TaskPcs, SameTask
<1>3. CASE NoFault /\ Record("failed")
  <2>1. Recorded("failed")
    BY <1>1, <1>3, RecordTypes
  <2>2. row' \in Rows \cup {None}
    BY <2>1 DEF Recorded
  <2> QED BY <1>2, <1>3, <2>1, <2>2 DEF JobRecordsFailure, TypeOK, NoFault
<1>4. CASE Fault /\ UNCHANGED row
  BY <1>2, <1>4, CreationsAssumption DEF JobRecordsFailure, TypeOK, Fault
<1> QED BY <1>3, <1>4 DEF JobRecordsFailure

LEMMA EndTypes == ASSUME TypeOK, JobEnds PROVE TypeOK' /\ task' = None
BY DEF JobEnds, TypeOK, disk, counters

LEMMA FinishLoadTypes ==
    ASSUME TypeOK, FinishLoads
    PROVE  /\ TypeOK' /\ task \in TaskRecords /\ task' \in TaskRecords
           /\ task'.id = task.id /\ task'.step = "finish" /\ task'.revision = task.revision
           /\ IF row # None /\ row.status = "finishing"
              THEN /\ row \in Rows /\ task'.steps = row.steps /\ task'.avatar = row.avatar
                   /\ task'.pc = IF avatars[row.avatar] = "processing" THEN "build" ELSE "undo"
              ELSE task'.pc = "end"
<1>1. task # None /\ task \in TaskRecords /\ task.step = "finish"
  BY DEF FinishLoads, Doing, TypeOK
<1>2. CASE row # None /\ row.status = "finishing"
  <2> DEFINE st == row.steps
             v == row.avatar
             pc == IF avatars[row.avatar] = "processing" THEN "build" ELSE "undo"
  <2>1. row \in Rows /\ st \in Steps \cup {None} /\ v \in Avatars \cup {None} /\ pc \in {"build", "undo"}
    BY <1>2, RowTypes DEF TypeOK
  <2>2. task' = [task EXCEPT !.steps = st, !.avatar = v, !.pc = pc]
    BY <1>2 DEF FinishLoads
  <2> HIDE DEF st, v, pc
  <2>3. /\ task' \in TaskRecords /\ task'.id = task.id /\ task'.step = task.step
        /\ task'.revision = task.revision /\ task'.steps = st /\ task'.avatar = v /\ task'.pc = pc
    BY <1>1, <2>1, <2>2 DEF TaskRecords
  <2>4. TypeOK'
    BY <2>3 DEF FinishLoads, TypeOK, disk, counters
  <2> QED BY <1>1, <1>2, <2>1, <2>3, <2>4 DEF st, v, pc
<1>3. CASE ~(row # None /\ row.status = "finishing")
  <2>1. SameTask /\ task'.pc = "end" /\ task' \in TaskRecords
    BY <1>1, <1>3, GotoTypes DEF FinishLoads, TaskPcs, SameTask
  <2> QED BY <1>1, <1>3, <2>1 DEF FinishLoads, TypeOK, disk, counters, SameTask
<1> QED BY <1>2, <1>3

LEMMA FinishBuildTypes ==
    ASSUME TypeOK, Filled, FinishBuilds
    PROVE  /\ TypeOK' /\ SameTask /\ task.avatar \in Avatars
           /\ \/ task'.pc = "commit" /\ avatarFiles' = avatarFiles \cup {task.avatar}
              \/ task'.pc = "undo" /\ avatarFiles' = avatarFiles
<1>1. task # None /\ task \in TaskRecords /\ task.avatar \in Avatars
  BY TaskTypes DEF FinishBuilds, Doing, TypeOK, Filled, TaskIsFilled, Avatars
<1>2. /\ SameTask /\ task' \in TaskRecords
      /\ \/ task'.pc = "commit" /\ avatarFiles' = avatarFiles \cup {task.avatar}
         \/ task'.pc = "undo" /\ avatarFiles' = avatarFiles
  BY <1>1, GotoTypes DEF FinishBuilds, TaskPcs, SameTask
<1>3. avatarFiles' \subseteq Avatars
  BY <1>1, <1>2 DEF TypeOK
<1> QED BY <1>1, <1>2, <1>3 DEF FinishBuilds, TypeOK, counters

\* The finish's transaction: all of it or none.
LEMMA CommitTypes ==
    ASSUME TypeOK, Filled, FinishCommits
    PROVE  /\ TypeOK' /\ SameTask /\ task \in TaskRecords /\ task.avatar = task.id
           /\ \/ /\ task'.pc = "tidy"
                 /\ row \in Rows /\ row.status = "finishing" /\ avatars[task.avatar] # "deleted"
                 /\ row' \in Rows /\ row'.status = "finished" /\ row'.old = FALSE
                 /\ row'.revision = row.revision /\ row'.steps = row.steps
                 /\ row'.anchors = row.anchors /\ row'.avatar = row.avatar
                 /\ row'.job.id = task.id /\ row'.job.state = "done"
                 /\ avatars' = [avatars EXCEPT ![task.avatar] = "ready"]
              \/ task'.pc = "undo" /\ row' = row /\ avatars' = avatars
<1>1. task # None /\ task \in TaskRecords /\ task.avatar = task.id /\ task.id \in Avatars
  BY TaskTypes DEF FinishCommits, Doing, TypeOK, Filled, TaskIsFilled, Avatars
<1>2. CASE row # None /\ row.status = "finishing" /\ avatars[task.avatar] # "deleted" /\ NoFault /\ Goto("tidy")
           /\ Write([row EXCEPT !.status = "finished", !.job = Job(task.id, "finish", "done")])
           /\ avatars' = [avatars EXCEPT ![task.avatar] = "ready"]
  <2> DEFINE j == Job(task.id, "finish", "done")
  <2>1. j \in JobRecords /\ j.id = task.id /\ j.state = "done"
    <3>1. j \in JobRecords
      BY <1>1, TaskTypes, JobTypes DEF JobKinds
    <3> QED BY <3>1 DEF Job
  <2>2. row \in Rows /\ row' = [[row EXCEPT !.status = "finished", !.job = j] EXCEPT !.old = FALSE]
    BY <1>2 DEF Write, TypeOK
  <2> HIDE DEF j
  <2>3. /\ row' \in Rows /\ row'.status = "finished" /\ row'.old = FALSE
        /\ row'.revision = row.revision /\ row'.steps = row.steps
        /\ row'.anchors = row.anchors /\ row'.avatar = row.avatar /\ row'.job = j
    BY <2>1, <2>2 DEF Rows, Statuses
  <2>4. SameTask /\ task'.pc = "tidy" /\ task' \in TaskRecords
    BY <1>1, <1>2, GotoTypes DEF TaskPcs, SameTask
  <2>5. avatars' \in [Avatars -> {"none", "processing", "ready", "failed", "deleted"}]
    BY <1>1, <1>2 DEF TypeOK
  <2>6. TypeOK'
    BY <1>2, <2>3, <2>4, <2>5 DEF FinishCommits, TypeOK, NoFault
  <2> QED BY <1>1, <1>2, <2>1, <2>2, <2>3, <2>4, <2>6
<1>3. CASE (Fault \/ NoFault) /\ UNCHANGED <<row, avatars>> /\ Goto("undo")
  <2>1. SameTask /\ task'.pc = "undo" /\ task' \in TaskRecords
    BY <1>1, <1>3, GotoTypes DEF TaskPcs, SameTask
  <2>2. faults' \in 0..MaxFaults
    BY <1>3, CreationsAssumption DEF Fault, NoFault, TypeOK
  <2> QED BY <1>1, <1>3, <2>1, <2>2 DEF FinishCommits, TypeOK
<1> QED BY <1>2, <1>3 DEF FinishCommits

LEMMA UndoTypes ==
    ASSUME TypeOK, Filled, FinishUndoes
    PROVE  /\ TypeOK' /\ SameTask /\ task \in TaskRecords /\ task.avatar = task.id /\ task.avatar \in Avatars
           /\ \/ task'.pc = "undofiles" /\ DraftAgain(task.avatar, row.job)
              \/ task'.pc = "fail" /\ row' = row /\ avatars' = avatars
<1>1. task # None /\ task \in TaskRecords /\ task.avatar = task.id /\ task.avatar \in Avatars
  BY TaskTypes DEF FinishUndoes, Doing, TypeOK, Filled, TaskIsFilled, Avatars
<1>2. CASE NoFault /\ BackToDraft(task.avatar, row.job) /\ Goto("undofiles")
  <2>1. row # None => row.job \in JobRecords
    BY RowTypes DEF TypeOK
  <2>2. DraftAgain(task.avatar, row.job)
    BY <1>1, <1>2, <2>1, BackToDraftTypes
  <2>3. SameTask /\ task'.pc = "undofiles" /\ task' \in TaskRecords
    BY <1>1, <1>2, GotoTypes DEF TaskPcs, SameTask
  <2>4. row' \in Rows \cup {None} /\ avatars' \in [Avatars -> {"none", "processing", "ready", "failed", "deleted"}]
    BY <2>2 DEF DraftAgain, TypeOK
  <2> QED BY <1>1, <1>2, <2>2, <2>3, <2>4 DEF FinishUndoes, TypeOK, NoFault
<1>3. CASE Fault /\ UNCHANGED <<row, avatars>> /\ Goto("fail")
  <2>1. SameTask /\ task'.pc = "fail" /\ task' \in TaskRecords
    BY <1>1, <1>3, GotoTypes DEF TaskPcs, SameTask
  <2>2. faults' \in 0..MaxFaults
    BY <1>3, CreationsAssumption DEF Fault, TypeOK
  <2> QED BY <1>1, <1>3, <2>1, <2>2 DEF FinishUndoes, TypeOK
<1> QED BY <1>2, <1>3 DEF FinishUndoes

LEMMA FinishEndTypes ==
    ASSUME TypeOK, FinishUndoesFiles \/ FinishTidies
    PROVE  TypeOK' /\ SameTask /\ task'.pc \in {"end", "fail"}
<1>1. task # None
  BY DEF FinishUndoesFiles, FinishTidies, Doing
<1>2. SameTask /\ task'.pc \in {"end", "fail"} /\ task' \in TaskRecords
  BY <1>1, GotoTypes DEF FinishUndoesFiles, FinishTidies, TaskPcs, SameTask
<1>3. CASE FinishUndoesFiles
  BY <1>2, <1>3 DEF FinishUndoesFiles, TypeOK, counters
<1>4. CASE FinishTidies
  <2>1. files' \subseteq Keys /\ incoming' \in BOOLEAN
    BY <1>4 DEF FinishTidies, TypeOK
  <2>2. faults' \in 0..MaxFaults
    BY <1>4, CreationsAssumption DEF FinishTidies, Fault, NoFault, TypeOK
  <2> QED BY <1>2, <1>4, <2>1, <2>2 DEF FinishTidies, TypeOK
<1> QED BY <1>2, <1>3, <1>4

\* The sweeper reads: what it holds is as the row was.
LEMMA SweepReadTypes ==
    ASSUME TypeOK, RecoverRead \/ ExpireRead \/ PurgeRow
    PROVE  /\ TypeOK' /\ row \in Rows /\ sweep = None /\ sweep' \in SweepRecords
           /\ sweep'.status = row.status /\ sweep'.job = row.job
           /\ \/ RecoverRead /\ sweep'.pc = "check" /\ sweep'.avatar = row.avatar
              \/ ExpireRead /\ sweep'.pc = "expire"
              \/ PurgeRow /\ sweep'.pc = "purge"
<1>1. row \in Rows /\ sweep = None
  BY DEF RecoverRead, ExpireRead, PurgeRow, Stranded, TypeOK
<1> DEFINE Held0(pc, avatar) == [pc |-> pc, status |-> row.status, job |-> row.job, avatar |-> avatar]
<1>2. /\ Held0("check", row.avatar) \in SweepRecords /\ Held0("expire", None) \in SweepRecords
      /\ Held0("purge", None) \in SweepRecords
  BY <1>1, RowTypes DEF SweepRecords
<1>3. /\ RecoverRead => sweep' = Held0("check", row.avatar)
      /\ ExpireRead => sweep' = Held0("expire", None)
      /\ PurgeRow => sweep' = Held0("purge", None)
  BY DEF RecoverRead, ExpireRead, PurgeRow
<1>4. TypeOK'
  <2>1. sweep' \in SweepRecords
    BY <1>2, <1>3
  <2> HIDE DEF Held0
  <2> QED BY <2>1 DEF RecoverRead, ExpireRead, PurgeRow, TypeOK, disk, counters
<1> QED BY <1>1, <1>2, <1>3, <1>4

LEMMA SweepCheckTypes ==
    ASSUME TypeOK, RecoverCheck
    PROVE  /\ TypeOK' /\ sweep \in SweepRecords
           /\ \/ sweep' = None
              \/ /\ active = None /\ sweep' \in SweepRecords /\ sweep'.pc = "write"
                 /\ sweep'.status = sweep.status /\ sweep'.job = sweep.job /\ sweep'.avatar = sweep.avatar
<1>1. sweep \in SweepRecords
  BY DEF RecoverCheck, Sweeping, TypeOK
<1>2. \/ sweep' = None
      \/ /\ active = None /\ sweep' \in SweepRecords /\ sweep'.pc = "write"
         /\ sweep'.status = sweep.status /\ sweep'.job = sweep.job /\ sweep'.avatar = sweep.avatar
  <2>1. CASE active = None
    <3>1. sweep' = [sweep EXCEPT !.pc = "write"]
      BY <2>1 DEF RecoverCheck
    <3> QED BY <1>1, <2>1, <3>1 DEF SweepRecords
  <2> QED BY <2>1 DEF RecoverCheck
<1>3. TypeOK'
  BY <1>2 DEF RecoverCheck, TypeOK, disk, counters
<1> QED BY <1>1, <1>2, <1>3

\* Recovery's update, of the state as read: a finish is undone, a job's record
\* interrupted.
LEMMA RecoverWriteTypes ==
    ASSUME TypeOK, sweep # None /\ sweep.status = "finishing" => sweep.avatar \in Avatars, RecoverWrite
    PROVE  /\ TypeOK' /\ sweep \in SweepRecords
           /\ \/ sweep' = None /\ row' = row /\ avatars' = avatars
              \/ /\ row \in Rows /\ row' \in Rows /\ row.job.id = sweep.job.id
                 /\ row.status = sweep.status /\ row'.job.id = row.job.id /\ row'.old = FALSE
                 /\ row'.revision = row.revision /\ row'.steps = row.steps /\ row'.anchors = row.anchors
                 /\ \/ /\ sweep.status = "finishing" /\ row'.status = "draft"
                       /\ DraftAgain(sweep.avatar, row'.job) /\ sweep.avatar \in Avatars
                       /\ sweep' \in SweepRecords /\ sweep'.pc = "files"
                       /\ sweep'.status = sweep.status /\ sweep'.job = sweep.job /\ sweep'.avatar = sweep.avatar
                    \/ /\ sweep.status # "finishing" /\ row'.status = row.status
                       /\ row'.avatar = row.avatar /\ sweep' = None /\ avatars' = avatars
<1>1. sweep \in SweepRecords /\ sweep # None
  BY DEF RecoverWrite, Sweeping, TypeOK
<1> DEFINE matches == row # None /\ row.status = sweep.status /\ row.job.id = sweep.job.id
           record == IF sweep.job.state \in ActiveStates
                     THEN [sweep.job EXCEPT !.state = "interrupted"] ELSE row.job
<1>2. CASE ~matches
  <2>1. sweep' = None /\ UNCHANGED <<row, avatars>>
    BY <1>2 DEF RecoverWrite
  <2> QED BY <1>1, <2>1 DEF RecoverWrite, TypeOK, counters
<1>3. CASE matches
  <2>1. row \in Rows /\ row.job \in JobRecords /\ sweep.job \in JobRecords
    BY <1>1, <1>3, RowTypes DEF TypeOK, SweepRecords
  <2>2. record \in JobRecords /\ record.id = row.job.id
    BY <1>3, <2>1 DEF JobRecords
  <2>3. CASE sweep.status = "finishing"
    <3>1. BackToDraft(sweep.avatar, record) /\ sweep' = [sweep EXCEPT !.pc = "files"]
      BY <1>3, <2>3 DEF RecoverWrite
    <3>2. sweep.avatar \in Avatars
      BY <1>1, <2>3
    <3> HIDE DEF record
    <3>3. DraftAgain(sweep.avatar, record)
      BY <2>2, <3>1, <3>2, BackToDraftTypes
    <3>4. /\ sweep' \in SweepRecords /\ sweep'.pc = "files"
          /\ sweep'.status = sweep.status /\ sweep'.job = sweep.job /\ sweep'.avatar = sweep.avatar
      BY <1>1, <3>1 DEF SweepRecords
    <3>5. row' \in Rows /\ row'.job = record /\ row'.status = "draft" /\ row'.old = FALSE
          /\ row'.revision = row.revision /\ row'.steps = row.steps /\ row'.anchors = row.anchors
      BY <1>3, <2>3, <3>3 DEF DraftAgain
    <3>6. TypeOK'
      BY <3>3, <3>4, <3>5 DEF RecoverWrite, TypeOK, counters, DraftAgain
    <3> QED BY <1>1, <1>3, <2>1, <2>2, <2>3, <3>2, <3>3, <3>4, <3>5, <3>6
  <2>4. CASE sweep.status # "finishing"
    <3>1. Write([row EXCEPT !.job = record]) /\ sweep' = None /\ UNCHANGED avatars
      BY <1>3, <2>4 DEF RecoverWrite
    <3>2. row' = [[row EXCEPT !.job = record] EXCEPT !.old = FALSE]
      BY <3>1 DEF Write
    <3> HIDE DEF record
    <3>3. /\ row' \in Rows /\ row'.job = record /\ row'.old = FALSE /\ row'.status = row.status
          /\ row'.revision = row.revision /\ row'.steps = row.steps /\ row'.anchors = row.anchors
          /\ row'.avatar = row.avatar
      BY <2>1, <2>2, <3>2 DEF Rows
    <3>4. TypeOK'
      BY <3>1, <3>3 DEF RecoverWrite, TypeOK, counters
    <3> QED BY <1>1, <1>3, <2>1, <2>2, <2>4, <3>1, <3>3, <3>4
  <2> QED BY <2>3, <2>4
<1> QED BY <1>2, <1>3

LEMMA ExpireWriteTypes ==
    ASSUME TypeOK, ExpireWrite
    PROVE  /\ TypeOK' /\ sweep \in SweepRecords
           /\ \/ sweep' = None /\ row' = row
              \/ /\ row \in Rows /\ row' \in Rows /\ row.status = "draft" /\ row.old
                 /\ row'.status = "expired" /\ row'.old = FALSE /\ row'.revision = row.revision
                 /\ row'.job = row.job /\ row'.avatar = row.avatar
                 /\ sweep' \in SweepRecords /\ sweep'.pc = "purge"
                 /\ sweep'.status = sweep.status /\ sweep'.job = sweep.job /\ sweep'.avatar = sweep.avatar
<1>1. sweep \in SweepRecords
  BY DEF ExpireWrite, Sweeping, TypeOK
<1>2. CASE row # None /\ row.status = "draft" /\ row.old
  <2>1. row \in Rows
    BY <1>2 DEF TypeOK
  <2>2. /\ row' = [[row EXCEPT !.status = "expired", !.steps = None, !.anchors = None] EXCEPT !.old = FALSE]
        /\ sweep' = [sweep EXCEPT !.pc = "purge"]
    BY <1>2 DEF ExpireWrite, Write
  <2>3. /\ row' \in Rows /\ row'.status = "expired" /\ row'.old = FALSE /\ row'.revision = row.revision
        /\ row'.job = row.job /\ row'.avatar = row.avatar
    BY <2>1, <2>2 DEF Rows, Statuses
  <2>4. /\ sweep' \in SweepRecords /\ sweep'.pc = "purge"
        /\ sweep'.status = sweep.status /\ sweep'.job = sweep.job /\ sweep'.avatar = sweep.avatar
    BY <1>1, <2>2 DEF SweepRecords
  <2>5. TypeOK'
    BY <2>3, <2>4 DEF ExpireWrite, TypeOK, counters
  <2> QED BY <1>1, <1>2, <2>1, <2>3, <2>4, <2>5
<1>3. CASE ~(row # None /\ row.status = "draft" /\ row.old)
  BY <1>1, <1>3 DEF ExpireWrite, TypeOK, counters
<1> QED BY <1>2, <1>3

LEMMA SweepEndTypes == ASSUME TypeOK, RecoverFiles \/ PurgeFiles PROVE TypeOK' /\ sweep' = None
<1>1. CASE RecoverFiles
  BY <1>1 DEF RecoverFiles, TypeOK, counters
<1>2. CASE PurgeFiles
  BY <1>2 DEF PurgeFiles, TypeOK, counters
<1> QED BY <1>1, <1>2

LEMMA TimeTypes ==
    ASSUME TypeOK, TimePasses
    PROVE  /\ TypeOK' /\ row \in Rows /\ row' \in Rows /\ row'.old
           /\ row'.status = row.status /\ row'.revision = row.revision /\ row'.job = row.job
           /\ row'.avatar = row.avatar /\ row'.steps = row.steps /\ row'.anchors = row.anchors
<1>1. row \in Rows /\ row' = [row EXCEPT !.old = TRUE]
  BY DEF TimePasses, TypeOK
<1>2. /\ row' \in Rows /\ row'.old
      /\ row'.status = row.status /\ row'.revision = row.revision /\ row'.job = row.job
      /\ row'.avatar = row.avatar /\ row'.steps = row.steps /\ row'.anchors = row.anchors
  BY <1>1 DEF Rows
<1> QED BY <1>1, <1>2 DEF TimePasses, TypeOK, memory, counters

LEMMA CrashTypes ==
    ASSUME TypeOK, Crash
    PROVE  TypeOK' /\ task' = None /\ sweep' = None /\ crashes' > 0 /\ \A r \in Requests : req'[r] = None
<1>1. crashes' \in 0..MaxCrashes /\ crashes' > 0
  BY CreationsAssumption DEF Crash, TypeOK
<1>2. req' \in [Requests -> RequestRecords \cup {None}] /\ \A r \in Requests : req'[r] = None
  BY DEF Crash
<1> QED BY <1>1, <1>2 DEF Crash, TypeOK, disk

LEMMA BootTypes == ASSUME TypeOK, Boot PROVE TypeOK'
<1>1. avatars' \in [Avatars -> {"none", "processing", "ready", "failed", "deleted"}]
  BY DEF Boot, TypeOK
<1> QED BY <1>1 DEF Boot, TypeOK, counters

-----------------------------------------------------------------------------
(* Each part of the invariant is kept                                      *)

Inv == /\ TypeOK /\ Filled /\ Idle /\ Revised
       /\ OneJob /\ Avatared /\ Published /\ Owned /\ AvatarWhole
       /\ FilesApart /\ FilesThere /\ NothingLeft

LEMMA TypesKept == ASSUME TypeOK, Filled, Avatared, [Next]_vars PROVE TypeOK'
<1>1. CASE \E r \in Requests, kind \in Kinds : Receive(r, kind)
  BY <1>1, ReceiveTypes
<1>2. CASE \E r \in Requests : Serve(r)
  BY <1>2, EditTypes, EditWriteTypes, Admission, EnqueueTypes, DeleteTypes DEF Serve
<1>3. CASE Work
  BY <1>3, BeginTypes, ReadTypes, LoadTypes, MakeTypes, FailTypes, StoreTypes, TidyTypes,
     FailureTypes, EndTypes, FinishLoadTypes, FinishBuildTypes, CommitTypes, UndoTypes,
     FinishEndTypes DEF Work
<1>4. CASE Sweep
  <2>1. sweep # None /\ sweep.status = "finishing" => sweep.avatar \in Avatars
    BY DEF Avatared, TypeOK, SweepRecords, JobRecords, Avatars
  <2> QED BY <1>4, <2>1, SweepReadTypes, SweepCheckTypes, RecoverWriteTypes, ExpireWriteTypes,
             SweepEndTypes DEF Sweep
<1>5. CASE TimePasses \/ Crash \/ Boot
  BY <1>5, TimeTypes, CrashTypes, BootTypes
<1>6. CASE UNCHANGED vars
  BY <1>6 DEF TypeOK, vars, disk, memory, counters
<1> QED BY <1>1, <1>2, <1>3, <1>4, <1>5, <1>6 DEF Next

\* A deleted creation never comes back.
LEMMA RowStaysGone == ASSUME TypeOK, [Next]_vars, row = None PROVE row' = None
<1>1. CASE \E r \in Requests, kind \in Kinds : Receive(r, kind)
  BY <1>1 DEF Receive
<1>2. ASSUME NEW r \in Requests, Serve(r) PROVE row' = None
  BY <1>2 DEF Serve, EditLoads, EditPut, EditWrite, EditTidy, Admit, Enqueue, DeleteFiles, DeleteRow,
              DeleteFilesAgain, DropAvatarFiles, DropAvatarRow, Unchanged, disk
<1>3. CASE Work
  BY <1>3 DEF Work, JobBegins, JobReads, JobLoads, JobMakes, JobFails, StoreResult, JobTidies, JobDiscards,
              JobRecordsFailure, JobEnds, FinishLoads, FinishBuilds, FinishCommits, FinishUndoes,
              FinishUndoesFiles, FinishTidies, Record, Unchanged, BackToDraft, disk
<1>4. CASE Sweep
  BY <1>4 DEF Sweep, RecoverRead, RecoverCheck, RecoverWrite, RecoverFiles, ExpireRead, ExpireWrite,
              PurgeRow, PurgeFiles, BackToDraft, disk
<1>5. CASE TimePasses \/ Crash \/ Boot \/ UNCHANGED vars
  BY <1>5 DEF TimePasses, Crash, Boot, vars, disk
<1> QED BY <1>1, <1>2, <1>3, <1>4, <1>5 DEF Next

\* What a request has in hand is enough for its next step.
LEMMA FilledRequest ==
    ASSUME TypeOK, Filled, [Next]_vars, UNCHANGED task, NEW r \in Requests,
           \A q \in Requests : q # r => req'[q] = req[q],
           req'[r] # None => RequestIsFilled(req[r])'
    PROVE  Filled'
BY RowStaysGone DEF Filled, RequestIsFilled, TaskIsFilled

LEMMA FilledTask ==
    ASSUME TypeOK, Filled, [Next]_vars, UNCHANGED req, task' # None => TaskIsFilled(task')
    PROVE  Filled'
BY RowStaysGone DEF Filled, RequestIsFilled, TaskIsFilled

LEMMA FilledReceived ==
    ASSUME TypeOK, NEW r \in Requests, NEW kind \in Kinds, Receive(r, kind)
    PROVE  RequestIsFilled(req[r])' /\ \A q \in Requests : q # r => req'[q] = req[q]
<1> DEFINE q == [pc |-> "read", kind |-> kind, key |-> None, doomed |-> {}, job |-> None,
                 revision |-> IF kind \in {"delete", "drop"} THEN 0 ELSE row.revision,
                 steps |-> IF kind \in EditKinds \cup {"prepare"} THEN row.steps ELSE None,
                 avatar |-> IF kind = "drop" THEN row.avatar ELSE None]
<1>1. req'[r] = q /\ \A x \in Requests : x # r => req'[x] = req[x]
  BY DEF Receive, TypeOK
<1>2. /\ q.kind = kind /\ q.pc = "read"
      /\ kind \in EditKinds \cup {"prepare"} => q.steps = row.steps
      /\ kind = "drop" => q.avatar = row.avatar
      /\ q.key = None
  BY DEF EditKinds
<1> HIDE DEF q
<1>3. kind \in EditKinds \cup {"prepare"} => row.steps # None /\ row.steps.original # None
  BY DEF Receive, Accepts, Editable, HasImage, EditKinds
<1>4. kind = "drop" => row.avatar # None
  BY DEF Receive, Accepts, EditKinds
<1> QED BY <1>1, <1>2, <1>3, <1>4 DEF RequestIsFilled

LEMMA FilledServed ==
    ASSUME Inv, [Next]_vars, NEW r \in Requests, Serve(r) PROVE Filled'
<1> USE DEF Inv
<1>1. CASE EditLoads(r)
  <2>1. CASE To(r, "loaded")
    <3>1. req[r] # None /\ RequestIsFilled(req[r]) /\ req[r].kind = "frame"
      BY <1>1 DEF EditLoads, At, Filled
    <3>2. SameRequest(r) /\ req'[r].pc = "loaded" /\ \A q \in Requests : q # r => req'[q] = req[q]
      BY <2>1, <3>1, ToTypes, ToKeeps
    <3>3. RequestIsFilled(req[r])'
      BY <3>1, <3>2 DEF RequestIsFilled, SameRequest, EditKinds
    <3> QED BY <1>1, <3>2, <3>3, FilledRequest DEF EditLoads
  <2>2. CASE Answer(r)
    BY <1>1, <2>2, AnswerTypes, FilledRequest DEF EditLoads
  <2> QED BY <1>1, <2>1, <2>2 DEF EditLoads
<1>2. CASE EditPut(r)
  <2>1. CASE NewKey \in Keys
    <3> DEFINE k == NewKey
    <3>1. req[r] \in RequestRecords /\ req[r].kind = "frame" /\ RequestIsFilled(req[r])
      BY <1>2 DEF EditPut, At, TypeOK, Filled
    <3>2. req' = [req EXCEPT ![r].pc = "made", ![r].key = k] /\ k # None
      BY <1>2, <2>1, NoneIsNone DEF EditPut
    <3> HIDE DEF k
    <3>3. /\ req'[r] = [req[r] EXCEPT !.pc = "made", !.key = k]
          /\ \A q \in Requests : q # r => req'[q] = req[q]
      BY <3>2 DEF TypeOK
    <3>4. /\ req'[r].pc = "made" /\ req'[r].key = k /\ req'[r].kind = "frame" /\ req'[r].steps = req[r].steps
      BY <3>1, <3>3 DEF RequestRecords
    <3>5. RequestIsFilled(req[r])'
      BY <3>1, <3>2, <3>4 DEF RequestIsFilled, EditKinds
    <3> QED BY <1>2, <3>3, <3>5, FilledRequest DEF EditPut
  <2>2. CASE NewKey \notin Keys
    BY <1>2, <2>2, AnswerTypes, FilledRequest DEF EditPut
  <2> QED BY <2>1, <2>2
<1>3. CASE EditWrite(r)
  <2>1. /\ req[r] \in RequestRecords /\ req[r].kind \in EditKinds /\ RequestIsFilled(req[r])
    BY <1>3, EditWrites DEF EditWrite, At, Filled, EditKinds
  <2>2. \A q \in Requests : q # r => req'[q] = req[q]
    BY <1>3, EditWrites
  <2>3. /\ req'[r].pc = "tidy" /\ req'[r].kind = req[r].kind /\ req'[r].steps = req[r].steps
        /\ req'[r].key = req[r].key
    BY <1>3, <2>1, EditWrites DEF RequestRecords
  <2>4. RequestIsFilled(req[r])'
    BY <2>1, <2>3 DEF RequestIsFilled, EditKinds
  <2> QED BY <1>3, <2>2, <2>4, FilledRequest DEF EditWrite
<1>4. CASE EditTidy(r)
  BY <1>4, AnswerTypes, FilledRequest DEF EditTidy
<1>5. CASE Admit(r)
  <2>1. CASE req'[r] = None
    BY <1>5, <2>1, Admission, FilledRequest DEF Admit
  <2>2. CASE /\ req[r] \in RequestRecords
             /\ req'[r] = [req[r] EXCEPT !.pc = "admitted", !.job = usedJobs + 1]
    <3>1. req[r].kind \in JobKinds /\ RequestIsFilled(req[r]) /\ usedJobs + 1 # None
      BY <1>5, NoneIsNone DEF Admit, At, Filled, TypeOK, JobIds
    <3> DEFINE n == usedJobs + 1
    <3>2. n # None /\ req'[r] = [req[r] EXCEPT !.pc = "admitted", !.job = n]
      BY <2>2, <3>1
    <3> HIDE DEF n
    <3>3. req'[r].pc = "admitted" /\ req'[r].kind = req[r].kind /\ req'[r].steps = req[r].steps /\ req'[r].job = n
      BY <2>2, <3>2 DEF RequestRecords
    <3>4. RequestIsFilled(req[r])'
      BY <3>1, <3>2, <3>3 DEF RequestIsFilled, JobKinds, EditKinds
    <3> QED BY <1>5, <3>4, Admission, FilledRequest DEF Admit
  <2> QED BY <1>5, <2>1, <2>2, Admission
<1>6. CASE Enqueue(r)
  <2>1. task' = task \/ task'.pc = "queued"
    BY <1>6 DEF Enqueue
  <2>2. task' # None => TaskIsFilled(task')
    BY <2>1 DEF Filled, TaskIsFilled
  <2>3. req'[r] = None /\ \A q \in Requests : q # r => req'[q] = req[q]
    BY <1>6, EnqueueTypes
  <2>4. \A q \in Requests : req'[q] # None => RequestIsFilled(req[q])'
    BY <2>3, RowStaysGone DEF Filled, RequestIsFilled
  <2> QED BY <2>2, <2>4 DEF Filled
<1>7. CASE DeleteFiles(r) \/ DeleteRow(r) \/ DropAvatarFiles(r)
  <2>1. req[r] # None /\ RequestIsFilled(req[r]) /\ req[r].kind \in {"delete", "drop"}
    BY <1>7 DEF DeleteFiles, DeleteRow, DropAvatarFiles, At, Filled
  <2>2. /\ SameRequest(r) /\ \A q \in Requests : q # r => req'[q] = req[q]
        /\ req'[r].pc = "row" \/ (req'[r].pc = "again" /\ req[r].kind = "delete" /\ row' = None)
    BY <1>7, <2>1, ToTypes, ToKeeps DEF DeleteFiles, DeleteRow, DropAvatarFiles, At
  <2>3. RequestIsFilled(req[r])'
    BY <2>1, <2>2 DEF RequestIsFilled, SameRequest, EditKinds
  <2> QED BY <1>7, <2>2, <2>3, FilledRequest DEF DeleteFiles, DeleteRow, DropAvatarFiles
<1>8. CASE DeleteFilesAgain(r) \/ DropAvatarRow(r)
  BY <1>8, AnswerTypes, FilledRequest DEF DeleteFilesAgain, DropAvatarRow
<1> QED BY <1>1, <1>2, <1>3, <1>4, <1>5, <1>6, <1>7, <1>8 DEF Serve

LEMMA FilledWork == ASSUME Inv, [Next]_vars, Work PROVE Filled'
<1> USE DEF Inv
<1>1. UNCHANGED req
  BY DEF Work, JobBegins, JobReads, JobLoads, JobMakes, JobFails, StoreResult, JobTidies, JobDiscards,
         JobRecordsFailure, JobEnds, FinishLoads, FinishBuilds, FinishCommits, FinishUndoes,
         FinishUndoesFiles, FinishTidies
<1>2. task # None /\ task \in TaskRecords /\ TaskIsFilled(task)
  BY DEF Work, JobBegins, JobReads, JobLoads, JobMakes, JobFails, StoreResult, JobTidies, JobDiscards,
         JobRecordsFailure, JobEnds, FinishLoads, FinishBuilds, FinishCommits, FinishUndoes,
         FinishUndoesFiles, FinishTidies, Doing, Filled, TypeOK
<1>3. task' # None => TaskIsFilled(task')
  <2>1. CASE JobBegins
    BY <1>2, <2>1, BeginTypes DEF TaskIsFilled, SameTask
  <2>2. CASE JobReads
    <3>1. row # None => row.steps # None
      BY <1>2 DEF Idle
    <3> QED BY <1>2, <2>2, <3>1, ReadTypes DEF TaskIsFilled
  <2>3. CASE JobLoads
    BY <1>2, <2>3, LoadTypes DEF TaskIsFilled, SameTask, JobLoads, Doing
  <2>4. CASE JobMakes
    BY <1>2, <2>4, MakeTypes, NoneIsNone DEF TaskIsFilled, JobMakes, Doing
  <2>5. CASE StoreResult
    <3>1. task.step # "finish" /\ task.pc = "store"
      BY <2>5 DEF StoreResult, Doing
    <3> QED BY <1>2, <2>5, <3>1, StoreTypes DEF TaskIsFilled, SameTask
  <2>6. CASE FinishLoads
    <3>1. row # None /\ row.status = "finishing" => row.avatar = task.id /\ row.steps # None
      BY <1>2 DEF Avatared, OneJob, Idle
    <3> QED BY <1>2, <2>6, <3>1, FinishLoadTypes DEF TaskIsFilled
  <2>7. CASE FinishBuilds \/ FinishCommits \/ FinishUndoes
    <3>1. task.pc \in {"build", "commit", "undo"}
      BY <2>7 DEF FinishBuilds, FinishCommits, FinishUndoes, Doing
    <3>2. SameTask /\ task'.pc \in {"commit", "undo", "tidy", "undofiles", "fail"}
      BY <2>7, FinishBuildTypes, CommitTypes, UndoTypes
    <3> QED BY <1>2, <3>1, <3>2 DEF TaskIsFilled, SameTask
  <2>8. CASE JobFails \/ JobTidies \/ JobDiscards \/ JobRecordsFailure \/ FinishUndoesFiles \/ FinishTidies
    <3>1. task'.pc \in {"end", "fail"}
      BY <2>8, FailTypes, TidyTypes, FailureTypes, FinishEndTypes
    <3> QED BY <3>1 DEF TaskIsFilled
  <2>9. CASE JobEnds
    BY <2>9 DEF JobEnds
  <2> QED BY <2>1, <2>2, <2>3, <2>4, <2>5, <2>6, <2>7, <2>8, <2>9 DEF Work
<1> QED BY <1>1, <1>3, FilledTask

LEMMA FilledKept == ASSUME Inv, [Next]_vars PROVE Filled'
<1> USE DEF Inv
<1>1. ASSUME NEW r \in Requests, NEW kind \in Kinds, Receive(r, kind) PROVE Filled'
  BY <1>1, FilledReceived, FilledRequest DEF Receive
<1>2. CASE \E r \in Requests : Serve(r)
  BY <1>2, FilledServed
<1>3. CASE Work
  BY <1>3, FilledWork
<1>4. CASE Sweep \/ TimePasses \/ Boot \/ UNCHANGED vars
  <2>1. UNCHANGED <<req, task>>
    BY <1>4 DEF Sweep, RecoverRead, RecoverCheck, RecoverWrite, RecoverFiles, ExpireRead, ExpireWrite,
                PurgeRow, PurgeFiles, TimePasses, Boot, vars, memory
  <2> QED BY <2>1, FilledTask DEF Filled
<1>5. CASE Crash
  BY <1>5, CrashTypes DEF Filled
<1> QED BY <1>1, <1>2, <1>3, <1>4, <1>5 DEF Next

\* What the actions of each coroutine leave alone.
LEMMA ServeFrame ==
    ASSUME Inv, NEW r \in Requests, Serve(r)
    PROVE  /\ UNCHANGED <<sweep, up, crashes, faults>>
           /\ EditWrite(r) \/ Enqueue(r) \/ DeleteRow(r) \/ UNCHANGED row
           /\ Enqueue(r) \/ UNCHANGED task
           /\ Enqueue(r) \/ DropAvatarRow(r) \/ UNCHANGED avatars
           /\ DropAvatarFiles(r) \/ UNCHANGED avatarFiles
           /\ Admit(r) \/ Enqueue(r) \/ UNCHANGED active
           /\ Admit(r) \/ UNCHANGED usedJobs
           /\ EditPut(r) \/ UNCHANGED usedKeys
           /\ req[r] # None /\ req[r] \in RequestRecords /\ RequestIsFilled(req[r])
           /\ \A q \in Requests : q # r => req'[q] = req[q]
<1> USE DEF Inv
<1>1. req[r] # None /\ req[r] \in RequestRecords /\ RequestIsFilled(req[r])
  BY DEF Serve, EditLoads, EditPut, EditWrite, EditTidy, Admit, Enqueue, DeleteFiles, DeleteRow,
         DeleteFilesAgain, DropAvatarFiles, DropAvatarRow, At, TypeOK, Filled
<1>2. \A q \in Requests : q # r => req'[q] = req[q]
  BY DEF Serve, EditLoads, EditPut, EditWrite, EditTidy, Admit, Enqueue, DeleteFiles, DeleteRow,
         DeleteFilesAgain, DropAvatarFiles, DropAvatarRow, To, Answer, TypeOK
<1> QED BY <1>1, <1>2 DEF Serve, EditLoads, EditPut, EditWrite, EditTidy, Admit, Enqueue, DeleteFiles,
         DeleteRow, DeleteFilesAgain, DropAvatarFiles, DropAvatarRow, disk, counters

LEMMA WorkFrame ==
    ASSUME Inv, Work
    PROVE  /\ UNCHANGED <<req, sweep, up, usedJobs, crashes>>
           /\ task # None /\ task \in TaskRecords /\ TaskIsFilled(task)
           /\ FinishBuilds \/ FinishUndoesFiles \/ UNCHANGED avatarFiles
           /\ FinishCommits \/ FinishUndoes \/ UNCHANGED avatars
           /\ JobMakes \/ UNCHANGED usedKeys
           /\ \/ JobEnds /\ task' = None
              \/ task' # None /\ task'.id = task.id /\ task'.step = task.step
                   /\ task'.revision = task.revision /\ UNCHANGED active
<1> USE DEF Inv
<1>1. task # None /\ task \in TaskRecords /\ TaskIsFilled(task)
  BY DEF Work, JobBegins, JobReads, JobLoads, JobMakes, JobFails, StoreResult, JobTidies, JobDiscards,
         JobRecordsFailure, JobEnds, FinishLoads, FinishBuilds, FinishCommits, FinishUndoes,
         FinishUndoesFiles, FinishTidies, Doing, Filled, TypeOK
<1>2. /\ UNCHANGED <<req, sweep, up, usedJobs, crashes>>
      /\ FinishBuilds \/ FinishUndoesFiles \/ UNCHANGED avatarFiles
      /\ FinishCommits \/ FinishUndoes \/ UNCHANGED avatars
      /\ JobMakes \/ UNCHANGED usedKeys
      /\ JobEnds \/ UNCHANGED active
  BY DEF Work, JobBegins, JobReads, JobLoads, JobMakes, JobFails, StoreResult, JobTidies, JobDiscards,
         JobRecordsFailure, JobEnds, FinishLoads, FinishBuilds, FinishCommits, FinishUndoes,
         FinishUndoesFiles, FinishTidies, disk, counters
<1>3. \/ JobEnds /\ task' = None
      \/ task' \in TaskRecords /\ task'.id = task.id /\ task'.step = task.step
           /\ task'.revision = task.revision
  <2>1. CASE JobBegins \/ JobLoads \/ JobFails \/ StoreResult \/ JobTidies \/ JobDiscards
             \/ JobRecordsFailure \/ FinishBuilds \/ FinishCommits \/ FinishUndoes
             \/ FinishUndoesFiles \/ FinishTidies
    <3>1. SameTask
      BY <2>1, BeginTypes, LoadTypes, FailTypes, StoreTypes, TidyTypes, FailureTypes,
         FinishBuildTypes, CommitTypes, UndoTypes, FinishEndTypes
    <3> QED BY <3>1 DEF SameTask
  <2>2. CASE JobReads \/ JobMakes \/ FinishLoads
    <3>1. task.step = "prepare" \/ ~JobReads
      BY DEF JobReads, Doing
    <3>2. task.step = "finish" \/ ~FinishLoads
      BY DEF FinishLoads, Doing
    <3> QED BY <2>2, <3>1, <3>2, ReadTypes, MakeTypes, FinishLoadTypes
  <2>3. CASE JobEnds
    BY <2>3 DEF JobEnds
  <2> QED BY <2>1, <2>2, <2>3 DEF Work
<1>4. JobEnds => task' = None
  BY DEF JobEnds
<1>5. None \notin TaskRecords
  BY NoneIsNone
<1> QED BY <1>1, <1>2, <1>3, <1>4, <1>5

LEMMA SweepFrame ==
    ASSUME Sweep
    PROVE  /\ UNCHANGED <<req, active, task, up, counters>>
           /\ RecoverWrite \/ UNCHANGED avatars
           /\ RecoverFiles \/ UNCHANGED avatarFiles
           /\ RecoverWrite \/ ExpireWrite \/ PurgeRow \/ UNCHANGED row
BY DEF Sweep, RecoverRead, RecoverCheck, RecoverWrite, RecoverFiles, ExpireRead, ExpireWrite,
       PurgeRow, PurgeFiles, disk

\* What a job's task makes of the row: a record, a result, a finish, or a
\* finish undone.
Records == /\ row'.status = row.status /\ row'.revision = row.revision /\ row'.steps = row.steps
           /\ row'.anchors = row.anchors /\ row'.avatar = row.avatar /\ UNCHANGED avatars
           /\ row'.job.state \in {"running", "failed"}
Stores == /\ StoreResult /\ row.status = "draft" /\ row.revision = task.revision /\ task'.pc = "tidy"
          /\ row'.status = "draft" /\ row'.revision = row.revision + 1 /\ row'.steps = Result
          /\ row'.avatar = row.avatar /\ row'.job.state = "done" /\ UNCHANGED avatars
Publishes == /\ FinishCommits /\ row.status = "finishing" /\ row'.status = "finished" /\ task'.pc = "tidy"
             /\ row'.revision = row.revision /\ row'.steps = row.steps /\ row'.anchors = row.anchors
             /\ row'.avatar = row.avatar /\ row'.job.state = "done" /\ avatars[task.avatar] # "deleted"
             /\ avatars' = [avatars EXCEPT ![task.avatar] = "ready"]
Undoes == /\ FinishUndoes /\ row.status = "finishing" /\ row'.status = "draft" /\ task'.pc = "undofiles"
          /\ row'.revision = row.revision /\ row'.steps = row.steps /\ row'.anchors = row.anchors
          /\ row'.job = row.job /\ DraftAgain(task.avatar, row.job)
LEMMA WorkRow ==
    ASSUME Inv, Work
    PROVE  \/ row' = row
           \/ /\ row \in Rows /\ row' \in Rows /\ row'.old = FALSE
              /\ row.job.id = task.id /\ row'.job.id = task.id
              /\ Records \/ Stores \/ Publishes \/ Undoes
<1> USE DEF Inv
<1>1. row # None => row \in Rows /\ row.job.id = task.id
  BY WorkFrame DEF OneJob, TypeOK
<1>2. CASE JobBegins \/ JobRecordsFailure
  <2>1. row' = row \/ Recorded("running") \/ Recorded("failed")
    BY <1>2, BeginTypes, FailureTypes
  <2>2. UNCHANGED avatars
    BY <1>2 DEF JobBegins, JobRecordsFailure
  <2> QED BY <1>1, <2>1, <2>2 DEF Recorded, Records
<1>3. CASE StoreResult
  <2>1. UNCHANGED avatars
    BY <1>3 DEF StoreResult
  <2> QED BY <1>1, <1>3, <2>1, StoreTypes, NoneIsNone DEF Stores
<1>4. CASE FinishCommits
  BY <1>1, <1>4, CommitTypes, NoneIsNone DEF Publishes
<1>5. CASE FinishUndoes
  <2>1. \/ row' = row
        \/ task'.pc = "undofiles" /\ DraftAgain(task.avatar, row.job) /\ row # None /\ row.status = "finishing"
    BY <1>5, UndoTypes DEF DraftAgain
  <2> QED BY <1>1, <1>5, <2>1 DEF Undoes, DraftAgain
<1>6. CASE ~(JobBegins \/ JobRecordsFailure \/ StoreResult \/ FinishCommits \/ FinishUndoes)
  BY <1>6 DEF Work, JobReads, JobLoads, JobMakes, JobFails, JobTidies, JobDiscards, JobEnds,
         FinishLoads, FinishBuilds, FinishUndoesFiles, FinishTidies, disk
<1> QED BY <1>2, <1>3, <1>4, <1>5, <1>6

LEMMA IdleKept == ASSUME Inv, [Next]_vars PROVE Idle'
<1> USE DEF Inv
<1>1. ASSUME UNCHANGED row, task' = task \/ task' = None PROVE Idle'
  BY <1>1 DEF Idle
<1>2. CASE \E r \in Requests, kind \in Kinds : Receive(r, kind)
  BY <1>1, <1>2 DEF Receive, disk
<1>3. ASSUME NEW r \in Requests, Serve(r) PROVE Idle'
  <2>1. CASE EditWrite(r)
    <3>1. CASE Unchanged(req[r].revision)
      <4>1. row'.steps # None /\ row'.status = "draft" /\ row'.old = FALSE
        <5>1. Edited(req[r]) \in Steps
          BY <2>1, EditWrites
        <5>2. row'.steps = Edited(req[r]) /\ row'.status = "draft" /\ row'.old = FALSE
          BY <2>1, <3>1, <5>1, EditedRow
        <5> QED BY <5>1, <5>2, NoneIsNone
      <4> QED BY <4>1 DEF Idle
    <3>2. CASE ~Unchanged(req[r].revision)
      BY <1>1, <2>1, <3>2 DEF EditWrite
    <3> QED BY <3>1, <3>2
  <2>2. CASE Enqueue(r)
    <3>1. CASE Unchanged(req[r].revision)
      <4>1. /\ row # None /\ row.status = "draft" /\ row'.old = FALSE /\ row'.status \in {"finishing", "draft"}
            /\ row'.steps = IF req[r].kind = "prepare" THEN [req[r].steps EXCEPT !.plan = TRUE] ELSE row.steps
        BY <2>2, <3>1, QueuedRow, NoneIsNone
      <4>2. req[r].kind = "prepare" => [req[r].steps EXCEPT !.plan = TRUE] # None
        <5>1. req[r].kind = "prepare" => req[r].steps \in Steps
          BY <1>3, ServeFrame, RequestTypes DEF RequestIsFilled
        <5> QED BY <5>1, PlannedSteps, NoneIsNone
      <4> QED BY <4>1, <4>2 DEF Idle
    <3>2. CASE ~Unchanged(req[r].revision)
      BY <1>1, <2>2, <3>2 DEF Enqueue
    <3> QED BY <3>1, <3>2
  <2>3. CASE DeleteRow(r)
    BY <2>3 DEF DeleteRow, Idle
  <2> QED BY <1>1, <1>3, <2>1, <2>2, <2>3, ServeFrame
<1>4. CASE Work
  <2>1. CASE row' = row
    BY <1>4, <2>1, WorkFrame DEF Idle
  <2>2. CASE row' # row
    <3>1. row \in Rows /\ row # None /\ row'.old = FALSE
      BY <1>4, <2>2, WorkRow, NoneIsNone
    <3>2. row.status # "expired" /\ row.steps # None
      BY <1>4, <3>1, WorkFrame DEF Idle
    <3>3. task.pc = "store" /\ task.step # "finish" => Result # None
      BY <1>4, WorkFrame, ResultSteps, NoneIsNone
    <3>4. row'.status # "expired" /\ row'.steps # None
      BY <1>4, <2>2, <3>2, <3>3, WorkRow DEF Records, Stores, Publishes, Undoes, StoreResult, Doing
    <3> QED BY <3>1, <3>4 DEF Idle
  <2> QED BY <2>1, <2>2
<1>5. CASE Sweep
  <2>1. UNCHANGED task
    BY <1>5, SweepFrame
  <2>2. CASE RecoverWrite
    <3>1. sweep # None /\ sweep.status = "finishing" => sweep.avatar \in Avatars
      BY DEF Avatared, TypeOK, SweepRecords, JobRecords, Avatars
    <3>2. \/ row' = row
          \/ /\ row # None /\ row'.steps = row.steps /\ row'.old = FALSE
             /\ (row'.status = "draft" /\ row.status = "finishing") \/ row'.status = row.status
      BY <2>2, <3>1, RecoverWriteTypes, NoneIsNone
    <3> QED BY <2>1, <3>2 DEF Idle
  <2>3. CASE ExpireWrite
    BY <2>1, <2>3, ExpireWriteTypes, NoneIsNone DEF Idle
  <2>4. CASE PurgeRow
    BY <2>4 DEF PurgeRow, Idle
  <2> QED BY <1>1, <1>5, <2>1, <2>2, <2>3, <2>4, SweepFrame
<1>6. CASE TimePasses
  BY <1>6, TimeTypes, NoneIsNone DEF TimePasses, Quiet, Idle, memory
<1>7. CASE Crash \/ Boot \/ UNCHANGED vars
  BY <1>1, <1>7 DEF Crash, Boot, vars, memory, disk
<1> QED BY <1>2, <1>3, <1>4, <1>5, <1>6, <1>7 DEF Next

\* Recovery's avatar is one of the creation's jobs'.
LEMMA SweepAvatar ==
    ASSUME TypeOK, Avatared, sweep # None, sweep.status = "finishing"
    PROVE  sweep.avatar \in Avatars
BY DEF Avatared, TypeOK, SweepRecords, JobRecords, Avatars

LEMMA RecoverWriteSteps ==
    ASSUME TypeOK, Avatared, RecoverWrite
    PROVE  /\ sweep \in SweepRecords
           /\ \/ sweep' = None /\ row' = row /\ avatars' = avatars
              \/ /\ row \in Rows /\ row' \in Rows /\ row.job.id = sweep.job.id
                 /\ row.status = sweep.status /\ row'.job.id = row.job.id /\ row'.old = FALSE
                 /\ row'.revision = row.revision /\ row'.steps = row.steps /\ row'.anchors = row.anchors
                 /\ \/ /\ sweep.status = "finishing" /\ row'.status = "draft"
                       /\ DraftAgain(sweep.avatar, row'.job) /\ sweep.avatar \in Avatars
                       /\ sweep' \in SweepRecords /\ sweep'.pc = "files"
                       /\ sweep'.status = sweep.status /\ sweep'.job = sweep.job /\ sweep'.avatar = sweep.avatar
                    \/ /\ sweep.status # "finishing" /\ row'.status = row.status
                       /\ row'.avatar = row.avatar /\ sweep' = None /\ avatars' = avatars
BY SweepAvatar, RecoverWriteTypes

LEMMA OneJobFrame ==
    ASSUME OneJob, UNCHANGED <<active, usedJobs, task>>,
           row' # None => row # None /\ row'.job.id = row.job.id,
           sweep' # None =>
             \/ sweep # None /\ sweep'.job.id = sweep.job.id /\ (sweep'.pc = "write" => active # sweep.job.id)
             \/ row # None /\ sweep'.job.id = row.job.id /\ sweep'.pc # "write",
           \A q \in Requests : Admitted(q)' => Admitted(q) /\ req'[q].job = req[q].job
    PROVE  OneJob'
BY DEF OneJob, Sweeping

LEMMA OneJobServed == ASSUME Inv, NEW r \in Requests, Serve(r) PROVE OneJob'
<1> USE DEF Inv
<1>1. CASE Admit(r)
  <2>1. CASE req'[r] = None /\ UNCHANGED <<usedJobs, active>>
    <3>1. \A q \in Requests : Admitted(q)' => Admitted(q) /\ req'[q].job = req[q].job
      BY <2>1, ServeFrame DEF Admitted
    <3>2. UNCHANGED <<row, task, sweep>>
      BY <1>1 DEF Admit, disk
    <3> QED BY <2>1, <3>1, <3>2, OneJobFrame DEF OneJob, Sweeping
  <2>2. CASE /\ active = None /\ usedJobs' = usedJobs + 1 /\ active' = usedJobs + 1
             /\ req'[r] = [req[r] EXCEPT !.pc = "admitted", !.job = usedJobs + 1]
    <3> DEFINE n == usedJobs + 1
    <3>1. req'[r].job = n
      <4>1. req[r] \in RequestRecords /\ req'[r] = [req[r] EXCEPT !.pc = "admitted", !.job = n]
        BY <2>2, ServeFrame
      <4> HIDE DEF n
      <4> QED BY <4>1 DEF RequestRecords
    <3>2. \A q \in Requests : Admitted(q)' => q = r
      <4>1. \A q \in Requests : Admitted(q) => req[q].job # None
        BY DEF Admitted, Filled, RequestIsFilled
      <4> QED BY <2>2, <4>1, ServeFrame DEF Admitted, OneJob
    <3>3. task = None
      BY <2>2, TaskTypes, NoneIsNone DEF OneJob, TypeOK
    <3>4. UNCHANGED <<row, task, sweep>>
      BY <1>1 DEF Admit, disk
    <3>5. /\ row # None => row.job.id < n /\ row.job.id \in Nat
          /\ sweep # None => sweep.job.id < n /\ sweep.job.id \in Nat
          /\ usedJobs \in Nat
      <4>1. row # None => row.job.id \in Nat
        BY RowTypes DEF TypeOK, JobIds
      <4>2. sweep # None => sweep.job.id \in Nat
        BY DEF TypeOK, SweepRecords, JobRecords, JobIds
      <4> QED BY <4>1, <4>2 DEF OneJob, TypeOK, JobIds
    <3>6. active' = n /\ usedJobs' = n /\ n \in Nat
      BY <2>2, <3>5
    <3> HIDE DEF n
    <3>7. \A q \in Requests : Admitted(q)' =>
            /\ task' = None /\ active' = req'[q].job
            /\ row' # None => row'.job.id < req'[q].job
            /\ sweep' # None => sweep'.job.id < req'[q].job
            /\ \A x \in Requests : Admitted(x)' => x = q
      BY <3>1, <3>2, <3>3, <3>4, <3>5, <3>6
    <3>8. /\ row' # None => row'.job.id <= n
          /\ sweep' # None => sweep'.job.id <= n /\ n # sweep'.job.id
      BY <3>4, <3>5, <3>6
    <3> QED BY <3>3, <3>4, <3>6, <3>7, <3>8 DEF OneJob, Sweeping
  <2> QED BY <1>1, <2>1, <2>2, Admission
<1>2. CASE Enqueue(r)
  <2>1. Admitted(r) /\ req'[r] = None
    BY <1>2, EnqueueTypes DEF Enqueue, At, Admitted
  <2>2. \A q \in Requests : ~Admitted(q)'
    BY <2>1, ServeFrame DEF Admitted, OneJob
  <2>3. task = None /\ active = req[r].job /\ active # None
    BY <2>1 DEF OneJob, Admitted, Filled, RequestIsFilled
  <2>4. UNCHANGED <<usedJobs, sweep>>
    BY <1>2 DEF Enqueue, counters
  <2>5. CASE Unchanged(req[r].revision)
    <3>1. row'.job.id = req[r].job
      <4>1. row'.job = Job(req[r].job, req[r].kind, "queued")
        BY <1>2, <2>5, QueuedRow
      <4> QED BY <4>1 DEF Job
    <3>2. task'.id = req[r].job /\ UNCHANGED active
      BY <1>2, <2>5 DEF Enqueue
    <3>3. req[r].job <= usedJobs
      BY <2>3 DEF OneJob
    <3> QED BY <2>2, <2>3, <2>4, <3>1, <3>2, <3>3 DEF OneJob, Sweeping
  <2>6. CASE ~Unchanged(req[r].revision)
    <3>1. active' = None /\ UNCHANGED <<row, task>>
      BY <1>2, <2>6 DEF Enqueue
    <3>2. sweep # None => sweep.job.id # None
      BY NoneIsNone DEF TypeOK, SweepRecords, JobRecords
    <3> QED BY <2>2, <2>3, <2>4, <3>1, <3>2 DEF OneJob, Sweeping
  <2> QED BY <2>5, <2>6
<1>3. CASE ~Admit(r) /\ ~Enqueue(r)
  <2>1. UNCHANGED <<active, usedJobs, task, sweep>>
    BY <1>3, ServeFrame
  <2>2. row' # None => row # None /\ row'.job.id = row.job.id
    <3>1. CASE EditWrite(r)
      BY <3>1, EditWrites, EditedRow, NoneIsNone DEF EditWrite
    <3>2. CASE DeleteRow(r)
      BY <3>2 DEF DeleteRow
    <3> QED BY <1>3, <3>1, <3>2, ServeFrame
  <2>3. ~Admitted(r)'
    <3>1. CASE EditWrite(r)
      <4>1. req'[r].pc = "tidy"
        BY <3>1, EditWrites DEF RequestRecords
      <4> QED BY <4>1 DEF Admitted
    <3>2. CASE EditPut(r)
      <4>1. req[r] \in RequestRecords
        BY ServeFrame
      <4>2. req'[r] = None \/ req'[r] = [req[r] EXCEPT !.pc = "made", !.key = NewKey]
        BY <3>2 DEF EditPut, Answer, TypeOK
      <4>3. req'[r] = None \/ req'[r].pc = "made"
        BY <4>1, <4>2 DEF RequestRecords
      <4> QED BY <4>3 DEF Admitted
    <3>3. CASE ~EditWrite(r) /\ ~EditPut(r)
      <4>1. Answer(r) \/ To(r, "loaded") \/ To(r, "row") \/ To(r, "again")
        BY <1>3, <3>3 DEF Serve, EditLoads, EditTidy, DeleteFiles, DeleteRow, DeleteFilesAgain,
                  DropAvatarFiles, DropAvatarRow
      <4> QED BY <4>1, ServeFrame, AnswerTypes, ToKeeps DEF Admitted
    <3> QED BY <3>1, <3>2, <3>3
  <2>4. \A q \in Requests : Admitted(q)' => Admitted(q) /\ req'[q].job = req[q].job
    BY <2>3, ServeFrame DEF Admitted
  <2> QED BY <2>1, <2>2, <2>4, OneJobFrame DEF OneJob, Sweeping
<1> QED BY <1>1, <1>2, <1>3

LEMMA OneJobWork == ASSUME Inv, Work PROVE OneJob'
<1> USE DEF Inv
<1>1. /\ task # None /\ active = task.id /\ UNCHANGED <<req, usedJobs, sweep>>
      /\ \A r \in Requests : ~Admitted(r)
  BY WorkFrame DEF OneJob
<1>2. row' # None => row # None /\ row'.job.id = row.job.id /\ row.job.id = task.id
  BY <1>1, WorkRow, NoneIsNone DEF OneJob
<1>3. CASE JobEnds
  <2>1. active' = None /\ task' = None
    BY <1>1, <1>3 DEF JobEnds
  <2>2. sweep # None => sweep.job.id # None
    BY NoneIsNone DEF TypeOK, SweepRecords, JobRecords
  <2> QED BY <1>1, <1>2, <2>1, <2>2 DEF OneJob, Admitted, Sweeping
<1>4. CASE ~JobEnds
  <2>1. active' = active /\ task' # None /\ task'.id = task.id
    BY <1>4, WorkFrame
  <2> QED BY <1>1, <1>2, <2>1 DEF OneJob, Admitted, Sweeping
<1> QED BY <1>3, <1>4

LEMMA OneJobSwept == ASSUME Inv, Sweep PROVE OneJob'
<1> USE DEF Inv
<1>1. UNCHANGED <<req, active, usedJobs, task>>
  BY SweepFrame DEF counters
<1>2. row' # None => row # None /\ row'.job.id = row.job.id
  <2>1. CASE RecoverWrite
    BY <2>1, RecoverWriteSteps, NoneIsNone
  <2>2. CASE ExpireWrite
    BY <2>2, ExpireWriteTypes, NoneIsNone
  <2>3. CASE PurgeRow
    BY <2>3 DEF PurgeRow
  <2> QED BY <2>1, <2>2, <2>3, SweepFrame
<1>3. sweep' # None =>
        \/ sweep # None /\ sweep'.job.id = sweep.job.id /\ (sweep'.pc = "write" => active # sweep.job.id)
        \/ row # None /\ sweep'.job.id = row.job.id /\ sweep'.pc # "write"
  <2>1. CASE RecoverRead \/ ExpireRead \/ PurgeRow
    <3>1. row # None /\ sweep'.job.id = row.job.id /\ sweep'.pc \in {"check", "expire", "purge"}
      BY <2>1, SweepReadTypes, NoneIsNone
    <3> QED BY <3>1
  <2>2. CASE RecoverCheck
    <3>1. sweep.job.id # None /\ sweep # None
      BY <2>2, SweepCheckTypes, NoneIsNone DEF SweepRecords, JobRecords
    <3> QED BY <2>2, <3>1, SweepCheckTypes
  <2>3. CASE RecoverWrite
    <3>1. sweep' = None \/ (sweep # None /\ sweep'.job = sweep.job /\ sweep'.pc = "files")
      BY <2>3, RecoverWriteSteps, NoneIsNone
    <3> QED BY <3>1
  <2>4. CASE ExpireWrite
    <3>1. sweep' = None \/ (sweep # None /\ sweep'.job = sweep.job /\ sweep'.pc = "purge")
      BY <2>4, ExpireWriteTypes, NoneIsNone
    <3> QED BY <3>1
  <2>5. CASE RecoverFiles \/ PurgeFiles
    BY <2>5, SweepEndTypes
  <2> QED BY <2>1, <2>2, <2>3, <2>4, <2>5 DEF Sweep
<1> QED BY <1>1, <1>2, <1>3, OneJobFrame DEF Admitted

LEMMA OneJobKept == ASSUME Inv, [Next]_vars PROVE OneJob'
<1> USE DEF Inv
<1>1. ASSUME NEW r \in Requests, NEW kind \in Kinds, Receive(r, kind) PROVE OneJob'
  <2>1. \A q \in Requests : Admitted(q)' => Admitted(q) /\ req'[q].job = req[q].job
    <3>1. req'[r].pc = "read"
      BY <1>1 DEF Receive, TypeOK
    <3> QED BY <1>1, <3>1, FilledReceived DEF Admitted
  <2>2. UNCHANGED <<row, active, task, sweep, usedJobs>>
    BY <1>1 DEF Receive, disk, counters
  <2> QED BY <2>1, <2>2, OneJobFrame DEF OneJob, Sweeping
<1>2. CASE \E r \in Requests : Serve(r)
  BY <1>2, OneJobServed
<1>3. CASE Work
  BY <1>3, OneJobWork
<1>4. CASE Sweep
  BY <1>4, OneJobSwept
<1>5. CASE TimePasses
  <2>1. row # None /\ row'.job = row.job /\ UNCHANGED <<req, active, task, sweep, usedJobs>>
    BY <1>5, TimeTypes DEF TimePasses, memory, counters
  <2> QED BY <2>1, OneJobFrame DEF OneJob, Sweeping, Admitted
<1>6. CASE Crash
  BY <1>6, CrashTypes DEF Crash, OneJob, Admitted, Sweeping, disk
<1>7. CASE Boot \/ UNCHANGED vars
  <2>1. UNCHANGED <<row, req, active, task, sweep, usedJobs>>
    BY <1>7 DEF Boot, vars, disk, memory, counters
  <2> QED BY <2>1, OneJobFrame DEF OneJob, Sweeping, Admitted
<1> QED BY <1>1, <1>2, <1>3, <1>4, <1>5, <1>6, <1>7 DEF Next

\* A creation that may change was so before; its steps change with its revision,
\* which only grows.
Grows == Open' => /\ Open /\ row.revision <= row'.revision
                  /\ row'.revision = row.revision => row'.steps = row.steps
                  /\ row.revision \in Nat /\ row'.revision \in Nat
LEMMA GrowsServed == ASSUME Inv, NEW r \in Requests, Serve(r) PROVE Grows
<1> USE DEF Inv
<1>1. CASE UNCHANGED row
  BY <1>1, RowTypes DEF Grows, Open, TypeOK
<1>2. CASE EditWrite(r) /\ Unchanged(req[r].revision)
  <2>1. row \in Rows /\ row.status = "draft" /\ row'.revision = row.revision + 1
    BY <1>2, EditWrites, EditedRow
  <2> QED BY <2>1, RowTypes DEF Grows, Open
<1>3. CASE Enqueue(r) /\ Unchanged(req[r].revision)
  <2>1. /\ row \in Rows /\ row.status = "draft" /\ row.revision = req[r].revision
        /\ row'.revision = row.revision + Bump(req[r])
        /\ row'.steps = IF req[r].kind = "prepare" THEN [req[r].steps EXCEPT !.plan = TRUE]
                        ELSE row.steps
    BY <1>3, QueuedRow
  <2>2. row # None /\ row.revision \in Nat /\ Open
    BY <2>1, RowTypes DEF Open
  <2>3. CASE req[r].kind = "prepare"
    <3>1. req[r].steps \in Steps
      BY <2>3, ServeFrame, RequestTypes DEF RequestIsFilled
    <3>2. req[r].pc = "admitted" /\ req[r] # None
      BY <1>3 DEF Enqueue, At
    <3>3. req[r].steps = row.steps
      BY <2>1, <2>2, <2>3, <3>2 DEF Revised, ReadAt
    <3>4. CASE req[r].steps.plan
      <4>1. row'.steps = row.steps
        BY <2>1, <2>3, <3>1, <3>3, <3>4, PlannedSteps
      <4>2. row'.revision = row.revision
        BY <2>1, <2>2, <2>3, <3>4 DEF Bump
      <4> QED BY <2>2, <4>1, <4>2 DEF Grows
    <3>5. CASE ~req[r].steps.plan
      <4>1. row'.revision = row.revision + 1
        BY <2>1, <2>3, <3>5 DEF Bump
      <4> QED BY <2>2, <4>1 DEF Grows
    <3> QED BY <3>4, <3>5
  <2>4. CASE req[r].kind # "prepare"
    <3>1. row'.revision = row.revision /\ row'.steps = row.steps
      BY <2>1, <2>2, <2>4 DEF Bump
    <3> QED BY <2>2, <3>1 DEF Grows
  <2> QED BY <2>3, <2>4
<1>4. CASE DeleteRow(r)
  BY <1>4 DEF DeleteRow, Grows, Open
<1> QED BY <1>1, <1>2, <1>3, <1>4, ServeFrame DEF EditWrite, Enqueue

LEMMA RowGrows == ASSUME Inv, [Next]_vars PROVE Grows
<1> USE DEF Inv
<1>1. ASSUME UNCHANGED row PROVE Grows
  BY <1>1, RowTypes DEF Grows, Open, TypeOK
<1>2. CASE \E r \in Requests, kind \in Kinds : Receive(r, kind)
  BY <1>1, <1>2 DEF Receive, disk
<1>3. CASE \E r \in Requests : Serve(r)
  BY <1>3, GrowsServed
<1>4. CASE Work
  <2>1. CASE row' # row
    <3>1. row \in Rows /\ row' \in Rows /\ (Records \/ Stores \/ Publishes \/ Undoes)
      BY <1>4, <2>1, WorkRow
    <3>2. row.revision \in Nat /\ row'.revision \in Nat
      BY <3>1, RowTypes
    <3>3. row # None /\ row' # None
      BY <3>1, NoneIsNone
    <3> QED BY <3>1, <3>2, <3>3 DEF Grows, Open, Records, Stores, Publishes, Undoes
  <2> QED BY <1>1, <2>1
<1>5. CASE Sweep
  <2>1. CASE RecoverWrite /\ row' # row
    <3>1. /\ row \in Rows /\ row' \in Rows /\ row'.revision = row.revision /\ row'.steps = row.steps
          /\ row.status = "finishing" \/ row'.status = row.status
      BY <2>1, RecoverWriteSteps
    <3>2. row.revision \in Nat /\ row # None
      BY <3>1, RowTypes
    <3> QED BY <3>1, <3>2 DEF Grows, Open
  <2>2. CASE ExpireWrite /\ row' # row
    BY <2>2, ExpireWriteTypes DEF Grows, Open
  <2>3. CASE PurgeRow
    BY <2>3 DEF PurgeRow, Grows, Open
  <2> QED BY <1>1, <1>5, <2>1, <2>2, <2>3, SweepFrame
<1>6. CASE TimePasses
  BY <1>6, TimeTypes, RowTypes DEF Grows, Open
<1>7. CASE Crash \/ Boot \/ UNCHANGED vars
  BY <1>1, <1>7 DEF Crash, Boot, vars, disk
<1> QED BY <1>2, <1>3, <1>4, <1>5, <1>6, <1>7 DEF Next

\* What was read stays a true reading.
LEMMA ReadingsKept ==
    ASSUME Grows, NEW revision \in Nat, NEW steps, ReadAt(revision, steps)
    PROVE  ReadAt(revision, steps)'
BY DEF Grows, ReadAt

Reads(q) == q.kind \in EditKinds \cup {"prepare"} /\ q.pc \in {"read", "loaded", "made", "admitted"}
LEMMA RevisedRequests ==
    ASSUME TypeOK, Revised, Grows,
           \A r \in Requests : req'[r] # None /\ Reads(req'[r]) =>
             \/ /\ req[r] # None /\ Reads(req[r])
                /\ req'[r].revision = req[r].revision /\ req'[r].steps = req[r].steps
             \/ row # None /\ row' = row /\ req'[r].revision = row.revision /\ req'[r].steps = row.steps,
           task' # None => \/ ~Open'
                           \/ /\ task # None /\ task'.revision = task.revision
                              /\ \/ ~HasRead(task')
                                 \/ HasRead(task) /\ task'.steps = task.steps
                                 \/ row' = row /\ task'.steps = row.steps
                           \/ ~HasRead(task') /\ task'.revision = row'.revision
    PROVE  Revised'
<1>1. ASSUME NEW r \in Requests, req'[r] # None, Reads(req'[r])
      PROVE  ReadAt(req[r].revision, req[r].steps)'
  <2>1. CASE /\ req[r] # None /\ Reads(req[r])
             /\ req'[r].revision = req[r].revision /\ req'[r].steps = req[r].steps
    <3>1. ReadAt(req[r].revision, req[r].steps) /\ req[r].revision \in Nat
      BY <2>1, RequestTypes DEF Revised, Reads, TypeOK
    <3> QED BY <2>1, <3>1, ReadingsKept DEF ReadAt, Grows
  <2>2. CASE row # None /\ row' = row /\ req'[r].revision = row.revision /\ req'[r].steps = row.steps
    BY <2>2 DEF ReadAt, Grows
  <2> QED BY <1>1, <2>1, <2>2
<1>2. ASSUME task' # None, Open'
      PROVE  task'.revision <= row'.revision /\ (HasRead(task') => ReadAt(task.revision, task.steps)')
  <2>0. Open /\ row.revision <= row'.revision /\ row.revision \in Nat /\ row'.revision \in Nat
        /\ (row'.revision = row.revision => row'.steps = row.steps)
    BY <1>2 DEF Grows
  <2>1. CASE task # None /\ task'.revision = task.revision
    <3>1. task.revision \in Nat /\ task.revision <= row.revision
      BY <2>0, <2>1, TaskTypes DEF TypeOK, Revised
    <3>2. task'.revision <= row'.revision
      BY <2>0, <2>1, <3>1
    <3>3. CASE HasRead(task) /\ task'.steps = task.steps
      <4>1. ReadAt(task.revision, task.steps)
        BY <2>0, <2>1, <3>3 DEF Revised
      <4> QED BY <2>1, <3>1, <3>2, <3>3, <4>1, ReadingsKept DEF ReadAt, Grows
    <3>4. CASE row' = row /\ task'.steps = row.steps
      BY <3>2, <3>4 DEF ReadAt
    <3>5. CASE ~HasRead(task')
      BY <3>2, <3>5
    <3> QED BY <1>2, <2>1, <3>2, <3>3, <3>4, <3>5
  <2>2. CASE ~HasRead(task') /\ task'.revision = row'.revision
    BY <2>0, <2>2
  <2> QED BY <1>2, <2>1, <2>2
<1>3. \A r \in Requests : (req[r] # None /\ req[r].kind \in EditKinds \cup {"prepare"}
          /\ req[r].pc \in {"read", "loaded", "made", "admitted"} => ReadAt(req[r].revision, req[r].steps))'
  BY <1>1 DEF Reads
<1> QED BY <1>2, <1>3 DEF Revised, HasRead

\* A request served is answered, or goes on with more in hand.
Goes(r) ==
    \/ EditLoads(r) /\ req'[r].pc = "loaded"
    \/ EditPut(r) /\ req'[r].pc = "made" /\ req'[r].key = NewKey /\ NewKey \in Keys
    \/ EditWrite(r) /\ req'[r].pc = "tidy"
    \/ Admit(r) /\ req'[r].pc = "admitted" /\ req'[r].job = usedJobs + 1 /\ usedJobs' = usedJobs + 1
         /\ active = None
    \/ (DeleteFiles(r) \/ DropAvatarFiles(r)) /\ req'[r].pc = "row"
    \/ DeleteRow(r) /\ req'[r].pc = "again"
LEMMA ServedRequest ==
    ASSUME Inv, NEW r \in Requests, Serve(r)
    PROVE  \/ req'[r] = None
           \/ /\ req'[r] # None /\ Goes(r)
              /\ req'[r].kind = req[r].kind /\ req'[r].revision = req[r].revision
              /\ req'[r].steps = req[r].steps /\ req'[r].avatar = req[r].avatar
<1> USE DEF Inv
<1>0. req[r] # None /\ req[r] \in RequestRecords
  BY ServeFrame
<1>1. CASE EditLoads(r) \/ DeleteFiles(r) \/ DropAvatarFiles(r) \/ DeleteRow(r)
  <2>1. \/ Answer(r)
        \/ EditLoads(r) /\ To(r, "loaded")
        \/ (DeleteFiles(r) \/ DropAvatarFiles(r)) /\ To(r, "row")
        \/ DeleteRow(r) /\ To(r, "again")
    BY <1>1 DEF EditLoads, DeleteFiles, DropAvatarFiles, DeleteRow
  <2>2. CASE Answer(r)
    BY <2>2, AnswerTypes
  <2>3. CASE EditLoads(r) /\ To(r, "loaded")
    BY <1>0, <2>3, ToKeeps DEF Goes, SameRequest
  <2>4. CASE (DeleteFiles(r) \/ DropAvatarFiles(r)) /\ To(r, "row")
    BY <1>0, <2>4, ToKeeps DEF Goes, SameRequest
  <2>5. CASE DeleteRow(r) /\ To(r, "again")
    BY <1>0, <2>5, ToKeeps DEF Goes, SameRequest
  <2> QED BY <2>1, <2>2, <2>3, <2>4, <2>5
<1>2. CASE EditPut(r)
  <2>1. CASE NewKey \in Keys
    <3> DEFINE k == NewKey
    <3>1. req' = [req EXCEPT ![r].pc = "made", ![r].key = k]
      BY <1>2, <2>1 DEF EditPut
    <3>2. k \in Keys /\ k = NewKey
      BY <2>1
    <3> HIDE DEF k
    <3>3. req'[r] = [req[r] EXCEPT !.pc = "made", !.key = k]
      BY <3>1 DEF TypeOK
    <3>4. /\ req'[r] \in RequestRecords /\ req'[r].pc = "made" /\ req'[r].key = k
          /\ req'[r].kind = req[r].kind /\ req'[r].revision = req[r].revision
          /\ req'[r].steps = req[r].steps /\ req'[r].avatar = req[r].avatar
      BY <1>0, <3>2, <3>3 DEF RequestRecords
    <3> QED BY <1>2, <3>2, <3>4, NoneIsNone DEF Goes
  <2>2. CASE NewKey \notin Keys
    BY <1>2, <2>2, AnswerTypes DEF EditPut
  <2> QED BY <2>1, <2>2
<1>3. CASE EditWrite(r)
  <2> DEFINE d == IF Unchanged(req[r].revision) THEN Named(req[r].steps) \ Named(Edited(req[r]))
                  ELSE {req[r].key} \ {None}
  <2>1. req'[r] = [req[r] EXCEPT !.pc = "tidy", !.doomed = d] /\ req'[r] \in RequestRecords \cup {None}
    BY <1>3, EditWrites
  <2> HIDE DEF d
  <2> QED BY <1>0, <1>3, <2>1, NoneIsNone DEF RequestRecords, Goes
<1>4. CASE Admit(r)
  <2>1. CASE /\ active = None /\ usedJobs' = usedJobs + 1
             /\ req'[r] = [req[r] EXCEPT !.pc = "admitted", !.job = usedJobs + 1]
    <3> DEFINE n == usedJobs + 1
    <3>1. req'[r] = [req[r] EXCEPT !.pc = "admitted", !.job = n] /\ n = usedJobs + 1
      BY <2>1
    <3>2. req'[r] \in RequestRecords \cup {None}
      BY <1>4, Admission DEF TypeOK
    <3> HIDE DEF n
    <3>3. /\ req'[r].pc = "admitted" /\ req'[r].job = n
          /\ req'[r].kind = req[r].kind /\ req'[r].revision = req[r].revision
          /\ req'[r].steps = req[r].steps /\ req'[r].avatar = req[r].avatar
      BY <1>0, <3>1 DEF RequestRecords
    <3> QED BY <1>4, <2>1, <3>1, <3>3 DEF Goes
  <2> QED BY <1>4, <2>1, Admission
<1>5. CASE EditTidy(r) \/ Enqueue(r) \/ DeleteFilesAgain(r) \/ DropAvatarRow(r)
  BY <1>5, AnswerTypes DEF EditTidy, Enqueue, DeleteFilesAgain, DropAvatarRow
<1> QED BY <1>1, <1>2, <1>3, <1>4, <1>5 DEF Serve

LEMMA ReceivedRequest ==
    ASSUME TypeOK, NEW r \in Requests, NEW kind \in Kinds, Receive(r, kind)
    PROVE  /\ row # None /\ req'[r] # None /\ req'[r].pc = "read" /\ req'[r].kind = kind
           /\ kind \in EditKinds \cup {"prepare"} =>
                row.status = "draft" /\ req'[r].revision = row.revision /\ req'[r].steps = row.steps
           /\ kind = "drop" => /\ req'[r].avatar = row.avatar /\ row.avatar # None
                               /\ avatars[row.avatar] \in {"processing", "ready", "failed"}
           /\ \A q \in Requests : q # r => req'[q] = req[q]
           /\ UNCHANGED <<disk, active, task, sweep, up, counters>>
<1> DEFINE q == [pc |-> "read", kind |-> kind, key |-> None, doomed |-> {}, job |-> None,
                 revision |-> IF kind \in {"delete", "drop"} THEN 0 ELSE row.revision,
                 steps |-> IF kind \in EditKinds \cup {"prepare"} THEN row.steps ELSE None,
                 avatar |-> IF kind = "drop" THEN row.avatar ELSE None]
<1>1. row # None /\ row \in Rows
  BY DEF Receive, TypeOK
<1>2. req'[r] = q /\ \A x \in Requests : x # r => req'[x] = req[x]
  BY DEF Receive, TypeOK
<1>3. /\ q.kind = kind /\ q.pc = "read"
      /\ kind \in EditKinds \cup {"prepare"} => q.steps = row.steps /\ q.revision = row.revision
      /\ kind = "drop" => q.avatar = row.avatar
  BY DEF EditKinds
<1>4. q # None
  <2>1. q \in RequestRecords
    BY <1>1, RowTypes DEF RequestRecords
  <2> QED BY <2>1, NoneIsNone
<1> HIDE DEF q
<1>5. kind \in EditKinds \cup {"prepare"} => row.status = "draft"
  BY DEF Receive, Accepts, Editable, EditKinds
<1>6. kind = "drop" => row.avatar # None /\ avatars[row.avatar] \in {"processing", "ready", "failed"}
  BY DEF Receive, Accepts, EditKinds
<1> QED BY <1>1, <1>2, <1>3, <1>4, <1>5, <1>6 DEF Receive

LEMMA RevisedWork == ASSUME Inv, [Next]_vars, Work PROVE Revised'
<1> USE DEF Inv
<1>1. Grows /\ UNCHANGED req
  BY RowGrows, WorkFrame
<1>2. task' # None => \/ ~Open'
                      \/ /\ task # None /\ task'.revision = task.revision
                         /\ \/ ~HasRead(task')
                            \/ HasRead(task) /\ task'.steps = task.steps
                            \/ row' = row /\ task'.steps = row.steps
  <2>1. task # None /\ (task' # None => task'.revision = task.revision /\ task'.step = task.step)
    BY WorkFrame, NoneIsNone
  <2>2. CASE JobReads
    <3>1. row' = row /\ (row # None => task'.steps = row.steps)
      BY <2>2, ReadTypes DEF JobReads, disk
    <3> QED BY <2>1, <3>1 DEF Open
  <2>3. CASE JobLoads
    <3>1. task'.steps = task.steps /\ task'.pc \in {"make", "fail"}
      BY <2>3, LoadTypes DEF SameTask
    <3>2. HasRead(task') => HasRead(task)
      <4>1. CASE task.pc = "source" /\ task.step = "prepare"
        BY <4>1 DEF HasRead
      <4>2. CASE task.step = "ingest"
        <5>1. task' # None
          BY <2>3, LoadTypes, NoneIsNone DEF SameTask
        <5> QED BY <2>1, <3>1, <4>2, <5>1 DEF HasRead
      <4> QED BY <2>3, <4>1, <4>2 DEF JobLoads, Doing
    <3> QED BY <2>1, <3>1, <3>2
  <2>4. CASE JobMakes
    <3>1. /\ task.pc = "make" /\ row' = row
          /\ task'.steps = IF task.step = "prepare" THEN task.steps
                           ELSE IF row = None THEN None ELSE row.steps
      BY <2>4, MakeTypes DEF JobMakes, Doing
    <3> QED BY <2>1, <3>1 DEF Open, HasRead
  <2>5. CASE FinishLoads
    <3>1. task.step = "finish" /\ task'.pc \in {"build", "undo", "end"}
      BY <2>5, FinishLoadTypes DEF FinishLoads, Doing
    <3> QED BY <2>1, <3>1 DEF HasRead
  <2>6. CASE JobBegins \/ JobFails \/ StoreResult \/ JobTidies \/ JobDiscards \/ JobRecordsFailure
             \/ FinishBuilds \/ FinishCommits \/ FinishUndoes \/ FinishUndoesFiles \/ FinishTidies
    <3>1. task'.pc \notin {"source", "make", "store"}
      BY <2>6, BeginTypes, FailTypes, StoreTypes, TidyTypes, FailureTypes, FinishBuildTypes,
         CommitTypes, UndoTypes, FinishEndTypes
    <3> QED BY <2>1, <3>1 DEF HasRead
  <2>7. CASE JobEnds
    BY <2>7 DEF JobEnds
  <2> QED BY <2>2, <2>3, <2>4, <2>5, <2>6, <2>7 DEF Work
<1> QED BY <1>1, <1>2, RevisedRequests

LEMMA RevisedKept == ASSUME Inv, [Next]_vars PROVE Revised'
<1> USE DEF Inv
<1>0. Grows
  BY RowGrows
<1>1. ASSUME NEW r \in Requests, NEW kind \in Kinds, Receive(r, kind) PROVE Revised'
  <2>1. UNCHANGED <<row, task>>
    BY <1>1 DEF Receive, disk
  <2>2. \A q \in Requests : req'[q] # None /\ Reads(req'[q]) =>
             \/ /\ req[q] # None /\ Reads(req[q])
                /\ req'[q].revision = req[q].revision /\ req'[q].steps = req[q].steps
             \/ row # None /\ row' = row /\ req'[q].revision = row.revision /\ req'[q].steps = row.steps
    BY <1>1, <2>1, ReceivedRequest DEF Reads
  <2>3. HasRead(task') => HasRead(task)
    BY <2>1
  <2> QED BY <1>0, <2>1, <2>2, <2>3, RevisedRequests
<1>2. ASSUME NEW r \in Requests, Serve(r) PROVE Revised'
  <2>1. req'[r] # None /\ Reads(req'[r]) =>
            req[r] # None /\ Reads(req[r]) /\ req'[r].revision = req[r].revision /\ req'[r].steps = req[r].steps
    <3>1. req[r] # None
      BY <1>2, ServeFrame
    <3>2. Goes(r) /\ Reads(req'[r]) /\ req'[r].kind = req[r].kind => Reads(req[r])
      BY DEF Goes, Reads, EditLoads, EditPut, EditWrite, Admit, DeleteFiles, DropAvatarFiles, DeleteRow, At, EditKinds
    <3> QED BY <1>2, <3>1, <3>2, ServedRequest
  <2>2. \A q \in Requests : req'[q] # None /\ Reads(req'[q]) =>
            req[q] # None /\ Reads(req[q]) /\ req'[q].revision = req[q].revision /\ req'[q].steps = req[q].steps
    BY <1>2, <2>1, ServeFrame
  <2>3. CASE UNCHANGED task
    BY <1>0, <2>2, <2>3, RevisedRequests
  <2>4. CASE Enqueue(r) /\ Unchanged(req[r].revision)
    <3>1. /\ row.revision = req[r].revision /\ row'.revision = row.revision + Bump(req[r])
      BY <2>4, QueuedRow
    <3>2. task'.pc = "queued" /\ task'.revision = req[r].revision + Bump(req[r])
      BY <2>4 DEF Enqueue
    <3>3. ~HasRead(task')
      BY <3>2 DEF HasRead
    <3> QED BY <1>0, <2>2, <3>1, <3>2, <3>3, RevisedRequests
  <2> QED BY <1>2, <2>3, <2>4, ServeFrame DEF Enqueue
<1>3. CASE Work
  BY <1>3, RevisedWork
<1>4. CASE Sweep \/ TimePasses \/ Boot \/ UNCHANGED vars
  <2>1. UNCHANGED <<req, task>>
    BY <1>4, SweepFrame DEF TimePasses, Boot, vars, memory
  <2> QED BY <1>0, <2>1, RevisedRequests
<1>5. CASE Crash
  BY <1>5, CrashTypes DEF Revised
<1> QED BY <1>1, <1>2, <1>3, <1>4, <1>5 DEF Next

\* How an avatar's row changes: made by the job that will build it, published
\* by its finish, failed by a restart, and gone for good.
AvatarStep(a) ==
    /\ avatars[a] # "none" => avatars'[a] # "none"
    /\ avatars[a] = "deleted" => avatars'[a] = "deleted"
    /\ avatars[a] = "ready" => avatars'[a] \in {"ready", "deleted"}
    /\ avatars'[a] = "ready" => avatars[a] = "ready" \/ (Publishes /\ a = task.avatar)
    /\ avatars[a] = "none" /\ avatars'[a] # "none" =>
         a <= usedJobs /\ \A r \in Requests : ~Admitted(r)'
    /\ avatars'[a] = "processing" =>
         avatars[a] = "processing" \/ (row' # None /\ row'.status = "finishing" /\ row'.avatar = a)
AvatarSteps == \A a \in Avatars : AvatarStep(a)

LEMMA AvatarsSame == ASSUME UNCHANGED avatars PROVE AvatarSteps
BY DEF AvatarSteps, AvatarStep

LEMMA AvatarsUndone ==
    ASSUME NEW avatar \in Avatars, NEW j, DraftAgain(avatar, j), avatars[avatar] # "none"
    PROVE  AvatarSteps
BY DEF AvatarSteps, AvatarStep, DraftAgain

LEMMA AvatarsServed == ASSUME Inv, NEW r \in Requests, Serve(r) PROVE AvatarSteps
<1> USE DEF Inv
<1>1. CASE Enqueue(r)
  <2>1. CASE Unchanged(req[r].revision) /\ req[r].kind = "finish"
    <3>1. Admitted(r) /\ req[r].job \in Avatars /\ req'[r] = None
      BY <1>1, EnqueueTypes DEF Enqueue, At, Admitted, Avatars
    <3>2. avatars' = [avatars EXCEPT ![req[r].job] = "processing"]
      BY <1>1, <2>1 DEF Enqueue
    <3>3. avatars[req[r].job] = "none" /\ active = req[r].job
      BY <3>1 DEF Avatared, OneJob
    <3>4. req[r].job <= usedJobs
      BY <3>1, <3>3, NoneIsNone DEF OneJob, Avatars
    <3>5. \A q \in Requests : ~Admitted(q)'
      BY <3>1, ServeFrame DEF Admitted, OneJob
    <3>6. row' # None /\ row'.status = "finishing" /\ row'.avatar = req[r].job
      BY <1>1, <2>1, QueuedRow, NoneIsNone
    <3> QED BY <3>1, <3>2, <3>3, <3>4, <3>5, <3>6 DEF AvatarSteps, AvatarStep, TypeOK
  <2>2. CASE ~(Unchanged(req[r].revision) /\ req[r].kind = "finish")
    <3>1. UNCHANGED avatars
      BY <1>1, <2>2 DEF Enqueue
    <3> QED BY <3>1, AvatarsSame
  <2> QED BY <2>1, <2>2
<1>2. CASE DropAvatarRow(r)
  <2>1. req[r].avatar \in Avatars /\ avatars[req[r].avatar] # "none"
    <3>1. req[r] # None /\ req[r].kind = "drop"
      BY <1>2 DEF DropAvatarRow, At
    <3> QED BY <3>1, ServeFrame, RequestTypes DEF Avatared, RequestIsFilled
  <2>2. avatars' = [avatars EXCEPT ![req[r].avatar] = "deleted"]
    BY <1>2 DEF DropAvatarRow
  <2> QED BY <2>1, <2>2 DEF AvatarSteps, AvatarStep, TypeOK
<1> QED BY <1>1, <1>2, ServeFrame, AvatarsSame

LEMMA AvatarsChange == ASSUME Inv, [Next]_vars PROVE AvatarSteps
<1> USE DEF Inv
<1>1. CASE \E r \in Requests, kind \in Kinds : Receive(r, kind)
  BY <1>1, AvatarsSame DEF Receive, disk
<1>2. CASE \E r \in Requests : Serve(r)
  BY <1>2, AvatarsServed
<1>3. CASE Work
  <2>1. CASE FinishCommits
    <3>1. CASE Publishes
      <4>1. task.avatar \in Avatars /\ task.pc = "commit" /\ task # None
        BY <2>1, CommitTypes, TaskTypes DEF FinishCommits, Doing, Avatars
      <4>2. avatars[task.avatar] \notin {"none", "ready", "deleted"}
        BY <3>1, <4>1 DEF Avatared, Publishes
      <4>3. avatars' = [avatars EXCEPT ![task.avatar] = "ready"]
        BY <3>1 DEF Publishes
      <4> QED BY <3>1, <4>1, <4>2, <4>3 DEF AvatarSteps, AvatarStep, TypeOK
    <3>2. CASE ~Publishes
      <4>1. row' = row \/ Records \/ Stores \/ Undoes
        BY <1>3, <3>2, WorkRow
      <4>2. ~Stores /\ ~Undoes /\ task.pc = "commit"
        BY <2>1 DEF Stores, StoreResult, Undoes, FinishUndoes, FinishCommits, Doing
      <4>3. task'.pc = "tidy" => row'.status = "finished" /\ row.status = "finishing"
        BY <2>1, CommitTypes
      <4>4. CASE row' = row
        BY <2>1, <4>3, <4>4, CommitTypes, AvatarsSame
      <4> QED BY <4>1, <4>2, <4>4, AvatarsSame DEF Records
    <3> QED BY <3>1, <3>2
  <2>2. CASE FinishUndoes
    <3>1. task.avatar \in Avatars /\ avatars[task.avatar] # "none"
      BY <2>2, UndoTypes DEF FinishUndoes, Doing, Avatared
    <3> QED BY <2>2, <3>1, UndoTypes, AvatarsUndone, AvatarsSame
  <2> QED BY <1>3, <2>1, <2>2, WorkFrame, AvatarsSame
<1>4. CASE Sweep
  <2>1. CASE RecoverWrite
    <3>1. CASE UNCHANGED avatars
      BY <3>1, AvatarsSame
    <3>2. CASE /\ DraftAgain(sweep.avatar, row'.job) /\ sweep.avatar \in Avatars /\ row # None
               /\ sweep.status = "finishing" /\ row.status = sweep.status /\ row.job.id = sweep.job.id
      <4>1. avatars[sweep.avatar] # "none"
        BY <2>1, <3>2 DEF Avatared, RecoverWrite, Sweeping
      <4> QED BY <3>2, <4>1, AvatarsUndone
    <3> QED BY <2>1, <3>1, <3>2, RecoverWriteSteps, NoneIsNone
  <2> QED BY <1>4, <2>1, SweepFrame, AvatarsSame
<1>5. CASE Boot
  <2>1. \A a \in Avatars : avatars'[a] = IF avatars[a] = "processing" THEN "failed" ELSE avatars[a]
    BY <1>5 DEF Boot
  <2> QED BY <2>1 DEF AvatarSteps, AvatarStep
<1>6. CASE TimePasses \/ Crash \/ UNCHANGED vars
  BY <1>6, AvatarsSame DEF TimePasses, Crash, vars, disk
<1> QED BY <1>1, <1>2, <1>3, <1>4, <1>5, <1>6 DEF Next

\* How a creation comes to be finishing, leaves it, and is finished.
StatusSteps ==
    row' # None =>
      /\ row # None
      /\ row'.status = "finishing" =>
           \/ row.status = "finishing" /\ row'.avatar = row.avatar /\ row'.job.id = row.job.id
           \/ row'.avatar = row'.job.id /\ row'.avatar \in Avatars /\ avatars'[row'.avatar] = "processing"
      /\ row.status = "finishing" =>
           \/ row'.status = "finishing" /\ row'.avatar = row.avatar
           \/ avatars'[row.avatar] \in {"ready", "deleted"}
      /\ row'.status = "finished" =>
           \/ row.status = "finished" /\ row'.avatar = row.avatar
           \/ /\ Publishes /\ row'.avatar = row.avatar /\ row.avatar = task.avatar
              /\ task.avatar \in Avatars /\ avatars'[row.avatar] = "ready"
      /\ row'.status \in {"draft", "finishing"} => row.status \in {"draft", "finishing"}

LEMMA StatusSame ==
    ASSUME \/ row' = row
           \/ /\ row # None /\ row'.status = row.status /\ row'.avatar = row.avatar
              /\ row'.job.id = row.job.id
    PROVE  StatusSteps
BY DEF StatusSteps

LEMMA StatusesChange == ASSUME Inv, [Next]_vars PROVE StatusSteps
<1> USE DEF Inv
<1>1. CASE \E r \in Requests, kind \in Kinds : Receive(r, kind)
  BY <1>1, StatusSame DEF Receive, disk
<1>2. ASSUME NEW r \in Requests, Serve(r) PROVE StatusSteps
  <2>1. CASE EditWrite(r) /\ row' # row
    <3>1. row # None /\ row.status = "draft" /\ row'.status = "draft"
      BY <2>1, EditWrites, EditedRow, NoneIsNone DEF EditWrite
    <3> QED BY <3>1 DEF StatusSteps
  <2>2. CASE Enqueue(r) /\ row' # row
    <3>1. Unchanged(req[r].revision)
      BY <2>2 DEF Enqueue
    <3>2. /\ row # None /\ row.status = "draft"
          /\ row'.status = IF req[r].kind = "finish" THEN "finishing" ELSE "draft"
          /\ row'.avatar = IF req[r].kind = "finish" THEN req[r].job ELSE row.avatar
          /\ row'.job = Job(req[r].job, req[r].kind, "queued")
      BY <2>2, <3>1, QueuedRow, NoneIsNone
    <3>3. row'.job.id = req[r].job
      BY <3>2 DEF Job
    <3>4. req[r].job \in Avatars
      BY <2>2, EnqueueTypes DEF Avatars
    <3>5. req[r].kind = "finish" => avatars' = [avatars EXCEPT ![req[r].job] = "processing"]
      BY <2>2, <3>1 DEF Enqueue
    <3>6. req[r].kind = "finish" => avatars'[req[r].job] = "processing"
      BY <3>4, <3>5 DEF TypeOK
    <3> QED BY <3>2, <3>3, <3>4, <3>6 DEF StatusSteps
  <2>3. CASE DeleteRow(r)
    BY <2>3 DEF DeleteRow, StatusSteps
  <2> QED BY <1>2, <2>1, <2>2, <2>3, ServeFrame, StatusSame
<1>3. CASE Work /\ row' # row
  <2>1. row # None /\ row.job.id = task.id /\ row'.job.id = task.id /\ (Records \/ Stores \/ Publishes \/ Undoes)
    BY <1>3, WorkRow, NoneIsNone
  <2>2. CASE Records
    BY <2>1, <2>2, StatusSame DEF Records
  <2>3. CASE Stores
    BY <2>1, <2>3 DEF Stores, StatusSteps
  <2>4. CASE Publishes
    <3>1. task.avatar = task.id /\ task.avatar \in Avatars
      BY <2>4, CommitTypes, TaskTypes DEF Publishes, Avatars
    <3>2. row.avatar = task.avatar
      BY <2>1, <2>4, <3>1 DEF Publishes, Avatared
    <3>3. avatars'[task.avatar] = "ready"
      BY <2>4, <3>1 DEF Publishes, TypeOK
    <3> QED BY <2>1, <2>4, <3>1, <3>2, <3>3 DEF Publishes, StatusSteps
  <2>5. CASE Undoes
    <3>1. task.avatar = task.id /\ row.avatar = row.job.id
      BY <2>1, <2>5, UndoTypes DEF Undoes, Avatared
    <3>2. avatars'[row.avatar] \in {"ready", "deleted"}
      BY <2>1, <2>5, <3>1 DEF Undoes, DraftAgain
    <3> QED BY <2>1, <2>5, <3>2 DEF Undoes, StatusSteps
  <2> QED BY <2>1, <2>2, <2>3, <2>4, <2>5
<1>4. CASE Work /\ row' = row
  BY <1>4, StatusSame
<1>5. CASE Sweep
  <2>1. CASE RecoverWrite /\ row' # row
    <3>1. /\ row # None /\ row.job.id = sweep.job.id /\ row'.job.id = row.job.id /\ sweep # None
          /\ row.status = sweep.status
          /\ \/ /\ sweep.status = "finishing" /\ row'.status = "draft"
                /\ DraftAgain(sweep.avatar, row'.job)
             \/ row'.status = row.status /\ row'.avatar = row.avatar
      BY <2>1, RecoverWriteSteps, NoneIsNone
    <3>2. CASE sweep.status = "finishing" /\ row'.status = "draft" /\ DraftAgain(sweep.avatar, row'.job)
      <4>1. sweep.avatar = row.avatar
        BY <3>1, <3>2 DEF Avatared
      <4>2. avatars'[row.avatar] \in {"ready", "deleted"}
        BY <3>2, <4>1 DEF DraftAgain
      <4> QED BY <3>1, <3>2, <4>2 DEF StatusSteps
    <3> QED BY <3>1, <3>2, StatusSame
  <2>2. CASE ExpireWrite /\ row' # row
    <3>1. row # None /\ row.status = "draft" /\ row'.status = "expired"
      BY <2>2, ExpireWriteTypes, NoneIsNone
    <3> QED BY <3>1 DEF StatusSteps
  <2>3. CASE PurgeRow
    BY <2>3 DEF PurgeRow, StatusSteps
  <2> QED BY <1>5, <2>1, <2>2, <2>3, SweepFrame, StatusSame
<1>6. CASE TimePasses
  BY <1>6, TimeTypes, StatusSame, NoneIsNone
<1>7. CASE Crash \/ Boot \/ UNCHANGED vars
  BY <1>7, StatusSame DEF Crash, Boot, vars, disk
<1> QED BY <1>1, <1>2, <1>3, <1>4, <1>5, <1>6, <1>7 DEF Next

LEMMA OwnedKept == ASSUME Inv, [Next]_vars PROVE Owned'
<1>1. AvatarSteps /\ StatusSteps
  BY AvatarsChange, StatusesChange
<1>2. SUFFICES ASSUME NEW a \in Avatars, row' # None, avatars'[a] = "processing"
              PROVE  row'.status = "finishing" /\ row'.avatar = a
  BY DEF Owned
<1>3. CASE avatars[a] = "processing"
  <2>1. row # None /\ row.status = "finishing" /\ row.avatar = a
    BY <1>1, <1>2, <1>3 DEF Owned, Inv, StatusSteps
  <2> QED BY <1>1, <1>2, <2>1 DEF StatusSteps
<1>4. CASE avatars[a] # "processing"
  BY <1>1, <1>2, <1>4 DEF AvatarSteps, AvatarStep
<1> QED BY <1>3, <1>4

LEMMA PublishedKept == ASSUME Inv, [Next]_vars PROVE Published'
<1> USE DEF Inv
<1>1. AvatarSteps /\ StatusSteps
  BY AvatarsChange, StatusesChange
<1>2. \A a \in Avatars : avatars'[a] = "ready" => avatars[a] = "ready" \/ (Publishes /\ a = task.avatar)
  BY <1>1 DEF AvatarSteps, AvatarStep
<1>3. Publishes => row # None /\ Open /\ ~Open'
  <2>1. Publishes => FinishCommits /\ task'.pc = "tidy"
    BY DEF Publishes
  <2>2. FinishCommits /\ task'.pc = "tidy" => row # None /\ row' # None
    BY CommitTypes, NoneIsNone
  <2> QED BY <2>1, <2>2 DEF Publishes, Open
<1>4. Open' => Open
  BY <1>1 DEF Open, StatusSteps
<1> QED BY <1>2, <1>3, <1>4 DEF Published

\* What the sweeper holds is what it read, and the finish it undoes is undone.
SweepSteps ==
    sweep' # None =>
      \/ /\ sweep # None /\ sweep'.status = sweep.status /\ sweep'.job = sweep.job
         /\ sweep'.avatar = sweep.avatar
         /\ sweep'.pc = "files" =>
              \/ sweep.pc = "files"
              \/ sweep.avatar \in Avatars /\ avatars'[sweep.avatar] = "deleted"
      \/ /\ row # None /\ sweep'.status = row.status /\ sweep'.job = row.job
         /\ sweep'.pc \in {"check", "expire", "purge"}
         /\ sweep'.status = "finishing" => sweep'.avatar = row.avatar
LEMMA SweepsChange == ASSUME Inv, [Next]_vars PROVE SweepSteps
<1> USE DEF Inv
<1>1. ASSUME UNCHANGED sweep PROVE SweepSteps
  BY <1>1 DEF SweepSteps
<1>2. CASE \E r \in Requests, kind \in Kinds : Receive(r, kind)
  BY <1>1, <1>2 DEF Receive
<1>3. CASE \E r \in Requests : Serve(r)
  BY <1>1, <1>3, ServeFrame
<1>4. CASE Work
  BY <1>1, <1>4, WorkFrame
<1>5. CASE Sweep
  <2>1. CASE RecoverRead \/ ExpireRead \/ PurgeRow
    <3>1. row # None /\ sweep'.status = row.status /\ sweep'.job = row.job /\ sweep'.pc \in {"check", "expire", "purge"}
      BY <2>1, SweepReadTypes, NoneIsNone
    <3>2. row.status = "finishing" => sweep'.avatar = row.avatar
      BY <2>1, SweepReadTypes DEF ExpireRead, PurgeRow
    <3> QED BY <3>1, <3>2 DEF SweepSteps
  <2>2. CASE RecoverCheck
    <3>1. \/ sweep' = None
          \/ /\ sweep # None /\ sweep'.pc = "write" /\ sweep'.status = sweep.status
             /\ sweep'.job = sweep.job /\ sweep'.avatar = sweep.avatar
      BY <2>2, SweepCheckTypes, NoneIsNone
    <3> QED BY <3>1 DEF SweepSteps
  <2>3. CASE RecoverWrite
    <3>1. CASE sweep' = None
      BY <3>1 DEF SweepSteps
    <3>2. CASE sweep' # None
      <4>1. /\ sweep # None /\ row # None /\ row.status = "finishing"
            /\ DraftAgain(sweep.avatar, row'.job) /\ sweep.avatar \in Avatars
            /\ sweep'.status = sweep.status /\ sweep'.job = sweep.job /\ sweep'.avatar = sweep.avatar
        BY <2>3, <3>2, RecoverWriteSteps, NoneIsNone
      <4>2. avatars[sweep.avatar] # "ready"
        BY <4>1 DEF Published, Open
      <4>3. avatars'[sweep.avatar] = "deleted"
        BY <4>1, <4>2 DEF DraftAgain
      <4> QED BY <4>1, <4>3 DEF SweepSteps
    <3> QED BY <3>1, <3>2
  <2>4. CASE ExpireWrite
    <3>1. \/ sweep' = None
          \/ /\ sweep # None /\ sweep'.pc = "purge" /\ sweep'.status = sweep.status
             /\ sweep'.job = sweep.job /\ sweep'.avatar = sweep.avatar
      BY <2>4, ExpireWriteTypes, NoneIsNone
    <3> QED BY <3>1 DEF SweepSteps
  <2>5. CASE RecoverFiles \/ PurgeFiles
    BY <2>5, SweepEndTypes DEF SweepSteps
  <2> QED BY <1>5, <2>1, <2>2, <2>3, <2>4, <2>5 DEF Sweep
<1>6. CASE Crash
  BY <1>6, CrashTypes DEF SweepSteps
<1>7. CASE TimePasses \/ Boot \/ UNCHANGED vars
  BY <1>1, <1>7 DEF TimePasses, Boot, vars, memory
<1> QED BY <1>2, <1>3, <1>4, <1>5, <1>6, <1>7 DEF Next

\* The avatar a finish is building is there, and not published by another.
TaskAvatar == /\ task # None /\ task.pc \in {"build", "commit", "undo"} =>
                   avatars[task.avatar] \notin {"none", "ready"}
              /\ task # None /\ task.pc = "undofiles" => avatars[task.avatar] = "deleted"
LEMMA TaskAvatarKept == ASSUME Inv, [Next]_vars PROVE TaskAvatar'
<1> USE DEF Inv
<1>1. AvatarSteps /\ TaskAvatar
  BY AvatarsChange DEF TaskAvatar, Avatared
<1>2. task # None /\ task.pc \in {"build", "commit", "undo", "undofiles"} => task.avatar \in Avatars
  BY TaskTypes DEF TypeOK, Filled, TaskIsFilled, Avatars
<1>3. ASSUME UNCHANGED task, ~Work PROVE TaskAvatar'
  BY <1>1, <1>2, <1>3 DEF TaskAvatar, AvatarSteps, AvatarStep, Publishes, Work
<1>4. CASE Work
  <2>1. CASE JobReads \/ JobLoads \/ JobMakes \/ JobFails \/ StoreResult \/ JobTidies \/ JobDiscards
             \/ JobBegins \/ JobRecordsFailure \/ FinishUndoesFiles \/ FinishTidies
    <3>1. task'.pc \notin {"build", "commit", "undo", "undofiles"}
      BY <2>1, BeginTypes, ReadTypes, LoadTypes, MakeTypes, FailTypes, StoreTypes, TidyTypes,
         FailureTypes, FinishEndTypes
    <3> QED BY <3>1 DEF TaskAvatar
  <2>2. CASE JobEnds
    BY <2>2 DEF JobEnds, TaskAvatar
  <2>3. CASE FinishLoads
    <3>1. CASE row # None /\ row.status = "finishing"
      <4>1. task'.avatar = row.avatar /\ task'.pc \in {"build", "undo"} /\ UNCHANGED avatars
        BY <2>3, <3>1, FinishLoadTypes DEF FinishLoads, disk
      <4>2. row.avatar \in Avatars /\ avatars[row.avatar] # "none"
        BY <3>1, RowTypes DEF Avatared, TypeOK, Avatars
      <4>3. avatars[row.avatar] # "ready"
        BY <3>1, <4>2 DEF Published, Open
      <4> QED BY <4>1, <4>2, <4>3 DEF TaskAvatar
    <3>2. CASE ~(row # None /\ row.status = "finishing")
      <4>1. task'.pc = "end"
        BY <2>3, <3>2, FinishLoadTypes
      <4> QED BY <4>1 DEF TaskAvatar
    <3> QED BY <3>1, <3>2
  <2>4. CASE FinishBuilds
    <3>1. task'.avatar = task.avatar /\ task'.pc \in {"commit", "undo"} /\ UNCHANGED avatars /\ task # None
          /\ task.pc = "build"
      BY <2>4, FinishBuildTypes DEF SameTask, FinishBuilds, Doing
    <3> QED BY <1>1, <3>1 DEF TaskAvatar
  <2>5. CASE FinishCommits
    <3>1. /\ task'.avatar = task.avatar /\ task # None /\ task.pc = "commit"
          /\ task'.pc = "tidy" \/ (task'.pc = "undo" /\ UNCHANGED avatars)
      BY <2>5, CommitTypes DEF SameTask, FinishCommits, Doing
    <3> QED BY <1>1, <3>1 DEF TaskAvatar
  <2>6. CASE FinishUndoes
    <3>1. /\ task'.avatar = task.avatar /\ task # None /\ task.pc = "undo"
          /\ (task'.pc = "undofiles" /\ DraftAgain(task.avatar, row.job)) \/ task'.pc = "fail"
      BY <2>6, UndoTypes DEF SameTask, FinishUndoes, Doing
    <3> QED BY <1>1, <3>1 DEF TaskAvatar, DraftAgain
  <2> QED BY <1>4, <2>1, <2>2, <2>3, <2>4, <2>5, <2>6 DEF Work
<1>5. CASE Crash
  BY <1>5, CrashTypes DEF TaskAvatar
<1>6. ASSUME NEW r \in Requests, Serve(r), ~Work PROVE TaskAvatar'
  <2>1. CASE Enqueue(r) /\ task' # task
    <3>1. task'.pc = "queued"
      BY <2>1 DEF Enqueue
    <3> QED BY <3>1 DEF TaskAvatar
  <2> QED BY <1>3, <1>6, <2>1, ServeFrame
<1>7. CASE ~Work /\ ~Crash /\ ~\E r \in Requests : Serve(r)
  <2>1. UNCHANGED task
    BY <1>7, SweepFrame DEF Next, Receive, TimePasses, Boot, vars, memory
  <2> QED BY <1>3, <1>7, <2>1
<1> QED BY <1>4, <1>5, <1>6, <1>7

LEMMA AvataredKept == ASSUME Inv, [Next]_vars PROVE Avatared'
<1> USE DEF Inv
<1>1. AvatarSteps /\ StatusSteps /\ SweepSteps /\ TaskAvatar' /\ TypeOK' /\ OneJob' /\ Filled'
  BY AvatarsChange, StatusesChange, SweepsChange, TaskAvatarKept, TypesKept, OneJobKept, FilledKept
<1>2. usedJobs' \in Nat /\ usedJobs \in Nat /\ usedJobs <= usedJobs'
  <2>1. usedJobs' = usedJobs \/ usedJobs' = usedJobs + 1
    BY SweepFrame, ServeFrame, WorkFrame DEF Next, Receive, Admit, TimePasses, Crash, Boot, vars, counters
  <2>2. usedJobs \in Nat
    BY DEF TypeOK, JobIds
  <2> QED BY <2>1, <2>2
<1>3. ASSUME NEW a \in Avatars, a > usedJobs' PROVE avatars'[a] = "none"
  <2>1. a \in Nat /\ a > usedJobs
    BY <1>2, <1>3 DEF Avatars, JobIds
  <2>2. avatars[a] = "none" /\ ~(a <= usedJobs)
    BY <1>2, <2>1 DEF Avatared
  <2> QED BY <1>1, <2>2 DEF AvatarSteps, AvatarStep
<1>4. ASSUME NEW r \in Requests, Admitted(r)' PROVE avatars'[req'[r].job] = "none"
  <2>1. CASE Admitted(r) /\ req'[r] = req[r]
    <3>1. avatars[req[r].job] = "none" /\ req[r].job \in Avatars
      BY <2>1, RequestTypes DEF Avatared, Admitted, Filled, RequestIsFilled, TypeOK, Avatars
    <3> QED BY <1>1, <1>4, <2>1, <3>1 DEF AvatarSteps, AvatarStep
  <2>2. CASE ~(Admitted(r) /\ req'[r] = req[r])
    <3>1. req'[r] # req[r]
      BY <1>4, <2>2 DEF Admitted
    <3>2. Serve(r)
      <4>1. ASSUME NEW q \in Requests, Serve(q) PROVE q = r
        BY <3>1, <4>1, ServeFrame
      <4>2. ASSUME NEW q \in Requests, NEW kind \in Kinds, Receive(q, kind) PROVE FALSE
        BY <1>4, <3>1, <4>2, ReceivedRequest DEF Admitted
      <4>3. ~Crash
        BY <1>4, CrashTypes DEF Admitted
      <4> QED BY <3>1, <4>1, <4>2, <4>3, SweepFrame, WorkFrame DEF Next, TimePasses, Boot, vars, memory
    <3>3. Admit(r) /\ req'[r].job = usedJobs + 1
      BY <1>4, <3>2, ServedRequest DEF Admitted, Goes
    <3>4. req'[r].job \in Avatars /\ UNCHANGED avatars
      <4>1. req'[r] # None
        BY <1>4 DEF Admitted
      <4> QED BY <1>1, <1>4, <3>3, <4>1, RequestTypes DEF Admitted, Filled, RequestIsFilled, TypeOK, Avatars, Admit, disk
    <3>5. usedJobs + 1 > usedJobs
      BY <1>2
    <3> QED BY <3>3, <3>4, <3>5 DEF Avatared
  <2> QED BY <2>1, <2>2
<1>5. ASSUME NEW r \in Requests, req'[r] # None, req'[r].kind = "drop" PROVE avatars'[req'[r].avatar] # "none"
  <2>1. \/ /\ req[r] # None /\ req[r].kind = "drop" /\ req'[r].avatar = req[r].avatar
        \/ row # None /\ UNCHANGED avatars /\ req'[r].avatar = row.avatar /\ avatars[row.avatar] # "none"
    <3>1. ASSUME NEW q \in Requests, NEW kind \in Kinds, Receive(q, kind)
          PROVE  \/ req'[r] = req[r]
                 \/ row # None /\ UNCHANGED avatars /\ req'[r].avatar = row.avatar /\ avatars[row.avatar] # "none"
      BY <1>5, <3>1, ReceivedRequest DEF disk
    <3>2. ASSUME NEW q \in Requests, Serve(q)
          PROVE  req[r] # None /\ req'[r].kind = req[r].kind /\ req'[r].avatar = req[r].avatar
      BY <1>5, <3>2, ServedRequest, ServeFrame
    <3>3. ~Crash
      BY <1>5, CrashTypes
    <3> QED BY <1>5, <3>1, <3>2, <3>3, SweepFrame, WorkFrame DEF Next, TimePasses, Boot, vars, memory
  <2>2. req[r] # None /\ req[r].kind = "drop" => req[r].avatar \in Avatars /\ avatars[req[r].avatar] # "none"
    BY RequestTypes DEF Avatared, TypeOK, Filled, RequestIsFilled
  <2> QED BY <1>1, <2>1, <2>2 DEF AvatarSteps, AvatarStep
<1>6. row' # None /\ row'.status = "finishing" => row'.avatar = row'.job.id /\ avatars'[row'.avatar] # "none"
  <2>1. row # None /\ row.status = "finishing" => row.avatar \in Avatars /\ row.avatar = row.job.id /\ avatars[row.avatar] # "none"
    BY RowTypes DEF Avatared, TypeOK, Avatars
  <2> QED BY <1>1, <2>1 DEF StatusSteps, AvatarSteps, AvatarStep
<1>7. sweep' # None /\ sweep'.status = "finishing" => sweep'.avatar = sweep'.job.id
  BY <1>1 DEF SweepSteps, Avatared
<1>8. Sweeping("files")' => sweep'.avatar # None /\ avatars'[sweep'.avatar] = "deleted"
  <2>1. Sweeping("files") => sweep.avatar \in Avatars /\ avatars[sweep.avatar] = "deleted"
    BY DEF Avatared, Sweeping, TypeOK, SweepRecords
  <2>2. None \notin Avatars
    BY NoneIsNone DEF Avatars
  <2> QED BY <1>1, <2>1, <2>2 DEF SweepSteps, AvatarSteps, AvatarStep, Sweeping
<1>9. row' # None /\ row'.status = "finished" => row'.avatar # None /\ avatars'[row'.avatar] \in {"ready", "deleted"}
  <2>1. None \notin Avatars
    BY NoneIsNone DEF Avatars
  <2>2. row # None /\ row.status = "finished" => row.avatar \in Avatars /\ avatars[row.avatar] \in {"ready", "deleted"}
    BY RowTypes DEF Avatared, TypeOK
  <2> QED BY <1>1, <2>1, <2>2 DEF StatusSteps, AvatarSteps, AvatarStep
<1> QED BY <1>1, <1>3, <1>4, <1>5, <1>6, <1>7, <1>8, <1>9 DEF Avatared, TaskAvatar

\* An avatar that is whole stays so, or its owner takes it away.
LEMMA WholeKept == ASSUME Inv, [Next]_vars, NEW a \in Avatars, Whole(a) PROVE Whole(a)'
<1> USE DEF Inv
<1>1. avatars[a] = "deleted" => avatars'[a] = "deleted"
  BY AvatarsChange DEF AvatarSteps, AvatarStep
<1>2. CASE Crash
  BY <1>2, CrashTypes DEF Whole
<1>3. CASE ~Crash /\ crashes > 0
  <2>1. UNCHANGED crashes
    BY <1>3, SweepFrame, ServeFrame, WorkFrame DEF Next, Receive, TimePasses, Boot, vars, counters
  <2> QED BY <1>3, <2>1 DEF Whole
<1>4. CASE ~Crash /\ a \in avatarFiles /\ a \notin avatarFiles'
  <2>1. CASE Work
    <3>1. FinishBuilds \/ FinishUndoesFiles
      BY <1>4, <2>1, WorkFrame
    <3>2. FinishBuilds => avatarFiles \subseteq avatarFiles'
      BY FinishBuildTypes
    <3>3. FinishUndoesFiles /\ a = task.avatar /\ avatars[task.avatar] = "deleted"
      BY <1>4, <3>1, <3>2 DEF FinishUndoesFiles, Doing, Avatared
    <3> QED BY <1>1, <3>3 DEF Whole
  <2>2. CASE Sweep
    <3>1. a = sweep.avatar /\ avatars[sweep.avatar] = "deleted"
      BY <1>4, <2>2, SweepFrame DEF RecoverFiles, Avatared
    <3> QED BY <1>1, <3>1 DEF Whole
  <2>3. ASSUME NEW r \in Requests, Serve(r) PROVE Whole(a)'
    <3>1. DropAvatarFiles(r) /\ a = req[r].avatar
      BY <1>4, <2>3, ServeFrame DEF DropAvatarFiles
    <3>2. req[r] # None /\ req[r].kind = "drop" /\ SameRequest(r) /\ req'[r] # None /\ req'[r].pc = "row"
      BY <3>1, ToKeeps DEF DropAvatarFiles, At
    <3> QED BY <3>1, <3>2 DEF Whole, Dropping, At, SameRequest
  <2>4. avatarFiles' = avatarFiles \/ Work \/ Sweep \/ \E r \in Requests : Serve(r)
    BY <1>4 DEF Next, Receive, TimePasses, Boot, vars, disk
  <2> QED BY <1>4, <2>1, <2>2, <2>3, <2>4
<1>5. CASE ~Crash /\ a \in avatarFiles /\ a \in avatarFiles'
  BY <1>5 DEF Whole
<1>6. CASE ~Crash /\ Dropping(a)
  <2>1. PICK r \in Requests : At(r, "row", {"drop"}) /\ req[r].avatar = a
    BY <1>6 DEF Dropping
  <2>2. CASE req'[r] = req[r]
    BY <2>1, <2>2 DEF Whole, Dropping, At
  <2>3. CASE Serve(r)
    <3>1. DropAvatarRow(r)
      BY <2>1, <2>3 DEF Serve, EditLoads, EditPut, EditWrite, EditTidy, Admit, Enqueue, DeleteFiles,
            DeleteRow, DeleteFilesAgain, DropAvatarFiles, At, EditKinds, JobKinds
    <3>2. avatars'[a] = "deleted"
      BY <2>1, <3>1 DEF DropAvatarRow, TypeOK
    <3> QED BY <3>2 DEF Whole
  <2>4. req'[r] = req[r] \/ Serve(r)
    <3>1. ASSUME NEW q \in Requests, Serve(q) PROVE req'[r] = req[r] \/ Serve(r)
      BY <3>1, ServeFrame
    <3>2. ASSUME NEW q \in Requests, NEW kind \in Kinds, Receive(q, kind) PROVE req'[r] = req[r]
      <4>1. req[q] = None
        BY <3>2 DEF Receive
      <4> QED BY <2>1, <3>2, <4>1, ReceivedRequest DEF At
    <3> QED BY <1>6, <3>1, <3>2, SweepFrame, WorkFrame DEF Next, TimePasses, Boot, vars, memory
  <2> QED BY <2>2, <2>3, <2>4
<1>7. CASE ~Crash /\ avatars[a] = "deleted"
  BY <1>1, <1>7 DEF Whole
<1> QED BY <1>2, <1>3, <1>4, <1>5, <1>6, <1>7 DEF Whole

LEMMA AvatarWholeKept == ASSUME Inv, [Next]_vars PROVE AvatarWhole'
<1> USE DEF Inv
<1>1. StatusSteps /\ \A a \in Avatars : Whole(a) => Whole(a)'
  BY StatusesChange, WholeKept
<1>2. ASSUME row' # None, row'.status = "finished" PROVE Whole(row.avatar)'
  <2>1. CASE row # None /\ row.status = "finished" /\ row'.avatar = row.avatar
    <3>1. row.avatar \in Avatars /\ Whole(row.avatar)
      BY <2>1, RowTypes DEF Avatared, TypeOK, AvatarWhole
    <3> QED BY <1>1, <2>1, <3>1 DEF Whole, Dropping
  <2>2. CASE /\ Publishes /\ row'.avatar = row.avatar /\ row.avatar = task.avatar /\ task.avatar \in Avatars
    <3>1. Whole(task.avatar)
      BY <2>2 DEF Publishes, FinishCommits, Doing, AvatarWhole
    <3> QED BY <1>1, <2>2, <3>1 DEF Whole, Dropping
  <2> QED BY <1>1, <1>2, <2>1, <2>2 DEF StatusSteps
<1>3. ASSUME task' # None, task'.pc = "commit" PROVE Whole(task.avatar)'
  <2>1. CASE task' = task
    <3>1. Whole(task.avatar) /\ task.avatar \in Avatars
      BY <1>3, <2>1, TaskTypes DEF AvatarWhole, TypeOK, Filled, TaskIsFilled, Avatars
    <3> QED BY <1>1, <2>1, <3>1 DEF Whole, Dropping
  <2>2. CASE Work /\ task' # task
    <3>1. FinishBuilds
      BY <1>3, <2>2, BeginTypes, ReadTypes, LoadTypes, MakeTypes, FailTypes, StoreTypes, TidyTypes,
         FailureTypes, FinishLoadTypes, CommitTypes, UndoTypes, FinishEndTypes DEF Work, JobEnds
    <3>2. task'.avatar = task.avatar /\ task.avatar \in avatarFiles'
      BY <1>3, <3>1, FinishBuildTypes DEF SameTask
    <3> QED BY <3>2 DEF Whole
  <2>3. ASSUME NEW r \in Requests, Serve(r), task' # task PROVE FALSE
    <3>1. Enqueue(r) /\ task' # task
      BY <2>3, ServeFrame
    <3>2. task'.pc = "queued"
      BY <3>1 DEF Enqueue
    <3> QED BY <1>3, <3>2
  <2>4. task' = task \/ Work \/ \E r \in Requests : Serve(r)
    BY <1>3, SweepFrame, CrashTypes DEF Next, Receive, TimePasses, Boot, vars, memory
  <2> QED BY <2>1, <2>2, <2>3, <2>4
<1> QED BY <1>2, <1>3 DEF AvatarWhole

\* Only an edit and a result change what the row names.
LEMMA RowNames ==
    ASSUME Inv, [Next]_vars, ~StoreResult, \A r \in Requests : ~EditWrite(r)
    PROVE  Open' => Open /\ Named(row'.steps) = Named(row.steps)
<1> USE DEF Inv
<1>1. Open' => Open
  BY RowGrows DEF Grows
<1>2. ASSUME NEW r \in Requests, Serve(r), row' # row, Open' PROVE Named(row'.steps) = Named(row.steps)
  <2>1. Enqueue(r) \/ DeleteRow(r)
    BY <1>2, ServeFrame
  <2>2. ~DeleteRow(r)
    BY <1>2 DEF DeleteRow, Open
  <2>3. Enqueue(r) /\ Unchanged(req[r].revision)
    BY <1>2, <2>1, <2>2 DEF Enqueue
  <2>4. /\ row.revision = req[r].revision /\ row # None /\ row.status = "draft"
        /\ row'.steps = IF req[r].kind = "prepare" THEN [req[r].steps EXCEPT !.plan = TRUE] ELSE row.steps
    BY <2>3, QueuedRow, NoneIsNone
  <2>5. CASE req[r].kind = "prepare"
    <3>1. req[r].steps \in Steps /\ req[r] # None /\ req[r].pc = "admitted"
      BY <1>2, <2>3, <2>5, ServeFrame, RequestTypes DEF RequestIsFilled, Enqueue, At
    <3>2. req[r].steps = row.steps
      BY <2>4, <2>5, <3>1 DEF Revised, ReadAt, Open
    <3> QED BY <2>4, <2>5, <3>1, <3>2, PlannedSteps
  <2> QED BY <2>4, <2>5
<1>3. CASE Work /\ row' # row /\ Open'
  <2>1. Records \/ Stores \/ Publishes \/ Undoes
    BY <1>3, WorkRow
  <2> QED BY <1>1, <1>3, <2>1 DEF Records, Stores, Publishes, Undoes, Open
<1>4. CASE Sweep /\ row' # row /\ Open'
  <2>1. RecoverWrite \/ ExpireWrite \/ PurgeRow
    BY <1>4, SweepFrame
  <2>2. CASE RecoverWrite
    BY <1>1, <1>4, <2>2, RecoverWriteSteps
  <2>3. ~ExpireWrite /\ ~PurgeRow
    BY <1>4, ExpireWriteTypes DEF PurgeRow, Open
  <2> QED BY <2>1, <2>2, <2>3
<1>5. CASE TimePasses
  BY <1>1, <1>5, TimeTypes
<1>6. row' = row \/ Work \/ Sweep \/ TimePasses \/ \E r \in Requests : Serve(r)
  BY DEF Next, Receive, Crash, Boot, vars, disk
<1> QED BY <1>1, <1>2, <1>3, <1>4, <1>5, <1>6

\* What a step may do with a file: only what was just made is new, one owner
\* at a time has it, and what is deleted was somebody's to delete, unless the
\* creation ends.
Fresh(k) == k = NewKey /\ usedKeys' = NewKey /\ k \in files'
KeyStep(k) ==
    /\ IsHeld(k)' => IsHeld(k) \/ Fresh(k)
    /\ InRow(k)' => InRow(k) \/ IsHeld(k)
    /\ IsDoomed(k)' => IsDoomed(k) \/ InRow(k) \/ IsHeld(k)
    /\ k \in files' => k \in files \/ (Fresh(k) /\ IsHeld(k)')
    /\ Apart(k)'
    /\ k \in files /\ k \notin files' => IsDoomed(k) \/ ~Open' \/ Deleting'
    /\ row = None /\ (IsHeld(k) \/ IsDoomed(k)) =>
         IsHeld(k)' \/ IsDoomed(k)' \/ k \notin files' \/ crashes' > 0 \/ faults' > 0

LEMMA KeysSame ==
    ASSUME NEW k, Apart(k),
           \A r \in Requests : (HeldBy(req[r], k)' <=> HeldBy(req[r], k))
                            /\ (DoomedBy(req[r], k)' <=> DoomedBy(req[r], k)),
           TaskHolds(k)' <=> TaskHolds(k), TaskDooms(k)' <=> TaskDooms(k),
           InRow(k)' => InRow(k), k \in files' => k \in files,
           k \in files /\ k \notin files' => IsDoomed(k) \/ ~Open' \/ Deleting'
    PROVE  KeyStep(k)
<1>1. (IsHeld(k)' <=> IsHeld(k)) /\ (IsDoomed(k)' <=> IsDoomed(k))
  BY DEF IsHeld, IsDoomed
<1> QED BY <1>1 DEF KeyStep, Apart

\* An owner lets go of a file it has deleted.
LEMMA KeyLetGo ==
    ASSUME NEW k, Apart(k),
           \A r \in Requests : (HeldBy(req[r], k)' => HeldBy(req[r], k))
                            /\ (DoomedBy(req[r], k)' => DoomedBy(req[r], k)),
           TaskHolds(k)' => TaskHolds(k), TaskDooms(k)' => TaskDooms(k),
           InRow(k)' => InRow(k), k \in files' => k \in files,
           k \in files /\ k \notin files' => IsDoomed(k) \/ ~Open' \/ Deleting',
           (IsHeld(k) \/ IsDoomed(k)) =>
             IsHeld(k)' \/ IsDoomed(k)' \/ k \notin files' \/ crashes' > 0 \/ faults' > 0
    PROVE  KeyStep(k)
<1>1. (IsHeld(k)' => IsHeld(k)) /\ (IsDoomed(k)' => IsDoomed(k))
  BY DEF IsHeld, IsDoomed
<1> QED BY <1>1 DEF KeyStep, Apart

LEMMA KeysServed ==
    ASSUME Inv, [Next]_vars, NEW r \in Requests, Serve(r), NEW k \in Keys PROVE KeyStep(k)
<1> USE DEF Inv
<1>0. /\ Apart(k) /\ \A q \in Requests : q # r => req'[q] = req[q]
      /\ req[r] # None /\ req[r] \in RequestRecords /\ RequestIsFilled(req[r])
  BY ServeFrame DEF FilesApart
<1>1. \A q \in Requests : q # r => (HeldBy(req[q], k)' <=> HeldBy(req[q], k))
                                /\ (DoomedBy(req[q], k)' <=> DoomedBy(req[q], k))
  BY <1>0 DEF HeldBy, DoomedBy
<1>2. ~Enqueue(r) => (TaskHolds(k)' <=> TaskHolds(k)) /\ (TaskDooms(k)' <=> TaskDooms(k))
  BY ServeFrame DEF TaskHolds, TaskDooms, Result
<1>3. CASE EditPut(r) /\ NewKey \in Keys
  <2>1. /\ req'[r] # None /\ req'[r].pc = "made" /\ req'[r].key = NewKey
        /\ req[r].pc = "loaded" /\ row' = row /\ ~Enqueue(r)
        /\ files' = files \cup {NewKey} /\ usedKeys' = NewKey
    <3>1. /\ ~Enqueue(r) /\ req[r].pc = "loaded" /\ row' = row
          /\ files' = files \cup {NewKey} /\ usedKeys' = NewKey
      BY <1>3 DEF EditPut, Enqueue, At
    <3>2. req' = [req EXCEPT ![r].pc = "made", ![r].key = NewKey]
      BY <1>3 DEF EditPut
    <3> DEFINE n == NewKey
    <3>3. req'[r] = [req[r] EXCEPT !.pc = "made", !.key = n] /\ n = NewKey
      BY <3>2 DEF TypeOK
    <3>4. n \in Keys
      BY <1>3
    <3> HIDE DEF n
    <3>5. req'[r] \in RequestRecords /\ req'[r].pc = "made" /\ req'[r].key = n
      BY <1>0, <3>3, <3>4 DEF RequestRecords
    <3> QED BY <3>1, <3>3, <3>5, NoneIsNone
  <2>2. (HeldBy(req[r], k)' <=> k = NewKey) /\ ~HeldBy(req[r], k)
        /\ ~DoomedBy(req[r], k)' /\ ~DoomedBy(req[r], k)
    BY <2>1 DEF HeldBy, DoomedBy
  <2>3. IsHeld(k)' <=> IsHeld(k) \/ k = NewKey
    BY <1>1, <1>2, <2>1, <2>2 DEF IsHeld
  <2>4. (IsDoomed(k)' <=> IsDoomed(k)) /\ (InRow(k)' <=> InRow(k))
    BY <1>1, <1>2, <2>1, <2>2 DEF IsDoomed, InRow, Open
  <2>5. k = NewKey => ~IsHeld(k) /\ ~IsDoomed(k) /\ ~InRow(k)
    BY DEF FilesApart, NewKey, TypeOK
  <2>6. Apart(k)'
    BY <1>0, <1>1, <1>2, <2>1, <2>2, <2>3, <2>4, <2>5 DEF Apart, IsHeld
  <2> QED BY <2>1, <2>3, <2>4, <2>6 DEF KeyStep, Fresh
<1>4. CASE EditWrite(r)
  <2> DEFINE d == IF Unchanged(req[r].revision) THEN Named(req[r].steps) \ Named(Edited(req[r]))
                  ELSE {req[r].key} \ {None}
  <2>1. /\ Named(Edited(req[r])) \subseteq Named(req[r].steps) \cup ({req[r].key} \ {None})
        /\ Edited(req[r]) \in Steps
        /\ req'[r] = [req[r] EXCEPT !.pc = "tidy", !.doomed = d]
        /\ req'[r] \in RequestRecords
    BY <1>4, EditWrites
  <2>2. ~Enqueue(r) /\ files' = files /\ req[r].pc \in {"made", "read"} /\ (req[r].pc = "read" => req[r].key = None)
    BY <1>0, <1>4 DEF EditWrite, Enqueue, At, RequestIsFilled
  <2>3. d = (IF Unchanged(req[r].revision) THEN Named(req[r].steps) \ Named(Edited(req[r]))
             ELSE {req[r].key} \ {None})
    OBVIOUS
  <2> HIDE DEF d
  <2>4. req'[r].pc = "tidy" /\ req'[r].doomed = d /\ req'[r] # None
    BY <1>0, <2>1, NoneIsNone DEF RequestRecords
  <2>5. ~HeldBy(req[r], k)' /\ (DoomedBy(req[r], k)' <=> k \in d) /\ ~DoomedBy(req[r], k)
        /\ (HeldBy(req[r], k) <=> req[r].key = k)
    <3>1. k # None
      BY NoneIsNone
    <3> QED BY <1>0, <2>2, <2>4, <3>1 DEF HeldBy, DoomedBy
  <2>6. IsHeld(k)' <=> IsHeld(k) /\ ~HeldBy(req[r], k)
    BY <1>0, <1>1, <1>2, <2>2, <2>5 DEF IsHeld, Apart
  <2>7. IsDoomed(k)' <=> IsDoomed(k) \/ k \in d
    BY <1>1, <1>2, <2>2, <2>5 DEF IsDoomed
  <2>8. CASE Unchanged(req[r].revision)
    <3>1. row' # None /\ row # None /\ row.status = "draft" /\ row'.status = "draft"
          /\ row'.steps = Edited(req[r]) /\ row.revision = req[r].revision
      BY <1>4, <2>1, <2>8, EditedRow, NoneIsNone
    <3>2. req[r].steps = row.steps
      <4>1. Open /\ req[r].kind \in EditKinds
        BY <1>4, <3>1 DEF Open, EditWrite, At, EditKinds
      <4> QED BY <1>0, <2>2, <3>1, <4>1 DEF Revised, ReadAt
    <3>3. (InRow(k) <=> k \in Named(row.steps)) /\ (InRow(k)' <=> k \in Named(Edited(req[r])))
      BY <3>1 DEF InRow, Open
    <3>4. InRow(k)' => InRow(k) \/ HeldBy(req[r], k)
      BY <2>1, <2>5, <3>2, <3>3
    <3>5. k \in d <=> InRow(k) /\ ~InRow(k)'
      BY <2>3, <2>8, <3>2, <3>3
    <3>6. HeldBy(req[r], k) => IsHeld(k)
      BY DEF IsHeld
    <3>7. Apart(k)'
      BY <1>0, <1>1, <1>2, <2>2, <2>5, <2>6, <2>7, <3>4, <3>5, <3>6 DEF Apart
    <3>8. row # None
      BY <3>1
    <3> QED BY <2>2, <2>6, <2>7, <3>4, <3>5, <3>6, <3>7, <3>8 DEF KeyStep
  <2>9. CASE ~Unchanged(req[r].revision)
    <3>1. row' = row
      BY <1>4, <2>9 DEF EditWrite
    <3>2. InRow(k)' <=> InRow(k)
      BY <3>1 DEF InRow, Open
    <3>3. k \in d <=> HeldBy(req[r], k)
      BY <2>3, <2>5, <2>9, NoneIsNone
    <3>4. HeldBy(req[r], k) => IsHeld(k)
      BY DEF IsHeld
    <3>5. Apart(k)'
      BY <1>0, <1>1, <1>2, <2>2, <2>5, <2>6, <2>7, <3>2, <3>3, <3>4 DEF Apart
    <3> QED BY <2>2, <2>6, <2>7, <3>2, <3>3, <3>4, <3>5 DEF KeyStep
  <2> QED BY <2>8, <2>9
<1>5. CASE EditTidy(r)
  <2>1. /\ req'[r] = None /\ ~Enqueue(r) /\ row' = row /\ files' = files \ req[r].doomed
        /\ req[r].pc = "tidy"
    BY <1>5, AnswerTypes DEF EditTidy, Enqueue, At
  <2>2. ~HeldBy(req[r], k)' /\ ~DoomedBy(req[r], k)' /\ ~HeldBy(req[r], k)
        /\ (DoomedBy(req[r], k) <=> k \in req[r].doomed)
    BY <1>0, <2>1 DEF HeldBy, DoomedBy
  <2>3. InRow(k)' <=> InRow(k)
    BY <2>1 DEF InRow, Open
  <2>4. k \in req[r].doomed => IsDoomed(k)
    BY <2>2 DEF IsDoomed
  <2>5. k \in req[r].doomed \/ ((IsHeld(k)' <=> IsHeld(k)) /\ (IsDoomed(k)' <=> IsDoomed(k)))
    BY <1>1, <1>2, <2>1, <2>2 DEF IsHeld, IsDoomed
  <2> QED BY <1>0, <1>1, <1>2, <2>1, <2>2, <2>3, <2>4, <2>5, KeyLetGo
<1>6. CASE /\ ~EditWrite(r) /\ ~EditTidy(r) /\ ~(EditPut(r) /\ NewKey \in Keys)
  <2>1. req[r].pc # "made" /\ req[r].pc # "tidy" /\ (req'[r] = None \/ (req'[r].pc # "made" /\ req'[r].pc # "tidy"))
    <3>1. req[r].pc # "made" /\ req[r].pc # "tidy"
      BY <1>6 DEF Serve, EditLoads, EditPut, Admit, Enqueue, DeleteFiles, DeleteRow, DeleteFilesAgain,
            DropAvatarFiles, DropAvatarRow, At
    <3> QED BY <1>6, <3>1, ServedRequest DEF Goes
  <2>2. \A q \in Requests : (HeldBy(req[q], k)' <=> HeldBy(req[q], k))
                         /\ (DoomedBy(req[q], k)' <=> DoomedBy(req[q], k))
    BY <1>1, <2>1 DEF HeldBy, DoomedBy
  <2>3. (TaskHolds(k)' <=> TaskHolds(k)) /\ (TaskDooms(k)' <=> TaskDooms(k))
    <3>1. CASE Enqueue(r) /\ task' # task
      <4>1. Admitted(r) /\ task'.pc = "queued"
        BY <3>1 DEF Enqueue, Admitted, At
      <4>2. task = None
        BY <4>1 DEF OneJob
      <4> QED BY <4>1, <4>2 DEF TaskHolds, TaskDooms
    <3>2. CASE Enqueue(r) /\ task' = task
      BY <3>2 DEF TaskHolds, TaskDooms, Result
    <3> QED BY <1>2, <3>1, <3>2
  <2>4. InRow(k)' => InRow(k)
    <3>1. ASSUME NEW q \in Requests PROVE ~EditWrite(q)
      <4>1. CASE q = r
        BY <1>6, <4>1
      <4>2. CASE q # r
        <5>1. EditWrite(q) => req'[q] # req[q]
          <6>1. EditWrite(q) => Serve(q) /\ req[q].pc # "tidy"
            BY DEF Serve, EditWrite, At
          <6>2. EditWrite(q) => req'[q].pc = "tidy"
            BY EditWrites
          <6> QED BY <6>1, <6>2
        <5> QED BY <1>0, <4>2, <5>1
      <4> QED BY <4>1, <4>2
    <3>2. ~StoreResult
      <4>1. StoreResult => Work
        BY DEF Work
      <4>2. Work => req'[r] = req[r]
        BY WorkFrame
      <4>3. req'[r] # req[r]
        <5>1. \/ req'[r] = None
              \/ EditLoads(r) /\ req'[r].pc = "loaded"
              \/ Admit(r) /\ req'[r].pc = "admitted"
              \/ (DeleteFiles(r) \/ DropAvatarFiles(r)) /\ req'[r].pc = "row"
              \/ DeleteRow(r) /\ req'[r].pc = "again"
              \/ EditPut(r) /\ req'[r].pc = "made"
          BY <1>6, ServedRequest DEF Goes
        <5> QED BY <1>0, <5>1 DEF EditLoads, Admit, DeleteFiles, DropAvatarFiles, DeleteRow, EditPut, At
      <4> QED BY <4>1, <4>2, <4>3
    <3> QED BY <3>1, <3>2, RowNames DEF InRow
  <2>5. k \in files' => k \in files
    BY <1>6 DEF Serve, EditLoads, EditPut, Admit, Enqueue, DeleteFiles, DeleteRow, DeleteFilesAgain,
            DropAvatarFiles, DropAvatarRow, disk
  <2>6. k \in files /\ k \notin files' => ~Open' \/ Deleting'
    <3>1. CASE files' = files
      BY <3>1
    <3>2. CASE DeleteFiles(r)
      <4>1. To(r, "row") /\ req[r].kind = "delete"
        BY <3>2 DEF DeleteFiles, At
      <4>2. req'[r] # None /\ req'[r].pc = "row" /\ req'[r].kind = "delete"
        BY <1>0, <4>1, ToKeeps DEF SameRequest
      <4> QED BY <4>2 DEF Deleting, At
    <3>3. CASE DeleteFilesAgain(r)
      <4>1. row = None
        BY <1>0, <3>3 DEF DeleteFilesAgain, At, RequestIsFilled
      <4> QED BY <4>1, RowStaysGone DEF Open
    <3>4. files' = files \/ DeleteFiles(r) \/ DeleteFilesAgain(r)
      BY <1>6 DEF Serve, EditLoads, EditPut, Admit, Enqueue, DeleteRow,
            DropAvatarFiles, DropAvatarRow, disk
    <3> QED BY <3>1, <3>2, <3>3, <3>4
  <2> QED BY <1>0, <2>2, <2>3, <2>4, <2>5, <2>6, KeysSame
<1> QED BY <1>3, <1>4, <1>5, <1>6

LEMMA KeysWorked ==
    ASSUME Inv, [Next]_vars, Work, NEW k \in Keys PROVE KeyStep(k)
<1> USE DEF Inv
<1>0. Apart(k) /\ task # None /\ task \in TaskRecords /\ TaskIsFilled(task) /\ UNCHANGED req
  BY WorkFrame DEF FilesApart
<1>1. \A q \in Requests : (HeldBy(req[q], k)' <=> HeldBy(req[q], k))
                       /\ (DoomedBy(req[q], k)' <=> DoomedBy(req[q], k))
  BY <1>0 DEF HeldBy, DoomedBy
<1>2. CASE JobMakes
  <2>1. /\ task'.pc = "store" /\ task'.key = NewKey /\ task' # None /\ task.pc = "make"
        /\ row' = row /\ files' = files \cup {NewKey} /\ usedKeys' = NewKey
    BY <1>2, MakeTypes, NoneIsNone DEF JobMakes, Doing
  <2>2. (TaskHolds(k)' <=> k = NewKey) /\ ~TaskHolds(k) /\ ~TaskDooms(k)' /\ ~TaskDooms(k)
    BY <2>1 DEF TaskHolds, TaskDooms
  <2>3. (IsHeld(k)' <=> IsHeld(k) \/ k = NewKey) /\ (IsDoomed(k)' <=> IsDoomed(k))
    BY <1>1, <2>2 DEF IsHeld, IsDoomed
  <2>4. InRow(k)' <=> InRow(k)
    BY <2>1 DEF InRow, Open
  <2>5. k = NewKey => ~IsHeld(k) /\ ~IsDoomed(k) /\ ~InRow(k)
    BY DEF FilesApart, NewKey, TypeOK
  <2>6. Apart(k)'
    BY <1>0, <1>1, <2>2, <2>3, <2>4, <2>5 DEF Apart, IsHeld
  <2> QED BY <2>1, <2>3, <2>4, <2>6 DEF KeyStep, Fresh
<1>3. CASE StoreResult
  <2>1. task.pc = "store" /\ task.step # "finish" /\ files' = files
    BY <1>3 DEF StoreResult, Doing
  <2>2. SameTask /\ Result' = Result /\ task' # None
    <3>1. SameTask
      BY <1>3, StoreTypes
    <3> QED BY <3>1, NoneIsNone DEF SameTask, Result
  <2>3. (TaskHolds(k) <=> task.key = k) /\ ~TaskDooms(k)
    BY <1>0, <2>1 DEF TaskHolds, TaskDooms
  <2>4. TaskHolds(k) => IsHeld(k)
    BY DEF IsHeld
  <2>5. CASE Unchanged(task.revision)
    <3>1. /\ task'.pc = "tidy" /\ row # None /\ row' # None /\ row.status = "draft" /\ row'.status = "draft"
          /\ row'.steps = Result /\ row.revision = task.revision
      BY <1>3, <2>5, StoreTypes, NoneIsNone
    <3>2. Named(Result) \subseteq Named(task.steps) \cup {task.key}
      BY <1>0, <2>1, ResultSteps
    <3>3. task.steps = row.steps
      <4>1. Open /\ HasRead(task)
        BY <2>1, <3>1 DEF Open, HasRead
      <4> QED BY <1>0, <3>1, <4>1 DEF Revised, ReadAt
    <3>4. (InRow(k) <=> k \in Named(row.steps)) /\ (InRow(k)' <=> k \in Named(Result))
      BY <3>1 DEF InRow, Open
    <3>5. ~TaskHolds(k)' /\ (TaskDooms(k)' <=> InRow(k) /\ ~InRow(k)')
      BY <2>1, <2>2, <3>1, <3>3, <3>4 DEF TaskHolds, TaskDooms, SameTask
    <3>6. InRow(k)' => InRow(k) \/ TaskHolds(k)
      BY <2>3, <3>2, <3>3, <3>4
    <3>7. IsHeld(k)' <=> IsHeld(k) /\ ~TaskHolds(k)
      BY <1>0, <1>1, <3>5 DEF IsHeld, Apart
    <3>8. IsDoomed(k)' <=> IsDoomed(k) \/ (InRow(k) /\ ~InRow(k)')
      BY <1>1, <2>3, <3>5 DEF IsDoomed
    <3>9. Apart(k)'
      BY <1>0, <1>1, <2>4, <3>5, <3>6, <3>7, <3>8 DEF Apart
    <3> QED BY <2>1, <2>4, <3>1, <3>6, <3>7, <3>8, <3>9 DEF KeyStep
  <2>6. CASE ~Unchanged(task.revision)
    <3>1. task'.pc = "discard" /\ row' = row
      BY <1>3, <2>6, StoreTypes
    <3>2. InRow(k)' <=> InRow(k)
      BY <3>1 DEF InRow, Open
    <3>3. ~TaskHolds(k)' /\ (TaskDooms(k)' <=> TaskHolds(k))
      BY <2>2, <2>3, <3>1 DEF TaskHolds, TaskDooms, SameTask
    <3>4. IsHeld(k)' <=> IsHeld(k) /\ ~TaskHolds(k)
      BY <1>0, <1>1, <3>3 DEF IsHeld, Apart
    <3>5. IsDoomed(k)' <=> IsDoomed(k) \/ TaskHolds(k)
      BY <1>1, <2>3, <3>3 DEF IsDoomed
    <3>6. Apart(k)'
      BY <1>0, <1>1, <2>4, <3>2, <3>3, <3>4, <3>5 DEF Apart
    <3> QED BY <2>1, <2>4, <3>2, <3>4, <3>5, <3>6 DEF KeyStep
  <2> QED BY <2>5, <2>6
<1>4. CASE JobFails
  <2>1. task'.pc = "fail" /\ row' = row /\ files' = files /\ task.pc \in {"make", "store"}
    BY <1>4, FailTypes DEF JobFails
  <2>2. ~TaskHolds(k)' /\ ~TaskDooms(k)' /\ ~TaskDooms(k)
    BY <2>1 DEF TaskHolds, TaskDooms
  <2>3. InRow(k)' <=> InRow(k)
    BY <2>1 DEF InRow, Open
  <2>4. TaskHolds(k) => faults' > 0
    <3>1. TaskHolds(k) => Fault
      BY <1>4 DEF TaskHolds, JobFails, Doing
    <3> QED BY <3>1 DEF Fault, TypeOK
  <2>5. IsHeld(k) \/ IsDoomed(k) => IsHeld(k)' \/ IsDoomed(k)' \/ faults' > 0
    BY <1>1, <2>2, <2>4 DEF IsHeld, IsDoomed
  <2> QED BY <1>0, <1>1, <2>1, <2>2, <2>3, <2>5, KeyLetGo
<1>5. CASE JobTidies \/ JobDiscards
  <2>1. /\ task'.pc \in {"end", "fail"} /\ row' = row /\ task.step # "finish"
        /\ \/ task.pc = "tidy" /\ files' = files \ (Named(task.steps) \ Named(Result))
           \/ task.pc = "discard" /\ files' = files \ {task.key}
    BY <1>5, TidyTypes DEF JobTidies, JobDiscards, Doing
  <2>2. ~TaskHolds(k)' /\ ~TaskDooms(k)' /\ ~TaskHolds(k)
    BY <2>1 DEF TaskHolds, TaskDooms
  <2>3. InRow(k)' <=> InRow(k)
    BY <2>1 DEF InRow, Open
  <2>4. (k \in files' <=> k \in files /\ ~TaskDooms(k)) /\ (TaskDooms(k) => IsDoomed(k))
    BY <1>0, <2>1 DEF TaskDooms, IsDoomed
  <2>5. TaskDooms(k) \/ ((IsHeld(k)' <=> IsHeld(k)) /\ (IsDoomed(k)' <=> IsDoomed(k)))
    BY <1>1, <2>2 DEF IsHeld, IsDoomed
  <2> QED BY <1>0, <1>1, <2>2, <2>3, <2>4, <2>5, KeyLetGo
<1>6. CASE ~(JobMakes \/ StoreResult \/ JobFails \/ JobTidies \/ JobDiscards)
  <2>1. ~TaskHolds(k) /\ ~TaskDooms(k)
    BY <1>6 DEF Work, JobBegins, JobReads, JobLoads, JobRecordsFailure, JobEnds, FinishLoads,
         FinishBuilds, FinishCommits, FinishUndoes, FinishUndoesFiles, FinishTidies, Doing, TaskHolds, TaskDooms
  <2>2. ~TaskHolds(k)' /\ ~TaskDooms(k)'
    <3>1. task' # None => task'.step = task.step
      BY WorkFrame
    <3>2. CASE JobEnds
      BY <3>2 DEF JobEnds, TaskHolds, TaskDooms
    <3>3. CASE FinishCommits
      <4>1. task.step = "finish" /\ task'.pc \in {"tidy", "undo"}
        BY <3>3, CommitTypes DEF FinishCommits, Doing
      <4> QED BY <3>1, <4>1 DEF TaskHolds, TaskDooms
    <3>4. CASE ~JobEnds /\ ~FinishCommits
      <4>1. task'.pc \notin {"store", "tidy", "discard"}
        BY <1>6, <3>4, BeginTypes, ReadTypes, LoadTypes, FailureTypes, FinishLoadTypes,
           FinishBuildTypes, UndoTypes, FinishEndTypes DEF Work
      <4> QED BY <4>1 DEF TaskHolds, TaskDooms
    <3> QED BY <3>2, <3>3, <3>4
  <2>3. InRow(k)' => InRow(k)
    <3>1. \A r \in Requests : ~EditWrite(r)
      <4>1. ASSUME NEW r \in Requests, EditWrite(r) PROVE FALSE
        <5>1. Serve(r)
          BY <4>1 DEF Serve
        <5>2. req'[r].pc = "tidy" /\ req[r].pc # "tidy"
          BY <4>1, EditWrites DEF EditWrite, At
        <5> QED BY <1>0, <5>2
      <4> QED BY <4>1
    <3> QED BY <1>6, <3>1, RowNames DEF InRow
  <2>4. /\ k \in files' => k \in files
        /\ k \in files /\ k \notin files' => ~Open'
    <3>1. CASE FinishTidies
      <4>1. ~Open
        BY <1>0, <3>1 DEF FinishTidies, Doing, FilesThere
      <4>2. ~Open'
        BY <4>1, RowGrows DEF Grows
      <4> QED BY <3>1, <4>2 DEF FinishTidies
    <3>2. CASE ~FinishTidies
      <4>1. files' = files
        BY <1>6, <3>2 DEF Work, JobBegins, JobReads, JobLoads, JobRecordsFailure, JobEnds, FinishLoads,
             FinishBuilds, FinishCommits, FinishUndoes, FinishUndoesFiles, disk
      <4> QED BY <4>1
    <3> QED BY <3>1, <3>2
  <2> QED BY <1>0, <1>1, <2>1, <2>2, <2>3, <2>4, KeysSame
<1> QED BY <1>2, <1>3, <1>4, <1>5, <1>6

LEMMA KeysChange == ASSUME Inv, [Next]_vars, NEW k \in Keys PROVE KeyStep(k)
<1> USE DEF Inv
<1>1. CASE \E r \in Requests : Serve(r)
  BY <1>1, KeysServed
<1>2. CASE Work
  BY <1>2, KeysWorked
<1>3. CASE Crash
  <2>1. /\ \A r \in Requests : ~HeldBy(req[r], k)' /\ ~DoomedBy(req[r], k)'
        /\ ~TaskHolds(k)' /\ ~TaskDooms(k)' /\ crashes' > 0
    BY <1>3, CrashTypes DEF HeldBy, DoomedBy, TaskHolds, TaskDooms
  <2>2. files' = files /\ (InRow(k)' <=> InRow(k)) /\ Apart(k)
    BY <1>3 DEF Crash, disk, InRow, Open, FilesApart
  <2> QED BY <2>1, <2>2, KeyLetGo
<1>4. CASE ~(\E r \in Requests : Serve(r)) /\ ~Work /\ ~Crash
  <2>1. \A r \in Requests : (HeldBy(req[r], k)' <=> HeldBy(req[r], k))
                         /\ (DoomedBy(req[r], k)' <=> DoomedBy(req[r], k))
    <3>1. ASSUME NEW q \in Requests, NEW kind \in Kinds, Receive(q, kind), NEW r \in Requests
          PROVE  (HeldBy(req[r], k)' <=> HeldBy(req[r], k)) /\ (DoomedBy(req[r], k)' <=> DoomedBy(req[r], k))
      <4>1. CASE r = q
        <5>1. req[r] = None /\ req'[r].pc = "read"
          BY <3>1, <4>1, ReceivedRequest DEF Receive
        <5> QED BY <5>1 DEF HeldBy, DoomedBy
      <4>2. CASE r # q
        BY <3>1, <4>2, ReceivedRequest DEF HeldBy, DoomedBy
      <4> QED BY <4>1, <4>2
    <3>2. UNCHANGED req \/ \E q \in Requests, kind \in Kinds : Receive(q, kind)
      BY <1>4, SweepFrame DEF Next, TimePasses, Boot, vars, memory
    <3>3. CASE UNCHANGED req
      BY <3>3 DEF HeldBy, DoomedBy
    <3> QED BY <3>1, <3>2, <3>3
  <2>2. (TaskHolds(k)' <=> TaskHolds(k)) /\ (TaskDooms(k)' <=> TaskDooms(k))
    <3>1. UNCHANGED task
      BY <1>4, SweepFrame DEF Next, Receive, TimePasses, Boot, vars, memory
    <3> QED BY <3>1 DEF TaskHolds, TaskDooms, Result
  <2>3. InRow(k)' => InRow(k)
    <3>1. (\A r \in Requests : ~EditWrite(r)) /\ ~StoreResult
      BY <1>4 DEF Serve, Work
    <3> QED BY <3>1, RowNames DEF InRow
  <2>4. /\ k \in files' => k \in files
        /\ k \in files /\ k \notin files' => ~Open'
    <3>1. CASE PurgeFiles
      <4>1. ~Open
        BY <3>1 DEF PurgeFiles, FilesThere
      <4>2. ~Open'
        BY <4>1, RowGrows DEF Grows
      <4> QED BY <3>1, <4>2 DEF PurgeFiles
    <3>2. CASE ~PurgeFiles
      <4>1. files' = files
        BY <1>4, <3>2 DEF Next, Receive, Sweep, RecoverRead, RecoverCheck, RecoverWrite, RecoverFiles,
              ExpireRead, ExpireWrite, PurgeRow, TimePasses, Boot, vars, disk
      <4> QED BY <4>1
    <3> QED BY <3>1, <3>2
  <2>5. Apart(k)
    BY DEF FilesApart
  <2> QED BY <2>1, <2>2, <2>3, <2>4, <2>5, KeysSame
<1> QED BY <1>1, <1>2, <1>3, <1>4

LEMMA FilesApartKept == ASSUME Inv, [Next]_vars PROVE FilesApart'
<1> USE DEF Inv
<1>1. SUFFICES ASSUME NEW k \in Keys
              PROVE  /\ IsHeld(k)' \/ IsDoomed(k)' \/ InRow(k)' \/ k \in files' => k <= usedKeys'
                     /\ Apart(k)'
  BY DEF FilesApart
<1>2. KeyStep(k)
  BY KeysChange
<1>3. usedKeys' = usedKeys \/ usedKeys' = usedKeys + 1
  <2>1. ASSUME NEW r \in Requests, Serve(r) PROVE usedKeys' = usedKeys \/ usedKeys' = usedKeys + 1
    <3>1. EditPut(r) => usedKeys' = usedKeys \/ usedKeys' = usedKeys + 1
      BY DEF EditPut, NewKey
    <3> QED BY <2>1, <3>1, ServeFrame
  <2>2. Work => usedKeys' = usedKeys \/ usedKeys' = usedKeys + 1
    BY WorkFrame DEF JobMakes, NewKey
  <2>3. Sweep => usedKeys' = usedKeys
    BY SweepFrame DEF counters
  <2> QED BY <2>1, <2>2, <2>3 DEF Next, Receive, TimePasses, Crash, Boot, vars, counters
<1>4. usedKeys \in Nat /\ k \in Nat
  BY DEF TypeOK, Keys
<1>5. IsHeld(k)' \/ IsDoomed(k)' \/ InRow(k)' \/ k \in files' =>
        IsHeld(k) \/ IsDoomed(k) \/ InRow(k) \/ k \in files \/ (k = usedKeys + 1 /\ usedKeys' = usedKeys + 1)
  BY <1>2 DEF KeyStep, Fresh, NewKey
<1>6. IsHeld(k) \/ IsDoomed(k) \/ InRow(k) \/ k \in files => k <= usedKeys
  BY DEF FilesApart
<1> QED BY <1>2, <1>3, <1>4, <1>5, <1>6 DEF KeyStep

LEMMA FilesThereKept == ASSUME Inv, [Next]_vars PROVE FilesThere'
<1> USE DEF Inv
<1>1. Open' => Open
  BY RowGrows DEF Grows
<1>2. ASSUME Open', ~Deleting', crashes' = 0 PROVE Open /\ ~Deleting /\ crashes = 0
  <2>1. ~Crash
    BY <1>2, CrashTypes
  <2>2. crashes = 0
    BY <1>2, <2>1, SweepFrame, ServeFrame, WorkFrame DEF Next, Receive, TimePasses, Boot, vars, counters
  <2>3. ASSUME NEW r \in Requests, At(r, "row", {"delete"}) PROVE FALSE
    <3>1. req'[r] = req[r] \/ Serve(r)
      <4>1. ASSUME NEW q \in Requests, Serve(q) PROVE req'[r] = req[r] \/ Serve(r)
        BY <4>1, ServeFrame
      <4>2. ASSUME NEW q \in Requests, NEW kind \in Kinds, Receive(q, kind) PROVE req'[r] = req[r]
        <5>1. req[q] = None
          BY <4>2 DEF Receive
        <5> QED BY <2>3, <4>2, <5>1, ReceivedRequest DEF At
      <4> QED BY <2>1, <4>1, <4>2, SweepFrame, WorkFrame DEF Next, TimePasses, Boot, vars, memory
    <3>2. req'[r] # req[r]
      BY <1>2, <2>3 DEF Deleting, At
    <3>3. DeleteRow(r)
      BY <2>3, <3>1, <3>2 DEF Serve, EditLoads, EditPut, EditWrite, EditTidy, Admit, Enqueue, DeleteFiles,
            DeleteFilesAgain, DropAvatarFiles, DropAvatarRow, At, EditKinds, JobKinds
    <3> QED BY <1>2, <3>3 DEF DeleteRow, Open
  <2> QED BY <1>1, <1>2, <2>2, <2>3 DEF Deleting
<1>3. ASSUME Open', ~Deleting', crashes' = 0, NEW k \in Keys, InRow(k)' \/ IsHeld(k)' PROVE k \in files'
  <2>1. KeyStep(k) /\ Apart(k)
    BY KeysChange DEF FilesApart
  <2>2. InRow(k) \/ IsHeld(k) \/ k \in files'
    BY <1>3, <2>1 DEF KeyStep, Fresh
  <2>3. InRow(k) \/ IsHeld(k) => k \in files
    BY <1>2, <1>3 DEF FilesThere
  <2>4. InRow(k) \/ IsHeld(k) => ~IsDoomed(k)
    BY <2>1 DEF Apart
  <2> QED BY <1>3, <2>1, <2>2, <2>3, <2>4 DEF KeyStep
<1>4. Sweeping("purge")' => ~Open'
  <2>1. CASE ExpireWrite
    <3>1. sweep' = None \/ row'.status = "expired"
      BY <2>1, ExpireWriteTypes
    <3> QED BY <3>1 DEF Sweeping, Open
  <2>2. CASE PurgeRow
    BY <2>2 DEF PurgeRow, Open
  <2>3. CASE ~ExpireWrite /\ ~PurgeRow
    <3>1. Sweeping("purge")' => Sweeping("purge")
      <4>1. CASE Sweep
        <5>1. sweep' = None \/ sweep'.pc \in {"check", "write", "files", "expire"}
          BY <2>3, <4>1, SweepReadTypes, SweepCheckTypes, RecoverWriteSteps, SweepEndTypes DEF Sweep
        <5> QED BY <5>1 DEF Sweeping
      <4>2. CASE Crash
        BY <4>2, CrashTypes DEF Sweeping
      <4>3. CASE ~Sweep /\ ~Crash
        <5>1. UNCHANGED sweep
          BY <4>3, ServeFrame, WorkFrame DEF Next, Receive, TimePasses, Boot, vars, memory
        <5> QED BY <5>1 DEF Sweeping
      <4> QED BY <4>1, <4>2, <4>3
    <3> QED BY <1>1, <3>1 DEF FilesThere
  <2> QED BY <2>1, <2>2, <2>3
<1>5. task' # None /\ task'.pc = "tidy" /\ task'.step = "finish" => ~Open'
  <2>1. CASE Work
    <3>1. CASE FinishCommits
      <4>1. task'.pc = "tidy" => row'.status = "finished"
        BY <3>1, CommitTypes
      <4> QED BY <4>1 DEF Open
    <3>2. CASE StoreResult
      <4>1. task'.step # "finish"
        BY <3>2, StoreTypes DEF SameTask, StoreResult, Doing
      <4> QED BY <4>1
    <3>3. CASE JobEnds
      BY <3>3 DEF JobEnds
    <3>4. CASE ~FinishCommits /\ ~StoreResult /\ ~JobEnds
      <4>1. task'.pc # "tidy"
        BY <2>1, <3>4, BeginTypes, ReadTypes, LoadTypes, MakeTypes, FailTypes, TidyTypes, FailureTypes,
           FinishLoadTypes, FinishBuildTypes, UndoTypes, FinishEndTypes DEF Work
      <4> QED BY <4>1
    <3> QED BY <3>1, <3>2, <3>3, <3>4
  <2>2. CASE ~Work /\ task' = task
    BY <1>1, <2>2 DEF FilesThere
  <2>3. CASE ~Work /\ task' # task
    <3>1. task' = None \/ \E r \in Requests : Enqueue(r) /\ task' # task
      BY <2>3, ServeFrame, SweepFrame, CrashTypes DEF Next, Receive, TimePasses, Boot, vars, memory
    <3>2. task' = None \/ task'.pc = "queued"
      BY <3>1 DEF Enqueue
    <3> QED BY <3>2
  <2> QED BY <2>1, <2>2, <2>3
<1> QED BY <1>3, <1>4, <1>5 DEF FilesThere

LEMMA NothingLeftKept == ASSUME Inv, [Next]_vars PROVE NothingLeft'
<1> USE DEF Inv
<1>1. SUFFICES ASSUME row' = None, crashes' = 0, faults' = 0, ~Purging'
              PROVE  ~incoming' /\ \A k \in files' : IsHeld(k)' \/ IsDoomed(k)'
  BY DEF NothingLeft
<1>2. ~Crash
  BY <1>1, CrashTypes
<1>3. crashes = 0 /\ faults = 0
  <2>1. crashes' = crashes
    BY <1>2, SweepFrame, ServeFrame, WorkFrame DEF Next, Receive, TimePasses, Boot, vars, counters
  <2>2. faults' = faults \/ faults' = faults + 1
    <3>1. Work => faults' = faults \/ faults' = faults + 1
      BY DEF Work, JobBegins, JobReads, JobLoads, JobMakes, JobFails, StoreResult, JobTidies, JobDiscards,
         JobRecordsFailure, JobEnds, FinishLoads, FinishBuilds, FinishCommits, FinishUndoes,
         FinishUndoesFiles, FinishTidies, Fault, NoFault, counters
    <3> QED BY <1>2, <3>1, SweepFrame, ServeFrame DEF Next, Receive, TimePasses, Boot, vars, counters
  <2> QED BY <1>1, <2>1, <2>2 DEF TypeOK
<1>4. CASE PurgeFiles \/ \E r \in Requests : DeleteFilesAgain(r)
  BY <1>4 DEF PurgeFiles, DeleteFilesAgain
<1>5. CASE ~PurgeFiles /\ \A r \in Requests : ~DeleteFilesAgain(r)
  <2>1. ~Sweeping("purge")
    <3>1. SUFFICES ASSUME Sweeping("purge") PROVE Sweeping("purge")'
      BY <1>1 DEF Purging
    <3>2. ~Sweep
      BY <1>5, <3>1 DEF Sweep, Sweeping, RecoverRead, RecoverCheck, RecoverWrite, RecoverFiles, ExpireRead,
             ExpireWrite, PurgeRow
    <3>3. UNCHANGED sweep
      BY <1>2, <3>2, ServeFrame, WorkFrame DEF Next, Receive, TimePasses, Boot, vars, memory
    <3> QED BY <3>1, <3>3 DEF Sweeping
  <2>2. ASSUME NEW r \in Requests, At(r, "again", {"delete"}) PROVE FALSE
    <3>1. ~Serve(r)
      BY <1>5, <2>2 DEF Serve, EditLoads, EditPut, EditWrite, EditTidy, Admit, Enqueue, DeleteFiles, DeleteRow,
            DropAvatarFiles, DropAvatarRow, At, EditKinds, JobKinds
    <3>2. req'[r] = req[r]
      <4>1. ASSUME NEW q \in Requests, Serve(q) PROVE req'[r] = req[r]
        BY <3>1, <4>1, ServeFrame
      <4>2. ASSUME NEW q \in Requests, NEW kind \in Kinds, Receive(q, kind) PROVE req'[r] = req[r]
        <5>1. req[q] = None
          BY <4>2 DEF Receive
        <5> QED BY <2>2, <4>2, <5>1, ReceivedRequest DEF At
      <4> QED BY <1>2, <4>1, <4>2, SweepFrame, WorkFrame DEF Next, TimePasses, Boot, vars, memory
    <3> QED BY <1>1, <2>2, <3>2 DEF Purging, At
  <2>3. row = None
    <3>1. ASSUME row # None PROVE FALSE
      <4>1. CASE \E r \in Requests : DeleteRow(r)
        <5>1. PICK r \in Requests : DeleteRow(r)
          BY <4>1
        <5>2. req'[r].pc = "again" /\ req'[r] # None /\ req'[r].kind = "delete"
          BY <5>1, ToKeeps DEF DeleteRow, At, SameRequest
        <5> QED BY <1>1, <5>2 DEF Purging, At
      <4>2. CASE PurgeRow
        <5>1. sweep'.pc = "purge" /\ sweep' # None
          BY <4>2, SweepReadTypes, NoneIsNone DEF PurgeRow
        <5> QED BY <1>1, <5>1 DEF Purging, Sweeping
      <4>3. CASE ~PurgeRow /\ \A r \in Requests : ~DeleteRow(r)
        <5>1. ASSUME NEW r \in Requests, Serve(r) PROVE FALSE
          <6>1. EditWrite(r) \/ Enqueue(r)
            BY <1>1, <3>1, <4>3, <5>1, ServeFrame
          <6>2. Unchanged(req[r].revision)
            BY <1>1, <3>1, <6>1 DEF EditWrite, Enqueue
          <6>3. EditWrite(r) => Edited(req[r]) \in Steps
            BY EditWrites
          <6> QED BY <1>1, <6>1, <6>2, <6>3, EditedRow, QueuedRow, NoneIsNone
        <5>2. ~Work
          BY <1>1, <3>1, WorkRow, NoneIsNone
        <5>3. ~Sweep
          BY <1>1, <3>1, <4>3, SweepFrame, RecoverWriteSteps, ExpireWriteTypes, NoneIsNone
        <5>4. ~TimePasses
          BY <1>1, TimeTypes, NoneIsNone
        <5> QED BY <1>1, <1>2, <3>1, <5>1, <5>2, <5>3, <5>4 DEF Next, Receive, Boot, vars, disk
      <4> QED BY <4>1, <4>2, <4>3
    <3> QED BY <3>1
  <2>4. ~incoming /\ \A k \in files : IsHeld(k) \/ IsDoomed(k)
    BY <1>3, <2>1, <2>2, <2>3 DEF NothingLeft, Purging
  <2>5. ~incoming'
    <3>1. ASSUME NEW r \in Requests, Serve(r) PROVE ~incoming'
      BY <2>4, <3>1 DEF Serve, EditLoads, EditPut, EditWrite, EditTidy, Admit, Enqueue, DeleteFiles, DeleteRow,
            DeleteFilesAgain, DropAvatarFiles, DropAvatarRow, disk
    <3>2. Work => ~incoming'
      BY <2>4 DEF Work, JobBegins, JobReads, JobLoads, JobMakes, JobFails, StoreResult, JobTidies, JobDiscards,
         JobRecordsFailure, JobEnds, FinishLoads, FinishBuilds, FinishCommits, FinishUndoes,
         FinishUndoesFiles, FinishTidies, disk
    <3>3. Sweep => ~incoming'
      BY <2>4 DEF Sweep, RecoverRead, RecoverCheck, RecoverWrite, RecoverFiles, ExpireRead, ExpireWrite,
         PurgeRow, PurgeFiles, disk
    <3> QED BY <1>2, <2>4, <3>1, <3>2, <3>3 DEF Next, Receive, TimePasses, Boot, vars, disk
  <2>6. ASSUME NEW k \in files' PROVE IsHeld(k)' \/ IsDoomed(k)'
    <3>1. k \in Keys
      BY <2>6, TypesKept DEF TypeOK
    <3>2. KeyStep(k)
      BY <3>1, KeysChange
    <3>3. CASE k \in files
      <4>1. IsHeld(k) \/ IsDoomed(k)
        BY <2>4, <3>3
      <4>2. ~(crashes' > 0) /\ ~(faults' > 0)
        BY <1>1
      <4> QED BY <2>3, <2>6, <3>2, <4>1, <4>2 DEF KeyStep
    <3>4. CASE k \notin files
      BY <2>6, <3>2, <3>4 DEF KeyStep
    <3> QED BY <3>3, <3>4
  <2> QED BY <2>5, <2>6
<1> QED BY <1>4, <1>5

-----------------------------------------------------------------------------
(* The invariant holds                                                     *)

\* A creation as it is uploaded, or as step 3 leaves it.
NewRow == row # None /\ row.status = "draft" /\ row.avatar = None

LEMMA UploadedIsConsistent == ASSUME Init, Uploaded PROVE Inv /\ NewRow
<1> USE NoneIsNone, CreationsAssumption DEF Init
<1>1. PICK plan \in BOOLEAN :
        row = [status |-> "draft", revision |-> 0, job |-> Job(1, "ingest", "queued"),
               avatar |-> None, steps |-> NoImages(plan), anchors |-> None, old |-> FALSE]
  BY DEF Uploaded
<1>2. 1 \in JobIds /\ 1 \in Avatars /\ 0 \in 0..MaxKeys
  BY DEF JobIds, Avatars
<1>3. NoImages(plan) \in Steps /\ Named(NoImages(plan)) = {}
  BY NoImagesAreSteps
<1>4. Job(1, "ingest", "queued") \in JobRecords /\ Job(1, "ingest", "queued").id = 1
  BY <1>2, JobTypes DEF Job, JobKinds, ActiveStates
<1>5. row \in Rows
  BY <1>1, <1>3, <1>4 DEF Rows, Statuses
<1>6. /\ row # None /\ row.status = "draft" /\ row.steps = NoImages(plan) /\ row.old = FALSE
      /\ row.job.id = 1 /\ row.revision = 0 /\ row.avatar = None
  BY <1>1, <1>4, <1>5
<1>7. task \in TaskRecords /\ task # None /\ task.pc = "queued" /\ task.id = 1 /\ task.revision = 0
      /\ task.step = "ingest"
  BY <1>2 DEF Uploaded, TaskRecords, JobKinds
<1>8. \A r \in Requests : req[r] = None
  OBVIOUS
<1>9. \A a \in Avatars : avatars[a] = "none"
  OBVIOUS
<1>10. TypeOK
  BY <1>2, <1>5, <1>7 DEF Uploaded, TypeOK
<1>11. Filled /\ Idle
  BY <1>3, <1>6, <1>7, <1>8, StepsTypes DEF Filled, TaskIsFilled, Idle
<1>12. Revised
  BY <1>6, <1>7, <1>8 DEF Revised, HasRead
<1>13. OneJob
  BY <1>6, <1>7, <1>8 DEF OneJob, Admitted, Sweeping, Uploaded
<1>14. Avatared /\ Published /\ Owned /\ AvatarWhole
  BY <1>6, <1>7, <1>8, <1>9 DEF Avatared, Published, Owned, AvatarWhole, Admitted, Sweeping
<1>15. \A k \in Keys : ~IsHeld(k) /\ ~IsDoomed(k) /\ ~InRow(k) /\ k \notin files
  BY <1>3, <1>6, <1>7, <1>8 DEF IsHeld, IsDoomed, InRow, TaskHolds, TaskDooms, HeldBy, DoomedBy, Uploaded
<1>16. FilesApart /\ FilesThere
  BY <1>7, <1>8, <1>15 DEF FilesApart, FilesThere, Apart, HeldBy, Sweeping
<1>17. NothingLeft
  BY <1>6 DEF NothingLeft
<1> QED BY <1>6, <1>10, <1>11, <1>12, <1>13, <1>14, <1>16, <1>17 DEF Inv, NewRow

LEMMA PreparedIsConsistent == ASSUME Init, Prepared PROVE Inv /\ NewRow
<1> USE NoneIsNone, CreationsAssumption DEF Init
<1> DEFINE st == [plan |-> TRUE, original |-> 1, framed |-> None, cutout |-> 2, current |-> "cutout"]
<1>1. row = [status |-> "draft", revision |-> 1, job |-> Job(1, "prepare", "done"),
             avatar |-> None, anchors |-> 1, old |-> FALSE, steps |-> st]
  BY DEF Prepared
<1>2. 1 \in JobIds /\ 1 \in Avatars /\ 1 \in Keys /\ 2 \in Keys /\ 2 \in 0..MaxKeys
  BY DEF JobIds, Avatars, Keys
<1>3. st \in Steps /\ Named(st) = {1, 2}
  <2>1. st \in AnySteps
    BY <1>2 DEF AnySteps
  <2>2. st \in Steps
    BY <1>2, <2>1, StepsAre
  <2> QED BY <1>2, <2>2 DEF Named
<1> HIDE DEF st
<1>4. Job(1, "prepare", "done") \in JobRecords /\ Job(1, "prepare", "done").id = 1
  BY <1>2, JobTypes DEF Job, JobKinds
<1>5. row \in Rows
  BY <1>1, <1>2, <1>3, <1>4 DEF Rows, Statuses
<1>6. /\ row # None /\ row.status = "draft" /\ row.steps = st /\ row.old = FALSE
      /\ row.job.id = 1 /\ row.revision = 1 /\ row.avatar = None
  BY <1>1, <1>4, <1>5
<1>7. \A r \in Requests : req[r] = None
  OBVIOUS
<1>8. \A a \in Avatars : avatars[a] = "none"
  OBVIOUS
<1>9. TypeOK
  <2>1. /\ avatars \in [Avatars -> {"none", "processing", "ready", "failed", "deleted"}]
        /\ avatarFiles \subseteq Avatars /\ req \in [Requests -> RequestRecords \cup {None}]
    OBVIOUS
  <2>2. files \subseteq Keys /\ incoming \in BOOLEAN /\ active = None /\ task = None /\ sweep = None
    BY <1>2 DEF Prepared
  <2>3. usedJobs \in JobIds /\ usedKeys \in 0..MaxKeys /\ crashes \in 0..MaxCrashes /\ faults \in 0..MaxFaults
    BY <1>2 DEF Prepared
  <2> HIDE DEF Init
  <2> QED BY <1>5, <2>1, <2>2, <2>3 DEF TypeOK, Init
<1>10. Filled /\ Idle /\ Revised
  BY <1>3, <1>6, <1>7, StepsTypes DEF Prepared, Filled, Idle, Revised
<1>11. OneJob
  BY <1>6, <1>7 DEF OneJob, Admitted, Sweeping, Prepared
<1>12. Avatared /\ Published /\ Owned /\ AvatarWhole
  BY <1>6, <1>7, <1>8 DEF Avatared, Published, Owned, AvatarWhole, Admitted, Sweeping, Prepared
<1>13. \A k \in Keys : ~IsHeld(k) /\ ~IsDoomed(k)
  BY <1>7 DEF IsHeld, IsDoomed, TaskHolds, TaskDooms, HeldBy, DoomedBy, Prepared
<1>14. \A k \in Keys : InRow(k) \/ k \in files => k \in {1, 2}
  BY <1>3, <1>6 DEF InRow, Prepared
<1>15. FilesApart
  <2> SUFFICES ASSUME NEW k \in Keys
               PROVE  /\ IsHeld(k) \/ IsDoomed(k) \/ InRow(k) \/ k \in files => k <= usedKeys
                      /\ Apart(k)
    BY DEF FilesApart
  <2>1. Apart(k)
    BY <1>7, <1>13 DEF Apart, HeldBy
  <2>2. k \in {1, 2} => k <= usedKeys
    BY DEF Prepared
  <2> QED BY <1>13, <1>14, <2>1, <2>2
<1>16. FilesThere
  BY <1>3, <1>6, <1>13 DEF FilesThere, InRow, Sweeping, Prepared
<1>17. NothingLeft
  BY <1>6 DEF NothingLeft
<1> QED BY <1>6, <1>9, <1>10, <1>11, <1>12, <1>15, <1>16, <1>17 DEF Inv, NewRow

\* The inductive invariant: whatever the owner's requests, the job and the
\* sweeper of services/creations do between each other's awaits, through
\* crashes and outages, what each holds agrees with the row, the avatars and
\* the files.
THEOREM AlwaysInvariant == Spec => []Inv
<1>1. Init => Inv
  BY UploadedIsConsistent, PreparedIsConsistent DEF Init
<1>2. Inv /\ [Next]_vars => Inv'
  <2> SUFFICES ASSUME Inv, [Next]_vars PROVE Inv'
    OBVIOUS
  <2>1. TypeOK'
    BY TypesKept DEF Inv
  <2> QED BY <2>1, FilledKept, IdleKept, RevisedKept, OneJobKept, AvataredKept, PublishedKept, OwnedKept,
             AvatarWholeKept, FilesApartKept, FilesThereKept, NothingLeftKept DEF Inv
<1> QED BY <1>1, <1>2, PTL DEF Spec

-----------------------------------------------------------------------------
(* What it gives                                                           *)

\* Every row, record, request and file of services/creations has the form
\* the model says, whatever the interleaving.
THEOREM CreationTypes == Spec => []TypeOK
<1>1. Inv => TypeOK
  BY DEF Inv
<1> QED BY <1>1, AlwaysInvariant, PTL

\* However often its owner finishes a creation, and its finishes are undone or
\* recovered (finish.py, recovery.py), one avatar at most is published.
THEOREM OneAvatarOnly == Spec => []OneAvatar
<1>1. Inv => OneAvatar
  <2> SUFFICES ASSUME Inv PROVE OneAvatar
    OBVIOUS
  <2> DEFINE S == {a \in Avatars : avatars[a] = "ready"}
  <2>1. CASE S = {}
    BY <2>1, FS_EmptySet DEF OneAvatar
  <2>2. CASE S # {}
    <3>1. PICK a \in S : TRUE
      BY <2>2
    <3>2. S = {a}
      BY <3>1 DEF Inv, Published
    <3>3. Cardinality(S) = 1
      BY <3>2, FS_Singleton
    <3> QED BY <3>3 DEF OneAvatar
  <2> QED BY <2>1, <2>2
<1> QED BY <1>1, AlwaysInvariant, PTL

\* No avatar is left half built beside its creation: it is processing only
\* while the creation is being finished into it (finish.py, recovery.py).
THEOREM ProcessingIsAlwaysOwned == Spec => []ProcessingIsOwned
<1>1. Inv => ProcessingIsOwned
  BY DEF Inv, Owned, ProcessingIsOwned
<1> QED BY <1>1, AlwaysInvariant, PTL

\* A finished creation points at a whole, published avatar or at one its
\* owner deletes: "never an avatar pointing at nothing" (finish.py 111).
THEOREM FinishedAvatarIsAlwaysWhole == Spec => []FinishedAvatarIsWhole
<1>1. Inv => FinishedAvatarIsWhole
  <2> SUFFICES ASSUME Inv, row # None, row.status = "finished" PROVE FinishedAvatarIsWhole
    BY DEF FinishedAvatarIsWhole
  <2>1. avatars[row.avatar] \in {"ready", "deleted"} /\ Whole(row.avatar)
    BY DEF Inv, Avatared, AvatarWhole
  <2> QED BY <2>1 DEF Whole, Dropping, At, FinishedAvatarIsWhole
<1> QED BY <1>1, AlwaysInvariant, PTL

\* What a draft's row names is stored: edits, results and undone finishes
\* (store_result, update_content) delete only what no row names any more.
THEOREM DraftFilesAlwaysExist == Spec => []DraftFilesExist
<1>1. Inv => DraftFilesExist
  <2> SUFFICES ASSUME Inv, row # None, row.status = "draft", ~Deleting, crashes = 0,
                      NEW k \in Named(row.steps)
               PROVE  k \in files
    BY DEF DraftFilesExist
  <2>1. row.steps \in Steps \cup {None}
    BY RowTypes DEF Inv, TypeOK
  <2>2. k \in Keys
    BY <2>1, StepsTypes DEF Named
  <2> QED BY <2>2 DEF Inv, FilesThere, InRow, Open
<1> QED BY <1>1, AlwaysInvariant, PTL

\* Nothing survives a deleted creation (repo.delete's two passes, what
\* store_result and the edits clean up) but what a crash or an outage leaves.
THEOREM DeletedAlwaysLeavesNothing == Spec => []DeletedLeavesNothing
<1>1. Inv => DeletedLeavesNothing
  <2> SUFFICES ASSUME Inv, row = None, Quiet, crashes = 0, faults = 0 PROVE files = {} /\ ~incoming
    BY DEF DeletedLeavesNothing
  <2>1. ~Purging
    BY DEF Quiet, Purging, Sweeping, At
  <2>2. \A k \in files : ~IsHeld(k) /\ ~IsDoomed(k)
    BY DEF Quiet, IsHeld, IsDoomed, TaskHolds, TaskDooms, HeldBy, DoomedBy
  <2> QED BY <2>1, <2>2 DEF Inv, NothingLeft
<1> QED BY <1>1, AlwaysInvariant, PTL

\* While an avatar is built of a creation, its images, its marks and its
\* revision stay as they were (the status every conditioned write asks for).
THEOREM FinishingIsAlwaysFrozen == Spec => FinishingIsFrozen
<1> DEFINE Frozen ==
             row # None /\ row' # None /\ row.status = "finishing"
               => /\ row'.steps = row.steps /\ row'.anchors = row.anchors
                  /\ row'.revision = row.revision
<1>1. Inv /\ [Next]_vars => Frozen
  <2> SUFFICES ASSUME Inv, [Next]_vars, row # None, row' # None, row.status = "finishing", row' # row
               PROVE  Frozen
    OBVIOUS
  <2>1. ASSUME NEW r \in Requests, Serve(r) PROVE Frozen
    BY <2>1, ServeFrame DEF EditWrite, Enqueue, DeleteRow, Unchanged
  <2>2. CASE Work
    BY <2>2, WorkRow DEF Records, Stores, Publishes, Undoes
  <2>3. CASE Sweep
    <3>1. RecoverWrite \/ ExpireWrite \/ PurgeRow
      BY <2>3, SweepFrame
    <3> QED BY <3>1, RecoverWriteSteps DEF Inv, ExpireWrite, PurgeRow
  <2>4. CASE TimePasses
    BY <2>4, TimeTypes DEF Inv
  <2> QED BY <2>1, <2>2, <2>3, <2>4 DEF Next, Receive, Crash, Boot, vars, disk
<1> QED BY <1>1, AlwaysInvariant, PTL DEF Spec, FinishingIsFrozen

\* expire_idle ends no creation a job works on, and none that was changed
\* after the sweeper read it as idle.
THEOREM AlwaysExpiresOnlyIdle == Spec => ExpiresOnlyIdle
<1> DEFINE Idly ==
             row # None /\ row' # None /\ row.status = "draft" /\ row'.status = "expired"
               => row.old /\ task = None
<1>1. Inv /\ [Next]_vars => Idly
  <2> SUFFICES ASSUME Inv, [Next]_vars, row # None, row' # None,
                      row.status = "draft", row'.status = "expired"
               PROVE  row.old /\ task = None
    OBVIOUS
  <2>1. ASSUME NEW r \in Requests, Serve(r) PROVE FALSE
    <3>1. EditWrite(r) \/ Enqueue(r)
      BY <2>1, ServeFrame DEF DeleteRow
    <3>2. Unchanged(req[r].revision)
      BY <3>1 DEF EditWrite, Enqueue
    <3> QED BY <3>1, <3>2, EditWrites, EditedRow, QueuedRow DEF Inv
  <2>2. ~Work
    BY WorkRow DEF Records, Stores, Publishes, Undoes
  <2>3. CASE Sweep
    <3>1. ExpireWrite
      BY <2>3, SweepFrame, RecoverWriteSteps DEF Inv, PurgeRow
    <3>2. row.old
      BY <3>1, ExpireWriteTypes DEF Inv
    <3> QED BY <3>2 DEF Inv, Idle
  <2>4. ~TimePasses
    BY TimeTypes DEF Inv
  <2> QED BY <2>1, <2>2, <2>3, <2>4 DEF Next, Receive, Crash, Boot, vars, disk
<1> QED BY <1>1, AlwaysInvariant, PTL DEF Spec, ExpiresOnlyIdle

\* An edit is written over the very steps it was made from: one that read the
\* creation before a result, or another edit, conflicts (repo.update_content).
THEOREM EditsExtendWhatTheyRead == Spec => EditExtendsWhatItRead
<1> DEFINE Extends(r) ==
             At(r, "made", EditKinds) \/ At(r, "read", {"line", "keep"})
               => req'[r] = req[r] \/ row' = row \/ row.steps = req[r].steps
<1>1. Inv /\ [Next]_vars => \A r \in Requests : Extends(r)
  <2> SUFFICES ASSUME Inv, [Next]_vars, NEW r \in Requests,
                      At(r, "made", EditKinds) \/ At(r, "read", {"line", "keep"}),
                      req'[r] # req[r], row' # row
               PROVE  row.steps = req[r].steps
    OBVIOUS
  <2>1. Serve(r)
    <3>1. \A q \in Requests, kind \in Kinds : ~Receive(q, kind)
      BY DEF Receive, disk
    <3>2. \A q \in Requests : Serve(q) => q = r
      BY ServeFrame
    <3>3. ~Work /\ ~Sweep
      BY WorkFrame, SweepFrame
    <3>4. ~TimePasses /\ ~Crash /\ ~Boot /\ vars' # vars
      BY DEF TimePasses, Crash, Boot, vars, disk, memory
    <3> QED BY <3>1, <3>2, <3>3, <3>4 DEF Next
  <2>2. EditWrite(r) /\ Unchanged(req[r].revision)
    BY <2>1, ServeFrame DEF EditWrite, Enqueue, DeleteRow, At
  <2>3. Open /\ req[r].revision = row.revision
    BY <2>2 DEF Unchanged, Open
  <2>4. /\ req[r] # None /\ req[r].kind \in EditKinds \cup {"prepare"}
        /\ req[r].pc \in {"read", "loaded", "made", "admitted"}
    BY DEF At, EditKinds
  <2> QED BY <2>3, <2>4 DEF Inv, Revised, ReadAt
<1> QED BY <1>1, AlwaysInvariant, PTL DEF Spec, EditExtendsWhatItRead

\* A result is stored over the very steps it was made from: an edit made
\* while the job ran is never overwritten (records.store_result).
THEOREM ResultsExtendWhatTheyRead == Spec => ResultExtendsWhatItRead
<1> DEFINE Extends ==
             task # None /\ task.pc = "store" /\ task' # None /\ task'.pc = "tidy"
               => row.steps = task.steps
<1>1. Inv /\ [Next]_vars => Extends
  <2> SUFFICES ASSUME Inv, [Next]_vars, task # None, task.pc = "store",
                      task' # None, task'.pc = "tidy"
               PROVE  row.steps = task.steps
    OBVIOUS
  <2>1. ASSUME NEW r \in Requests PROVE ~Serve(r)
    <3> SUFFICES ASSUME Serve(r) PROVE FALSE
      OBVIOUS
    <3>1. Enqueue(r)
      BY ServeFrame
    <3> QED BY <3>1, EnqueueTypes DEF Inv, Enqueue
  <2>2. Work
    BY <2>1, SweepFrame DEF Next, Receive, TimePasses, Crash, Boot, vars, memory
  <2>3. StoreResult
    <3>1. StoreResult \/ JobFails
      BY <2>2 DEF Work, JobBegins, JobReads, JobLoads, JobMakes, JobTidies, JobDiscards,
         JobRecordsFailure, JobEnds, FinishLoads, FinishBuilds, FinishCommits, FinishUndoes,
         FinishUndoesFiles, FinishTidies, Doing
    <3> QED BY <3>1, FailTypes DEF Inv
  <2>4. Unchanged(task.revision)
    BY <2>3, StoreTypes DEF Inv
  <2> QED BY <2>4 DEF Inv, Revised, ReadAt, HasRead, Open, Unchanged
<1> QED BY <1>1, AlwaysInvariant, PTL DEF Spec, ResultExtendsWhatItRead

\* recover_interrupted marks no live job interrupted, although it reads, asks
\* the runner and writes with awaits in between.
THEOREM AlwaysRecoversOnlyTheDead == Spec => RecoversOnlyTheDead
<1> DEFINE OnlyDead ==
             row # None /\ row' # None /\ row.job.state # "interrupted" /\ row'.job.state = "interrupted"
               => active # row.job.id
<1>1. Inv /\ [Next]_vars => OnlyDead
  <2> SUFFICES ASSUME Inv, [Next]_vars, row # None, row' # None,
                      row.job.state # "interrupted", row'.job.state = "interrupted"
               PROVE  active # row.job.id
    OBVIOUS
  <2>1. ASSUME NEW r \in Requests, Serve(r) PROVE FALSE
    <3>1. EditWrite(r) \/ Enqueue(r)
      BY <2>1, ServeFrame DEF DeleteRow
    <3>2. Unchanged(req[r].revision)
      BY <3>1 DEF EditWrite, Enqueue
    <3>3. Job(req[r].job, req[r].kind, "queued").state = "queued"
      BY DEF Job
    <3> QED BY <3>1, <3>2, <3>3, EditWrites, EditedRow, QueuedRow DEF Inv
  <2>2. ~Work
    BY WorkRow DEF Records, Stores, Publishes, Undoes
  <2>3. CASE Sweep
    <3>1. RecoverWrite
      BY <2>3, SweepFrame, ExpireWriteTypes DEF Inv, PurgeRow
    <3>2. row.job.id = sweep.job.id
      BY <3>1, RecoverWriteSteps DEF Inv
    <3> QED BY <3>1, <3>2 DEF Inv, OneJob, RecoverWrite
  <2>4. ~TimePasses
    BY TimeTypes DEF Inv
  <2> QED BY <2>1, <2>2, <2>3, <2>4 DEF Next, Receive, Crash, Boot, vars, disk
<1> QED BY <1>1, AlwaysInvariant, PTL DEF Spec, RecoversOnlyTheDead

-----------------------------------------------------------------------------
(* To its owner a creation is CreationLife                                 *)

\* In the life of a creation one avatar at most stands: while it is being
\* finished its own, and none while it is a draft; and none has failed before
\* the creation is gone.
Lived ==
    /\ \A a, b \in Avatars : Life!Standing(a) /\ Life!Standing(b) => a = b
    /\ lifeStatus = "draft" => \A a \in Avatars : ~Life!Standing(a)
    /\ lifeStatus = "finishing" =>
         lifeAvatar \in Avatars /\ \A a \in Avatars : Life!Standing(a) => a = lifeAvatar
    /\ lifeStatus # "gone" => \A a \in Avatars : avatars[a] # "failed"

LEMMA LivedAtFirst == Init => Life!Init /\ Lived
<1> SUFFICES ASSUME Init PROVE Life!Init /\ Lived
  OBVIOUS
<1>1. NewRow
  BY UploadedIsConsistent, PreparedIsConsistent DEF Init
<1>2. lifeStatus = "draft" /\ lifeAvatar = None
  BY <1>1 DEF NewRow, lifeStatus, lifeAvatar
<1>3. avatars = [a \in Avatars |-> "none"]
  BY DEF Init
<1> QED BY <1>2, <1>3 DEF Life!Init, Lived, Life!Standing

\* The abstract life alone keeps it.
LEMMA LivedKept == ASSUME TypeOK, Lived, [Life!Next]_(Life!lifeVars) PROVE Lived'
<1> USE DEF Life!Standing
<1>0. avatars \in [Avatars -> {"none", "processing", "ready", "failed", "deleted"}]
  BY DEF TypeOK
<1>1. CASE UNCHANGED Life!lifeVars
  BY <1>1 DEF Life!lifeVars, Lived
<1>2. CASE Life!Publish
  BY <1>0, <1>2 DEF Life!Publish, Lived
<1>3. CASE Life!Undo
  BY <1>0, <1>3 DEF Life!Undo, Lived
<1>4. CASE Life!Expire \/ Life!Go
  BY <1>0, <1>4 DEF Life!Expire, Life!Go, Lived
<1>5. ASSUME NEW a \in Avatars, Life!Finish(a) PROVE Lived'
  BY <1>0, <1>5 DEF Life!Finish, Lived
<1>6. ASSUME NEW a \in Avatars, Life!Drop(a) PROVE Lived'
  BY <1>0, <1>6 DEF Life!Drop, Lived
<1>7. ASSUME NEW a \in Avatars, Life!Fail(a) PROVE Lived'
  BY <1>0, <1>7 DEF Life!Fail, Lived
<1> QED BY <1>1, <1>2, <1>3, <1>4, <1>5, <1>6, <1>7 DEF Life!Next

\* What the owner does not see.
LEMMA LifeStutters ==
    ASSUME UNCHANGED avatars,
           \/ row' = row
           \/ row # None /\ row' # None /\ row'.status = row.status /\ row'.avatar = row.avatar
    PROVE  UNCHANGED Life!lifeVars
BY DEF Life!lifeVars, lifeStatus, lifeAvatar

\* An avatar that was made is marked deleted, the row as it was.
LEMMA LifeDrops ==
    ASSUME TypeOK, NEW a \in Avatars, row' = row, avatars[a] # "none",
           avatars' = [avatars EXCEPT ![a] = "deleted"]
    PROVE  [Life!Next]_(Life!lifeVars)
<1>1. UNCHANGED <<lifeStatus, lifeAvatar>>
  BY DEF lifeStatus, lifeAvatar
<1>2. CASE avatars[a] = "deleted"
  <2>1. avatars' = avatars
    BY <1>2 DEF TypeOK
  <2> QED BY <1>1, <2>1 DEF Life!lifeVars
<1>3. CASE avatars[a] # "deleted"
  <2>1. Life!Standing(a)
    BY <1>3 DEF TypeOK, Life!Standing
  <2> QED BY <1>1, <2>1 DEF Life!Drop, Life!Next
<1> QED BY <1>2, <1>3

\* A finish undone, by its job or by recovery.
LEMMA LifeUndoes ==
    ASSUME TypeOK, Avatared, Published, NEW a \in Avatars, NEW j, DraftAgain(a, j),
           avatars[a] \notin {"none", "ready"},
           row # None /\ row.status = "finishing" => row.avatar = a
    PROVE  [Life!Next]_(Life!lifeVars)
<1>1. avatars' = [avatars EXCEPT ![a] = "deleted"]
  BY DEF DraftAgain, TypeOK
<1>2. CASE row # None /\ row.status = "finishing"
  <2>1. row' # None /\ row'.status = "draft" /\ row'.avatar = None
    BY <1>2, NoneIsNone DEF DraftAgain
  <2>2. Life!Undo
    BY <1>1, <1>2, <2>1 DEF Life!Undo, lifeStatus, lifeAvatar
  <2> QED BY <2>2 DEF Life!Next
<1>3. CASE ~(row # None /\ row.status = "finishing")
  BY <1>1, <1>3, LifeDrops DEF DraftAgain
<1> QED BY <1>2, <1>3

LEMMA LifeServed ==
    ASSUME Inv, Lived, NEW r \in Requests, Serve(r)
    PROVE  [Life!Next]_(Life!lifeVars)
<1> USE DEF Inv
<1>1. CASE EditWrite(r)
  <2>1. UNCHANGED avatars
    BY <1>1 DEF EditWrite
  <2>2. CASE Unchanged(req[r].revision)
    <3>1. row # None /\ row' # None /\ row'.status = row.status /\ row'.avatar = row.avatar
      BY <1>1, <2>2, EditWrites, EditedRow, NoneIsNone
    <3> QED BY <2>1, <3>1, LifeStutters
  <2>3. CASE ~Unchanged(req[r].revision)
    BY <1>1, <2>1, <2>3, LifeStutters DEF EditWrite
  <2> QED BY <2>2, <2>3
<1>2. CASE Enqueue(r) /\ Unchanged(req[r].revision)
  <2>1. /\ row # None /\ row' # None /\ row.status = "draft"
        /\ row'.status = IF req[r].kind = "finish" THEN "finishing" ELSE "draft"
        /\ row'.avatar = IF req[r].kind = "finish" THEN req[r].job ELSE row.avatar
    BY <1>2, QueuedRow, NoneIsNone
  <2>2. CASE req[r].kind = "finish"
    <3>1. Admitted(r) /\ req[r].job \in Avatars
      BY <1>2, EnqueueTypes DEF Enqueue, At, Admitted, Avatars
    <3>2. avatars' = [avatars EXCEPT ![req[r].job] = "processing"]
      BY <1>2, <2>2 DEF Enqueue
    <3>3. avatars[req[r].job] = "none"
      BY <3>1 DEF Avatared
    <3>4. lifeStatus = "draft" /\ lifeStatus' = "finishing" /\ lifeAvatar' = req[r].job
      BY <2>1, <2>2 DEF lifeStatus, lifeAvatar
    <3>5. \A a \in Avatars : ~Life!Standing(a)
      BY <3>4 DEF Lived
    <3>6. Life!Finish(req[r].job)
      BY <3>2, <3>3, <3>4, <3>5 DEF Life!Finish
    <3> QED BY <3>1, <3>6 DEF Life!Next
  <2>3. CASE req[r].kind # "finish"
    <3>1. UNCHANGED avatars
      BY <1>2, <2>3 DEF Enqueue
    <3> QED BY <2>1, <2>3, <3>1, LifeStutters
  <2> QED BY <2>2, <2>3
<1>3. CASE Enqueue(r) /\ ~Unchanged(req[r].revision)
  BY <1>3, LifeStutters DEF Enqueue
<1>4. CASE DeleteRow(r)
  <2>1. UNCHANGED avatars /\ row' = None
    BY <1>4 DEF DeleteRow
  <2>2. CASE row = None
    BY <2>1, <2>2, LifeStutters
  <2>3. CASE row # None
    <3>1. lifeStatus # "gone" /\ lifeStatus' = "gone" /\ lifeAvatar' = None
      BY <2>1, <2>3, RowTypes DEF lifeStatus, lifeAvatar, TypeOK, Statuses
    <3>2. Life!Go
      BY <2>1, <3>1 DEF Life!Go
    <3> QED BY <3>2 DEF Life!Next
  <2> QED BY <2>2, <2>3
<1>5. CASE DropAvatarRow(r)
  <2>1. req[r] # None /\ req[r].kind = "drop"
    BY <1>5 DEF DropAvatarRow, At
  <2>2. req[r].avatar \in Avatars /\ avatars[req[r].avatar] # "none"
    BY <1>5, <2>1, ServeFrame, RequestTypes DEF Avatared, RequestIsFilled
  <2>3. row' = row /\ avatars' = [avatars EXCEPT ![req[r].avatar] = "deleted"]
    BY <1>5 DEF DropAvatarRow
  <2> QED BY <2>2, <2>3, LifeDrops
<1>6. CASE UNCHANGED <<row, avatars>>
  BY <1>6, LifeStutters
<1> QED BY <1>1, <1>2, <1>3, <1>4, <1>5, <1>6, ServeFrame

LEMMA LifeWorked == ASSUME Inv, Lived, Work PROVE [Life!Next]_(Life!lifeVars)
<1> USE DEF Inv
<1>1. task # None /\ task \in TaskRecords
  BY WorkFrame
<1>2. CASE FinishUndoes
  <2>1. task.pc = "undo" /\ task.avatar = task.id /\ task.avatar \in Avatars
    BY <1>2, UndoTypes DEF FinishUndoes, Doing
  <2>2. avatars[task.avatar] \notin {"none", "ready"}
    BY <1>1, <2>1 DEF Avatared
  <2>3. row # None /\ row.status = "finishing" => row.avatar = task.avatar
    BY <1>1, <2>1 DEF Avatared, OneJob
  <2>4. CASE DraftAgain(task.avatar, row.job)
    BY <2>1, <2>2, <2>3, <2>4, LifeUndoes
  <2>5. CASE row' = row /\ avatars' = avatars
    BY <2>5, LifeStutters
  <2> QED BY <1>2, <2>4, <2>5, UndoTypes
<1>3. CASE FinishCommits
  <2>1. CASE row' = row /\ avatars' = avatars
    BY <2>1, LifeStutters
  <2>2. CASE ~(row' = row /\ avatars' = avatars)
    <3>1. /\ row \in Rows /\ row.status = "finishing" /\ avatars[task.avatar] # "deleted"
          /\ row' \in Rows /\ row'.status = "finished" /\ row'.avatar = row.avatar
          /\ task.avatar = task.id /\ avatars' = [avatars EXCEPT ![task.avatar] = "ready"]
      BY <1>3, <2>2, CommitTypes
    <3>2. row # None /\ row' # None /\ task.pc = "commit" /\ task.avatar \in Avatars
      BY <1>1, <1>3, <3>1, NoneIsNone, TaskTypes DEF FinishCommits, Doing, Avatars
    <3>3. row.avatar = task.avatar
      BY <1>1, <3>1, <3>2 DEF Avatared, OneJob
    <3>4. /\ lifeStatus = "finishing" /\ lifeStatus' = "finished"
          /\ lifeAvatar = task.avatar /\ lifeAvatar' = lifeAvatar
      BY <3>1, <3>2, <3>3 DEF lifeStatus, lifeAvatar
    <3>5. avatars[task.avatar] = "processing"
      <4>1. avatars[task.avatar] \notin {"none", "ready", "deleted"}
        BY <1>1, <3>1, <3>2 DEF Avatared
      <4>2. avatars[task.avatar] # "failed"
        BY <3>2, <3>4 DEF Lived
      <4> QED BY <3>2, <4>1, <4>2 DEF TypeOK
    <3>6. Life!Publish
      BY <3>1, <3>4, <3>5 DEF Life!Publish
    <3> QED BY <3>6 DEF Life!Next
  <2> QED BY <2>1, <2>2
<1>4. CASE ~FinishUndoes /\ ~FinishCommits
  <2>1. UNCHANGED avatars
    BY <1>4, WorkFrame
  <2>2. row' = row \/ Records \/ Stores
    BY <1>4, WorkRow DEF Publishes, Undoes
  <2>3. row' = row \/ (row # None /\ row' # None /\ row'.status = row.status /\ row'.avatar = row.avatar)
    <3>1. row' = row \/ (row # None /\ row' # None)
      BY WorkRow, NoneIsNone
    <3> QED BY <2>2, <3>1 DEF Records, Stores
  <2> QED BY <2>1, <2>3, LifeStutters
<1> QED BY <1>2, <1>3, <1>4

LEMMA LifeSwept == ASSUME Inv, Lived, Sweep PROVE [Life!Next]_(Life!lifeVars)
<1> USE DEF Inv
<1>1. CASE RecoverWrite
  <2>1. sweep \in SweepRecords /\ sweep # None
    BY <1>1, RecoverWriteSteps, NoneIsNone
  <2>2. CASE row' = row /\ avatars' = avatars
    BY <2>2, LifeStutters
  <2>3. CASE /\ row \in Rows /\ row.job.id = sweep.job.id /\ row.status = sweep.status
             /\ sweep.status = "finishing"
             /\ DraftAgain(sweep.avatar, row'.job) /\ sweep.avatar \in Avatars
    <3>1. row # None /\ row.avatar = sweep.avatar
      BY <2>1, <2>3, NoneIsNone DEF Avatared
    <3>2. avatars[sweep.avatar] \notin {"none", "ready"}
      BY <2>3, <3>1 DEF Avatared, Published, Open
    <3> QED BY <2>3, <3>1, <3>2, LifeUndoes
  <2>4. CASE row \in Rows /\ row' \in Rows /\ row'.status = row.status /\ row'.avatar = row.avatar /\ avatars' = avatars
    BY <2>4, NoneIsNone, LifeStutters
  <2> QED BY <1>1, <2>2, <2>3, <2>4, RecoverWriteSteps
<1>2. CASE ExpireWrite
  <2>1. UNCHANGED avatars
    BY <1>2 DEF ExpireWrite
  <2>2. CASE row' = row
    BY <2>1, <2>2, LifeStutters
  <2>3. CASE row' # row
    <3>1. /\ row # None /\ row' # None /\ row.status = "draft" /\ row'.status = "expired"
          /\ row'.avatar = row.avatar
      BY <1>2, <2>3, ExpireWriteTypes, NoneIsNone
    <3>2. Life!Expire
      BY <2>1, <3>1 DEF Life!Expire, lifeStatus, lifeAvatar
    <3> QED BY <3>2 DEF Life!Next
  <2> QED BY <2>2, <2>3
<1>3. CASE PurgeRow
  <2>1. row # None /\ row' = None /\ row.status # "gone" /\ UNCHANGED avatars
    BY <1>3 DEF PurgeRow
  <2>2. Life!Go
    BY <2>1 DEF Life!Go, lifeStatus, lifeAvatar
  <2> QED BY <2>2 DEF Life!Next
<1>4. CASE UNCHANGED <<row, avatars>>
  BY <1>4, LifeStutters
<1> QED BY <1>1, <1>2, <1>3, <1>4, SweepFrame

\* A restart finds an avatar processing only when its creation is gone.
LEMMA LifeBooted == ASSUME Inv, Lived, Boot PROVE [Life!Next]_(Life!lifeVars)
<1> USE DEF Inv
<1>1. /\ row' = row /\ ~Stranded(row)
      /\ avatars' = [a \in Avatars |-> IF avatars[a] = "processing" THEN "failed" ELSE avatars[a]]
  BY DEF Boot
<1>2. CASE \A a \in Avatars : avatars[a] # "processing"
  <2>1. avatars' = avatars
    BY <1>1, <1>2 DEF TypeOK
  <2> QED BY <1>1, <2>1, LifeStutters
<1>3. ASSUME NEW a \in Avatars, avatars[a] = "processing" PROVE [Life!Next]_(Life!lifeVars)
  <2>1. row = None
    BY <1>1, <1>3 DEF Owned, Stranded
  <2>2. lifeStatus = "gone" /\ UNCHANGED <<lifeStatus, lifeAvatar>>
    BY <1>1, <2>1 DEF lifeStatus, lifeAvatar
  <2>3. \A b \in Avatars : avatars[b] = "processing" => b = a
    BY <1>3 DEF Lived, Life!Standing
  <2>4. avatars' = [avatars EXCEPT ![a] = "failed"]
    BY <1>1, <1>3, <2>3 DEF TypeOK
  <2>5. Life!Fail(a)
    BY <1>3, <2>2, <2>4 DEF Life!Fail
  <2> QED BY <2>5 DEF Life!Next
<1> QED BY <1>2, <1>3

LEMMA LifeStep == ASSUME Inv, Lived, [Next]_vars PROVE [Life!Next]_(Life!lifeVars)
<1>1. CASE \E r \in Requests, kind \in Kinds : Receive(r, kind)
  BY <1>1, LifeStutters DEF Receive, disk
<1>2. CASE TimePasses
  <2>1. row # None /\ row' # None /\ row'.status = row.status /\ row'.avatar = row.avatar
    BY <1>2, TimeTypes, NoneIsNone DEF Inv
  <2> QED BY <1>2, <2>1, LifeStutters DEF TimePasses
<1>3. CASE Crash \/ UNCHANGED vars
  BY <1>3, LifeStutters DEF Crash, vars, disk
<1> QED BY <1>1, <1>2, <1>3, LifeServed, LifeWorked, LifeSwept, LifeBooted DEF Next

\* To its owner a creation is CreationLife: one avatar at a time, published
\* together with the creation's end (finish.py) or gone with the finish that
\* is undone (finish.py, recovery.py), and no way back from finished, expired
\* or deleted, whatever requests, jobs, sweeps, outages and restarts do to it.
THEOREM CreationKeepsItsLife == Spec => KeepsLife
<1>1. Inv /\ Lived /\ [Next]_vars => Lived' /\ [Life!Next]_(Life!lifeVars)
  BY LifeStep, LivedKept DEF Inv
<1> QED BY <1>1, LivedAtFirst, AlwaysInvariant, PTL DEF Spec, KeepsLife, Life!Spec
=============================================================================
