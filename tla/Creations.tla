------------------------------ MODULE Creations ------------------------------
(***************************************************************************)
(* services/creations: one creation of the avatar wizard, its database     *)
(* row, its files and the avatar a finish makes of it, shared by the       *)
(* owner's requests, the job working on it and the sweeper, in a process   *)
(* that may die at any moment.                                             *)
(*                                                                         *)
(* All of them are coroutines of one loop: an action is what happens       *)
(* between two awaits, and a database statement with its commit is one     *)
(* action.  What a coroutine read before an await is a field of its own    *)
(* record, never the row itself.                                           *)
(*                                                                         *)
(* The images are the original, a frame of it and a cut-out of the         *)
(* original (step 3 with the owner's own photo); AI results follow the     *)
(* same write rules.                                                       *)
(***************************************************************************)
EXTENDS Integers, FiniteSets

CONSTANTS
    Requests,      \* requests served at the same time
    MaxJobs,       \* bound: jobs over the creation's life
    MaxKeys,       \* bound: files written under the creation's prefix
    MaxRevision,   \* bound: revisions from which an owner still edits
    MaxCrashes,    \* bound: times the process dies
    MaxFaults,     \* bound: database or storage outages a job meets
    None

JobIds == 1..MaxJobs
Keys == 1..MaxKeys
Avatars == JobIds          \* the avatar a finish makes, named after its job

VARIABLES
    row,           \* the creations row, or None
    avatars,       \* status of each avatars row, "none" before, "deleted" after
    avatarFiles,   \* avatars with files under their prefix
    files,         \* images under the creation's prefix
    incoming,      \* the raw upload is still stored
    req,           \* each request under way, or None
    active,        \* runner.active_for(creation): the job's id, or None
    task,          \* that job's task, or None
    sweep,         \* the sweeper's pass (or startup's recovery), or None
    up,            \* the process serves
    usedJobs, usedKeys, crashes, faults   \* how much of each bound is used

disk == <<row, avatars, avatarFiles, files, incoming>>
memory == <<req, active, task, sweep, up>>
counters == <<usedJobs, usedKeys, crashes, faults>>
vars == <<disk, memory, counters>>

ActiveStates == {"queued", "running"}

AnySteps == [plan : BOOLEAN, original : Keys \cup {None}, framed : Keys \cup {None},
             cutout : Keys \cup {None},
             current : {None, "original", "framed", "cutout"}]
Steps == {st \in AnySteps : st.current # None => st[st.current] # None}
JobRecords == [id : JobIds, step : {"ingest", "prepare", "finish"},
               state : ActiveStates \cup {"done", "failed", "interrupted"}]
Statuses == {"draft", "finishing", "finished", "expired"}
Rows == [status : Statuses, revision : Nat, job : JobRecords,
         avatar : Avatars \cup {None}, steps : Steps \cup {None},
         anchors : Keys \cup {None},   \* the file whose pixels they mark
         old : BOOLEAN]                \* untouched past its retention

EditKinds == {"frame", "line", "keep"}
JobKinds == {"ingest", "prepare", "finish"}
Kinds == EditKinds \cup JobKinds \cup {"delete", "drop"}

\* What a request, a job's task and a pass of the sweeper hold between awaits:
\* where they are, what they read, the file they made, the files to delete.
RequestRecords ==
    [pc : {"read", "loaded", "made", "tidy", "admitted", "row", "again"},
     kind : Kinds, revision : Nat, steps : Steps \cup {None}, key : Keys \cup {None},
     doomed : SUBSET Keys, job : JobIds \cup {None}, avatar : Avatars \cup {None}]
TaskRecords ==
    [pc : {"queued", "load", "source", "make", "store", "tidy", "discard",
           "build", "commit", "undo", "undofiles", "fail", "end"},
     id : JobIds, step : JobKinds, revision : Nat, steps : Steps \cup {None},
     avatar : Avatars \cup {None}, key : Keys \cup {None}]
SweepRecords == [pc : {"check", "write", "files", "expire", "purge"}, status : Statuses,
                 job : JobRecords, avatar : Avatars \cup {None}]

ASSUME CreationsAssumption ==
    /\ MaxJobs \in Nat \ {0} /\ MaxKeys \in Nat \ {0, 1}
    /\ MaxRevision \in Nat /\ MaxCrashes \in Nat /\ MaxFaults \in Nat
    /\ None \notin Nat \cup {"original", "framed", "cutout"}
                 \cup Steps \cup Rows \cup RequestRecords \cup TaskRecords \cup SweepRecords

NoImages(plan) == [plan |-> plan, original |-> None, framed |-> None,
                   cutout |-> None, current |-> None]
Named(st) == IF st = None THEN {} ELSE {st.original, st.framed, st.cutout} \ {None}

\* frame_key: a cut-out shares the pixels of what it was cut from.
FrameKey(st) == IF st.current = "framed" THEN st.framed ELSE st.original

\* The opaque image behind the current one.
BackgroundSource(st) == IF st.current = "cutout" THEN "original" ELSE st.current

HasImage(r) == r.steps # None /\ r.steps.original # None
AnchorsAreCurrent(r) == r.anchors # None /\ r.anchors = FrameKey(r.steps)

Job(id, step, state) == [id |-> id, step |-> step, state |-> state]

\* As create_from_upload commits it, its ingest job launched: with the
\* four-step wizard's plan, or without.
Uploaded ==
    /\ \E plan \in BOOLEAN :
         row = [status |-> "draft", revision |-> 0, job |-> Job(1, "ingest", "queued"),
                avatar |-> None, steps |-> NoImages(plan), anchors |-> None, old |-> FALSE]
    /\ files = {} /\ incoming = TRUE /\ usedKeys = 0
    /\ active = 1
    /\ task = [pc |-> "queued", id |-> 1, step |-> "ingest", revision |-> 0,
               steps |-> None, avatar |-> None, key |-> None]

\* As ingest and step 3 leave it when nothing went wrong, jobs and revisions
\* counted from the second of the two: ready to finish.
Prepared ==
    /\ row = [status |-> "draft", revision |-> 1, job |-> Job(1, "prepare", "done"),
              avatar |-> None, anchors |-> 1, old |-> FALSE,
              steps |-> [plan |-> TRUE, original |-> 1, framed |-> None, cutout |-> 2,
                         current |-> "cutout"]]
    /\ files = {1, 2} /\ incoming = FALSE /\ usedKeys = 2
    /\ active = None
    /\ task = None

Init ==
    /\ Uploaded \/ Prepared
    /\ avatars = [a \in Avatars |-> "none"]
    /\ avatarFiles = {}
    /\ req = [r \in Requests |-> None]
    /\ sweep = None
    /\ up = TRUE
    /\ usedJobs = 1 /\ crashes = 0 /\ faults = 0

\* An UPDATE of the row moves its updated_at on.
Write(r) == row' = [r EXCEPT !.old = FALSE]

NewKey == usedKeys + 1

-----------------------------------------------------------------------------
(* Requests.  A request reads the row, checks it, and acts on what it read *)
(* some awaits later (its record keeps what it uses of it).  One refused   *)
(* at once (the row is gone, or its status or image rules the request out) *)
(* changes nothing and is not modelled.                                    *)

\* require_draft and require_image.
Editable(r) == r.status = "draft" /\ HasImage(r)

Accepts(kind, r) ==
    CASE kind \in EditKinds -> Editable(r) /\ r.revision < MaxRevision
      [] kind = "prepare" -> Editable(r)
      [] kind = "finish" -> Editable(r) /\ AnchorsAreCurrent(r)
      [] kind = "ingest" ->      \* Retry, the only job retried on its own terms
             /\ r.status = "draft" /\ ~HasImage(r)
             /\ r.job.step = "ingest" /\ r.job.state \in {"failed", "interrupted"}
      [] kind = "delete" -> r.status # "finishing"
      [] kind = "drop" ->        \* DELETE of the avatar itself
             r.avatar # None /\ avatars[r.avatar] \in {"processing", "ready", "failed"}

Receive(r, kind) ==
    /\ up
    /\ req[r] = None
    /\ row # None
    /\ Accepts(kind, row)
    /\ req' = [req EXCEPT ![r] =
                [pc |-> "read", kind |-> kind, key |-> None, doomed |-> {}, job |-> None,
                 revision |-> IF kind \in {"delete", "drop"} THEN 0 ELSE row.revision,
                 steps |-> IF kind \in EditKinds \cup {"prepare"} THEN row.steps ELSE None,
                 avatar |-> IF kind = "drop" THEN row.avatar ELSE None]]
    /\ UNCHANGED <<disk, active, task, sweep, up, counters>>

To(r, pc) == req' = [req EXCEPT ![r].pc = pc]
Answer(r) == req' = [req EXCEPT ![r] = None]
At(r, pc, kinds) == req[r] # None /\ req[r].pc = pc /\ req[r].kind \in kinds

\* frame_or_line reads the original, and fails without its file; it stores
\* the framed copy some awaits later, before it writes the row.
EditLoads(r) ==
    /\ At(r, "read", {"frame"})
    /\ IF req[r].steps.original \in files THEN To(r, "loaded") ELSE Answer(r)
    /\ UNCHANGED <<disk, active, task, sweep, up, counters>>

EditPut(r) ==
    /\ At(r, "loaded", {"frame"})
    /\ IF NewKey \in Keys
       THEN /\ files' = files \cup {NewKey}
            /\ usedKeys' = NewKey
            /\ req' = [req EXCEPT ![r].pc = "made", ![r].key = NewKey]
       ELSE Answer(r) /\ UNCHANGED <<files, usedKeys>>     \* the bound
    /\ UNCHANGED <<row, avatars, avatarFiles, incoming, active, task, sweep, up,
                   usedJobs, crashes, faults>>

\* A slip: the current image is left on the cut-out the new line drops.
EditedKeepingCurrent(q) ==
    CASE q.kind = "frame" ->
             [q.steps EXCEPT !.framed = q.key, !.cutout = None, !.current = "framed"]
      [] q.kind = "line" ->
             [q.steps EXCEPT !.cutout = None]
      [] q.kind = "keep" ->
             [q.steps EXCEPT !.current = BackgroundSource(q.steps)]

\* The steps an edit makes of those it read.
Edited(q) ==
    CASE q.kind = "frame" ->
             [q.steps EXCEPT !.framed = q.key, !.cutout = None, !.current = "framed"]
      [] q.kind = "line" ->
             [q.steps EXCEPT !.cutout = None, !.current = BackgroundSource(q.steps)]
      [] q.kind = "keep" ->
             [q.steps EXCEPT !.current = BackgroundSource(q.steps)]

\* A slip: the write asks for a draft, not for the revision it read.
UnchangedStatusOnly(revision) == row # None /\ row.status = "draft"

\* A slip: the revision alone decides, whatever the status.
UnchangedRevisionOnly(revision) == row # None /\ row.revision = revision

\* The condition of update_content, start_job and store_result.
Unchanged(revision) == row # None /\ row.revision = revision /\ row.status = "draft"

\* update_content; then the files nothing names any more go, or on a
\* conflict the file just made.
EditWrite(r) ==
    /\ At(r, "made", {"frame"}) \/ At(r, "read", {"line", "keep"})
    /\ LET q == req[r]
           st == Edited(q)
           doomed == IF Unchanged(q.revision) THEN Named(q.steps) \ Named(st)
                                              ELSE {q.key} \ {None}
       IN  /\ req' = [req EXCEPT ![r].pc = "tidy", ![r].doomed = doomed]
           /\ IF Unchanged(q.revision)
              THEN Write([row EXCEPT !.steps = st, !.revision = @ + 1,
                                     !.anchors = IF q.kind = "keep" THEN @ ELSE None])
              ELSE UNCHANGED row
    /\ UNCHANGED <<avatars, avatarFiles, files, incoming, active, task, sweep, up, counters>>

EditTidy(r) ==
    /\ At(r, "tidy", EditKinds)
    /\ files' = files \ req[r].doomed
    /\ Answer(r)
    /\ UNCHANGED <<row, avatars, avatarFiles, incoming, active, task, sweep, up, counters>>

-----------------------------------------------------------------------------
(* Requests that start a job: runs.start_job.                              *)

\* A creation without a plan gets one with its first step 3: the revision
\* moves on in the same write (bump).
Bump(q) == IF q.kind = "prepare" /\ ~q.steps.plan THEN 1 ELSE 0

\* runner.reserve: nothing is admitted beside an active job.
Admit(r) ==
    /\ At(r, "read", JobKinds)
    /\ IF active = None /\ usedJobs < MaxJobs /\ (req[r].kind = "ingest" => incoming)
       THEN /\ usedJobs' = usedJobs + 1
            /\ active' = usedJobs + 1
            /\ req' = [req EXCEPT ![r].pc = "admitted", ![r].job = usedJobs + 1]
       ELSE Answer(r) /\ UNCHANGED <<usedJobs, active>>
    /\ UNCHANGED <<disk, task, sweep, up, usedKeys, crashes, faults>>

\* The values start_job's write adds to the queued record.
Queued(q) ==
    LET base == [row EXCEPT !.job = Job(q.job, q.kind, "queued"), !.revision = @ + Bump(q)] IN
    CASE q.kind = "finish" -> [base EXCEPT !.status = "finishing", !.avatar = q.job]
      [] q.kind = "prepare" -> [base EXCEPT !.steps = [q.steps EXCEPT !.plan = TRUE]]
      [] q.kind = "ingest" -> base

\* The write and the launch; refused, the reservation and the pending
\* avatar are dropped.
Enqueue(r) ==
    /\ At(r, "admitted", JobKinds)
    /\ LET q == req[r] IN
       IF Unchanged(q.revision)
       THEN /\ Write(Queued(q))
            /\ avatars' = IF q.kind = "finish" THEN [avatars EXCEPT ![q.job] = "processing"]
                                               ELSE avatars
            /\ task' = [pc |-> "queued", id |-> q.job, step |-> q.kind,
                        revision |-> q.revision + Bump(q), steps |-> None,
                        avatar |-> None, key |-> None]
            /\ UNCHANGED active
       ELSE /\ active' = None
            /\ UNCHANGED <<row, avatars, task>>
    /\ Answer(r)
    /\ UNCHANGED <<avatarFiles, files, incoming, sweep, up, counters>>

-----------------------------------------------------------------------------
(* repo.delete of the creation, and the avatar's own delete.               *)

\* repo.delete: the files first.
DeleteFiles(r) ==
    /\ At(r, "read", {"delete"})
    /\ files' = {} /\ incoming' = FALSE
    /\ To(r, "row")
    /\ UNCHANGED <<row, avatars, avatarFiles, active, task, sweep, up, counters>>

\* By id alone: nothing asks whether the creation is still what was read.
DeleteRow(r) ==
    /\ At(r, "row", {"delete"})
    /\ row' = None
    /\ To(r, "again")
    /\ UNCHANGED <<avatars, avatarFiles, files, incoming, active, task, sweep, up, counters>>

\* A slip: the second pass is left out.
DeleteFilesOnce(r) ==
    /\ At(r, "again", {"delete"})
    /\ Answer(r)
    /\ UNCHANGED <<disk, active, task, sweep, up, counters>>

\* The second pass, for a result stored between the first and the row.
DeleteFilesAgain(r) ==
    /\ At(r, "again", {"delete"})
    /\ files' = {} /\ incoming' = FALSE
    /\ Answer(r)
    /\ UNCHANGED <<row, avatars, avatarFiles, active, task, sweep, up, counters>>

DropAvatarFiles(r) ==
    /\ At(r, "read", {"drop"})
    /\ avatarFiles' = avatarFiles \ {req[r].avatar}
    /\ To(r, "row")
    /\ UNCHANGED <<row, avatars, files, incoming, active, task, sweep, up, counters>>

DropAvatarRow(r) ==
    /\ At(r, "row", {"drop"})
    /\ avatars' = [avatars EXCEPT ![req[r].avatar] = "deleted"]
    /\ Answer(r)
    /\ UNCHANGED <<row, avatarFiles, files, incoming, active, task, sweep, up, counters>>

Serve(r) ==
    \/ EditLoads(r) \/ EditPut(r) \/ EditWrite(r) \/ EditTidy(r)
    \/ Admit(r) \/ Enqueue(r)
    \/ DeleteFiles(r) \/ DeleteRow(r) \/ DeleteFilesAgain(r)
    \/ DropAvatarFiles(r) \/ DropAvatarRow(r)

-----------------------------------------------------------------------------
(* The job's task: runs.run_job around the step's own work.                *)

Doing(pc, steps) == task # None /\ task.pc = pc /\ task.step \in steps
Goto(pc) == task' = [task EXCEPT !.pc = pc]

\* write_job: by id, whatever the status and the revision.
Record(state) ==
    IF row = None THEN UNCHANGED row
                  ELSE Write([row EXCEPT !.job = Job(task.id, task.step, state)])

Fault == faults < MaxFaults /\ faults' = faults + 1
NoFault == UNCHANGED faults

\* The job has a slot: its record says so.  A write that cannot reach the
\* database ends the job with its record as it was.
JobBegins ==
    /\ Doing("queued", JobKinds)
    /\ \/ NoFault /\ Record("running") /\ Goto("load")
       \/ Fault /\ UNCHANGED row /\ Goto("end")
    /\ UNCHANGED <<avatars, avatarFiles, files, incoming, req, active, sweep, up,
                   usedJobs, usedKeys, crashes>>

\* prepare_job reads the creation before it makes anything, and returns when
\* it is gone.
JobReads ==
    /\ Doing("load", {"prepare"})
    /\ IF row = None THEN Goto("end")
       ELSE task' = [task EXCEPT !.pc = "source", !.steps = row.steps]
    /\ UNCHANGED <<disk, req, active, sweep, up, counters>>

\* The file the work starts from: the raw upload, or the original.
JobLoads ==
    /\ Doing("load", {"ingest"}) \/ Doing("source", {"prepare"})
    /\ LET there == IF task.step = "ingest" THEN incoming ELSE task.steps.original \in files
       IN  Goto(IF there THEN "make" ELSE "fail")
    /\ UNCHANGED <<disk, req, active, sweep, up, counters>>

\* run_ingest stores the original, then reads the plan (which no edit
\* changes until there is an image); prepare_job stores a cut-out.
JobMakes ==
    /\ Doing("make", {"ingest", "prepare"})
    /\ NewKey \in Keys
    /\ files' = files \cup {NewKey}
    /\ usedKeys' = NewKey
    /\ task' = [task EXCEPT !.pc = "store", !.key = NewKey,
                            !.steps = IF task.step = "prepare" THEN @
                                      ELSE IF row = None THEN None ELSE row.steps]
    /\ UNCHANGED <<row, avatars, avatarFiles, incoming, req, active, sweep, up,
                   usedJobs, crashes, faults>>

\* The work refuses or raises: a bad photo (which goes at once), a provider
\* that declines.  Once the image is made only an outage stops it, and the
\* image stays.
JobFails ==
    /\ \/ Doing("make", {"ingest"}) /\ NoFault /\ (UNCHANGED incoming \/ incoming' = FALSE)
       \/ Doing("make", {"prepare"}) /\ NoFault /\ UNCHANGED incoming
       \/ Doing("store", {"ingest", "prepare"}) /\ Fault /\ UNCHANGED incoming
    /\ Goto("fail")
    /\ UNCHANGED <<row, avatars, avatarFiles, files, req, active, sweep, up,
                   usedJobs, usedKeys, crashes>>

\* What a result makes of the steps the job read.
Result ==
    IF task.step = "ingest"
    THEN [(IF task.steps = None THEN NoImages(FALSE) ELSE NoImages(task.steps.plan))
            EXCEPT !.original = task.key, !.current = "original"]
    ELSE [task.steps EXCEPT !.framed = None, !.cutout = task.key, !.current = "cutout"]

\* store_result: kept, what it replaced goes; refused, what it made goes.
StoreResult ==
    /\ Doing("store", {"ingest", "prepare"})
    /\ IF Unchanged(task.revision)
       THEN /\ Write([row EXCEPT !.steps = Result, !.revision = @ + 1,
                                 !.anchors = IF task.step = "prepare" THEN Result.original ELSE @,
                                 !.job = Job(task.id, task.step, "done")])
            /\ Goto("tidy")
       ELSE UNCHANGED row /\ Goto("discard")
    /\ UNCHANGED <<avatars, avatarFiles, files, incoming, req, active, sweep, up, counters>>

JobTidies ==
    /\ Doing("tidy", {"ingest", "prepare"})
    /\ files' = files \ (Named(task.steps) \ Named(Result))
    /\ incoming' = (incoming /\ task.step # "ingest")
    /\ Goto("end")
    /\ UNCHANGED <<row, avatars, avatarFiles, req, active, sweep, up, counters>>

JobDiscards ==
    /\ Doing("discard", {"ingest", "prepare"})
    /\ files' = files \ {task.key}
    /\ Goto("fail")
    /\ UNCHANGED <<row, avatars, avatarFiles, incoming, req, active, sweep, up, counters>>

\* The failure's record, or the outage that loses it.
JobRecordsFailure ==
    /\ Doing("fail", JobKinds)
    /\ \/ NoFault /\ Record("failed")
       \/ Fault /\ UNCHANGED row
    /\ Goto("end")
    /\ UNCHANGED <<avatars, avatarFiles, files, incoming, req, active, sweep, up,
                   usedJobs, usedKeys, crashes>>

\* The runner releases the job with its slot.
JobEnds ==
    /\ Doing("end", JobKinds)
    /\ task' = None
    /\ active' = IF active = task.id THEN None ELSE active
    /\ UNCHANGED <<disk, req, sweep, up, counters>>

-----------------------------------------------------------------------------
(* run_finish.                                                             *)

FinishLoads ==
    /\ Doing("load", {"finish"})
    /\ IF row # None /\ row.status = "finishing"
       THEN task' = [task EXCEPT !.steps = row.steps, !.avatar = row.avatar,
                                 !.pc = IF avatars[row.avatar] = "processing"
                                        THEN "build" ELSE "undo"]
       ELSE Goto("end")
    /\ UNCHANGED <<disk, req, active, sweep, up, counters>>

\* build_avatar copies the current image, builds and publishes: all of it
\* files.  Or it refuses the marks, misses a file, loses a provider.
FinishBuilds ==
    /\ Doing("build", {"finish"})
    /\ \/ /\ Named(task.steps) \subseteq files
          /\ avatarFiles' = avatarFiles \cup {task.avatar}
          /\ Goto("commit")
       \/ UNCHANGED avatarFiles /\ Goto("undo")
    /\ UNCHANGED <<row, avatars, files, incoming, req, active, sweep, up, counters>>

\* A slip: the write does not notice that the avatar's row is gone.
FinishCommitsBlindly ==
    /\ Doing("commit", {"finish"})
    /\ IF row # None /\ row.status = "finishing"
       THEN /\ Write([row EXCEPT !.status = "finished",
                                 !.job = Job(task.id, "finish", "done")])
            /\ avatars' = [avatars EXCEPT ![task.avatar] = "ready"]
            /\ Goto("tidy")
       ELSE UNCHANGED <<row, avatars>> /\ Goto("undo")
    /\ UNCHANGED <<avatarFiles, files, incoming, req, active, sweep, up, counters>>

\* One transaction publishes the avatar and finishes the creation; either
\* row gone or changed, or the database away, and neither happens.
FinishCommits ==
    /\ Doing("commit", {"finish"})
    /\ IF row # None /\ row.status = "finishing" /\ avatars[task.avatar] # "deleted"
       THEN \/ /\ NoFault
               /\ Write([row EXCEPT !.status = "finished",
                                    !.job = Job(task.id, "finish", "done")])
               /\ avatars' = [avatars EXCEPT ![task.avatar] = "ready"]
               /\ Goto("tidy")
            \/ Fault /\ UNCHANGED <<row, avatars>> /\ Goto("undo")
       ELSE NoFault /\ UNCHANGED <<row, avatars>> /\ Goto("undo")
    /\ UNCHANGED <<avatarFiles, files, incoming, req, active, sweep, up,
                   usedJobs, usedKeys, crashes>>

\* A slip: the avatar being built is left behind.
BackToDraftOnly(avatar, job) ==
    /\ IF row # None /\ row.status = "finishing"
       THEN Write([row EXCEPT !.status = "draft", !.avatar = None, !.job = job])
       ELSE UNCHANGED row
    /\ UNCHANGED avatars

\* undo_finish and recovery: a creation caught finishing is a draft again,
\* and the avatar, unless it is published, goes.
BackToDraft(avatar, job) ==
    /\ IF row # None /\ row.status = "finishing"
       THEN Write([row EXCEPT !.status = "draft", !.avatar = None, !.job = job])
       ELSE UNCHANGED row
    /\ avatars' = IF avatars[avatar] = "ready" THEN avatars
                  ELSE [avatars EXCEPT ![avatar] = "deleted"]

\* undo_finish_retrying; an outage that outlasts its three attempts leaves
\* the creation finishing, for the sweeper.
FinishUndoes ==
    /\ Doing("undo", {"finish"})
    /\ \/ NoFault /\ BackToDraft(task.avatar, row.job) /\ Goto("undofiles")
       \/ Fault /\ UNCHANGED <<row, avatars>> /\ Goto("fail")
    /\ UNCHANGED <<avatarFiles, files, incoming, req, active, sweep, up,
                   usedJobs, usedKeys, crashes>>

FinishUndoesFiles ==
    /\ Doing("undofiles", {"finish"})
    /\ avatarFiles' = avatarFiles \ {task.avatar}
    /\ Goto("fail")
    /\ UNCHANGED <<row, avatars, files, incoming, req, active, sweep, up, counters>>

\* The creation's files go.  A storage error here escapes the work, and
\* run_job records the finished creation's job as failed.
FinishTidies ==
    /\ Doing("tidy", {"finish"})
    /\ \/ NoFault /\ files' = {} /\ incoming' = FALSE /\ Goto("end")
       \/ Fault /\ UNCHANGED <<files, incoming>> /\ Goto("fail")
    /\ UNCHANGED <<row, avatars, avatarFiles, req, active, sweep, up,
                   usedJobs, usedKeys, crashes>>

Work ==
    \/ JobBegins \/ JobReads \/ JobLoads \/ JobMakes \/ JobFails
    \/ StoreResult \/ JobTidies \/ JobDiscards \/ JobRecordsFailure \/ JobEnds
    \/ FinishLoads \/ FinishBuilds \/ FinishCommits \/ FinishUndoes
    \/ FinishUndoesFiles \/ FinishTidies

-----------------------------------------------------------------------------
(* recover_interrupted, at startup and on the sweeper's timer, and         *)
(* expire_idle.                                                            *)

Sweeping(pc) == sweep # None /\ sweep.pc = pc

\* A record left queued or running, or the finishing status.
Stranded(r) == r # None /\ (r.job.state \in ActiveStates \/ r.status = "finishing")

\* A slip: only job records are looked at, not the status.
RecoverReadJobsOnly ==
    /\ sweep = None
    /\ row # None /\ row.job.state \in ActiveStates
    /\ sweep' = [pc |-> "check", status |-> row.status, job |-> row.job, avatar |-> row.avatar]
    /\ UNCHANGED <<disk, req, active, task, up, counters>>

RecoverRead ==
    /\ sweep = None
    /\ Stranded(row)
    /\ sweep' = [pc |-> "check", status |-> row.status, job |-> row.job, avatar |-> row.avatar]
    /\ UNCHANGED <<disk, req, active, task, up, counters>>

\* A slip: a creation whose job is alive is recovered under it.
RecoverCheckNothing ==
    /\ Sweeping("check")
    /\ sweep' = [sweep EXCEPT !.pc = "write"]
    /\ UNCHANGED <<disk, req, active, task, up, counters>>

\* `running(creation.id)`: after a restart nothing is.
RecoverCheck ==
    /\ Sweeping("check")
    /\ sweep' = IF active = None THEN [sweep EXCEPT !.pc = "write"] ELSE None
    /\ UNCHANGED <<disk, req, active, task, up, counters>>

\* "Only the state as read": the same status, the same job.
RecoverWrite ==
    /\ Sweeping("write")
    /\ LET matches == row # None /\ row.status = sweep.status /\ row.job.id = sweep.job.id
           record == IF sweep.job.state \in ActiveStates
                     THEN [sweep.job EXCEPT !.state = "interrupted"] ELSE row.job
       IN  CASE ~matches ->
                  sweep' = None /\ UNCHANGED <<row, avatars>>
             [] matches /\ sweep.status = "finishing" ->
                  BackToDraft(sweep.avatar, record) /\ sweep' = [sweep EXCEPT !.pc = "files"]
             [] matches /\ sweep.status # "finishing" ->
                  Write([row EXCEPT !.job = record]) /\ sweep' = None /\ UNCHANGED avatars
    /\ UNCHANGED <<avatarFiles, files, incoming, req, active, task, up, counters>>

RecoverFiles ==
    /\ Sweeping("files")
    /\ avatarFiles' = avatarFiles \ {sweep.avatar}
    /\ sweep' = None
    /\ UNCHANGED <<row, avatars, files, incoming, req, active, task, up, counters>>

\* The read of the idle drafts, and the check that no job runs.
ExpireRead ==
    /\ up
    /\ sweep = None
    /\ row # None /\ row.status = "draft" /\ row.old
    /\ active = None /\ row.job.state \notin ActiveStates
    /\ sweep' = [pc |-> "expire", status |-> row.status, job |-> row.job, avatar |-> None]
    /\ UNCHANGED <<disk, req, active, task, up, counters>>

\* A slip: the update does not ask again whether the draft is idle.
ExpireWriteAnyway ==
    /\ Sweeping("expire")
    /\ IF row # None /\ row.status = "draft"
       THEN /\ Write([row EXCEPT !.status = "expired", !.steps = None, !.anchors = None])
            /\ sweep' = [sweep EXCEPT !.pc = "purge"]
       ELSE sweep' = None /\ UNCHANGED row
    /\ UNCHANGED <<avatars, avatarFiles, files, incoming, req, active, task, up, counters>>

ExpireWrite ==
    /\ Sweeping("expire")
    /\ IF row # None /\ row.status = "draft" /\ row.old
       THEN /\ Write([row EXCEPT !.status = "expired", !.steps = None, !.anchors = None])
            /\ sweep' = [sweep EXCEPT !.pc = "purge"]
       ELSE sweep' = None /\ UNCHANGED row
    /\ UNCHANGED <<avatars, avatarFiles, files, incoming, req, active, task, up, counters>>

\* Rows ended long ago go; nothing leaves those statuses.
PurgeRow ==
    /\ up
    /\ sweep = None
    /\ row # None /\ row.status \in {"finished", "expired"} /\ row.old
    /\ row' = None
    /\ sweep' = [pc |-> "purge", status |-> row.status, job |-> row.job, avatar |-> None]
    /\ UNCHANGED <<avatars, avatarFiles, files, incoming, req, active, task, up, counters>>

PurgeFiles ==
    /\ Sweeping("purge")
    /\ files' = {} /\ incoming' = FALSE
    /\ sweep' = None
    /\ UNCHANGED <<row, avatars, avatarFiles, req, active, task, up, counters>>

Sweep ==
    \/ RecoverRead \/ RecoverCheck \/ RecoverWrite \/ RecoverFiles
    \/ ExpireRead \/ ExpireWrite \/ PurgeRow \/ PurgeFiles

-----------------------------------------------------------------------------
(* The process.                                                            *)

\* No coroutine has anything to do with the creation.
Quiet == task = None /\ sweep = None /\ \A r \in Requests : req[r] = None

\* Nobody touches the creation past its retention: no request or job lasts
\* that long.
TimePasses ==
    /\ up
    /\ row # None /\ ~row.old
    /\ Quiet
    /\ row' = [row EXCEPT !.old = TRUE]
    /\ UNCHANGED <<avatars, avatarFiles, files, incoming, memory, counters>>

\* A crash, or a restart's shutdown: coroutines and runner are gone.
Crash ==
    /\ crashes < MaxCrashes
    /\ crashes' = crashes + 1
    /\ req' = [r \in Requests |-> None]
    /\ active' = None /\ task' = None /\ sweep' = None
    /\ up' = FALSE
    /\ UNCHANGED <<disk, usedJobs, usedKeys, faults>>

\* The lifespan serves once recovery has left nothing stranded; avatars
\* still processing are marked failed.
Boot ==
    /\ ~up
    /\ sweep = None
    /\ ~Stranded(row)
    /\ up' = TRUE
    /\ avatars' = [a \in Avatars |-> IF avatars[a] = "processing" THEN "failed" ELSE avatars[a]]
    /\ UNCHANGED <<row, avatarFiles, files, incoming, req, active, task, sweep, counters>>

Next ==
    \/ \E r \in Requests, kind \in Kinds : Receive(r, kind)
    \/ \E r \in Requests : Serve(r)
    \/ Work
    \/ Sweep
    \/ TimePasses
    \/ Crash
    \/ Boot

Spec == Init /\ [][Next]_vars

\* Coroutines that can run do run, and the sweeper's timer comes round.
\* Nothing makes owners ask, time pass or processes die.
Fairness ==
    /\ \A r \in Requests : WF_vars(Serve(r))
    /\ WF_vars(Work)
    /\ WF_vars(Sweep)
    /\ WF_vars(Boot)

FairSpec == Spec /\ Fairness

-----------------------------------------------------------------------------
(* Properties.                                                             *)

\* Every variable keeps its type.
TypeOK ==
    /\ row \in Rows \cup {None}
    /\ avatars \in [Avatars -> {"none", "processing", "ready", "failed", "deleted"}]
    /\ avatarFiles \subseteq Avatars
    /\ files \subseteq Keys
    /\ incoming \in BOOLEAN
    /\ req \in [Requests -> RequestRecords \cup {None}]
    /\ active \in JobIds \cup {None}
    /\ task \in TaskRecords \cup {None}
    /\ sweep \in SweepRecords \cup {None}
    /\ up \in BOOLEAN
    /\ usedJobs \in JobIds /\ usedKeys \in 0..MaxKeys
    /\ crashes \in 0..MaxCrashes /\ faults \in 0..MaxFaults

\* An owner asked for the creation to go, and it is under way or stopped
\* half way: its files may be gone before its row.
Deleting == \E r \in Requests : At(r, "row", {"delete"})

\* However edits, results and undone finishes follow each other, a draft's
\* row never names a file that is gone: what an edit deletes is what its own
\* write replaced, what a result deletes is what it replaced or made.  A
\* delete cut short by a crash is the exception delete's docstring states.
DraftFilesExist ==
    row # None /\ row.status = "draft" /\ ~Deleting /\ crashes = 0
        => Named(row.steps) \subseteq files

\* Finish makes one avatar: a second Finish, a retry after an undo or a
\* recovery never leaves two published.
OneAvatar == Cardinality({a \in Avatars : avatars[a] = "ready"}) <= 1

\* While the row exists, an avatar is processing only as the one its
\* creation is being finished into: none is left half built.
ProcessingIsOwned ==
    \A a \in Avatars :
        row # None /\ up /\ avatars[a] = "processing"
            => row.status = "finishing" /\ row.avatar = a

\* A finished creation's avatar is published and whole, unless its owner
\* deletes it: "never an avatar pointing at nothing" (finish.py 111).
FinishedAvatarIsWhole ==
    row # None /\ row.status = "finished"
        => \/ avatars[row.avatar] = "deleted"
           \/ /\ avatars[row.avatar] = "ready"
              /\ \/ row.avatar \in avatarFiles
                 \/ \E r \in Requests : req[r] # None /\ req[r].kind = "drop"
                 \/ crashes > 0

\* "Nothing may change the creation meanwhile" (models/creation.py 37).
FinishingIsFrozen ==
    [][row # None /\ row' # None /\ row.status = "finishing"
        => /\ row'.steps = row.steps /\ row'.anchors = row.anchors
           /\ row'.revision = row.revision]_vars

\* A result is only ever stored over the very steps it was made from: an
\* edit made while the job ran is never overwritten (records.store_result).
ResultExtendsWhatItRead ==
    [][task # None /\ task.pc = "store" /\ task' # None /\ task'.pc = "tidy"
        => row.steps = task.steps]_vars

\* The other way round: an edit never overwrites a result stored since the
\* edit read the creation (repo.update_content).
EditExtendsWhatItRead ==
    [][\A r \in Requests :
        At(r, "made", EditKinds) \/ At(r, "read", {"line", "keep"})
        => req'[r] = req[r] \/ row' = row \/ row.steps = req[r].steps]_vars

\* Nothing survives a deleted creation but a crash's leavings: a job or an
\* edit that stores its file around the two passes cleans up after itself.
DeletedLeavesNothing ==
    row = None /\ Quiet /\ crashes = 0 /\ faults = 0 => files = {} /\ ~incoming

\* A draft expires only when it is idle: never under a job, and never after
\* an edit that came between the sweep's read and its update.
ExpiresOnlyIdle ==
    [][row # None /\ row' # None /\ row.status = "draft" /\ row'.status = "expired"
        => row.old /\ task = None]_vars

\* Recovery interrupts no live job: between its read, its check of the
\* runner and its update a new job may be admitted, recorded and running.
RecoversOnlyTheDead ==
    [][row # None /\ row' # None /\ row.job.state # "interrupted" /\ row'.job.state = "interrupted"
        => active # row.job.id]_vars

\* A creation waiting on a job or a finish does not wait for ever, through
\* crashes, lost writes and failed undos: the job ends or recovery finds it.
NeverStuck == Stranded(row) ~> ~Stranded(row)

-----------------------------------------------------------------------------
(* What the repository says and the code does not keep.                    *)

\* recover_interrupted's docstring (recovery.py 48): "a job that did record
\* its failure keeps that record"; a success even more so.
RecordedJobsKeepTheirRecord ==
    [][row # None /\ row' # None /\ row.job.state \in {"done", "failed"}
        => row'.job.state # "interrupted"]_vars

\* repo.delete refuses "while its avatar is being built" (repo.py 99), as
\* "every mutation requires `draft`" (models/creation.py 38): no creation is
\* removed from under its finish.
DeleteSparesFinishing ==
    [][row # None /\ row' = None => row.status # "finishing"]_vars

-----------------------------------------------------------------------------
(* Refinement.                                                             *)

lifeStatus == IF row = None THEN "gone" ELSE row.status
lifeAvatar == IF row = None THEN None ELSE row.avatar

Life == INSTANCE CreationLife WITH status <- lifeStatus, avatar <- lifeAvatar

\* To its owner a creation is CreationLife, whatever requests, jobs, sweeps,
\* outages and restarts do to it: one avatar at a time, published together
\* with the creation's end or gone with the finish that is undone, and no way
\* back from finished, expired or deleted.
KeepsLife == Life!Spec
=============================================================================
