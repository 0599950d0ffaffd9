# A verification project for LiveFace (avatar-face)

TLA+ models of the parts of the program where order, failure and concurrency
decide what happens: in the backend the job runner, a creation of the wizard
and its AI budget; across the backend and the dashboard its sessions; in the
embeddable widget and the dashboard the face that speaks.  With them the TLC
configurations that check them, and TLAPS proofs of what matters most.  Paths
below are relative to `backend/app/` unless they start with `embed/` or
`frontend/`, which stand beside it in the repository.

## 1. Inventory

### The backend

The backend is one uvicorn process with one asyncio loop
(`deploy/docker-compose.prod.yml`), a SQLite or Postgres database and an object
store.  Requests, background jobs and the sweeper are coroutines of that loop:
nothing runs between two awaits of one of them, anything may run at an await.
Whatever is in memory dies with the process, and every deploy restarts it.

| Component | State | Operations | What is hard |
|---|---|---|---|
| Job runner (`services/jobs.py`) | registries of active jobs, the running slots | reserve, start, release, lend a slot, shutdown | cancellation at every await, the slot's ownership, waiters |
| Creation wizard (`services/creations/`, `services/wizard/`) | a row (status, revision, steps, marks, last job), files under a prefix, the avatar a finish makes | edits, jobs, Finish, Retry, Delete | reads that are stale when written, files and row changed apart, crashes half way |
| Recovery and sweeper (`creations/recovery.py`, `services/sweeper.py`) | none of their own | startup recovery, the timer's recovery, expiry, purge | racing live requests and jobs |
| AI budget (`creations/records.py`, `wizard/prepare.py`, `creations/adjust.py`) | counters and caches on the row | taken at admission, given back or advanced by the job | written outside the revision rule |
| Steps (`creations/steps.py`) | a graph of images | remove, re-parent, lineage | cycles, dangling parents |
| Edit locks (`services/edit_locks.py`) | one lock per edited avatar, a user count | hold | a lock dropped while someone arrives |
| Clone jobs (`services/clonejobs.py`) | JSON documents and an index in the object store | create, claim, progress, finish, delete | unlocked read-modify-write, a claim that times out under a live worker |
| Sessions (`services/sessions.py`, `api/auth.py`) | refresh tokens | open, rotate, revoke, purge | two tabs, lost answers, reuse |
| Mouth kit (`services/mouth_kit/`) | calls in flight, usage | a guard around provider calls | a limit checked per kit |
| Avatars and publishing (`services/avatars/`, `services/publishing.py`) | draft row and files, published revisions, undo history | build, edit, publish, discard | files rewritten in place, one commit |
| Speech on the server (`services/tts/`) | a cache, streams | synthesize, stream | a stream cut short, a cache at its bound |
| Rate limits, usage, consent, accounts, keys | counters and rows | one statement each | little beyond the window's bounds |
| Storage, image and vision providers | outside the process | calls | fail at any time |
| Rigs, photo analysis, heads, matting | pure numeric code | | out of reach of a model checker |
| Deployment scripts | the host | | restarts |

How they interact: an API request reads a creation's row, reserves a job in the
runner and writes the queued state on the condition that the row's revision is
still the one it read (`runs.start_job`).  The runner's task then works for
minutes, lending its slot back around provider calls, and stores its result on
the same condition (`records.store_result`).  Edits write on that condition too
(`repo.update_content`).  Finish moves the row to `finishing` and inserts an
avatar row in the same commit; its job publishes the avatar and finishes the
creation in one transaction, or undoes both.  The sweeper puts back what a
failure stranded (`recover_stranded`), asking the runner which creations are
alive, and expires what nobody touched.  Startup does the same with nothing
alive, and then marks processing avatars failed.

### The browser

The widget and the dashboard are single-threaded pages: a function runs until
it awaits something, and then any event, timer, answer or other function may
come first.  A browser's tabs share one cookie jar and, where it exists, one set
of Web Locks, and nothing else.

| Component | State | Operations | What is hard |
|---|---|---|---|
| Engine's voice and expressions (`embed/src/engine/voice.ts`, `animation.ts`, `engine.ts`, `expression-mixer.ts`) | the audio element in flight, cue time, the expression track and its walker, the expression on and who asked for it | play, play cues, stop, sync the clock, express | events of elements it has let go of; the page and a text both own the expression |
| Speech queue (`embed/src/speech.ts`) | a generation, the chunks of a text | speak, stop | late answers, a callback that is dropped |
| Browser's voice (`embed/src/browser-tts.ts`) | a promise, a watchdog, whether it speaks | speak, stop | an utterance cancelled, dropped or told late; timers |
| Phrase stream (`embed/src/speech-stream/`) | the frames read, the timeline, the player, the audio context | stream, pause, resume, stop | phrases missing or late, a context taken by the system |
| Speak panel, widget (`useSpeakPanel.ts`, `embed/src/widget.ts`) | which voice is used | speak, stop | the choice between the above |
| Dashboard's session (`frontend/src/lib/api.ts`, `providers/auth.tsx`) | a tab's access token and user, its refresh under way, its calls; the browser's cookie and lock | log in, log out, restore, refresh, call | tabs that share a cookie and not what they know |
| Drawing, lip sync curves, listening, the rest of the dashboard | | | numeric or interface code |

How they interact: every voice plays through one engine.  The speech queue gives
it one audio element per chunk and awaits its callback; the browser's voice gives
it cues when the synthesizer tells a start; the phrase stream drives its clock
from the audio context.  Each stops what the engine plays when it begins or
ends.  A dashboard tab sends its access token with each call; one refused asks
for one refresh, for all callers of the tab, under a lock all tabs share, and
the server exchanges the cookie's token for the next one.

## 2. Modules

| Module | What it models |
|---|---|
| `WorkLimits` | the abstract promise of the runner: one piece of work per subject, bounded work per organization and process, bounded running work |
| `JobRunner` | `services/jobs.py`, with the semaphore it uses |
| `CreationLife` | the abstract promise of a creation to its owner: one avatar at a time, published with the creation's end or undone with it; no way back from an end |
| `Creations` | one creation: row, files, avatar, requests, job, sweeper, process |
| `AiBudget` | what a creation's paid image calls cost: counts, numbers of results, jobs and requests that write them |
| `Sessions` | refresh tokens on the server, a browser's cookie and lock, its tabs' tokens, refreshes and calls |
| `FaceEngine` | the engine as a voice sees it: the element in flight, cue time, the expression and its track; external: the browser's audio element |
| `SpeechQueue` | a text said chunk by chunk; extends `FaceEngine` |
| `BrowserVoice` | the browser's own voice; extends `FaceEngine`; external: the speech synthesizer |
| `SpeechStream` | a text said phrase by phrase as it is made; extends `FaceEngine`; external: the audio context |
| `Speaking` | the composition: one engine, and whichever of the three voices the page took |
| `MC...` | their instances for TLC |
| `JobRunnerProofs`, `CreationsProofs`, `AiBudgetProofs`, `SessionsProofs`, `FaceEngineProofs`, `SpeechQueueProofs`, `SpeechStreamProofs`, `SpeakingProofs` | their theorems and lemmas |

Definitions marked "A slip" or "As it would be if ..." are wrong versions of the
definition that follows them: replacing it by the slip must break a property,
which shows the property looks at that code.

### JobRunner

An action is the code between two awaits of `JobRunner.start.body`,
`outside_slot`, `reserve`, `release` or `shutdown`.

* `Reserve` is synchronous in the code and one action; `Start` and
  `ReleaseUnstarted` are the two ways an admitting request goes on
  (`runs.start_job`, `new.create_from_upload`).
* `Begin`, `Resume`, `Lend`, `Return`, `EndWork` are the task: the slot is an
  `asyncio.Semaphore`, modelled from its use as in CPython 3.12, with a FIFO of
  waiters, and waiters already granted a slot whose task has not resumed
  (`granted`).  `acquire` passes when something is free and nobody waits, or
  queues; `release` grants to the first waiter.
* `Shutdown` cancels every task.  A cancelled task unwinds one await at a time:
  before its first step (`CancelUnstarted`: the body never runs, so nothing
  releases the job), working, lending (`CancelAway`: `outside_slot`'s `finally`
  waits for a slot, uncancelled this time), waiting with or without a slot
  granted meanwhile (`CancelWaiting`), and after that wait (`ResumeDying`).
  Where a slot is taken and given back with no await between, one action does
  both.

Left out: the CPU thread (`run_cpu`), progress reports, `drain` and `reset`
(tests), a job cancelled alone (nothing in the source does it).

### Creations

One row, its files, the avatars finishes make of it (named after their job),
requests under way, the job, the sweeper's pass, the process.  What a coroutine
has read is in its own record (`req[r].steps`, `task.steps`, `sweep.job`),
separate from `row`.  Statement and commit are one action; everything else that
awaits is an action of its own.

* Requests: `Receive` is the read and the checks on it.  Edits go
  `EditLoads` and `EditPut` (the original read, the framed file stored), `EditWrite` (`update_content`), `EditTidy` (files nothing
  names).  Job requests go `Admit` (`runner.reserve`), `Enqueue` (the
  conditional write, then the launch, or the release).  Delete is files, row,
  files again.  The avatar's own delete is files, row.
* Jobs: `JobBegins` to `JobEnds` are `runs.run_job` around `run_ingest` and
  `prepare_job`; `FinishLoads` to `FinishTidies` are `run_finish`.  An outage
  (`Fault`) can lose a state write, fail the commit, fail all three attempts of
  the undo, or fail the last file pass.
* `RecoverRead`, `RecoverCheck`, `RecoverWrite`, `RecoverFiles` are
  `recover_interrupted`, at startup and on the timer; `ExpireRead`,
  `ExpireWrite`, `PurgeRow`, `PurgeFiles` are `expire_idle`.
* `Crash` drops everything in memory; `Boot` opens the doors once recovery has
  found nothing more.

Data is abstract: an image is a key, marks are the key of the image they were
made on (`frame`), the plan of the four-step wizard is a flag (a creation
without one gets it with its first step 3, which moves the revision), age is
one flag.  The steps modelled are the original, a frame and a cut-out, enough
for an edit and a result to replace each other's files.  The transactions of
the finish's commit and of the undo are each one action.

### AiBudget

One creation, a draft with its image.  Of the row: the revision, whether its
job record is active, the usage (three counts and the next result's number) and
the numbers of the AI results among its steps.  A request keeps the usage it
read (`req[r].usage`); a job keeps the number it read at load and, during
`update_ai_usage`, the usage its SELECT returned (`task.saw`).

* `Receive`, `Admit`, `Enqueue` are `start_prepare` and `start_adjust` around
  `runs.start_job`; `Frame` is an edit that drops the AI results; `UseVersion`
  is `use_version`.
* `AskAi` is one call of `_ask_ai`, `AskRound` one pass of `run_adjust`'s loop;
  each disjunct is a way the provider, the limit or the organization's switch
  may answer.  `JobSelects` and `JobUpdates` are the two statements of
  `update_ai_usage`, for a refund, `advance`, `remember` or `settle`;
  `JobStores` is `store_result`.
* `Crash` is a restart with its recovery.  `paid` and `stale` are ghosts: what
  was billed, and whether a request has written counts the row no longer had.

Left out: the detection budget and its cache, jobs and edits that spend nothing,
the consents and the automatic touch-up's mark, which ride in the same write.

### Sessions

A session's refresh tokens are numbered: token `n` is what the `n-1`th exchange
issued, so a session is how many were issued, how many of the spent ones are
past the grace, how many access tokens have expired and whether it is revoked.

* Server: `RotateReads` is `rotate`'s SELECT and what follows when the token is
  spent, unknown or revoked; `RotateClaims` is the conditional UPDATE that
  exchanges it, and the second look when another request took it first;
  `ServerFails` any other answer.  `GraceEnds` and `Expires` are time;
  `EndedElsewhere` a sign-out everywhere or a new password.
* A tab's refresh: `Ask` takes the lock, if the browser has locks, and sends the
  cookie of that moment; `Renewed`, `Refused`, `Superseded` (which pauses and
  asks once again, `AskAgain`) and `LostAnswer` are its ends.  Every end wakes
  the callers that shared it and gives the lock back.
* A tab's calls: `Send`, `Served`, and `Renew`, which is `renewedAfter401`.
* `LogIn`, `LogOut` (heard by the server or not) and `Reload`, which forgets the
  tab's memory, releases its lock, restores the session if there is a cookie, and
  leaves a request under way with the server (`Dropped`), which goes on with it
  while the next one asks.

`overtaken` is a history variable: a refresh's answer has met a cookie that is
not the one it was asked with.  Left out: `purge`, the throttle, sign-up, the
mail flows (which open a session as login does).

### FaceEngine, SpeechQueue, BrowserVoice, SpeechStream, Speaking

`FaceEngine` holds what every voice plays through.  `StopAudio`, `PlayAudio`,
`PlayCues`, `StopSpeech`, `FinishSpeech` and `SyncCueTime` are parts of actions,
the engine's methods as their callers call them; `Heard`, `Advance`,
`FrameClock` and `Frame` are the browser's and the frame loop's.  An element the
engine has cut (`"cut"`) may still tell its end.  Cue time is a whole number of
units; `Advance` is an element's clock between two of its events, up to the
recording's length (`Duration`), at which it ends.  The walk over a track
(`Walk`, `Seek`) is the mixer's.

* `SpeechQueue`: `Speak`, `QueueStop`; `SynthAnswers` is the request of a chunk;
  `TakeChunk`, `ChunkRefused` and `GoOn` are what `speak` does after each of its
  awaits, each with its look at the generation; `VoiceTells` is the element's
  end.  `SpeechChunks` translates how tags are carried and released.
* `BrowserVoice`: `Say`, `BrowserStop`; `Fetched`, `HandOver` (the cues and the
  tenth of a second), `Watchdog`; `Starts`, `Boundary`, `Ends`, `CutTold`,
  `Dropped` are the synthesizer's, which may drop an utterance and tells the end
  of what was cancelled before the next start.
* `SpeechStream`: `Answered`, `Breaks`, `ReadFrame` (a phrase, the terminal frame,
  an error, anything else), `Drained`, `StreamStop`; the player's `Tick`, `Pause`,
  `Resume`, `Unlock`; the audio context's `Interrupted` and `ContextClock`.
  `Pause` and `Resume` are the code on either side of the wait for the context:
  a pause closes the mouth at once and the context stops later, a resume goes on
  once the context runs.  `Scheduled`, `Position` and `TimelineActive` are the
  timeline's functions, `Outputs` what the context's output timestamp may say.
  `FramesRun` is the engine's own clock, time since the last sync, which nothing
  bounds: it goes on past a phrase, into a gap, under a context the system took,
  until the player's next tick.  `sinceTick` counts it (a history variable).
* `Speaking` takes one voice for its life, as the widget does at its start; the
  speak panel chooses between the browser's voice and a stream.

Left out: the shapes, lip sync, blending and their durations, listening, audio
data, and `onSync` after the start (it only places gesture beats, `engine.ts` 211).
Whether a text's pieces are cut well is not modelled: the texts are a
constant.

## 3. Runs

| Run | Shows | Bounds |
|---|---|---|
| `runner` | type, slot conservation, registries, no lost wakeup, refinement of `WorkLimits`; every job ends, shutdown ends | 4 jobs, 5 subjects in 2 organizations, MAX_ACTIVE 3, MAX_PER_ORG 2, MAX_RUNNING 1, one provider call per job; fair |
| `creations` | no lost update either way, a finishing creation is frozen, drafts name files they have, deletion leaves nothing, expiry only of the idle; one whole avatar or none, nothing half built, recovery touches no live job | 2 requests at a time, 3 jobs, 3 files, edits below revision 2, one outage, no crash; symmetric |
| `creations_live` | no creation waits for ever; refinement of `CreationLife`, across a restart | 1 request at a time, 3 jobs, 3 files, one crash, one outage; fair |
| `budget` | limits kept, results numbered apart, answered rounds counted | 2 requests, 2 paid jobs, limits 1, 2 candidates, edits below revision 3, one crash; symmetric |
| `sessions` | no session forks and the cookie keeps up with it, no undeserved sign-out; every call of a tab ends | one user, 2 tabs, 2 sessions, 3 tokens, 3 calls; with and without locks; fair |
| `speaking` | one voice, the newest, in order; a mouth that follows its sound; expressions released with their text and the page's kept; phrases that join up, recordings that are whole, `done` that means heard, silence after a stop; every speech nothing replaces settles | 2 calls, 3 texts of at most 2 chunks, 5 streams, one stop, recordings of 3 units, output latency 1, one idle unit, 2 units of the engine's clock between two ticks; fair |
| `recover_overwrites` | finding 1 | expected to fail |
| `delete_during_finish` | finding 2 | expected to fail |
| `budget_stale_write` | finding 3 | expected to fail |
| `budget_paid_refund` | finding 4 | expected to fail |
| `speak_hangs` | finding 5 | expected to fail |
| `session_mixes` | finding 6; two users | expected to fail |

Why the bounds are enough.  In the runner every limit is reached and passed by
one more candidate (a third job for one organization, a fourth in the process,
a second for the slot), in both organizations, and jobs are reused, so a stale
registry entry meets a new job.  One slot for three admitted jobs makes a queue
of two, with a job away and returning behind another.  In the creation every race is
between two requests, or a request and the job or the sweeper; two requests at
a time with jobs and sweeps interleaved cover all pairs and the triples of them
with the job and the sweep.  Three jobs allow ingest, step 3 and Finish, or a
Finish, its failure and a second one.  `Init` starts from a creation as
uploaded, or as step 3 leaves it, so that the bounds are spent on what follows.

In the budget a limit of one is passed by the second of two jobs; two jobs, with
a frame and a version chosen between or during them, are what it takes to number
two results, to admit on a stale read and to write one back.

In the sessions two tabs and a dropped request make three exchanges that
overlap, three tokens a session two exchanges ahead of a cookie, two sessions an
answer that overtakes a sign-in.  In the speech two calls and a stop make every
order of a late answer, a late event and a newer text; a text of two chunks has a
chunk to wait for and one to go on from; the five streams are two phrases, a
phrase missing, totals that say more, an error after a phrase, and a recording
in one piece.  Two units between two ticks let the mouth run past the end of a
phrase of one or two units and on into the gap, the hold or the stream's end
behind it.  What these runs bound, the proofs below mostly do not.

What the mouth of a stream owes its sound (`MouthKeepsToSound`).  Between two
ticks nothing keeps the engine's clock to the audio: it is the time since the
last sync.  So the property says what each tick, and each close, restores: the
mouth moves only if a phrase was heard at the last tick, never under a pause, and
is ahead of what was heard there by exactly what the frames ran since; what they
ran through a gap or a hold never adds up.  Without `closeMouth` on a hold, in a
gap, or in `pause()`, it fails.  Phrases are held against the frames that said
them (`PhrasesJoinUp`), so that a phrase swapped, repeated or passed over shows
as well as a bad join.

Deadlock is checked for the runner (its process stops in `Stopped`).  A
creation's life ends, a page has said all it will, tokens and revisions run
out: there the system may stop, and deadlock is not checked; the liveness
properties say what must not be left waiting.

Fairness.  Runner: the loop runs every task that can run; an admitting request
starts or releases its job; a provider call returns (the calls have timeouts),
and so does the work.  Nothing obliges requests to come, jobs to lend or the
process to stop.  Creations: requests and jobs that can go on do, the sweeper
keeps its timer, a stopped process starts again.  Sessions: the server answers
or fails, an answer arrives or is lost, a call is served; a tab's request for
the lock is strongly fair, for another tab may take it in between, and the
browser queues its requests.  Speech: a request is answered or fails, an
element asked for is heard and ends or fails, timers fire, the synthesizer
starts or drops what it has and tells the end of what it says, the player's
timer ticks and the audio context's clock runs while it runs.  A pause or an
interrupted context that nobody ends leaves a stream waiting, as it should:
`StreamSettles` speaks of the streams not held for good.  Weak fairness is
enough for each but the lock, since none of these is disabled for good by
another's step except when it has been served.  Owners, stops, reloads, outages
and crashes are not fair.

### What the code does not keep

1. `recover_overwrites`: `recover_interrupted` says that "a job that did record
   its failure keeps that record".  It reads all stranded rows first and updates
   each on its status and job id.  A job that records its end and is released
   between the read and the `running` check passes for dead, and its `done` or
   `failed` record becomes `interrupted`.
2. `delete_during_finish`: `repo.delete` refuses "while its avatar is being
   built", but decides on the status it read, removes the files, and then the
   row by its id.  A Finish admitted in between loses its creation;
   `run_finish` finds none and returns, and the avatar row stays `processing`
   until a restart marks it failed.

3. `budget_stale_write`: `update_ai_usage` says the budget records "money already
   spent, which stays spent", and that it may write without a condition "because
   the only other writer is job admission".  `use_version` writes the usage too,
   as it read it, and an admission in between does not move the revision: the try
   just taken is uncounted.  Two admissions can do the same, when the first's job
   fails, billed, between the second's read and its reservation
   (`requests.py` 282: "two presses cannot both pass").
4. `budget_paid_refund`: `prepare_job` gives a try back when "nothing was sent, or
   nothing answered"; a refusal "was billed".  A refused edit is asked once more,
   and if that call fails the try is given back although the first was billed.
   `run_adjust` looks at what was answered, and does not.

5. `speak_hangs`: `speech.ts` 146 says speak() "Resolves when done or stopped"; a
   stop, or a newer speak(), while a chunk plays drops the element's callback
   (`voice.ts` 145), which speak() awaits: its promise never settles.
6. `session_mixes`: the server ends Ann's session when Bob signs in in another tab
   of her browser (`auth.tsx` 37: such a session "signs this tab out at its next
   request"), but Ann's tab, refused, refreshes with the cookie of now, Bob's, and
   repeats its call as Bob while it shows Ann.

`AnsweredRoundsStayCounted` is stated apart from finding 3 (`stale`), and of the
rounds, not the tries, because of finding 4.  No property speaks of
the other direction: in the model as in the code a round stays spent, though
nothing was sent, when an edit drops the image before the job starts (`JobLoads`).

Safety properties of `Creations` are stated to hold apart from finding 2: those that
speak of a finishing creation ask that its row exists.  `SpeechSettles` and
`SignOutIsDeserved` are stated apart from what the code lets happen too: calls a
newer one or a stop has replaced, refusals that delete a cookie set after they
were asked (`overtaken`), browsers without Web Locks.

Seen in the code while modelling it, and modelled, with no run of their own.  The
first is a real disagreement; the others are where the code goes its own way and
the repository does not say otherwise, or where a finding above stands for them.

* Each tag of a text is not set exactly once.  `docs/emotions.md` 412 says tags
  "drive the face", and 438-440 of a stream's tags moved in time that "a cue
  already fired is not fired again"; `expression-mixer.ts` 233-235 says of
  `retime` that "a cue already fired is not fired again and one not yet reached
  still will be".  `retime` itself keeps the walker's place.  But the player's
  next tick syncs the clock, and `syncCueTime` seeks (`animation.ts` 147-151,
  `expression-mixer.ts` 246-249): the walker goes to the first cue after the
  position heard.  A tag that fired and was then moved later fires again, and one
  the sync lands on or passes is never set.  `setTrack` seeks to 0, so a tag at a
  track's very start is never set either; an `onboundary` seeks in the same way.
  `OpenMouth`, `Seek` and `Begin` have it.  `PageExpressionStays` counts any tag
  of the text as a cause for the page's expression to go, a repeated one too, and
  so says nothing of this.
* The text's expression stays on the face when a later chunk of it is refused
  (`speech.ts` 174-180); `TextExpressionHasAText` excepts it.
* The browser's voice: `stop()` during the cues' fetch or the delay before the
  hand-over does not stop the utterance to come, and two quick calls are both
  said; a stop or a second call clears the newest watchdog only, so the promise
  of an utterance the browser then drops waits for ever (`Alone` excepts it).
* Without Web Locks a tab superseded twice is signed out of a live session.
* A logout the server did not hear leaves the cookie: a reload restores the
  session.

## 4. Proofs

`JobRunnerProofs` proves for every set of jobs, subjects and organizations
(jobs and subjects finite) and every natural value of the limits:

* `AlwaysConsistent`: `Spec => []Consistent`;
* `TypeCorrectness`, `SlotsAreConserved`, `RegistriesAlwaysAgree`,
  `NoWakeupIsLost`: the invariants the `runner` run checks;
* `RunnerKeepsLimits`: `Spec => Limits!Spec`, the refinement of `WorkLimits`.

Assumptions: `FiniteAssumption`, `OrgAssumption`, `LimitAssumption`,
`NoneAssumption`, all in `JobRunner` and evaluated by TLC on every run of it.

The argument.  Slot conservation alone is not inductive: `EndWork` gives back
what `holdsSlot` says, so it must be known who can hold a slot.  `Consistent`
adds `HoldersWork` (only a working job holds one, and it does),
`WaitersWait` (the queue has no job twice, only waiting jobs are queued or
granted, none is both), `DyingLeave` (only tasks are cancelled, and none is
before shutdown) and `SubjectsAgree` (an idle job has no subject, two live jobs
never the same).  Each action is then a lemma per part it can disturb; lemmas on
`Wake` say how many waiters are granted and what remains queued, and cardinality
facts carry the sum.  The refinement maps a subject to `none`, `admitted` or
`running` from the registry and the slot of its job: `Reserve` is `Admit`, a slot
taken is `Run`, lending is `StepAside`, releasing is `End`, and the rest
stutters.  That `Run` respects MAX_RUNNING follows from conservation.

`CreationsProofs` proves for any requests and any numbers of jobs, files,
revisions, crashes and outages (assumption `CreationsAssumption`: the bounds are
numbers and `None` is none of the model's values) `AlwaysInvariant`,
`Spec => []Inv`, and from it every invariant the `creations` run checks
(`CreationTypes`, `OneAvatarOnly`, `ProcessingIsAlwaysOwned`,
`FinishedAvatarIsAlwaysWhole`, `DraftFilesAlwaysExist`,
`DeletedAlwaysLeavesNothing`), every action property (`FinishingIsAlwaysFrozen`, `AlwaysExpiresOnlyIdle`, `EditsExtendWhatTheyRead`,
`ResultsExtendWhatTheyRead`, `AlwaysRecoversOnlyTheDead`), and the refinement of
`CreationLife` (`CreationKeepsItsLife`).  None of these is
inductive: each speaks of the row, and what a step may do to the row depends on
what a coroutine has read and holds.  The parts of `Inv`:

* `TypeOK`, and `Filled`: what a request or a task has in hand at each of its
  steps (a made file before it is written, steps before they are edited).
* `Revised`: a coroutine that read the row at a revision that still stands has
  the row's steps, because every write of the steps moves the revision
  (`RowGrows`).  The two "extends what it read" properties follow.
* `OneJob`: the runner's job is the task's and the row's record is its, an
  admitted request has a number nobody has, and a sweep about to write has
  found another job or none in the runner.  `RecoversOnlyTheDead` follows.
* `Idle`: a row past its retention has no job at work on it: it gets there only
  when nothing is under way, and the write that queues a job makes it young
  again.  `ExpiresOnlyIdle` follows.
* `Avatared`, `Published`, `Owned`, `AvatarWhole`: an avatar's life beside its
  creation's.  A commit publishes only an avatar that is neither published nor
  gone, an undo or a recovery deletes only one that is not published, and files
  go only with an avatar that is deleted or that a request is deleting.
* `FilesApart`, `FilesThere`, `NothingLeft`: a file is at a time the row's, one
  coroutine's to store, or some coroutine's to delete (`Apart`), so that nobody
  deletes what the row names, and of a deleted creation only what somebody is
  still to store or delete is left.

The refinement maps the row's status, `gone` without a row, and its avatar.
`Enqueue` of a Finish is `Finish`, `FinishCommits` is `Publish`, an undo and a
recovery are `Undo` (or `Drop`, of an avatar whose creation is gone), `ExpireWrite`
is `Expire`, `DeleteRow` and `PurgeRow` are `Go`, a restart's mark is `Fail`, and the
rest stutters.  It needs one more invariant, of the abstract state alone and
inductive under its steps (`Lived`): one avatar at most stands, a finishing
creation's only its own, a draft's none, and none has failed while the creation is
there.  That a finishing creation may still be deleted (finding 2) is part of
what `CreationLife` allows.

A handful of lemmas say once what each action may do (`ServeFrame`, `WorkFrame`,
`SweepFrame`; `WorkRow`, `StatusesChange`, `AvatarsChange`, `SweepsChange`,
`KeysChange`), and the preservation of each part is built on them.

`AiBudgetProofs` proves for every set of requests, every natural limits and
number of candidates, and any bounds on jobs, revisions and crashes
(assumptions `LimitAssumption`, `CandidatesAssumption` and, for the types only,
`BoundsAssumption`):

* `BudgetTypes`: `Spec => []TypeOK`.
* `BudgetsHold`: `Spec => []WithinLimits`.  What a request will write back fits
  and leaves room for what it takes, from its read on; what a job read fits, and
  it only lowers it.
* `NumbersStayFresh`: `Spec => []NumbersAreFresh`.  The usage lives outside the
  revision rule and the results inside it, so the invariant says when each may
  still be written: a usage read at a revision is past the results of that
  revision (`RequestsArePast`), since results only join by moving it; a job's
  number is past the results it started beside, and while its own revision lasts
  what it will store is below the next number (`JobIsPast`).
* `AnsweredRoundsAreKept`: `Spec => []AnsweredRoundsStayCounted`.  The round of a
  job that may still give it back is one more than those answered
  (`RoundsPending`), and what a job's SELECT read has the row's counts until its
  UPDATE, unless a request was stale.

Lemmas named `...Outcome` say what each action does to the fields these
invariants speak of; the three proofs are built on them.

`SessionsProofs` proves for every set of tabs, users and calls and every bound on
sessions and tokens (assumption `SessionsAssumption`) `AlwaysConsistent`,
`TypesHold`, `JarAlwaysKeepsUp` and `SignOutsAreDeserved`.  That the cookie is at
most one exchange behind is not inductive: an answer on its way carries the
next cookie.  `Consistent` says of every refresh what it holds at each point: a
cookie of a token issued, that token's successor once answered, an ended session
when refused (`AskedFor`); that the cookie was issued (`JarIssued`); with locks,
that neither the cookie nor the one a tab asks with is more than one token behind
its session (`NoneBehind`) and that cookies are asked with in the order they were
set, a dropped request's first (`InTurn`); and that a tab's live session is the
cookie's until an answer has overtaken a newer cookie (`LiveIsJars`).

The speech is proved layer by layer, each voice on its own specification and then
in the composition.  Two invariants stand beside each other at each layer: one
of order and one of what is counted and shown, which needs the first.

*Data.*  What a track sets, what a stream's frames have said and how a text's
tags fall to its chunks are folds over sequences.  The library's induction
theorems cannot be instantiated here, so `FaceEngineProofs` proves that a
non-empty set of naturals has a least one (`LeastNatural`) and from it induction
for a set of naturals (`NatInd`), and shows that a `FoldLeft` is a run: a
function on 0..n whose values follow one another (`FoldsInTurn`, and for the
three folds `CuesInTurn`, `ReadsInTurn`, `SamplesInTurn`).  From there on they are
facts about one step: a walk to a later cue ends with that cue's expression
(`WalkedIs`), a walk to the end of a track which closes with a release leaves
none (`WalkedToEnd`), a marked text's last chunk closes with one, and one more
frame read adds its samples (`SentNext`).

*The engine.*  `FaceEngineProofs` has lemmas on the engine's operations: each
keeps at most one element in flight and the engine's types, and takes an
expression of the page's from the face only by a cue that names another
(`CallsLeaveThePage`).

*The queue.*  `InStep` orders the calls by generation (`Generations`) and says
which chunks of each have been begun and are over (`Reached`).  `Telling` adds
that what is said is the current call's chunk with its track, walked no further
than its end (`SaysChunk`), and that a text's expression is the newest call's,
which has not passed its release (`TextHeld`).

*The stream.*  `InTune` has the spans in order on the clock and in the content
(`Timed`, `Line`), each the phrase of a frame read (`Sourced`), the mouth where
the last tick put it, moved on by the frames since (`Mouth`), and why the reader
and the player have stopped (`Course`); its lemmas show where a tick leaves the
mouth (`TickIsInTune`, `MouthIsPut`), whatever the frames did before it, and that
scheduling a phrase keeps the timeline joined (`ScheduledJoins`).  `MouthAlwaysKeepsToSound` is the stream's part of
`MouthAlwaysFollows`, with any number of frames between two ticks.  `Sounding`
adds that the samples counted are those of the frames read, while any are still
to come (`Counted`), from which a recording offered is whole, and that a text's
expression is on only while the player speaks, or a recording whose release is
still to come (`Facing`).

*The page.*  `InVoice` ties the synthesizer's queue, what was cut and the mouth
for the browser's voice.  `InStyle` and `Showing` are the invariants of the voice
taken and the others at rest.  They give, for `SpeakingSpec`, for any calls,
texts, streams, tracks, durations and latency: `SpeakingTypes`, `PageHasOneVoice`,
`NewestVoiceSpeaks`, `PageSpeaksInOrder`, `MouthAlwaysFollows`,
`TextExpressionIsReleased`, `PageExpressionAlwaysStays`, `PhrasesAlwaysJoin`,
`RecordingIsAlwaysWhole`, `ResolvedIsAlwaysHeard` and `StoppedStreamIsSilent`.
Assumptions: `EngineAssumption` (a recording lasts, and there are expressions
besides neutral), `QueueAssumption`, `ChunksAssumption` (`MaxChunks` is the chunks
the longest text makes), `BrowserAssumption`, `StreamAssumption`,
`SpeakingAssumption`, each evaluated by TLC.

Model-checked only: liveness (`EveryJobEnds`, `ShutdownEnds`, `NeverStuck`,
`LoadEnds`, `SpeechSettles`), which rests on fairness and so on ENABLED, out of
these provers' reach.  Every invariant and every action property that a passing
run checks is proved.

## 5. Plan

Done: `JobRunner` and `WorkLimits`, `Creations` and `CreationLife`, `AiBudget`, `Sessions`,
`FaceEngine`, `SpeechQueue`, `BrowserVoice`, `SpeechStream`, `Speaking`, and the
proofs above.  Then, in this order:

1. `CloneJobs`: index and documents, a claim that expires under its worker.
2. `Steps`: removal and lineage over all small graphs, against reachability;
   then in `Creations`: results to choose from, adjust, generate, detect.
3. `EditLock`: mutual exclusion per avatar and no leaked lock; inductive proof.
4. `CallGuard`: the image limit with several kits in flight.
5. `Publishing`: draft, published copies, undo, background builds.
6. The speech cache, and the detection budget with its cache.

## 6. Not modelled

Creation's own admission (draft limit, the photo's probe, the upload stored
before the row) except for its outcome; a commit whose answer is lost; several
rows in one recovery pass (rows are independent but for the shared commit);
two processes (`services/jobs.py` and `services/sweeper.py` say why there is
one).  Two voices on one engine at once: the pages take one.  The widget's page
and its messages, the dashboard beyond its session and its speak panel's voice:
interface code over what is modelled.  Numeric code on photos and meshes,
rendering and the shell scripts are out of reach or without state worth
modelling.
