----------------------------- MODULE SpeechStream -----------------------------
(***************************************************************************)
(* A text said phrase by phrase as the server makes it (embed/src/         *)
(* speech-stream): the NDJSON frames checked and joined (protocol.ts), the *)
(* phrases scheduled on the audio context's clock (player.ts), and the     *)
(* function that ties them to an engine (index.ts).                        *)
(*                                                                         *)
(* One stream, if the page asks for one. A phrase lasts a few units of     *)
(* time; `now` is the context's clock, which stands while the context does *)
(* not run, and the sound comes out up to Latency later. Between two ticks *)
(* of the player the engine's own frame clock moves the mouth on, whatever *)
(* the context does: past a phrase's end, into a gap, through a hold.      *)
(***************************************************************************)
EXTENDS FaceEngine, Naturals, Sequences, FiniteSets, SequencesExt

CONSTANTS
    Streams,    \* what the server may answer: sequences of frames
    Guess,      \* the first guess at the speech's length
    Recording,  \* the audio element of a whole recording
    Latency,    \* from the context's clock to the sound
    MaxIdle,    \* how long the context runs with nothing to play (a bound)
    MaxLate     \* how long the frames run between two ticks (a bound)

\* A phrase says its place, its first sample and its samples; the terminal
\* frame says the totals.
Frames ==
    [type : {"start", "recording", "error"}]
    \cup [type : {"chunk"}, sequence : Nat, from : Nat, samples : Nat]
    \cup [type : {"done"}, chunks : Nat, samples : Nat]

ASSUME StreamAssumption ==
    /\ Streams \subseteq Seq(Frames)
    /\ Guess \in Nat /\ Latency \in Nat /\ MaxIdle \in Nat /\ MaxLate \in Nat
    /\ Recording \in Elements

VARIABLES
    frames,         \* what the server answers
    marked,         \* the text has a tag
    read,           \* how many frames were read
    reader,         \* what streamSpeech's function awaits
    handleStopped,  \* streamSpeech's `stopped`
    recording,      \* the promise of the complete recording
    length,         \* the speech's length as the expressions are placed over it
    samples,        \* SpeechAssembly.samples
    chunks,         \* SpeechAssembly.chunks
    whole,          \* a whole recording came
    spans,          \* StreamTimeline.spans
    sealed,         \* StreamingSpeechPlayer's, as the next four
    playerStopped,
    streamSpeaking,
    paused,
    lastTime,
    running,        \* the audio context's state, and its clock
    now,
    sinceTick       \* how long the frames ran since the player's last tick
                    \* (a history variable)

handleVars == <<frames, marked, read, reader, handleStopped, recording, length>>
assemblyVars == <<samples, chunks, whole>>
playerVars == <<spans, sealed, playerStopped, streamSpeaking, paused, lastTime>>
contextVars == <<running, now, sinceTick>>
streamVars == <<handleVars, assemblyVars, playerVars, contextVars>>
streamSpecVars == <<engineVars, streamVars>>

Span == [start : Nat, end : Nat, offset : Nat]

StreamTypeOK ==
    /\ frames \in Streams
    /\ read \in 0..Len(frames)
    /\ reader \in {"unasked", "fetching", "reading", "draining", "playing", "resolved", "rejected"}
    /\ recording \in {"none", "resolved", "rejected"}
    /\ length \in Nat /\ samples \in Nat /\ chunks \in Nat
    /\ spans \in Seq(Span)
    /\ {marked, handleStopped, whole, sealed, playerStopped, streamSpeaking,
        paused, running} \subseteq BOOLEAN
    /\ now \in Nat /\ lastTime \in 0..now
    /\ sinceTick \in 0..MaxLate

StreamInit ==
    /\ frames \in Streams
    /\ marked \in BOOLEAN
    /\ read = 0
    /\ reader \in {"unasked", "fetching"}
    /\ handleStopped = FALSE
    /\ recording = "none"
    /\ length = Guess
    /\ samples = 0 /\ chunks = 0 /\ whole = FALSE
    /\ spans = <<>>
    /\ sealed = FALSE /\ playerStopped = FALSE
    /\ streamSpeaking = FALSE /\ paused = FALSE
    /\ running = FALSE
    /\ now = 0 /\ lastTime = 0 /\ sinceTick = 0

-----------------------------------------------------------------------------
(* The timeline                                                            *)

\* schedule(): a phrase starts when the one before ends, or a moment from
\* now if that is past.
Scheduled(list, time, duration, offset) ==
    LET soon == time + 1
        start == IF list = <<>> \/ Last(list).end < soon THEN soon ELSE Last(list).end
    IN Append(list, [start |-> start, end |-> start + duration, offset |-> offset])

\* position(): the content time heard at `time`, gaps left out.
Position(list, time) ==
    LET started == {i \in 1..Len(list) : list[i].start <= time}
    IN IF started = {} THEN 0
       ELSE LET span == list[Cardinality(started)]
            IN span.offset + (IF time < span.end THEN time ELSE span.end) - span.start

TimelineActive(list, time) ==
    \E i \in 1..Len(list) : list[i].start <= time /\ time < list[i].end

\* Past the end of all that is scheduled, if anything is.
TimelineOver(list, time) == list # <<>> /\ Last(list).end <= time

\* The tag of a text stands halfway through it, its closing release at its end.
ExpressionTrack(len) ==
    IF ~marked THEN <<>>
    ELSE <<[t |-> len \div 2, name |-> CHOOSE n \in Names : TRUE],
           [t |-> len, name |-> "neutral"]>>

-----------------------------------------------------------------------------
(* The player                                                              *)

\* outputTime(): what is heard now, never earlier than what was heard before.
\* As it would be with the output ahead of the clock.
OutputsAhead(held) ==
    IF held THEN {lastTime} ELSE {t \in lastTime..(now + 1) : t + Latency >= now}

Held == paused \/ ~running
Outputs(held) == IF held THEN {lastTime}
                 ELSE {t \in lastTime..now : t + Latency >= now}

CloseMouth ==
    /\ streamSpeaking' = FALSE
    /\ IF streamSpeaking THEN StopSpeech ELSE UNCHANGED engineVars

\* playCues or, for a mouth that moves, updateCueTrack and the track retimed;
\* then the engine's clock put where the sound is.
OpenMouth(list, time, len) ==
    LET tr == ExpressionTrack(len)
        at == Position(list, time)
    IN /\ streamSpeaking' = TRUE
       /\ speaking' = TRUE
       /\ IF streamSpeaking THEN UNCHANGED voiceVars ELSE StopAudio
       /\ cueTime' = at
       /\ track' = tr
       /\ nextCue' = SoughtTo(tr, at)
       /\ UNCHANGED asked

\* As it would be if a hold, or a gap, left the mouth as it is.
MouthLeftOpen(held, list, time, len) ==
    IF held \/ ~TimelineActive(list, time) THEN UNCHANGED <<engineVars, streamSpeaking>>
    ELSE OpenMouth(list, time, len)

\* The mouth at what is heard: closed by a hold and in a gap.
MouthAt(held, list, time, len) ==
    IF held \/ ~TimelineActive(list, time) THEN CloseMouth
    ELSE OpenMouth(list, time, len)

\* tick(), on the timeline, the seal and the length it finds.
TickOn(held, list, seal, len) ==
    IF playerStopped
    THEN UNCHANGED <<engineVars, lastTime, playerStopped, streamSpeaking, sinceTick>>
    ELSE \E time \in Outputs(held) :
        LET over == ~held /\ seal /\ TimelineOver(list, time)
        IN /\ lastTime' = time
           /\ sinceTick' = 0
           /\ playerStopped' = over
           /\ IF over THEN CloseMouth ELSE MouthAt(held, list, time, len)

Tick ==
    /\ ~playerStopped
    /\ TickOn(Held, spans, sealed, length)
    /\ UNCHANGED <<handleVars, assemblyVars, spans, sealed, paused, running, now>>

\* pause(): the mouth closes at once, the context stops later (Interrupted).
Pause ==
    /\ ~playerStopped /\ ~paused
    /\ lastTime' \in Outputs(Held)
    /\ paused' = TRUE
    /\ CloseMouth
    /\ UNCHANGED <<handleVars, assemblyVars, spans, sealed, playerStopped, contextVars>>

\* resume() awaits the context, which unlock() starts, and then goes on.
Unlock ==
    /\ ~playerStopped /\ ~running
    /\ running' = TRUE
    /\ UNCHANGED <<engineVars, handleVars, assemblyVars, playerVars, now, sinceTick>>

Resume ==
    /\ ~playerStopped /\ paused /\ running
    /\ paused' = FALSE
    /\ TickOn(FALSE, spans, sealed, length)
    /\ UNCHANGED <<handleVars, assemblyVars, spans, sealed, running, now>>

\* The context stops: the pause's suspend, or the system's own hand.
Interrupted ==
    /\ ~playerStopped /\ running
    /\ running' = FALSE
    /\ UNCHANGED <<engineVars, handleVars, assemblyVars, playerVars, now, sinceTick>>

ContextClock ==
    /\ running /\ ~playerStopped
    /\ now < MaxIdle + (IF spans = <<>> THEN 0 ELSE Last(spans).end)
    /\ now' = now + 1
    /\ UNCHANGED <<engineVars, handleVars, assemblyVars, playerVars, running, sinceTick>>

\* The engine's frames between two ticks.
FramesRun ==
    /\ FrameClock
    /\ sinceTick < MaxLate
    /\ sinceTick' = sinceTick + 1
    /\ UNCHANGED <<handleVars, assemblyVars, playerVars, running, now>>

-----------------------------------------------------------------------------
(* streamSpeech                                                            *)

\* stop(): the player and the engine.
StopHandle ==
    IF handleStopped THEN UNCHANGED <<engineVars, handleStopped, playerStopped, streamSpeaking>>
    ELSE /\ handleStopped' = TRUE
         /\ playerStopped' = TRUE
         /\ streamSpeaking' = FALSE
         /\ StopSpeech

StreamStop ==
    /\ ~handleStopped
    /\ StopHandle
    /\ UNCHANGED <<frames, marked, read, reader, recording, length, assemblyVars,
                   spans, sealed, paused, lastTime, contextVars>>

\* `done` rejects: the recording with it, and the voice is stopped.
Rejecting ==
    /\ reader' = "rejected"
    /\ recording' = IF recording = "none" THEN "rejected" ELSE recording
    /\ StopHandle
    /\ UNCHANGED <<frames, marked, spans, sealed, paused, lastTime, contextVars>>
Rejects == Rejecting /\ UNCHANGED <<length, assemblyVars>>

Answered ==
    /\ reader = "fetching"
    /\ reader' = "reading"
    /\ UNCHANGED <<engineVars, frames, marked, read, handleStopped, recording,
                   length, assemblyVars, playerVars, contextVars>>

\* The request is refused; or the body ends early, or breaks.
Breaks ==
    /\ reader \in {"fetching", "reading"}
    /\ Rejects
    /\ UNCHANGED read

\* As it would be if a phrase's place were not looked at.
AnyOrder(f) == f.samples > 0

\* SpeechAssembly.append: in order, with nothing missing before it.
InOrder(f) == f.sequence = chunks /\ f.from = samples /\ f.samples > 0

\* A phrase taken is counted, then queued if the player takes more.
ReadChunk(f) ==
    IF ~InOrder(f) THEN Rejects
    ELSE LET heard == samples + f.samples
             len == IF heard > length THEN heard ELSE length
             list == Scheduled(spans, now, f.samples, samples)
         IN /\ samples' = heard
            /\ chunks' = chunks + 1
            /\ length' = len
            /\ UNCHANGED whole
            /\ IF playerStopped \/ sealed THEN Rejecting
               ELSE /\ spans' = list
                    /\ TickOn(Held, list, sealed, len)
                    /\ UNCHANGED <<frames, marked, reader, handleStopped, recording,
                                   sealed, paused, running, now>>

\* As it would be if the totals were not compared.
CompleteAnyway(f) == chunks > 0

\* SpeechAssembly.finish: the totals are those of what arrived.
Complete(f) == chunks > 0 /\ f.chunks = chunks /\ f.samples = samples

ReadDone(f) ==
    IF whole
    THEN \* The player stopped; the ordinary path, through the engine.
         /\ playerStopped' = TRUE
         /\ streamSpeaking' = FALSE
         /\ recording' = "resolved"
         /\ reader' = "playing"
         /\ PlayShowing(Recording, ExpressionTrack(Duration),
                        IF streamSpeaking THEN ReleasedText ELSE asked)
         /\ UNCHANGED <<frames, marked, handleStopped, length, assemblyVars,
                        spans, sealed, paused, lastTime, contextVars>>
    ELSE IF ~Complete(f) THEN Rejects
    ELSE /\ length' = samples
         /\ recording' = "resolved"
         /\ reader' = "draining"
         /\ sealed' = TRUE
         /\ TickOn(Held, spans, TRUE, samples)
         /\ UNCHANGED <<frames, marked, handleStopped, assemblyVars, spans,
                        paused, running, now>>

\* A start or a recording frame: kept.
ReadOther(f) ==
    /\ whole' = (whole \/ f.type = "recording")
    /\ UNCHANGED <<engineVars, frames, marked, reader, handleStopped, recording,
                   length, samples, chunks, playerVars, contextVars>>

TakeFrame(f) ==
    CASE f.type = "chunk" -> ReadChunk(f)
      [] f.type = "done" -> ReadDone(f)
      [] f.type = "error" -> Rejects
      [] OTHER -> ReadOther(f)

\* As it would be without the look at `stopped` after each read.
ReadFrameAnyway ==
    /\ reader = "reading"
    /\ read < Len(frames)
    /\ read' = read + 1
    /\ TakeFrame(frames[read + 1])

ReadFrame ==
    /\ reader = "reading"
    /\ read < Len(frames)
    /\ read' = read + 1
    /\ IF handleStopped
       THEN /\ reader' = "resolved"
            /\ UNCHANGED <<engineVars, frames, marked, handleStopped, recording,
                           length, assemblyVars, playerVars, contextVars>>
       ELSE TakeFrame(frames[read + 1])

\* As it would be without awaiting the player.
DrainedAtOnce ==
    /\ reader = "draining"
    /\ reader' = "resolved"
    /\ UNCHANGED <<engineVars, frames, marked, read, handleStopped, recording,
                   length, assemblyVars, playerVars, contextVars>>

\* await player.done.
Drained ==
    /\ reader = "draining" /\ playerStopped
    /\ reader' = "resolved"
    /\ UNCHANGED <<engineVars, frames, marked, read, handleStopped, recording,
                   length, assemblyVars, playerVars, contextVars>>

\* The end of a whole recording.
RecordingTells(how) ==
    /\ MayTell(Recording, how)
    /\ OnEnded(Recording, how)
    /\ reader' = IF IsCurrent(Recording) /\ onAudioEnd = Recording THEN "resolved" ELSE reader
    /\ UNCHANGED <<frames, marked, read, handleStopped, recording, length,
                   assemblyVars, playerVars, contextVars>>

StreamNext ==
    \/ Answered \/ Breaks \/ ReadFrame \/ Drained \/ StreamStop
    \/ Tick \/ Pause \/ Resume \/ Unlock \/ Interrupted \/ ContextClock
    \/ \E how \in {"ended", "failed"} : RecordingTells(how)
    \/ EngineMoves /\ UNCHANGED streamVars
    \/ FramesRun

StreamSpec == EngineInit /\ StreamInit /\ [][StreamNext]_streamSpecVars

\* The server answers, the frames are read, the timer ticks, the context's
\* clock runs, a voice is heard and ends.
StreamFairness ==
    /\ WF_streamSpecVars(Answered \/ Breaks)
    /\ WF_streamSpecVars(ReadFrame \/ Breaks)
    /\ WF_streamSpecVars(Drained)
    /\ WF_streamSpecVars(Tick)
    /\ WF_streamSpecVars(ContextClock)
    /\ WF_streamSpecVars((Heard(Recording) \/ Advance(Recording)) /\ UNCHANGED streamVars)
    /\ WF_streamSpecVars(\E how \in {"ended", "failed"} :
                            IsCurrent(Recording) /\ RecordingTells(how))

-----------------------------------------------------------------------------
(* Properties                                                              *)

\* Frame f says the i-th phrase, at the place and of the length queued.
SaysPhrase(f, i, span) ==
    /\ f.type = "chunk"
    /\ f.sequence = i - 1 /\ f.from = span.offset /\ f.samples = span.end - span.start

\* Phrases are queued one after the other, and their content joins up: each
\* is the one the server said comes there, none overlaps, none is said twice,
\* swapped or left out.
PhrasesJoinUp ==
    /\ \A i \in 1..Len(spans) : \E k \in 1..read : SaysPhrase(frames[k], i, spans[i])
    /\ \A i \in 1..Len(spans) :
        spans[i].offset = IF i = 1 THEN 0
                          ELSE spans[i - 1].offset + spans[i - 1].end - spans[i - 1].start
    /\ \A i \in 2..Len(spans) : spans[i - 1].end <= spans[i].start
    /\ spans # <<>> =>
        Last(spans).offset + Last(spans).end - Last(spans).start = samples

\* However the phrases arrive and whenever the context is held, a tick puts
\* the mouth where the sound is: it moves only if a phrase was heard at the
\* last tick, never while paused, and is ahead of that sound by what its own
\* frames ran since, never by what they ran through a gap or a hold before.
MouthKeepsToSound ==
    streamSpeaking =>
        /\ speaking /\ ~paused
        /\ TimelineActive(spans, lastTime)
        /\ cueTime = Position(spans, lastTime) + sinceTick

\* The samples the phrases among the first n frames have.
AddSamples(sum, f) == IF f.type = "chunk" THEN sum + f.samples ELSE sum
SentSamples(n) == FoldLeft(AddSamples, 0, SubSeq(frames, 1, n))

\* The recording offered for replay is whole: it is there only once the
\* terminal frame was read, and holds every sample the phrases before it said
\* and the totals it says; else it is the server's own whole recording. A
\* missing phrase, one too many or the answer's early end is an error, never
\* a shortened recording.
RecordingIsWhole ==
    recording = "resolved" =>
        /\ read > 0 /\ frames[read].type = "done"
        /\ IF whole THEN \E i \in 1..read : frames[i].type = "recording"
           ELSE samples = SentSamples(read) /\ samples = frames[read].samples

\* `done` resolves unstopped only when all that was said has been heard.
ResolvedMeansHeard ==
    reader = "resolved" /\ ~handleStopped =>
        IF whole THEN element[Recording] \in {"ended", "failed"}
        ELSE recording = "resolved" /\ TimelineOver(spans, now)

\* A stopped stream says nothing more, whatever still arrives.
StoppedIsSilent ==
    handleStopped => /\ playerStopped /\ ~streamSpeaking /\ ~speaking
                     /\ element[Recording] \notin {"asked", "heard"}

\* A stream nobody stops, holds or interrupts for good settles.
StreamSettles ==
    (<>[](~Held \/ playerStopped)) =>
        (reader = "fetching" ~> reader \in {"resolved", "rejected"} \/ handleStopped)
=============================================================================
