------------------------------ MODULE FaceEngine ------------------------------
(***************************************************************************)
(* The engine a voice plays through, as its callers see it: the audio      *)
(* element in flight (embed/src/engine/voice.ts), what the engine does     *)
(* when a voice begins, is stopped or ends (engine.ts, animation.ts), and  *)
(* the expression on the face, set by the page or by a text's tags         *)
(* (engine/expression-mixer.ts).                                           *)
(*                                                                         *)
(* An audio element is named by what it plays; the browser's events for    *)
(* one the engine has let go of may still arrive. Cue time is a small      *)
(* number.                                                                 *)
(***************************************************************************)
EXTENDS Naturals, Sequences, FiniteSets, SequencesExt

CONSTANTS
    Elements,   \* the audio elements a page may come to play
    Names,      \* the expressions (happy, surprised...), without "neutral"
    Duration,   \* the length of every recording, in cue time
    None

ASSUME EngineAssumption ==
    /\ Duration \in Nat \ {0}
    /\ None \notin Elements
    /\ Names # {} /\ "neutral" \notin Names

VARIABLES
    element,        \* what each audio element is at
    currentAudio,   \* Voice.currentAudio
    onAudioEnd,     \* Voice.onAudioEnd: for which element a caller waits
    speaking,       \* Voice.speaking
    cueTime,        \* Voice.cueTime, as the next frame would read it
    track,          \* ExpressionMixer.track
    nextCue,        \* ExpressionMixer.nextCue: cues of the track walked
    asked           \* ExpressionMixer.asked: the expression on, and who asked

voiceVars == <<element, currentAudio, onAudioEnd>>
faceVars == <<speaking, cueTime, track, nextCue, asked>>
engineVars == <<element, currentAudio, onAudioEnd, speaking, cueTime, track,
                nextCue, asked>>

ElementStates ==
    {"none",      \* not made yet
     "asked",     \* play() called, not heard yet
     "heard",     \* its position moves
     "ended",     \* played to its end
     "failed",    \* refused or broken
     "cut"}       \* paused and emptied; its last event may be on its way

Cue == [t : Nat, name : Names \cup {"neutral"}]

Neutral == [name |-> "neutral", source |-> "none"]
Asked == {Neutral} \cup [name : Names, source : {"api", "text"}]

EngineTypeOK ==
    /\ element \in [Elements -> ElementStates]
    /\ currentAudio \in Elements \cup {None}
    /\ onAudioEnd \in Elements \cup {None}
    /\ speaking \in BOOLEAN
    /\ cueTime \in Nat
    /\ track \in Seq(Cue)
    /\ nextCue \in Nat
    /\ asked \in Asked

EngineInit ==
    /\ element = [e \in Elements |-> "none"]
    /\ currentAudio = None
    /\ onAudioEnd = None
    /\ speaking = FALSE
    /\ cueTime = 0
    /\ track = <<>>
    /\ nextCue = 0
    /\ asked = Neutral

-----------------------------------------------------------------------------
(* The expressions                                                         *)

\* A tag sets an expression; its "neutral" releases only what a text set.
SetByText(now, cue) ==
    IF cue.name # "neutral" THEN [name |-> cue.name, source |-> "text"]
    ELSE IF now.source = "text" THEN Neutral ELSE now

\* How many cues of tr, the first `from` walked already, are due by time t.
WalkedBy(tr, from, t) ==
    from + Cardinality({i \in (from + 1)..Len(tr) :
                            \A j \in (from + 1)..i : tr[j].t <= t})

\* What is on after the cues of tr from `from` to `to` are set in turn.
AfterCues(now, tr, from, to) == FoldLeft(SetByText, now, SubSeq(tr, from + 1, to))

\* The walk to cue time t: every cue due, in order.
Walk(t) ==
    LET to == WalkedBy(track, nextCue, t)
    IN /\ nextCue' = to
       /\ asked' = AfterCues(asked, track, nextCue, to)

\* The walker placed at cue time t: before the first cue later than t.
SoughtTo(tr, t) ==
    LET later == {i \in 1..Len(tr) : tr[i].t > t}
    IN IF later = {} THEN Len(tr)
       ELSE (CHOOSE i \in later : \A j \in later : i <= j) - 1

Seek(t) == nextCue' = SoughtTo(track, t)

\* As it would be if a stop left a text's expression on, or took the page's.
ReleasedNothing == asked
ReleasedAll == Neutral

ReleasedText == IF asked.source = "text" THEN Neutral ELSE asked

-----------------------------------------------------------------------------
(* The voice                                                               *)

\* As it would be if play() only replaced the element in hand.
SilencedNone == element

\* The audio in flight silenced, its callback dropped.
Silenced == IF currentAudio = None THEN element
            ELSE [element EXCEPT ![currentAudio] = "cut"]
StopAudio ==
    /\ element' = Silenced
    /\ currentAudio' = None
    /\ onAudioEnd' = IF currentAudio = None THEN onAudioEnd ELSE None

\* An utterance begins: cue time from 0, its expression track from there.
Begin(tr) ==
    /\ speaking' = TRUE
    /\ cueTime' = 0
    /\ track' = tr
    /\ nextCue' = SoughtTo(tr, 0)

\* playAudio(), where `on` is the expression on by then.
PlayShowing(e, tr, on) ==
    /\ element' = [Silenced EXCEPT ![e] = "asked"]
    /\ currentAudio' = e
    /\ onAudioEnd' = e
    /\ Begin(tr)
    /\ asked' = on

PlayAudio(e, tr) == PlayShowing(e, tr, asked)

PlayCues(tr) ==
    /\ StopAudio
    /\ Begin(tr)
    /\ UNCHANGED asked

StopSpeech ==
    /\ StopAudio
    /\ speaking' = FALSE
    /\ asked' = ReleasedText
    /\ track' = <<>>
    /\ UNCHANGED <<cueTime, nextCue>>

\* The engine's finishSpeech, for the voice in flight: the rest of its track
\* is set; the caller that waits on it (onAudioEnd) is called by the module
\* that plays.
FinishSpeech(e, how) ==
    /\ element' = [element EXCEPT ![e] = how]
    /\ currentAudio' = None
    /\ onAudioEnd' = None
    /\ speaking' = FALSE
    /\ Walk(Duration)
    /\ UNCHANGED <<cueTime, track>>

SyncCueTime(t) ==
    /\ cueTime' = t
    /\ Seek(t)
    /\ UNCHANGED <<speaking, track, asked>>

-----------------------------------------------------------------------------
(* What the browser and the page do                                        *)

\* One frame: the track walked to cue time while something is said.
Frame ==
    /\ speaking
    /\ WalkedBy(track, nextCue, cueTime) # nextCue
    /\ Walk(cueTime)
    /\ UNCHANGED <<voiceVars, speaking, cueTime, track>>

\* The element's position moves: `playing`, then on to its end. A `playing`
\* after a pause, or a `seeked`, reads that position anew, which cueTime is,
\* and places the gestures' beats only (onSync): the expressions' walker stays.
Heard(e) ==
    /\ element[e] = "asked"
    /\ element' = [element EXCEPT ![e] = "heard"]
    /\ UNCHANGED <<currentAudio, onAudioEnd, faceVars>>

TimePasses ==
    /\ cueTime' = cueTime + 1
    /\ UNCHANGED <<voiceVars, speaking, track, nextCue, asked>>

Advance(e) ==
    /\ e = currentAudio /\ element[e] = "heard" /\ cueTime < Duration
    /\ TimePasses

\* Cues without an element run on the frame clock, as long as they last.
FrameClock == speaking /\ currentAudio = None /\ TimePasses

\* The browser tells the end of an element, or its failure (play() refused,
\* an error; for one the engine has cut, the refusal its pause or its
\* emptied src brings). The handlers look whether it still is the current
\* one.
MayTell(e, how) ==
    \/ how = "ended" /\ element[e] = "heard" /\ cueTime = Duration
    \/ how = "failed" /\ element[e] \in {"asked", "heard", "cut"}
\* As it would be if the handlers did not look.
AnyCurrent(e) == TRUE
IsCurrent(e) == e = currentAudio
OnEnded(e, how) ==
    IF IsCurrent(e) THEN FinishSpeech(e, how)
    ELSE /\ element' = [element EXCEPT ![e] = how]
         /\ UNCHANGED <<currentAudio, onAudioEnd, faceVars>>

\* engine.setExpression, by the page; "neutral" releases whatever is on.
Express(name) ==
    /\ asked' = IF name = "neutral" THEN Neutral
                ELSE [name |-> name, source |-> "api"]
    /\ UNCHANGED <<voiceVars, speaking, cueTime, track, nextCue>>

EngineMoves ==
    \/ Frame
    \/ \E e \in Elements : Heard(e) \/ Advance(e)
    \/ \E name \in Names \cup {"neutral"} : Express(name)

-----------------------------------------------------------------------------
(* Properties                                                              *)

\* An element is in flight only while it is the engine's current one: no two
\* voices are ever heard at once, and none that a stop has cut.
OneVoice ==
    \A e \in Elements : element[e] \in {"asked", "heard"} => e = currentAudio
=============================================================================
