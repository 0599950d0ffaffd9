----------------------------- MODULE BrowserVoice -----------------------------
(***************************************************************************)
(* The browser's own voice (embed/src/browser-tts.ts): a text is handed to *)
(* speechSynthesis, whose events move the mouth. Its timing is fetched     *)
(* first, and it is handed over a tenth of a second late, for Chrome drops *)
(* what is said in the tick of a cancel; a watchdog settles the promise of *)
(* an utterance that never starts.                                         *)
(*                                                                         *)
(* The synthesizer is external: it says what it is handed in turn, tells   *)
(* the end of what was cancelled before the start of anything later, and   *)
(* may drop an utterance without a word. Timers fire in any order.         *)
(***************************************************************************)
EXTENDS FaceEngine, Naturals, Sequences, FiniteSets

CONSTANTS
    Says,       \* calls of BrowserTTS.speak()
    Tracks      \* the expression tracks their texts make

ASSUME BrowserAssumption ==
    Tracks # {} /\ Tracks \subseteq Seq(Cue) /\ None \notin Says

VARIABLES
    said,           \* each call: what its promise awaits, its track
    utterance,      \* each call's utterance, as the synthesizer has it
    synthesizer,    \* what it was handed and has not begun or ended, in turn
    browserActive,  \* BrowserTTS.active
    armed,          \* the calls whose watchdog is set
    startTimeout,   \* BrowserTTS.startTimeout: whose watchdog a clear reaches
    latest          \* the last call made, none once stopped (a history variable)

browserVars == <<said, utterance, synthesizer, browserActive, armed,
                 startTimeout, latest>>
browserSpecVars == <<engineVars, browserVars>>

BrowserTypeOK ==
    /\ said \in [Says -> [pc : {"idle", "fetching", "delayed", "handed",
                                "resolved", "rejected"}, track : Tracks]]
    /\ utterance \in [Says -> {"none", "queued", "talking", "cut", "lost", "over"}]
    /\ synthesizer \in Seq(Says)
    /\ browserActive \in BOOLEAN
    /\ armed \subseteq Says
    /\ startTimeout \in Says \cup {None}
    /\ latest \in Says \cup {None}

BrowserInit ==
    /\ said = [c \in Says |-> [pc |-> "idle", track |-> CHOOSE tr \in Tracks : TRUE]]
    /\ utterance = [c \in Says |-> "none"]
    /\ synthesizer = <<>>
    /\ browserActive = FALSE
    /\ armed = {}
    /\ startTimeout = None
    /\ latest = None

SaidPending(c) == said[c].pc \in {"fetching", "delayed", "handed"}
SynthSpeaking == \E c \in Says : utterance[c] = "talking"

ClearWatchdog == armed' = armed \ {startTimeout}
Settle(c, how) ==
    said' = IF SaidPending(c) THEN [said EXCEPT ![c].pc = how] ELSE said

\* speechSynthesis.cancel(): nothing is left to say; what was cut is told.
Cancel ==
    /\ utterance' = [c \in Says |-> IF utterance[c] \in {"queued", "talking"}
                                    THEN "cut" ELSE utterance[c]]
    /\ synthesizer' = <<>>

\* What every end of an utterance does.
BrowserFinish ==
    /\ ClearWatchdog
    /\ browserActive' = FALSE
    /\ StopSpeech

\* BrowserTTS.stop(): a voice being said is cut, a fetch or a delay is not.
StopBrowser ==
    /\ ClearWatchdog
    /\ Cancel
    /\ IF browserActive THEN browserActive' = FALSE /\ StopSpeech
       ELSE UNCHANGED <<browserActive, engineVars>>

-----------------------------------------------------------------------------
(* Calls                                                                   *)

Say(c, tr) ==
    /\ said[c].pc = "idle"
    /\ said' = [said EXCEPT ![c] = [pc |-> "fetching", track |-> tr]]
    /\ latest' = c
    /\ StopBrowser
    /\ UNCHANGED startTimeout

BrowserStop ==
    /\ StopBrowser
    /\ latest' = None
    /\ UNCHANGED <<said, startTimeout>>

\* The timing came, or could not be had: the estimate serves.
Fetched(c) ==
    /\ said[c].pc = "fetching"
    /\ said' = [said EXCEPT ![c].pc = "delayed"]
    /\ UNCHANGED <<engineVars, utterance, synthesizer, browserActive, armed,
                   startTimeout, latest>>

\* As it would be without a watchdog.
HandOverUnwatched(c) ==
    /\ said[c].pc = "delayed"
    /\ said' = [said EXCEPT ![c].pc = "handed"]
    /\ utterance' = [utterance EXCEPT ![c] = "queued"]
    /\ synthesizer' = Append(synthesizer, c)
    /\ UNCHANGED <<engineVars, browserActive, armed, startTimeout, latest>>

\* The deferred speak: the utterance handed over, its watchdog set.
HandOver(c) ==
    /\ said[c].pc = "delayed"
    /\ said' = [said EXCEPT ![c].pc = "handed"]
    /\ utterance' = [utterance EXCEPT ![c] = "queued"]
    /\ synthesizer' = Append(synthesizer, c)
    /\ armed' = armed \cup {c}
    /\ startTimeout' = c
    /\ UNCHANGED <<engineVars, browserActive, latest>>

\* The watchdog: the utterance never started, and nothing else is said.
Watchdog(c) ==
    /\ c \in armed
    /\ IF SaidPending(c) /\ ~SynthSpeaking
       THEN /\ armed' = armed \ {c, startTimeout}
            /\ browserActive' = FALSE
            /\ StopSpeech
            /\ Settle(c, "rejected")
       ELSE /\ armed' = armed \ {c}
            /\ UNCHANGED <<engineVars, browserActive, said>>
    /\ UNCHANGED <<utterance, synthesizer, startTimeout, latest>>

-----------------------------------------------------------------------------
(* The synthesizer                                                         *)

IsNext(c) == synthesizer # <<>> /\ c = Head(synthesizer)

\* onstart: the mouth begins.
Starts(c) ==
    /\ IsNext(c)
    /\ utterance[c] = "queued"
    /\ \A d \in Says : utterance[d] # "cut"
    /\ utterance' = [utterance EXCEPT ![c] = "talking"]
    /\ ClearWatchdog
    /\ browserActive' = TRUE
    /\ PlayCues(said[c].track)
    /\ UNCHANGED <<said, synthesizer, startTimeout, latest>>

\* onboundary: the mouth's clock put where the voice is.
Boundary(c, t) ==
    /\ utterance[c] = "talking"
    /\ SyncCueTime(t)
    /\ UNCHANGED <<voiceVars, browserVars>>

\* onend, or onerror: of what is said, or of what could not be.
Ends(c, how) ==
    /\ IsNext(c)
    /\ \/ utterance[c] = "talking" /\ how \in {"resolved", "rejected"}
       \/ utterance[c] = "queued" /\ how = "rejected"
    /\ \A d \in Says : utterance[d] # "cut"
    /\ utterance' = [utterance EXCEPT ![c] = "over"]
    /\ synthesizer' = Tail(synthesizer)
    /\ BrowserFinish
    /\ Settle(c, how)
    /\ UNCHANGED <<startTimeout, latest>>

\* onerror of an utterance a cancel cut.
CutTold(c) ==
    /\ utterance[c] = "cut"
    /\ utterance' = [utterance EXCEPT ![c] = "over"]
    /\ BrowserFinish
    /\ Settle(c, "resolved")
    /\ UNCHANGED <<synthesizer, startTimeout, latest>>

\* An utterance dropped without an event.
Dropped(c) ==
    /\ IsNext(c)
    /\ utterance[c] = "queued"
    /\ utterance' = [utterance EXCEPT ![c] = "lost"]
    /\ synthesizer' = Tail(synthesizer)
    /\ UNCHANGED <<engineVars, said, browserActive, armed, startTimeout, latest>>

BrowserNext ==
    \/ \E c \in Says :
        \/ \E tr \in Tracks : Say(c, tr)
        \/ Fetched(c) \/ HandOver(c) \/ Watchdog(c)
        \/ Starts(c) \/ CutTold(c) \/ Dropped(c)
        \/ \E t \in 0..Duration : Boundary(c, t)
        \/ \E how \in {"resolved", "rejected"} : Ends(c, how)
    \/ BrowserStop
    \/ EngineMoves /\ UNCHANGED browserVars
    \/ FrameClock /\ cueTime < Duration /\ UNCHANGED browserVars

BrowserSpec == EngineInit /\ BrowserInit /\ [][BrowserNext]_browserSpecVars

\* Fetches end, timers fire, and the synthesizer starts or drops what it has
\* and tells the end of what it says.
BrowserFairness ==
    \A c \in Says :
        /\ WF_browserSpecVars(Fetched(c) \/ HandOver(c))
        /\ WF_browserSpecVars(Watchdog(c))
        /\ WF_browserSpecVars(Starts(c) \/ Dropped(c))
        /\ WF_browserSpecVars(CutTold(c) \/ \E how \in {"resolved", "rejected"} : Ends(c, how))

-----------------------------------------------------------------------------
(* Properties                                                              *)

\* The mouth moves exactly while the synthesizer says something it has told
\* the start of: no late event of a cancelled utterance, and no watchdog,
\* closes the mouth under a voice or leaves it moving in silence.
MouthFollowsVoice ==
    /\ speaking <=> SynthSpeaking
    /\ browserActive <=> SynthSpeaking

\* A call made while nothing else is said or being cancelled, and that
\* nothing replaces, settles, whatever the synthesizer does with it.
Alone(c) ==
    /\ latest = c
    /\ \A d \in Says \ {c} : ~SaidPending(d) /\ utterance[d] \in {"none", "lost", "over"}
LoneUtteranceSettles ==
    \A c \in Says :
        said[c].pc \in {"fetching", "delayed"} /\ Alone(c) ~>
            ~SaidPending(c) \/ latest # c
=============================================================================
