------------------------------- MODULE Speaking -------------------------------
(***************************************************************************)
(* A face that speaks: one engine, and the voice its page plays through    *)
(* it. The widget takes the browser's voice or the server's, chunk by      *)
(* chunk, when it starts (embed/src/widget.ts); the dashboard takes the    *)
(* browser's or a phrase stream (useSpeakPanel.ts).                        *)
(***************************************************************************)
EXTENDS SpeechQueue, BrowserVoice, SpeechStream

\* A whole recording is an element of its own.
ASSUME SpeakingAssumption == Recording \notin Chunks

VARIABLE voice  \* which of them the page took

speakingVars == <<voice, engineVars, queueVars, browserVars, streamVars>>

SpeakingTypeOK ==
    /\ voice \in {"queue", "browser", "stream"}
    /\ EngineTypeOK /\ QueueTypeOK /\ BrowserTypeOK /\ StreamTypeOK

SpeakingInit ==
    /\ voice \in {"queue", "browser", "stream"}
    /\ EngineInit /\ QueueInit /\ BrowserInit /\ StreamInit
    /\ voice = "stream" <=> reader = "fetching"
    /\ voice # "stream" => frames = (CHOOSE s \in Streams : TRUE) /\ ~marked

QueueSpeaks == voice = "queue" /\ QueueNext /\ UNCHANGED <<voice, browserVars, streamVars>>
BrowserSpeaks == voice = "browser" /\ BrowserNext /\ UNCHANGED <<voice, queueVars, streamVars>>
StreamSpeaks == voice = "stream" /\ StreamNext /\ UNCHANGED <<voice, queueVars, browserVars>>

SpeakingNext == QueueSpeaks \/ BrowserSpeaks \/ StreamSpeaks

SpeakingSpec == SpeakingInit /\ [][SpeakingNext]_speakingVars
FairSpeakingSpec == SpeakingSpec /\ QueueFairness /\ BrowserFairness /\ StreamFairness

-----------------------------------------------------------------------------
(* Properties                                                              *)

\* The mouth moves for a sound that is heard: with the browser's voice, from
\* the start it tells to its end; with a stream, where the last tick heard its
\* audio.
MouthFollowsSound ==
    /\ voice = "browser" => MouthFollowsVoice
    /\ voice = "stream" => MouthKeepsToSound

\* An expression a text's tag set is released with the text: after a stop, a
\* newer text or the end, none of it is left on the face. (A text whose next
\* chunk was refused keeps its own.)
TextExpressionHasAText ==
    asked.source = "text" =>
        IF voice = "queue"
        THEN \E c \in Calls : ~Stale(c) /\ (Pending(c) \/ calls[c].pc = "failed")
        ELSE speaking

\* What the page expressed stays until the page releases it (a step of its
\* own) or a tag that names an expression sets another: a text's end, a stop
\* and a tag's [neutral] leave it.
PageExpressionStays ==
    [][asked.source = "api" /\ asked' = Neutral =>
        \/ UNCHANGED <<voiceVars, speaking, cueTime, track, nextCue,
                       queueVars, browserVars, streamVars>>
        \/ \E i \in (nextCue + 1)..nextCue' : track[i].name # "neutral"]_speakingVars

\* A call of speak() that nothing replaces, stops or holds settles, whatever
\* the network and the browser do with it.
SpeechSettles == UninterruptedSpeakSettles /\ LoneUtteranceSettles /\ StreamSettles
=============================================================================
