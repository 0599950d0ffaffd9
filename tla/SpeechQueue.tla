----------------------------- MODULE SpeechQueue -----------------------------
(***************************************************************************)
(* A text said chunk by chunk (embed/src/speech.ts): each chunk asked of   *)
(* the server while the one before plays, a generation counter telling a   *)
(* call that a newer one, or a stop, has taken the voice from it.          *)
(*                                                                         *)
(* A call of speak() is an asynchronous function: `pc` is what it awaits.  *)
(* The step after an await is an action of its own, so that everything     *)
(* else may happen first.                                                  *)
(***************************************************************************)
EXTENDS FaceEngine, Naturals, Sequences, FiniteSets, SequencesExt

CONSTANTS
    Calls,          \* calls of speak() the page makes
    Texts,          \* the texts it says: sequences of pieces, see Piece
    MaxChunks,      \* the most chunks any of them makes
    Lead,           \* EXPRESSION_LEAD_MS, in cue time
    MaxStops        \* stops by the page (a bound of the model)

\* A piece of a text as splitSentences cuts it: whether it says anything
\* besides its tags, and each tag's name with the start of the word it
\* stands before.
Piece == [said : BOOLEAN,
          tags : Seq([word : 0..Duration, name : Names \cup {"neutral"}])]

\* The audio elements of a text's chunks, each named by its call and place.
Chunks == Calls \X (1..MaxChunks)

ASSUME QueueAssumption ==
    /\ MaxChunks \in Nat \ {0} /\ Lead \in Nat /\ MaxStops \in Nat
    /\ Texts \subseteq Seq(Piece)
    /\ Chunks \subseteq Elements

VARIABLES
    generation,     \* SpeechQueue.generation
    active,         \* SpeechQueue.active
    calls,          \* the calls of speak()
    stops           \* stops made, for the bound

queueVars == <<generation, active, calls, stops>>

-----------------------------------------------------------------------------
(* Chunks                                                                  *)

\* A mark of a piece on the speech's clock, ahead of its word; one at the
\* end of the text stays there.
TimedMark(tag) ==
    [t |-> IF tag.word >= Duration THEN Duration
           ELSE IF tag.word > Lead THEN tag.word - Lead ELSE 0,
     name |-> tag.name]

\* Tags with nothing to say go to the start of the next chunk.
AddPiece(acc, piece) ==
    LET opening == [i \in 1..Len(acc.carried) |-> [t |-> 0, name |-> acc.carried[i].name]]
        own == [i \in 1..Len(piece.tags) |-> TimedMark(piece.tags[i])]
        marks == opening \o own
    IN IF piece.said THEN [chunks |-> Append(acc.chunks, marks), carried |-> <<>>]
       ELSE [chunks |-> acc.chunks, carried |-> marks]

\* The chunks of a text, each the track of its expressions; the last one
\* releases what any of them set.
SpeechChunks(text) ==
    LET made == FoldLeft(AddPiece, [chunks |-> <<>>, carried |-> <<>>], text).chunks
        last == Len(made)
    IN IF \E i \in 1..last : made[i] # <<>>
       THEN [made EXCEPT ![last] = Append(@, [t |-> Duration, name |-> "neutral"])]
       ELSE made

ASSUME ChunksAssumption == \A text \in Texts : Len(SpeechChunks(text)) <= MaxChunks

-----------------------------------------------------------------------------
(* State                                                                   *)

Call == [pc : {"idle",      \* not made
               "waiting",   \* awaits the chunk's recording
               "playing",   \* awaits the end of its voice
               "resumed",   \* its voice ended: about to go on
               "done", "failed"},
         gen : Nat,                                   \* its generation
         chunks : Seq(Seq(Cue)),                      \* its chunks' tracks
         chunk : 1..MaxChunks,                        \* i
         pending : {"none", "asked", "ready", "refused"}]  \* the recording

Pending(c) == calls[c].pc \in {"waiting", "playing", "resumed"}
Settled(c) == calls[c].pc \in {"done", "failed"}
Stale(c) == calls[c].gen # generation

QueueTypeOK ==
    /\ generation \in Nat
    /\ active \in BOOLEAN
    /\ calls \in [Calls -> Call]
    /\ stops \in 0..MaxStops

QueueInit ==
    /\ generation = 0
    /\ active = FALSE
    /\ calls = [c \in Calls |->
                   [pc |-> "idle", gen |-> 0, chunks |-> <<>>, chunk |-> 1,
                    pending |-> "none"]]
    /\ stops = 0

-----------------------------------------------------------------------------
(* Actions                                                                 *)

\* speak(): what is playing is stopped, a generation taken, the first chunk
\* asked for; a text with nothing to say settles at once.
Speak(c, text) ==
    /\ calls[c].pc = "idle"
    /\ LET made == SpeechChunks(text)
           empty == made = <<>>
       IN /\ generation' = generation + 2
          /\ active' = ~empty
          /\ calls' = [calls EXCEPT ![c] =
                          [pc |-> IF empty THEN "done" ELSE "waiting",
                           gen |-> generation + 2, chunks |-> made, chunk |-> 1,
                           pending |-> IF empty THEN "none" ELSE "asked"]]
    /\ StopSpeech
    /\ UNCHANGED stops

\* stop(), by the page.
QueueStop ==
    /\ stops < MaxStops
    /\ stops' = stops + 1
    /\ generation' = generation + 1
    /\ active' = FALSE
    /\ StopSpeech
    /\ UNCHANGED calls

\* The server answers the chunk asked for, or refuses it.
SynthAnswers(c, answer) ==
    /\ Pending(c)
    /\ calls[c].pending = "asked"
    /\ answer \in {"ready", "refused"}
    /\ calls' = [calls EXCEPT ![c].pending = answer]
    /\ UNCHANGED <<engineVars, generation, active, stops>>

\* A stale call returns; the finally of a current one ends the speaking.
Returns(c, how) ==
    /\ calls' = [calls EXCEPT ![c].pc = how, ![c].pending = "none"]
    /\ active' = IF Stale(c) THEN active ELSE FALSE
    /\ UNCHANGED <<engineVars, generation, stops>>

\* The chunk's recording is there: it plays, and the next is asked for.
PlayChunk(c) ==
    LET i == calls[c].chunk
    IN /\ PlayAudio(<<c, i>>, calls[c].chunks[i])
       /\ calls' = [calls EXCEPT
                       ![c].pc = "playing",
                       ![c].pending = IF i < Len(calls[c].chunks) THEN "asked" ELSE "none"]
       /\ UNCHANGED <<generation, active, stops>>

\* As it would be without the look at the generation after the await.
TakeChunkAnyway(c) ==
    /\ calls[c].pc = "waiting"
    /\ calls[c].pending = "ready"
    /\ PlayChunk(c)

TakeChunk(c) ==
    /\ calls[c].pc = "waiting"
    /\ calls[c].pending = "ready"
    /\ IF Stale(c) THEN Returns(c, "done") ELSE PlayChunk(c)

\* The chunk could not be had: the caller's error, unless a stop made it so.
ChunkRefused(c) ==
    /\ calls[c].pc = "waiting"
    /\ calls[c].pending = "refused"
    /\ Returns(c, IF Stale(c) THEN "done" ELSE "failed")

\* The voice's end, or failure, resolves what the call awaits.
VoiceTells(e, how) ==
    /\ MayTell(e, how)
    /\ OnEnded(e, how)
    /\ calls' = IF IsCurrent(e) /\ onAudioEnd # None
                THEN [calls EXCEPT ![onAudioEnd[1]].pc = "resumed"] ELSE calls
    /\ UNCHANGED <<generation, active, stops>>

\* On to the next chunk, or the end of the text.
GoOn(c) ==
    /\ calls[c].pc = "resumed"
    /\ IF Stale(c) \/ calls[c].chunk = Len(calls[c].chunks)
       THEN Returns(c, "done")
       ELSE /\ calls' = [calls EXCEPT ![c].pc = "waiting", ![c].chunk = @ + 1]
            /\ UNCHANGED <<engineVars, generation, active, stops>>

QueueNext ==
    \/ \E c \in Calls :
        \/ \E text \in Texts : Speak(c, text)
        \/ \E answer \in {"ready", "refused"} : SynthAnswers(c, answer)
        \/ TakeChunk(c) \/ ChunkRefused(c) \/ GoOn(c)
    \/ QueueStop
    \/ \E e \in Chunks : \E how \in {"ended", "failed"} : VoiceTells(e, how)
    \/ EngineMoves /\ UNCHANGED queueVars

queueSpecVars == <<engineVars, queueVars>>

\* A request is answered or fails, a voice asked for is heard and ends or
\* fails, and a resumed function runs.
QueueFairness ==
    /\ \A c \in Calls :
        /\ WF_queueSpecVars(\E answer \in {"ready", "refused"} : SynthAnswers(c, answer))
        /\ WF_queueSpecVars(TakeChunk(c) \/ ChunkRefused(c) \/ GoOn(c))
    /\ WF_queueSpecVars((\E e \in Chunks : Heard(e) \/ Advance(e)) /\ UNCHANGED queueVars)
    /\ WF_queueSpecVars(\E e \in Chunks : \E how \in {"ended", "failed"} :
                            IsCurrent(e) /\ VoiceTells(e, how))

QueueSpec == EngineInit /\ QueueInit /\ [][QueueNext]_queueSpecVars
-----------------------------------------------------------------------------
(* Properties                                                              *)

\* The voice in flight is the newest call's, which is told its end: an older
\* call's chunk that arrives late is dropped.
VoiceIsTheNewest ==
    currentAudio \in Chunks =>
        /\ ~Stale(currentAudio[1])
        /\ active
        /\ calls[currentAudio[1]].pc = "playing"
        /\ currentAudio[2] = calls[currentAudio[1]].chunk
        /\ onAudioEnd = currentAudio

\* A text is said in order and whole: a chunk is played only when the one
\* before ended or failed by itself.
ChunksInOrder ==
    \A c \in Calls : \A i \in 2..MaxChunks :
        element[<<c, i>>] # "none" => element[<<c, i - 1>>] \in {"ended", "failed"}

\* A call nothing replaces or stops settles; for any call, the docs' promise.
UninterruptedSpeakSettles == \A c \in Calls : Pending(c) ~> Settled(c) \/ Stale(c)
EverySpeakSettles == \A c \in Calls : Pending(c) ~> Settled(c)
=============================================================================
