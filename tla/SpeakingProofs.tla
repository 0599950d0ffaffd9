---------------------------- MODULE SpeakingProofs ----------------------------
(***************************************************************************)
(* Theorems about the page that speaks, whichever voice it took: what      *)
(* holds of the queue and of the stream by themselves holds of it, and the *)
(* browser's voice moves the mouth with its sound.                         *)
(***************************************************************************)
EXTENDS Speaking, SpeechQueueProofs, SpeechStreamProofs

-----------------------------------------------------------------------------
(* The browser's voice                                                     *)

SaidRecords == [pc : {"idle", "fetching", "delayed", "handed", "resolved", "rejected"},
                track : Tracks \cup {CHOOSE tr \in Tracks : TRUE}]
Utterances == {"none", "queued", "talking", "cut", "lost", "over"}

\* Only what was handed over is an utterance.
Handed ==
    /\ said \in [Says -> SaidRecords]
    /\ utterance \in [Says -> Utterances]
    /\ synthesizer \in Seq(Says)
    /\ \A c \in Says : said[c].pc \in {"idle", "fetching", "delayed"} => utterance[c] = "none"

\* The synthesizer says the first of those it was handed, each once, and
\* nothing while it still has to tell the end of what was cut.
Turns ==
    /\ \A i \in 1..Len(synthesizer) :
        \/ utterance[synthesizer[i]] = "queued"
        \/ i = 1 /\ utterance[synthesizer[i]] = "talking"
    /\ \A i, j \in 1..Len(synthesizer) : i # j => synthesizer[i] # synthesizer[j]
    /\ \A c \in Says : utterance[c] = "talking" => synthesizer # <<>> /\ synthesizer[1] = c
    /\ (\E d \in Says : utterance[d] = "cut") => ~SynthSpeaking

InVoice == Voices /\ Handed /\ Turns /\ MouthFollowsVoice

LEMMA ConsideredSame ==
    ASSUME InVoice, UNCHANGED <<utterance, synthesizer, browserActive, speaking>>,
           Voices', said' \in [Says -> SaidRecords],
           \A c \in Says : said'[c].pc \in {"idle", "fetching", "delayed"} =>
                              said[c].pc \in {"idle", "fetching", "delayed"}
    PROVE  InVoice'
<1>1. Handed'
  BY DEF InVoice, Handed
<1>2. Turns' /\ MouthFollowsVoice'
  BY DEF InVoice, Turns, MouthFollowsVoice, SynthSpeaking
<1> QED BY <1>1, <1>2 DEF InVoice

\* Nothing is said any more, and the mouth is closed.
LEMMA StopSpeechCloses ==
    ASSUME Voices, StopSpeech
    PROVE  Voices' /\ Steady /\ speaking' = FALSE
BY StoppingIsSteady DEF StopSpeech

LEMMA CancelQuiets ==
    ASSUME Handed, Cancel
    PROVE  /\ utterance' \in [Says -> Utterances] /\ synthesizer' = <<>> /\ Turns' /\ ~SynthSpeaking'
           /\ \A c \in Says : utterance[c] = "none" => utterance'[c] = "none"
<1>1. /\ utterance' = [c \in Says |-> IF utterance[c] \in {"queued", "talking"}
                                      THEN "cut" ELSE utterance[c]]
      /\ synthesizer' = <<>>
  BY DEF Cancel
<1>2. /\ utterance' \in [Says -> Utterances]
      /\ \A c \in Says : utterance'[c] # "talking" /\ (utterance[c] = "none" => utterance'[c] = "none")
  BY <1>1 DEF Handed, Utterances
<1>3. ~SynthSpeaking'
  BY <1>2 DEF SynthSpeaking
<1>4. Turns'
  BY <1>1, <1>2, <1>3 DEF Turns
<1> QED BY <1>1, <1>2, <1>3, <1>4

LEMMA StopBrowserKeeps ==
    ASSUME InVoice, StopBrowser, said' \in [Says -> SaidRecords],
           \A c \in Says : said'[c].pc \in {"idle", "fetching", "delayed"} =>
                              said[c].pc \in {"idle", "fetching", "delayed"}
    PROVE  InVoice' /\ Steady
<1>1. /\ utterance' \in [Says -> Utterances] /\ synthesizer' = <<>> /\ Turns' /\ ~SynthSpeaking'
      /\ \A c \in Says : utterance[c] = "none" => utterance'[c] = "none"
  BY CancelQuiets DEF InVoice, StopBrowser
<1>2. Handed'
  BY <1>1 DEF InVoice, Handed
<1>3. Voices' /\ Steady /\ speaking' = FALSE /\ browserActive' = FALSE
  <2>1. CASE browserActive
    BY <2>1, StopSpeechCloses DEF InVoice, StopBrowser
  <2>2. CASE ~browserActive
    <3>1. UNCHANGED <<element, currentAudio, speaking, browserActive>>
      BY <2>2 DEF StopBrowser, engineVars
    <3>2. speaking = FALSE /\ browserActive = FALSE
      BY <2>2 DEF InVoice, MouthFollowsVoice
    <3> QED BY <3>1, <3>2 DEF InVoice, Voices, OneVoice, HeldPlays, Steady, SteadyBut, IsOver, Begun
  <2> QED BY <2>1, <2>2
<1>4. MouthFollowsVoice'
  BY <1>1, <1>3 DEF MouthFollowsVoice
<1> QED BY <1>1, <1>2, <1>3, <1>4 DEF InVoice

\* A promise is settled once, and names no utterance anew.
LEMMA SettledStaySo ==
    ASSUME said \in [Says -> SaidRecords], NEW c \in Says, NEW how \in {"resolved", "rejected"},
           Settle(c, how)
    PROVE  /\ said' \in [Says -> SaidRecords]
           /\ \A d \in Says : said'[d].pc \in {"idle", "fetching", "delayed"} =>
                                 said'[d] = said[d]
<1>1. CASE SaidPending(c)
  <2>1. said' = [said EXCEPT ![c].pc = how]
    BY <1>1 DEF Settle
  <2>2. said[c] \in SaidRecords
    OBVIOUS
  <2>3. [said[c] EXCEPT !.pc = how] \in SaidRecords /\ [said[c] EXCEPT !.pc = how].pc = how
    BY <2>2 DEF SaidRecords
  <2>4. said' = [said EXCEPT ![c] = [said[c] EXCEPT !.pc = how]]
    BY <2>1
  <2>5. said' \in [Says -> SaidRecords]
    BY <2>3, <2>4
  <2>6. ASSUME NEW d \in Says, said'[d].pc \in {"idle", "fetching", "delayed"}
        PROVE  said'[d] = said[d]
    <3>1. CASE d = c
      BY <2>3, <2>4, <2>6, <3>1
    <3>2. CASE d # c
      BY <2>4, <3>2
    <3> QED BY <3>1, <3>2
  <2> QED BY <2>5, <2>6
<1>2. CASE ~SaidPending(c)
  BY <1>2 DEF Settle
<1> QED BY <1>1, <1>2

\* A promise's step on to another await.
LEMMA SaidGoesOn ==
    ASSUME said \in [Says -> SaidRecords], NEW c \in Says,
           NEW pc \in {"delayed", "handed"}, said' = [said EXCEPT ![c].pc = pc]
    PROVE  /\ said' \in [Says -> SaidRecords] /\ said'[c].pc = pc
           /\ \A d \in Says \ {c} : said'[d] = said[d]
<1>1. said[c] \in SaidRecords
  OBVIOUS
<1>2. [said[c] EXCEPT !.pc = pc] \in SaidRecords /\ [said[c] EXCEPT !.pc = pc].pc = pc
  BY <1>1 DEF SaidRecords
<1>3. said' = [said EXCEPT ![c] = [said[c] EXCEPT !.pc = pc]]
  OBVIOUS
<1> QED BY <1>2, <1>3

LEMMA SayInVoice == ASSUME InVoice, NEW c \in Says, NEW tr \in Tracks, Say(c, tr) PROVE InVoice'
<1>1. /\ said[c].pc = "idle" /\ StopBrowser
      /\ said' = [said EXCEPT ![c] = [pc |-> "fetching", track |-> tr]]
  BY DEF Say
<1>2. [pc |-> "fetching", track |-> tr] \in SaidRecords
  BY DEF SaidRecords
<1>3. said' \in [Says -> SaidRecords] /\ said \in [Says -> SaidRecords]
  BY <1>1, <1>2 DEF InVoice, Handed
<1>4. \A d \in Says : said'[d].pc \in {"idle", "fetching", "delayed"} =>
                         said[d].pc \in {"idle", "fetching", "delayed"}
  BY <1>1, <1>3
<1> QED BY <1>1, <1>3, <1>4, StopBrowserKeeps

LEMMA BrowserStopInVoice == ASSUME InVoice, BrowserStop PROVE InVoice'
<1>1. StopBrowser /\ said' = said
  BY DEF BrowserStop
<1> QED BY <1>1, StopBrowserKeeps DEF InVoice, Handed

LEMMA FetchedInVoice == ASSUME InVoice, NEW c \in Says, Fetched(c) PROVE InVoice'
<1>1. /\ said[c].pc = "fetching" /\ said' = [said EXCEPT ![c].pc = "delayed"]
      /\ UNCHANGED <<element, currentAudio, speaking, utterance, synthesizer, browserActive>>
  BY DEF Fetched, engineVars
<1>2. /\ said' \in [Says -> SaidRecords] /\ said'[c].pc = "delayed"
      /\ \A d \in Says \ {c} : said'[d] = said[d]
  BY <1>1, SaidGoesOn DEF InVoice, Handed
<1>3. Voices'
  BY <1>1 DEF InVoice, Voices, OneVoice, HeldPlays
<1>4. \A d \in Says : said'[d].pc \in {"idle", "fetching", "delayed"} =>
                         said[d].pc \in {"idle", "fetching", "delayed"}
  BY <1>1, <1>2
<1> QED BY <1>1, <1>2, <1>3, <1>4, ConsideredSame

LEMMA HandOverInVoice == ASSUME InVoice, NEW c \in Says, HandOver(c) PROVE InVoice'
<1>1. /\ said[c].pc = "delayed" /\ said' = [said EXCEPT ![c].pc = "handed"]
      /\ utterance' = [utterance EXCEPT ![c] = "queued"]
      /\ synthesizer' = Append(synthesizer, c)
      /\ UNCHANGED <<element, currentAudio, speaking, browserActive>>
  BY DEF HandOver, engineVars
<1>2. /\ said' \in [Says -> SaidRecords] /\ said'[c].pc = "handed"
      /\ \A d \in Says \ {c} : said'[d] = said[d]
  BY <1>1, SaidGoesOn DEF InVoice, Handed
<1>3. utterance[c] = "none"
  BY <1>1 DEF InVoice, Handed
<1>4. /\ utterance' \in [Says -> Utterances] /\ utterance'[c] = "queued"
      /\ \A d \in Says \ {c} : utterance'[d] = utterance[d]
  BY <1>1 DEF InVoice, Handed, Utterances
<1>5. Handed'
  BY <1>1, <1>2, <1>4 DEF InVoice, Handed
<1>6. SynthSpeaking' <=> SynthSpeaking
  BY <1>3, <1>4 DEF SynthSpeaking
<1>7. Turns'
  <2> DEFINE n == Len(synthesizer)
  <2>1. /\ n \in Nat /\ Len(synthesizer') = n + 1 /\ synthesizer'[n + 1] = c
        /\ \A i \in 1..n : synthesizer'[i] = synthesizer[i] /\ synthesizer[i] \in Says
        /\ synthesizer' # <<>> /\ (synthesizer # <<>> => 1 \in 1..n)
    BY <1>1 DEF InVoice, Handed
  <2>2. \A i \in 1..n : synthesizer[i] # c
    BY <1>3, <2>1 DEF InVoice, Turns
  <2>3. \A i \in 1..(n + 1) : i \in 1..n \/ i = n + 1
    BY <2>1
  <2>4. \A i \in 1..n : /\ synthesizer'[i] # c
                        /\ utterance'[synthesizer'[i]] = utterance[synthesizer[i]]
    BY <1>4, <2>1, <2>2
  <2>5. \A i \in 1..(n + 1) : \/ utterance'[synthesizer'[i]] = "queued"
                              \/ i = 1 /\ utterance'[synthesizer'[i]] = "talking"
    BY <1>4, <2>1, <2>3, <2>4 DEF InVoice, Turns
  <2>6. \A i, j \in 1..(n + 1) : i # j => synthesizer'[i] # synthesizer'[j]
    <3>1. \A i, j \in 1..n : i # j => synthesizer'[i] # synthesizer'[j]
      BY <2>1 DEF InVoice, Turns
    <3> QED BY <2>1, <2>3, <2>4, <3>1
  <2>7. \A d \in Says : utterance'[d] = "talking" => synthesizer' # <<>> /\ synthesizer'[1] = d
    BY <1>4, <2>1 DEF InVoice, Turns
  <2>8. (\E d \in Says : utterance'[d] = "cut") => ~SynthSpeaking'
    BY <1>4, <1>6 DEF InVoice, Turns
  <2> QED BY <2>1, <2>5, <2>6, <2>7, <2>8 DEF Turns
<1>8. Voices' /\ MouthFollowsVoice'
  BY <1>1, <1>6 DEF InVoice, Voices, OneVoice, HeldPlays, MouthFollowsVoice
<1> QED BY <1>5, <1>7, <1>8 DEF InVoice

LEMMA WatchdogInVoice == ASSUME InVoice, NEW c \in Says, Watchdog(c) PROVE InVoice'
<1>1. UNCHANGED <<utterance, synthesizer>>
  BY DEF Watchdog
<1>2. CASE SaidPending(c) /\ ~SynthSpeaking
  <2>1. browserActive' = FALSE /\ StopSpeech /\ Settle(c, "rejected")
    BY <1>2 DEF Watchdog
  <2>2. Voices' /\ speaking' = FALSE
    BY <2>1, StopSpeechCloses DEF InVoice
  <2>3. /\ said' \in [Says -> SaidRecords]
        /\ \A d \in Says : said'[d].pc \in {"idle", "fetching", "delayed"} => said'[d] = said[d]
    BY <2>1, SettledStaySo DEF InVoice, Handed
  <2>4. Handed' /\ Turns'
    BY <1>1, <2>3 DEF InVoice, Handed, Turns, SynthSpeaking
  <2>5. MouthFollowsVoice'
    BY <1>1, <1>2, <2>1, <2>2 DEF MouthFollowsVoice, SynthSpeaking
  <2> QED BY <2>2, <2>4, <2>5 DEF InVoice
<1>3. CASE ~(SaidPending(c) /\ ~SynthSpeaking)
  <2>1. UNCHANGED <<element, currentAudio, speaking, browserActive, said>>
    BY <1>3 DEF Watchdog, engineVars
  <2> QED BY <1>1, <2>1, ConsideredSame DEF InVoice, Handed, Voices, OneVoice, HeldPlays
<1> QED BY <1>2, <1>3

\* The first of the synthesizer's leaves it: nothing is said then.
LEMMA HeadLeaves ==
    ASSUME InVoice, NEW c \in Says, IsNext(c), utterance[c] # "none",
           NEW over \in {"over", "lost"},
           utterance' = [utterance EXCEPT ![c] = over], synthesizer' = Tail(synthesizer),
           said' \in [Says -> SaidRecords],
           \A d \in Says : said'[d].pc \in {"idle", "fetching", "delayed"} => said'[d] = said[d]
    PROVE  Handed' /\ Turns' /\ ~SynthSpeaking' /\ (utterance[c] = "queued" => ~SynthSpeaking)
<1> DEFINE n == Len(synthesizer)
<1>1. synthesizer # <<>> /\ synthesizer \in Seq(Says)
  BY DEF IsNext, InVoice, Handed
<1>2. /\ n \in Nat \ {0} /\ c = synthesizer[1] /\ Len(synthesizer') = n - 1
      /\ synthesizer' \in Seq(Says)
      /\ \A i \in 1..(n - 1) : synthesizer'[i] = synthesizer[i + 1]
  BY <1>1 DEF IsNext
<1>3. /\ utterance' \in [Says -> Utterances] /\ utterance'[c] = over
      /\ \A d \in Says \ {c} : utterance'[d] = utterance[d]
  BY DEF InVoice, Handed, Utterances
<1>4. \A d \in Says : utterance[d] = "talking" => d = c
  BY <1>2 DEF InVoice, Turns
<1>5. ~SynthSpeaking' /\ (utterance[c] = "queued" => ~SynthSpeaking)
  BY <1>3, <1>4 DEF SynthSpeaking
<1>6. Handed'
  BY <1>2, <1>3 DEF InVoice, Handed
<1>7. Turns'
  <2>1. \A i \in 1..(n - 1) : i + 1 \in 1..n /\ i + 1 # 1
    BY <1>2
  <2>2. \A i \in 1..(n - 1) : synthesizer[i + 1] # c /\ synthesizer[i + 1] \in Says
    BY <1>1, <1>2, <2>1 DEF InVoice, Turns
  <2>3. \A i \in 1..(n - 1) : utterance'[synthesizer'[i]] = "queued"
    BY <1>2, <1>3, <2>1, <2>2 DEF InVoice, Turns
  <2>4. \A i, j \in 1..(n - 1) : i # j => synthesizer'[i] # synthesizer'[j]
    <3>1. \A i, j \in 1..(n - 1) : i # j => i + 1 # j + 1
      BY <1>2
    <3> QED BY <1>2, <2>1, <3>1 DEF InVoice, Turns
  <2> QED BY <1>2, <1>5, <2>3, <2>4 DEF Turns, SynthSpeaking
<1> QED BY <1>5, <1>6, <1>7

LEMMA StartsInVoice == ASSUME InVoice, NEW c \in Says, Starts(c) PROVE InVoice'
<1>1. /\ IsNext(c) /\ utterance[c] = "queued" /\ \A d \in Says : utterance[d] # "cut"
      /\ utterance' = [utterance EXCEPT ![c] = "talking"]
      /\ browserActive' = TRUE /\ PlayCues(said[c].track)
      /\ UNCHANGED <<said, synthesizer>>
  BY DEF Starts
<1>2. Voices' /\ speaking' = TRUE
  BY <1>1, StoppingIsSteady DEF InVoice, PlayCues, Begin
<1>3. /\ utterance' \in [Says -> Utterances] /\ utterance'[c] = "talking"
      /\ \A d \in Says \ {c} : utterance'[d] = utterance[d]
  BY <1>1 DEF InVoice, Handed, Utterances
<1>4. synthesizer # <<>> /\ c = synthesizer[1]
  BY <1>1 DEF IsNext
<1>5. Handed'
  BY <1>1, <1>3 DEF InVoice, Handed
<1>6. Turns'
  <2>1. \A i \in 1..Len(synthesizer) : synthesizer[i] \in Says /\ (synthesizer[i] = c => i = 1)
    <3>1. 1 \in 1..Len(synthesizer)
      BY <1>4 DEF InVoice, Handed
    <3> QED BY <1>4, <3>1 DEF InVoice, Handed, Turns
  <2>2. \A i \in 1..Len(synthesizer) : \/ utterance'[synthesizer[i]] = "queued"
                                       \/ i = 1 /\ utterance'[synthesizer[i]] = "talking"
    BY <1>3, <2>1 DEF InVoice, Turns
  <2>3. \A d \in Says : utterance'[d] = "talking" => synthesizer # <<>> /\ synthesizer[1] = d
    BY <1>3, <1>4 DEF InVoice, Turns
  <2>4. ~\E d \in Says : utterance'[d] = "cut"
    BY <1>1, <1>3
  <2> QED BY <1>1, <2>2, <2>3, <2>4 DEF InVoice, Turns
<1>7. MouthFollowsVoice'
  BY <1>1, <1>2, <1>3 DEF MouthFollowsVoice, SynthSpeaking
<1> QED BY <1>2, <1>5, <1>6, <1>7 DEF InVoice

LEMMA EndsInVoice ==
    ASSUME InVoice, NEW c \in Says, NEW how \in {"resolved", "rejected"}, Ends(c, how)
    PROVE  InVoice'
<1>1. /\ IsNext(c) /\ utterance[c] \in {"talking", "queued"}
      /\ utterance' = [utterance EXCEPT ![c] = "over"] /\ synthesizer' = Tail(synthesizer)
      /\ browserActive' = FALSE /\ StopSpeech /\ Settle(c, how)
  BY DEF Ends, BrowserFinish
<1>2. Voices' /\ speaking' = FALSE
  BY <1>1, StopSpeechCloses DEF InVoice
<1>3. /\ said' \in [Says -> SaidRecords]
      /\ \A d \in Says : said'[d].pc \in {"idle", "fetching", "delayed"} => said'[d] = said[d]
  BY <1>1, SettledStaySo DEF InVoice, Handed
<1>4. Handed' /\ Turns' /\ ~SynthSpeaking'
  BY <1>1, <1>3, HeadLeaves
<1>5. MouthFollowsVoice'
  BY <1>1, <1>2, <1>4 DEF MouthFollowsVoice
<1> QED BY <1>2, <1>4, <1>5 DEF InVoice

LEMMA DroppedInVoice == ASSUME InVoice, NEW c \in Says, Dropped(c) PROVE InVoice'
<1>1. /\ IsNext(c) /\ utterance[c] = "queued"
      /\ utterance' = [utterance EXCEPT ![c] = "lost"] /\ synthesizer' = Tail(synthesizer)
      /\ UNCHANGED <<element, currentAudio, speaking, browserActive, said>>
  BY DEF Dropped, engineVars
<1>2. Handed' /\ Turns' /\ ~SynthSpeaking' /\ ~SynthSpeaking
  <2>1. said' \in [Says -> SaidRecords]
    BY <1>1 DEF InVoice, Handed
  <2> QED BY <1>1, <2>1, HeadLeaves
<1>3. Voices' /\ MouthFollowsVoice'
  BY <1>1, <1>2 DEF InVoice, Voices, OneVoice, HeldPlays, MouthFollowsVoice
<1> QED BY <1>2, <1>3 DEF InVoice

LEMMA CutToldInVoice == ASSUME InVoice, NEW c \in Says, CutTold(c) PROVE InVoice'
<1>1. /\ utterance[c] = "cut" /\ utterance' = [utterance EXCEPT ![c] = "over"]
      /\ browserActive' = FALSE /\ StopSpeech /\ Settle(c, "resolved") /\ synthesizer' = synthesizer
  BY DEF CutTold, BrowserFinish
<1>2. Voices' /\ speaking' = FALSE
  BY <1>1, StopSpeechCloses DEF InVoice
<1>3. /\ said' \in [Says -> SaidRecords]
      /\ \A d \in Says : said'[d].pc \in {"idle", "fetching", "delayed"} => said'[d] = said[d]
  BY <1>1, SettledStaySo DEF InVoice, Handed
<1>4. /\ utterance' \in [Says -> Utterances] /\ utterance'[c] = "over"
      /\ \A d \in Says \ {c} : utterance'[d] = utterance[d]
  BY <1>1 DEF InVoice, Handed, Utterances
<1>5. ~SynthSpeaking'
  BY <1>1, <1>4 DEF InVoice, Turns, SynthSpeaking
<1>6. Handed'
  BY <1>1, <1>3, <1>4 DEF InVoice, Handed
<1>7. Turns'
  <2>1. \A i \in 1..Len(synthesizer) : synthesizer[i] \in Says \ {c}
    BY <1>1 DEF InVoice, Handed, Turns
  <2>2. \A i \in 1..Len(synthesizer) : \/ utterance'[synthesizer[i]] = "queued"
                                       \/ i = 1 /\ utterance'[synthesizer[i]] = "talking"
    BY <1>4, <2>1 DEF InVoice, Turns
  <2> QED BY <1>1, <1>5, <2>2 DEF InVoice, Turns, SynthSpeaking
<1>8. MouthFollowsVoice'
  BY <1>1, <1>2, <1>5 DEF MouthFollowsVoice
<1> QED BY <1>2, <1>6, <1>7, <1>8 DEF InVoice

\* A boundary, and the page's and the browser's moves.
LEMMA BrowserMovesInVoice ==
    ASSUME InVoice, UNCHANGED browserVars,
           \/ \E c \in Says, t \in 0..Duration : Boundary(c, t)
           \/ EngineMoves \/ FrameClock
           \/ UNCHANGED engineVars
    PROVE  InVoice'
<1>1. UNCHANGED <<said, utterance, synthesizer, browserActive>>
  BY DEF browserVars
<1>2. Voices' /\ speaking' = speaking
  <2>1. CASE EngineMoves \/ FrameClock
    BY <2>1, MovingIsSteady DEF InVoice
  <2>2. CASE UNCHANGED <<element, currentAudio, speaking>>
    BY <2>2 DEF InVoice, Voices, OneVoice, HeldPlays
  <2> QED BY <2>1, <2>2 DEF Boundary, SyncCueTime, voiceVars, engineVars
<1> QED BY <1>1, <1>2, ConsideredSame DEF InVoice, Handed

LEMMA InVoiceKept == ASSUME InVoice, BrowserNext PROVE InVoice'
<1>1. ASSUME NEW c \in Says, NEW t \in 0..Duration, Boundary(c, t) PROVE InVoice'
  <2>1. UNCHANGED browserVars
    BY <1>1 DEF Boundary
  <2> QED BY <1>1, <2>1, BrowserMovesInVoice
<1>2. ASSUME NEW c \in Says, NEW tr \in Tracks, Say(c, tr) PROVE InVoice'
  BY <1>2, SayInVoice
<1>3. ASSUME NEW c \in Says, Fetched(c) \/ HandOver(c) \/ Watchdog(c) PROVE InVoice'
  BY <1>3, FetchedInVoice, HandOverInVoice, WatchdogInVoice
<1>4. ASSUME NEW c \in Says, Starts(c) \/ CutTold(c) \/ Dropped(c) PROVE InVoice'
  BY <1>4, StartsInVoice, CutToldInVoice, DroppedInVoice
<1>5. ASSUME NEW c \in Says, NEW how \in {"resolved", "rejected"}, Ends(c, how) PROVE InVoice'
  BY <1>5, EndsInVoice
<1>6. CASE BrowserStop
  BY <1>6, BrowserStopInVoice
<1>7. CASE (EngineMoves \/ FrameClock) /\ UNCHANGED browserVars
  BY <1>7, BrowserMovesInVoice
<1> QED BY <1>1, <1>2, <1>3, <1>4, <1>5, <1>6, <1>7 DEF BrowserNext

LEMMA InVoiceAtFirst == ASSUME EngineInit, BrowserInit PROVE InVoice
<1>1. Voices /\ speaking = FALSE
  BY NoVoiceAtFirst DEF EngineInit
<1>2. /\ said = [c \in Says |-> [pc |-> "idle", track |-> CHOOSE tr \in Tracks : TRUE]]
      /\ utterance = [c \in Says |-> "none"] /\ synthesizer = <<>> /\ browserActive = FALSE
  BY DEF BrowserInit
<1>3. [pc |-> "idle", track |-> CHOOSE tr \in Tracks : TRUE] \in SaidRecords
  BY DEF SaidRecords
<1>4. Handed
  <2>1. said \in [Says -> SaidRecords]
    BY <1>2, <1>3
  <2>2. /\ utterance \in [Says -> Utterances] /\ synthesizer \in Seq(Says)
        /\ \A c \in Says : utterance[c] = "none"
    BY <1>2 DEF Utterances
  <2> QED BY <2>1, <2>2 DEF Handed
<1>5. Turns /\ ~SynthSpeaking
  BY <1>2 DEF Turns, SynthSpeaking
<1> QED BY <1>1, <1>2, <1>4, <1>5 DEF InVoice, MouthFollowsVoice

-----------------------------------------------------------------------------
(* The page                                                                *)

\* What a voice not taken keeps: no chunk of a queue begun, no stream asked
\* for.
NoChunkBegun == \A e \in Chunks : ~Begun(e)
NoStream ==
    /\ spans = <<>> /\ samples = 0
    /\ reader = "unasked"
    /\ ~handleStopped /\ ~streamSpeaking

InStyle ==
    /\ voice \in {"queue", "browser", "stream"}
    /\ voice = "queue" => InStep /\ NoStream
    /\ voice = "browser" => InVoice /\ NoChunkBegun /\ NoStream
    /\ voice = "stream" => InTune

\* A stream begins no chunk.
LEMMA StreamBeginsNoChunk == InTune => NoChunkBegun
BY QueueAssumption, SpeakingAssumption DEF InTune, Course, Recorded, NoChunkBegun

\* Nor does the browser's voice: it begins no element at all.
LEMMA BrowserBeginsNoChunk ==
    ASSUME InVoice, NoChunkBegun, BrowserNext
    PROVE  NoChunkBegun'
<1>1. CASE StopAudio
  BY <1>1, StoppingIsSteady, QueueAssumption DEF InVoice, NoChunkBegun, Steady, SteadyBut
<1>2. CASE EngineMoves \/ FrameClock
  BY <1>2, MovingIsSteady, QueueAssumption DEF InVoice, NoChunkBegun, Steady, SteadyBut
<1>3. CASE UNCHANGED element
  BY <1>3 DEF NoChunkBegun, Begun
<1> QED BY <1>1, <1>2, <1>3
     DEF BrowserNext, Say, BrowserStop, StopBrowser, Fetched, HandOver, Watchdog, Starts, Boundary,
         SyncCueTime, Ends, CutTold, Dropped, BrowserFinish, StopSpeech, PlayCues, engineVars, voiceVars

LEMMA InStyleAtFirst == SpeakingInit => InStyle
<1> SUFFICES ASSUME SpeakingInit PROVE InStyle
  OBVIOUS
<1>1. InStep /\ InTune /\ InVoice
  BY InStepAtFirst, InTuneAtFirst, InVoiceAtFirst DEF SpeakingInit
<1>2. voice # "stream" => NoStream
  BY DEF SpeakingInit, StreamInit, NoStream
<1> QED BY <1>1, <1>2, StreamBeginsNoChunk DEF InStyle, SpeakingInit

LEMMA InStyleKept == InStyle /\ [SpeakingNext]_speakingVars => InStyle'
<1> SUFFICES ASSUME InStyle, [SpeakingNext]_speakingVars PROVE InStyle'
  OBVIOUS
<1>1. ASSUME UNCHANGED streamVars, NoStream PROVE NoStream'
  BY <1>1 DEF NoStream, streamVars, handleVars, assemblyVars, playerVars
<1>2. CASE QueueSpeaks
  BY <1>1, <1>2, InStepKept DEF QueueSpeaks, InStyle
<1>3. CASE BrowserSpeaks
  <2>1. voice = "browser" /\ voice' = voice /\ BrowserNext /\ UNCHANGED streamVars
    BY <1>3 DEF BrowserSpeaks
  <2>2. InVoice' /\ NoChunkBegun'
    BY <2>1, InVoiceKept, BrowserBeginsNoChunk DEF InStyle
  <2> QED BY <1>1, <2>1, <2>2 DEF InStyle
<1>4. CASE StreamSpeaks
  BY <1>4, InTuneKept DEF StreamSpeaks, InStyle
<1>5. CASE UNCHANGED speakingVars
  <2>1. UNCHANGED <<voice, engineVars, queueVars, browserVars, streamVars>> /\ UNCHANGED element
    BY <1>5 DEF speakingVars, engineVars
  <2>2. InStep => InStep'
    BY <2>1, InStepKept DEF queueSpecVars
  <2>3. InTune => InTune'
    BY <2>1, InTuneKept DEF streamSpecVars
  <2>4. InVoice => InVoice'
    BY <2>1, BrowserMovesInVoice
  <2>5. NoChunkBegun => NoChunkBegun'
    BY <2>1 DEF NoChunkBegun, Begun
  <2> QED BY <1>1, <2>1, <2>2, <2>3, <2>4, <2>5 DEF InStyle
<1> QED BY <1>2, <1>3, <1>4, <1>5 DEF SpeakingNext

\* The inductive invariant: whichever voice the page took (widget.ts,
\* useSpeakPanel.ts), its own invariant holds and the others are at rest.
THEOREM AlwaysInStyle == SpeakingSpec => []InStyle
<1> QED BY InStyleAtFirst, InStyleKept, PTL DEF SpeakingSpec

\* One voice at a time, whichever the page took (voice.ts).
THEOREM PageHasOneVoice == SpeakingSpec => []OneVoice
<1>1. InStyle => OneVoice
  BY DEF InStyle, InStep, InTune, InVoice, Voices
<1> QED BY <1>1, AlwaysInStyle, PTL

LEMMA InStyleOrders == InStyle => VoiceIsTheNewest /\ ChunksInOrder
<1>1. ASSUME NoChunkBegun, Voices PROVE VoiceIsTheNewest /\ ChunksInOrder
  <2>1. currentAudio \notin Chunks
    BY <1>1, QueueAssumption DEF NoChunkBegun, Voices, HeldPlays, Begun
  <2>2. \A c \in Calls : \A i \in 2..MaxChunks : <<c, i>> \in Chunks
    BY QueueAssumption DEF Chunks
  <2> QED BY <1>1, <2>1, <2>2 DEF NoChunkBegun, Begun, VoiceIsTheNewest, ChunksInOrder
<1>2. InStep => VoiceIsTheNewest /\ ChunksInOrder
  BY InStepOrders DEF InStep
<1> QED BY <1>1, <1>2, StreamBeginsNoChunk DEF InStyle, InTune, InVoice

\* The voice in flight is of the newest speak(), which is told its end
\* (speech.ts: the generation looked at after each await).
THEOREM NewestVoiceSpeaks == SpeakingSpec => []VoiceIsTheNewest
<1> QED BY InStyleOrders, AlwaysInStyle, PTL

\* No chunk of a text is played before the one before it ended or failed by
\* itself, and none is skipped (speech.ts speak's loop).
THEOREM PageSpeaksInOrder == SpeakingSpec => []ChunksInOrder
<1> QED BY InStyleOrders, AlwaysInStyle, PTL

\* The mouth moves exactly while the browser's voice is heard (browser-tts.ts,
\* its watchdog and late events); a stream's, only where the last tick heard a
\* phrase, and no further than its frames have run it since
\* (speech-stream/player.ts).
THEOREM MouthAlwaysFollows == SpeakingSpec => []MouthFollowsSound
<1>1. InStyle => MouthFollowsSound
  BY DEF InStyle, InVoice, InTune, Mouth, MouthFollowsSound
<1> QED BY <1>1, AlwaysInStyle, PTL

LEMMA InStyleStreams == InStyle => PhrasesJoinUp /\ ResolvedMeansHeard /\ StoppedIsSilent
<1>1. NoStream => PhrasesJoinUp /\ ResolvedMeansHeard /\ StoppedIsSilent
  BY DEF NoStream, PhrasesJoinUp, ResolvedMeansHeard, StoppedIsSilent
<1>2. InTune => PhrasesJoinUp /\ ResolvedMeansHeard /\ StoppedIsSilent
  BY DEF InTune, Line, Joined, Sourced, Course, PhrasesJoinUp
<1> QED BY <1>1, <1>2 DEF InStyle

\* Phrases neither overlap nor leave a gap in the content, however late they
\* arrive, and each is the one the server said comes there (speech-stream/
\* player.ts schedule, protocol.ts append).
THEOREM PhrasesAlwaysJoin == SpeakingSpec => []PhrasesJoinUp
<1> QED BY InStyleStreams, AlwaysInStyle, PTL

\* done resolves, unstopped, only after the last sound (speech-stream/index.ts
\* run, player.ts done).
THEOREM ResolvedIsAlwaysHeard == SpeakingSpec => []ResolvedMeansHeard
<1> QED BY InStyleStreams, AlwaysInStyle, PTL

\* A stopped stream stays silent, whatever arrives after (speech-stream/index.ts
\* stop).
THEOREM StoppedStreamIsSilent == SpeakingSpec => []StoppedIsSilent
<1> QED BY InStyleStreams, AlwaysInStyle, PTL

-----------------------------------------------------------------------------
(* The types, the recording and the face, whichever voice the page took    *)

BrowserTags ==
    /\ browserActive \in BOOLEAN
    /\ armed \subseteq Says
    /\ startTimeout \in Says \cup {None}
    /\ latest \in Says \cup {None}

LEMMA BrowserTyped == InVoice /\ BrowserTags => BrowserTypeOK
<1>1. Tracks \cup {CHOOSE tr \in Tracks : TRUE} = Tracks
  BY BrowserAssumption
<1>2. SaidRecords = [pc : {"idle", "fetching", "delayed", "handed", "resolved", "rejected"},
                     track : Tracks]
  BY <1>1 DEF SaidRecords
<1> QED BY <1>2 DEF InVoice, Handed, Utterances, BrowserTags, BrowserTypeOK

LEMMA TagsKept == ASSUME BrowserTypeOK, BrowserNext PROVE BrowserTags'
<1>1. BrowserTags
  BY DEF BrowserTypeOK, BrowserTags
<1> QED BY <1>1
     DEF BrowserTags, BrowserNext, Say, BrowserStop, StopBrowser, Fetched, HandOver, Watchdog, Starts,
         Boundary, Ends, CutTold, Dropped, BrowserFinish, ClearWatchdog, browserVars

\* What the browser's voice asks of the engine, and that a text's expression
\* stays on no longer than its voice.
LEMMA BrowserCallsEngine ==
    ASSUME BrowserTypeOK, BrowserNext, asked.source = "text" => speaking
    PROVE  /\ EngineCall \/ FrameClock \/ (EngineMoves /\ UNCHANGED browserVars)
           /\ asked'.source = "text" => speaking'
<1> DEFINE Fine == /\ EngineCall \/ FrameClock \/ (EngineMoves /\ UNCHANGED browserVars)
                   /\ asked'.source = "text" => speaking'
<1>1. CASE UNCHANGED engineVars
  BY <1>1 DEF EngineCall, engineVars
<1>2. CASE StopSpeech
  BY <1>2 DEF EngineCall, StopSpeech, ReleasedText, Neutral
<1>3. ASSUME NEW c \in Says, Starts(c) PROVE Fine
  <2>1. said[c].track \in Tracks
    BY DEF BrowserTypeOK
  <2>2. said[c].track \in Seq(Cue) /\ PlayCues(said[c].track)
    BY <1>3, <2>1, BrowserAssumption DEF Starts
  <2>3. EngineCall
    BY <2>2 DEF EngineCall
  <2> QED BY <2>2, <2>3 DEF PlayCues, Begin
<1>4. ASSUME NEW c \in Says, NEW t \in 0..Duration, Boundary(c, t) PROVE Fine
  <2>1. t \in Nat
    BY EngineAssumption
  <2> QED BY <1>4, <2>1 DEF Boundary, EngineCall, SyncCueTime
<1>5. ASSUME EngineMoves, UNCHANGED browserVars PROVE Fine
  BY <1>5 DEF EngineMoves, Frame, Heard, Advance, TimePasses, Express, Neutral, faceVars
<1>6. CASE FrameClock
  BY <1>6 DEF FrameClock, TimePasses
<1> HIDE DEF Fine
<1>7. StopSpeech \/ UNCHANGED engineVars => Fine
  BY <1>1, <1>2 DEF Fine
<1>8. FrameClock => Fine
  BY <1>6 DEF Fine
<1>9. Fine
  BY <1>3, <1>4, <1>5, <1>7, <1>8
     DEF BrowserNext, Say, BrowserStop, StopBrowser, Fetched, HandOver, Watchdog, Ends, CutTold,
         Dropped, BrowserFinish
<1> QED BY <1>9 DEF Fine

\* The voice the page took, and what the others keep.
Showing ==
    /\ InStyle
    /\ EngineTypeOK /\ QueueTypeOK /\ BrowserTypeOK /\ StreamTypeOK
    /\ RecordingIsWhole
    /\ voice = "queue" => Telling
    /\ voice = "browser" => (asked.source = "text" => speaking)
    /\ voice = "stream" => Sounding

LEMMA TellingShows == Telling => EngineTypeOK /\ QueueTypeOK
BY QueueTyped DEF Telling

LEMMA SoundingShows == Sounding => EngineTypeOK /\ StreamTypeOK /\ RecordingIsWhole
BY StreamTyped DEF Sounding, InTune, Counted

LEMMA ShowingAtFirst == SpeakingInit => Showing
<1> SUFFICES ASSUME SpeakingInit PROVE Showing
  OBVIOUS
<1>1. InStyle /\ Telling /\ Sounding /\ InVoice
  BY InStyleAtFirst, TellingAtFirst, SoundingAtFirst, InVoiceAtFirst DEF SpeakingInit
<1>2. BrowserTags
  BY DEF SpeakingInit, BrowserInit, BrowserTags
<1>3. asked.source = "text" => speaking
  BY DEF SpeakingInit, EngineInit, Neutral
<1> QED BY <1>1, <1>2, <1>3, BrowserTyped, TellingShows, SoundingShows DEF Showing

LEMMA QueueAtRest == ASSUME QueueTypeOK, UNCHANGED queueVars PROVE QueueTypeOK'
BY DEF QueueTypeOK, queueVars

LEMMA BrowserAtRest == ASSUME BrowserTypeOK, UNCHANGED browserVars PROVE BrowserTypeOK'
BY DEF BrowserTypeOK, browserVars

LEMMA StreamAtRest ==
    ASSUME StreamTypeOK, RecordingIsWhole, UNCHANGED streamVars
    PROVE  StreamTypeOK' /\ RecordingIsWhole'
<1>1. UNCHANGED <<frames, marked, read, reader, handleStopped, recording, length, samples, chunks,
                  whole, spans, sealed, playerStopped, streamSpeaking, paused, lastTime, running, now,
                  sinceTick>>
  BY DEF streamVars, handleVars, assemblyVars, playerVars, contextVars
<1>2. SentSamples(read)' = SentSamples(read)
  BY <1>1 DEF SentSamples
<1> QED BY <1>1, <1>2 DEF StreamTypeOK, RecordingIsWhole

LEMMA ShowingKept == Showing /\ [SpeakingNext]_speakingVars => Showing'
<1> SUFFICES ASSUME Showing, [SpeakingNext]_speakingVars PROVE Showing'
  OBVIOUS
<1>0. /\ InStyle' /\ (Telling => EngineTypeOK /\ QueueTypeOK)'
      /\ (Sounding => EngineTypeOK /\ StreamTypeOK /\ RecordingIsWhole)'
      /\ (InVoice /\ BrowserTags => BrowserTypeOK)'
  <2>1. InStyle'
    BY InStyleKept DEF Showing
  <2>2. (Telling => EngineTypeOK /\ QueueTypeOK)'
    BY TellingShows, PTL
  <2>3. (Sounding => EngineTypeOK /\ StreamTypeOK /\ RecordingIsWhole)'
    BY SoundingShows, PTL
  <2>4. (InVoice /\ BrowserTags => BrowserTypeOK)'
    BY BrowserTyped, PTL
  <2> QED BY <2>1, <2>2, <2>3, <2>4
<1>1. CASE QueueSpeaks
  <2>1. /\ voice = "queue" /\ voice' = "queue" /\ QueueNext
        /\ UNCHANGED browserVars /\ UNCHANGED streamVars
    BY <1>1 DEF QueueSpeaks
  <2>2. Telling'
    BY <2>1, TellingKept DEF Showing
  <2> QED BY <1>0, <2>1, <2>2, BrowserAtRest, StreamAtRest DEF Showing
<1>2. CASE BrowserSpeaks
  <2>1. /\ voice = "browser" /\ voice' = "browser" /\ BrowserNext
        /\ UNCHANGED queueVars /\ UNCHANGED streamVars
    BY <1>2 DEF BrowserSpeaks
  <2>2. /\ EngineCall \/ FrameClock \/ EngineMoves
        /\ asked'.source = "text" => speaking'
    BY <2>1, BrowserCallsEngine DEF Showing
  <2>3. EngineTypeOK'
    BY <2>2, EngineCallTyped, EngineMovesTyped DEF Showing
  <2>4. InVoice' /\ BrowserTags'
    BY <1>0, <2>1, TagsKept DEF Showing, InStyle
  <2> QED BY <1>0, <2>1, <2>2, <2>3, <2>4, QueueAtRest, StreamAtRest DEF Showing
<1>3. CASE StreamSpeaks
  <2>1. /\ voice = "stream" /\ voice' = "stream" /\ StreamNext
        /\ UNCHANGED queueVars /\ UNCHANGED browserVars
    BY <1>3 DEF StreamSpeaks
  <2>2. Sounding'
    BY <2>1, SoundingKept DEF Showing
  <2> QED BY <1>0, <2>1, <2>2, QueueAtRest, BrowserAtRest DEF Showing
<1>4. CASE UNCHANGED speakingVars
  <2>1. UNCHANGED voice /\ UNCHANGED engineVars /\ UNCHANGED queueVars
        /\ UNCHANGED browserVars /\ UNCHANGED streamVars
    BY <1>4 DEF speakingVars
  <2>2. EngineTypeOK'
    BY <2>1, EngineCallTyped DEF Showing, EngineCall
  <2>3. (Telling => Telling') /\ (Sounding => Sounding')
    BY <2>1, TellingKept, SoundingKept DEF queueSpecVars, streamSpecVars
  <2>4. UNCHANGED <<asked, speaking>>
    BY <2>1 DEF engineVars
  <2> QED BY <1>0, <2>1, <2>2, <2>3, <2>4, QueueAtRest, BrowserAtRest, StreamAtRest DEF Showing
<1> QED BY <1>1, <1>2, <1>3, <1>4 DEF SpeakingNext

\* The inductive invariant of the face: the voice taken keeps what it says,
\* what it counted and the expression its text set; the others stand still.
THEOREM AlwaysShowing == SpeakingSpec => []Showing
<1> QED BY ShowingAtFirst, ShowingKept, PTL DEF SpeakingSpec

\* Every variable of the engine and of the three voices keeps its type: the
\* tracks' walkers and the positions on the timeline stay numbers.
THEOREM SpeakingTypes == SpeakingSpec => []SpeakingTypeOK
<1>1. Showing => SpeakingTypeOK
  BY DEF Showing, InStyle, SpeakingTypeOK
<1> QED BY <1>1, AlwaysShowing, PTL

\* No expression of a text's outlives it: a stop, a newer text and the end
\* release it (animation.ts, expression-mixer.ts), whatever the tags and
\* whichever the voice.
THEOREM TextExpressionIsReleased == SpeakingSpec => []TextExpressionHasAText
<1>1. Showing => TextExpressionHasAText
  <2> SUFFICES ASSUME Showing PROVE TextExpressionHasAText
    OBVIOUS
  <2>1. CASE voice = "queue"
    <3>1. TextHeld
      BY <2>1 DEF Showing, Telling
    <3> QED BY <2>1, <3>1 DEF TextHeld, Holds, TextExpressionHasAText
  <2>2. CASE voice = "browser"
    BY <2>2 DEF Showing, TextExpressionHasAText
  <2>3. CASE voice = "stream"
    BY <2>3 DEF Showing, Sounding, Facing, TextExpressionHasAText
  <2> QED BY <2>1, <2>2, <2>3 DEF Showing, InStyle
<1> QED BY <1>1, AlwaysShowing, PTL

\* The recording a stream offers for replay holds every sample the phrases
\* said, or is the server's own (protocol.ts SpeechAssembly.finish, index.ts).
THEOREM RecordingIsAlwaysWhole == SpeakingSpec => []RecordingIsWhole
<1>1. Showing => RecordingIsWhole
  BY DEF Showing
<1> QED BY <1>1, AlwaysShowing, PTL

-----------------------------------------------------------------------------
(* What the page expressed                                                 *)

LEMMA MovesLeaveThePage ==
    ASSUME EngineTypeOK, asked.source = "api", asked' = Neutral, EngineMoves
    PROVE  \/ UNCHANGED <<voiceVars, speaking, cueTime, track, nextCue>>
           \/ \E i \in (nextCue + 1)..nextCue' : track[i].name # "neutral"
<1>1. CASE Frame \/ \E e \in Elements : Heard(e) \/ Advance(e)
  BY <1>1, CallsLeaveThePage
<1>2. ASSUME NEW name \in Names \cup {"neutral"}, Express(name)
      PROVE  UNCHANGED <<voiceVars, speaking, cueTime, track, nextCue>>
  BY <1>2 DEF Express
<1> QED BY <1>1, <1>2 DEF EngineMoves

\* What the page expressed is left by a text's end, a stop and a tag's
\* [neutral] (expression-mixer.ts: only what a text set is released by it).
THEOREM PageExpressionAlwaysStays == SpeakingSpec => PageExpressionStays
<1> DEFINE ByThePage == UNCHANGED <<voiceVars, speaking, cueTime, track, nextCue,
                                    queueVars, browserVars, streamVars>>
           ByATag == \E i \in (nextCue + 1)..nextCue' : track[i].name # "neutral"
           Stays == asked.source = "api" /\ asked' = Neutral => ByThePage \/ ByATag
<1>1. Showing /\ [SpeakingNext]_speakingVars => [Stays]_speakingVars
  <2> SUFFICES ASSUME Showing, SpeakingNext, asked.source = "api", asked' = Neutral
               PROVE  ByThePage \/ ByATag
    OBVIOUS
  <2>1. ASSUME EngineCall \/ FrameClock PROVE ByATag
    BY <2>1, CallsLeaveThePage DEF Showing
  <2>2. ASSUME EngineMoves, UNCHANGED queueVars, UNCHANGED browserVars, UNCHANGED streamVars
        PROVE  ByThePage \/ ByATag
    BY <2>2, MovesLeaveThePage DEF Showing
  <2>3. CASE QueueSpeaks
    <3>1. QueueNext /\ UNCHANGED browserVars /\ UNCHANGED streamVars /\ InStep /\ Placed
      BY <2>3 DEF QueueSpeaks, Showing, Telling
    <3>2. EngineCall \/ (EngineMoves /\ UNCHANGED queueVars)
      BY <3>1, QueueCallsEngine
    <3> HIDE DEF ByThePage, ByATag
    <3> QED BY <2>1, <2>2, <3>1, <3>2
  <2>4. CASE BrowserSpeaks
    <3>1. BrowserNext /\ UNCHANGED queueVars /\ UNCHANGED streamVars
          /\ BrowserTypeOK /\ (asked.source = "text" => speaking)
      BY <2>4 DEF BrowserSpeaks, Showing
    <3>2. EngineCall \/ FrameClock \/ (EngineMoves /\ UNCHANGED browserVars)
      BY <3>1, BrowserCallsEngine
    <3> HIDE DEF ByThePage, ByATag
    <3> QED BY <2>1, <2>2, <3>1, <3>2
  <2>5. CASE StreamSpeaks
    <3>1. StreamNext /\ UNCHANGED queueVars /\ UNCHANGED browserVars /\ Sounding
      BY <2>5 DEF StreamSpeaks, Showing
    <3>2. EngineCall \/ FrameClock \/ (EngineMoves /\ UNCHANGED streamVars)
      BY <3>1, StreamStepsWell DEF StepsWell
    <3> HIDE DEF ByThePage, ByATag
    <3> QED BY <2>1, <2>2, <3>1, <3>2
  <2> QED BY <2>3, <2>4, <2>5 DEF SpeakingNext
<1>2. [Stays]_speakingVars => [asked.source = "api" /\ asked' = Neutral =>
        \/ UNCHANGED <<voiceVars, speaking, cueTime, track, nextCue,
                       queueVars, browserVars, streamVars>>
        \/ \E i \in (nextCue + 1)..nextCue' : track[i].name # "neutral"]_speakingVars
  OBVIOUS
<1> QED BY <1>1, <1>2, AlwaysShowing, PTL DEF SpeakingSpec, PageExpressionStays
=============================================================================
