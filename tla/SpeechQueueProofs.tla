-------------------------- MODULE SpeechQueueProofs --------------------------
(***************************************************************************)
(* Theorems about SpeechQueue, for any texts, calls and stops and without  *)
(* the runs' bounds on them.                                               *)
(***************************************************************************)
EXTENDS SpeechQueue, FaceEngineProofs

-----------------------------------------------------------------------------
(* The chunks a text makes                                                 *)

\* Cues no later than the end of the recording; what a text is read into.
Timely == [t : 0..Duration, name : Names \cup {"neutral"}]
Acc == [chunks : Seq(Seq(Timely)), carried : Seq(Timely)]
PieceTags == [word : 0..Duration, name : Names \cup {"neutral"}]
NothingYet == [chunks |-> <<>>, carried |-> <<>>]

LEMMA TimelyIsCue == Timely \subseteq Cue
BY EngineAssumption DEF Timely, Cue

LEMMA MarkIsTimely ==
    ASSUME NEW tag \in PieceTags
    PROVE  TimedMark(tag) \in Timely
<1> DEFINE t == IF tag.word >= Duration THEN Duration
                ELSE IF tag.word > Lead THEN tag.word - Lead ELSE 0
<1>1. t \in 0..Duration
  <2>1. tag.word \in Nat /\ Duration \in Nat /\ Lead \in Nat
    BY EngineAssumption, QueueAssumption DEF PieceTags
  <2> QED BY <2>1
<1> HIDE DEF t
<1>2. TimedMark(tag) = [t |-> t, name |-> tag.name]
  BY DEF TimedMark, t
<1> QED BY <1>1, <1>2 DEF Timely, PieceTags

LEMMA PieceAddsTimely ==
    ASSUME NEW acc \in Acc, NEW piece \in Piece
    PROVE  AddPiece(acc, piece) \in Acc
<1> DEFINE first(i) == [t |-> 0, name |-> acc.carried[i].name]
           opening == [i \in 1..Len(acc.carried) |-> first(i)]
           own == [i \in 1..Len(piece.tags) |-> TimedMark(piece.tags[i])]
           marks == opening \o own
<1>1. /\ acc.carried \in Seq(Timely) /\ acc.chunks \in Seq(Seq(Timely))
      /\ piece.tags \in Seq(PieceTags)
  BY DEF Acc, Piece, PieceTags
<1>2. opening \in Seq(Timely)
  <2>1. \A i \in 1..Len(acc.carried) : first(i) \in Timely
    <3> SUFFICES ASSUME NEW i \in 1..Len(acc.carried) PROVE first(i) \in Timely
      OBVIOUS
    <3>1. acc.carried[i] \in Timely
      BY <1>1
    <3>2. acc.carried[i].name \in Names \cup {"neutral"} /\ 0 \in 0..Duration
      BY <3>1, EngineAssumption DEF Timely
    <3> QED BY <3>2 DEF Timely
  <2>2. Len(acc.carried) \in Nat
    BY <1>1
  <2> HIDE DEF first
  <2> QED BY <2>1, <2>2
<1>3. own \in Seq(Timely)
  <2>1. \A i \in 1..Len(piece.tags) : TimedMark(piece.tags[i]) \in Timely
    <3> SUFFICES ASSUME NEW i \in 1..Len(piece.tags) PROVE TimedMark(piece.tags[i]) \in Timely
      OBVIOUS
    <3>1. piece.tags[i] \in PieceTags
      BY <1>1
    <3> QED BY <3>1, MarkIsTimely
  <2>2. Len(piece.tags) \in Nat
    BY <1>1
  <2> QED BY <2>1, <2>2
<1> HIDE DEF opening, own
<1>4. marks \in Seq(Timely)
  BY <1>2, <1>3
<1>5. AddPiece(acc, piece) = IF piece.said THEN [chunks |-> Append(acc.chunks, marks), carried |-> <<>>]
                             ELSE [chunks |-> acc.chunks, carried |-> marks]
  BY DEF AddPiece, opening, own
<1> HIDE DEF marks
<1>6. Append(acc.chunks, marks) \in Seq(Seq(Timely)) /\ <<>> \in Seq(Timely)
  BY <1>1, <1>4
<1> QED BY <1>1, <1>4, <1>5, <1>6 DEF Acc

\* What has been read of a text after each of its pieces is of such chunks.
LEMMA ReadsInTurn ==
    ASSUME NEW text \in Seq(Piece)
    PROVE  FoldLeft(AddPiece, NothingYet, text) \in Acc
<1> DEFINE n == Len(text)
           C(g) == g = [t \in SUBSET (DOMAIN text) |->
                          IF t = {} THEN NothingYet ELSE AddPiece(g[t \ {Max(t)}], text[Max(t)])]
           F == [p \in Acc \X (1..n) |-> AddPiece(p[1], text[p[2]])]
           G == CHOOSE g : C(g)
           v == [k \in 0..n |-> G[1..k]]
<1>1. n \in Nat /\ DOMAIN text = 1..n /\ \A k \in 1..n : text[k] \in Piece
  OBVIOUS
<1>2. F \in [Acc \X (1..n) -> Acc]
  BY <1>1, PieceAddsTimely
<1>a. NothingYet \in Acc
  <2>1. <<>> \in Seq(Timely) /\ <<>> \in Seq(Seq(Timely))
    OBVIOUS
  <2> QED BY <2>1 DEF NothingYet, Acc
<1>3. \E g : C(g)
  <2>0. \E g : Descends(g, Acc, n, NothingYet, F)
    <3> HIDE DEF F, n
    <3> QED BY <1>1, <1>2, <1>a, RecursionExists
  <2> HIDE DEF F, n
  <2>1. PICK g : Descends(g, Acc, n, NothingYet, F)
    BY <2>0
  <2>a. /\ g \in [SUBSET (1..n) -> Acc]
        /\ \A t \in SUBSET (1..n) :
             g[t] = IF t = {} THEN NothingYet ELSE F[<<g[t \ {Max(t)}], Max(t)>>]
    BY <2>1 DEF Descends
  <2>2. ASSUME NEW t \in SUBSET (1..n), t # {}
        PROVE  g[t] = AddPiece(g[t \ {Max(t)}], text[Max(t)])
    <3>1. Max(t) \in 1..n /\ t \ {Max(t)} \in SUBSET (1..n)
      BY <1>1, <2>2, MaxIsMember
    <3> DEFINE a == g[t \ {Max(t)}]
               m == Max(t)
    <3>2. a \in Acc /\ m \in 1..n
      BY <2>a, <3>1
    <3>3. g[t] = F[<<a, m>>]
      BY <2>a, <2>2
    <3> HIDE DEF a, m
    <3>4. F[<<a, m>>] = AddPiece(a, text[m])
      BY <3>2 DEF F
    <3> QED BY <3>3, <3>4 DEF a, m
  <2>3. g = [t \in SUBSET (1..n) |->
                IF t = {} THEN NothingYet ELSE AddPiece(g[t \ {Max(t)}], text[Max(t)])]
    <3>1. g = [t \in SUBSET (1..n) |-> g[t]]
      BY <2>a
    <3>2. \A t \in SUBSET (1..n) :
            g[t] = IF t = {} THEN NothingYet ELSE AddPiece(g[t \ {Max(t)}], text[Max(t)])
      BY <2>a, <2>2
    <3> QED BY <3>1, <3>2
  <2> QED BY <1>1, <2>3
<1>4. C(G)
  BY <1>3
<1>5. FoldLeft(AddPiece, NothingYet, text) = G[DOMAIN text]
  BY DEF FoldLeft, MapThenFoldSet
<1> HIDE DEF G, n
<1>6. v[0] = NothingYet
  <2>1. 1..0 = {} /\ {} \in SUBSET (DOMAIN text)
    OBVIOUS
  <2> QED BY <1>1, <1>4, <2>1
<1>7. \A k \in 1..n : v[k] = AddPiece(v[k - 1], text[k])
  <2> TAKE k \in 1..n
  <2>1. /\ 1..k \in SUBSET (DOMAIN text) /\ 1..k # {}
        /\ Max(1..k) = k /\ (1..k) \ {k} = 1..(k - 1)
    BY <1>1, UpTo
  <2>2. G[1..k] = AddPiece(G[1..(k - 1)], text[k])
    BY <1>4, <2>1
  <2>3. v[k] = G[1..k] /\ v[k - 1] = G[1..(k - 1)]
    BY <1>1
  <2> QED BY <2>2, <2>3
<1>8. v[n] = G[DOMAIN text] /\ n \in 0..n
  BY <1>1
<1> HIDE DEF v
<1>9. \A k \in 0..n : v[k] \in Acc
  <2>1. \A k \in 1..n : v[k - 1] \in Acc => v[k] \in Acc
    BY <1>1, <1>7, PieceAddsTimely
  <2> QED BY <1>1, <1>6, <1>a, <2>1, AllAlong
<1> QED BY <1>5, <1>8, <1>9

\* The tracks of a text's chunks: cues no later than the recordings' end, and
\* either none at all or, at the very end, the release.
Release == [t |-> Duration, name |-> "neutral"]
Marked(made) == \E i \in 1..Len(made) : made[i] # <<>>
Releases(made) ==
    Marked(made) => /\ made[Len(made)] # <<>>
                    /\ made[Len(made)][Len(made[Len(made)])] = Release

LEMMA ChunksRelease ==
    ASSUME NEW text \in Texts
    PROVE  SpeechChunks(text) \in Seq(Seq(Timely)) /\ Releases(SpeechChunks(text))
<1> DEFINE made == FoldLeft(AddPiece, NothingYet, text).chunks
           last == Len(made)
           more == [made EXCEPT ![last] = Append(@, Release)]
<1>1. made \in Seq(Seq(Timely))
  <2>1. FoldLeft(AddPiece, NothingYet, text) \in Acc
    BY QueueAssumption, ReadsInTurn
  <2> QED BY <2>1 DEF Acc
<1>2. SpeechChunks(text) = IF \E i \in 1..last : made[i] # <<>> THEN more ELSE made
  BY DEF SpeechChunks, NothingYet, Release
<1> HIDE DEF made
<1>3. last \in Nat
  BY <1>1
<1>4. CASE ~\E i \in 1..last : made[i] # <<>>
  BY <1>1, <1>2, <1>4 DEF Releases, Marked
<1>5. CASE \E i \in 1..last : made[i] # <<>>
  <2>1. last \in 1..last /\ made[last] \in Seq(Timely)
    BY <1>1, <1>3, <1>5
  <2>2. Release \in Timely
    BY EngineAssumption DEF Release, Timely
  <2> DEFINE end == Append(made[last], Release)
  <2>3. end \in Seq(Timely) /\ end # <<>> /\ Len(end) \in Nat /\ end[Len(end)] = Release
    BY <2>1, <2>2
  <2>4. more = [made EXCEPT ![last] = end]
    OBVIOUS
  <2> HIDE DEF end, more
  <2>5. more \in Seq(Seq(Timely)) /\ Len(more) = last /\ more[last] = end
    BY <1>1, <2>1, <2>3, <2>4
  <2> QED BY <1>2, <1>5, <2>3, <2>5 DEF Releases
<1> QED BY <1>4, <1>5

-----------------------------------------------------------------------------
(* The inductive invariant                                                 *)

\* The chunks a text makes, whatever they are.
Made == {SpeechChunks(text) : text \in Texts} \cup {<<>>}
Shape == [pc : {"idle", "waiting", "playing", "resumed", "done", "failed"},
          gen : Nat, chunks : Made, chunk : Nat \ {0},
          pending : {"none", "asked", "ready", "refused"}]

Shaped ==
    /\ generation \in Nat
    /\ calls \in [Calls -> Shape]

\* Every call made has a generation of its own, and only the newest's is that
\* of the queue, which is active while the newest is pending.
Generations ==
    /\ \A c \in Calls : calls[c].pc # "idle" => calls[c].gen \in 1..generation
    /\ \A c, d \in Calls :
        c # d /\ calls[c].pc # "idle" /\ calls[d].pc # "idle" => calls[c].gen # calls[d].gen
    /\ \A c \in Calls : Pending(c) /\ ~Stale(c) => active

\* The chunks before a call's own are over, those after it not begun; so is
\* its own when the call goes on, or still waits for it.
Reached ==
    \A c \in Calls : \A i \in Nat \ {0} :
        <<c, i>> \in Elements =>
            /\ i < calls[c].chunk => IsOver(<<c, i>>)
            /\ i > calls[c].chunk \/ calls[c].pc = "idle" => ~Begun(<<c, i>>)
            /\ i = calls[c].chunk /\ calls[c].pc = "waiting" => ~Begun(<<c, i>>)
            /\ i = calls[c].chunk /\ calls[c].pc = "resumed" => IsOver(<<c, i>>)

InStep == Voices /\ Shaped /\ Generations /\ Reached /\ VoiceIsTheNewest

-----------------------------------------------------------------------------
(* The engine                                                              *)

LEMMA NoChunkIsNone == None \notin Chunks /\ None \notin Elements /\ Chunks \subseteq Elements
BY EngineAssumption, QueueAssumption

LEMMA NoneIsNewest ==
    ASSUME currentAudio' = None
    PROVE  VoiceIsTheNewest'
BY NoChunkIsNone DEF VoiceIsTheNewest

\* A call that begins nothing keeps its place.
LEMMA PlacesAreKept ==
    ASSUME Reached, Steady,
           \A c \in Calls :
              /\ calls'[c].chunk = calls[c].chunk
              /\ calls'[c].pc = calls[c].pc \/ calls'[c].pc \in {"done", "failed", "playing"}
    PROVE  Reached'
BY DEF Reached, Steady, SteadyBut

\* Calls that take no generation keep theirs.
LEMMA GenerationsAreKept ==
    ASSUME Shaped, Generations, generation' = generation,
           \A c \in Calls : calls'[c].gen = calls[c].gen
                            /\ (calls'[c].pc = "idle" <=> calls[c].pc = "idle"),
           \A c \in Calls : Pending(c)' /\ ~Stale(c) => active'
    PROVE  Generations'
BY DEF Generations, Shaped, Stale

\* Of two calls made, one is stale.
LEMMA OneIsNewest ==
    ASSUME Generations, NEW c \in Calls, NEW d \in Calls, c # d,
           calls[c].pc # "idle", calls[d].pc # "idle", ~Stale(c)
    PROVE  Stale(d)
BY DEF Generations, Stale

-----------------------------------------------------------------------------
(* The actions                                                             *)

LEMMA SpeakKeeps ==
    ASSUME InStep, NEW c \in Calls, NEW text \in Texts, Speak(c, text)
    PROVE  InStep'
<1> DEFINE made == SpeechChunks(text)
           f == [pc |-> IF made = <<>> THEN "done" ELSE "waiting",
                 gen |-> generation + 2, chunks |-> made, chunk |-> 1,
                 pending |-> IF made = <<>> THEN "none" ELSE "asked"]
<1>1. /\ calls[c].pc = "idle" /\ generation' = generation + 2 /\ active' = (made # <<>>)
      /\ calls' = [calls EXCEPT ![c] = f]
      /\ Voices' /\ Steady /\ currentAudio' = None
  BY StoppingIsSteady DEF InStep, Speak, StopSpeech
<1>2. f \in Shape
  <2>1. made \in Made /\ generation + 2 \in Nat
    BY DEF Made, InStep, Shaped
  <2> QED BY <2>1 DEF Shape
<1>3. /\ f.gen = generation + 2 /\ f.chunk = 1 /\ f.pc \in {"done", "waiting"}
      /\ f.pc = "waiting" => made # <<>>
  OBVIOUS
<1> HIDE DEF f, made
<1>4. Shaped'
  BY <1>1, <1>2 DEF InStep, Shaped
<1>5. /\ calls'[c] = f /\ \A d \in Calls \ {c} : calls'[d] = calls[d]
  BY <1>1 DEF InStep, Shaped
<1>6. Generations'
  <2>1. \A d \in Calls \ {c} : calls[d].pc # "idle" => calls[d].gen \in 1..generation
    BY DEF InStep, Generations
  <2>2. generation \in Nat
    BY DEF InStep, Shaped
  <2>3. \A d \in Calls : calls'[d].pc # "idle" => calls'[d].gen \in 1..generation'
    BY <1>1, <1>3, <1>5, <2>1, <2>2
  <2>4. \A a, b \in Calls :
          a # b /\ calls'[a].pc # "idle" /\ calls'[b].pc # "idle" => calls'[a].gen # calls'[b].gen
    BY <1>1, <1>3, <1>5, <2>1, <2>2 DEF InStep, Generations
  <2>5. \A d \in Calls : Pending(d)' /\ ~Stale(d)' => active'
    <3>1. \A d \in Calls \ {c} : Pending(d)' => Stale(d)'
      BY <1>1, <1>5, <2>1, <2>2 DEF Pending, Stale
    <3>2. Pending(c)' => active'
      BY <1>1, <1>3, <1>5 DEF Pending
    <3> QED BY <3>1, <3>2
  <2> QED BY <2>3, <2>4, <2>5 DEF Generations
<1>7. Reached'
  <2> SUFFICES ASSUME NEW d \in Calls, NEW i \in Nat \ {0}, <<d, i>> \in Elements
      PROVE  /\ i < calls'[d].chunk => IsOver(<<d, i>>)'
             /\ i > calls'[d].chunk \/ calls'[d].pc = "idle" => ~Begun(<<d, i>>)'
             /\ i = calls'[d].chunk /\ calls'[d].pc = "waiting" => ~Begun(<<d, i>>)'
             /\ i = calls'[d].chunk /\ calls'[d].pc = "resumed" => IsOver(<<d, i>>)'
    BY DEF Reached
  <2>1. Steady /\ Reached
    BY <1>1 DEF InStep
  <2>2. CASE d = c
    BY <1>1, <1>3, <1>5, <2>1, <2>2 DEF Reached, Steady, SteadyBut
  <2>3. CASE d # c
    BY <1>5, <2>1, <2>3 DEF Reached, Steady, SteadyBut
  <2> QED BY <2>2, <2>3
<1> QED BY <1>1, <1>4, <1>6, <1>7, NoneIsNewest DEF InStep

LEMMA StopKeeps == ASSUME InStep, QueueStop PROVE InStep'
<1>1. /\ generation' = generation + 1 /\ active' = FALSE /\ calls' = calls
      /\ Voices' /\ Steady /\ currentAudio' = None
  BY StoppingIsSteady DEF InStep, QueueStop, StopSpeech
<1>2. Shaped'
  BY <1>1 DEF InStep, Shaped
<1>3. Generations'
  <2>1. generation \in Nat /\ \A c \in Calls : calls[c].pc # "idle" => calls[c].gen \in 1..generation
    BY DEF InStep, Shaped, Generations
  <2>2. \A c \in Calls : Pending(c)' => Stale(c)'
    BY <1>1, <2>1 DEF Pending, Stale
  <2> QED BY <1>1, <2>1, <2>2 DEF InStep, Generations
<1>4. Reached'
  BY <1>1, PlacesAreKept DEF InStep
<1> QED BY <1>1, <1>2, <1>3, <1>4, NoneIsNewest DEF InStep

\* A call that returns leaves the voice to the newest.
LEMMA ReturnsKeep ==
    ASSUME InStep, NEW c \in Calls, NEW how \in {"done", "failed"},
           calls[c].pc \in {"waiting", "resumed"}, Returns(c, how)
    PROVE  InStep'
<1>1. /\ UNCHANGED <<element, currentAudio, onAudioEnd, generation>>
      /\ calls' = [calls EXCEPT ![c].pc = how, ![c].pending = "none"]
      /\ active' = (IF Stale(c) THEN active ELSE FALSE)
  BY DEF Returns, engineVars
<1>2. /\ calls'[c].pc = how /\ calls'[c].gen = calls[c].gen /\ calls'[c].chunk = calls[c].chunk
      /\ \A d \in Calls \ {c} : calls'[d] = calls[d]
      /\ calls' \in [Calls -> Shape]
  BY <1>1 DEF InStep, Shaped, Shape
<1>3. \A d \in Calls \ {c} : calls[d].pc # "idle" /\ ~Stale(d) => active' = active
  BY <1>1, OneIsNewest DEF InStep
<1>4. Generations'
  <2>1. \A d \in Calls : Pending(d)' /\ ~Stale(d) => active'
    BY <1>2, <1>3 DEF InStep, Generations, Pending
  <2> QED BY <1>1, <1>2, <2>1, GenerationsAreKept DEF InStep
<1>5. Reached' /\ Shaped' /\ Voices'
  <2>1. Steady
    BY <1>1 DEF Steady, SteadyBut, IsOver, Begun
  <2>2. \A d \in Calls : /\ calls'[d].chunk = calls[d].chunk
                         /\ calls'[d].pc = calls[d].pc \/ calls'[d].pc \in {"done", "failed", "playing"}
    BY <1>2
  <2> QED BY <1>1, <1>2, <2>1, <2>2, PlacesAreKept DEF InStep, Shaped, Voices, OneVoice, HeldPlays
<1>6. VoiceIsTheNewest'
  <2> SUFFICES ASSUME currentAudio \in Chunks
      PROVE  /\ ~Stale(currentAudio[1])' /\ active'
             /\ calls'[currentAudio[1]].pc = "playing"
             /\ currentAudio[2] = calls'[currentAudio[1]].chunk
             /\ onAudioEnd' = currentAudio
    BY <1>1 DEF VoiceIsTheNewest
  <2> DEFINE d == currentAudio[1]
  <2>1. /\ d \in Calls /\ ~Stale(d) /\ active /\ calls[d].pc = "playing"
        /\ currentAudio[2] = calls[d].chunk /\ onAudioEnd = currentAudio
    BY DEF InStep, VoiceIsTheNewest, Chunks
  <2>2. d # c /\ calls'[d] = calls[d]
    BY <1>2, <2>1
  <2> QED BY <1>1, <1>3, <2>1, <2>2 DEF Stale
<1> QED BY <1>4, <1>5, <1>6 DEF InStep

LEMMA AnswerKeeps ==
    ASSUME InStep, NEW c \in Calls, NEW answer, SynthAnswers(c, answer)
    PROVE  InStep'
<1>1. /\ UNCHANGED <<element, currentAudio, onAudioEnd, generation, active>>
      /\ calls' = [calls EXCEPT ![c].pending = answer] /\ answer \in {"ready", "refused"}
  BY DEF SynthAnswers, engineVars
<1>2. /\ calls' \in [Calls -> Shape]
      /\ \A d \in Calls : /\ calls'[d].pc = calls[d].pc /\ calls'[d].gen = calls[d].gen
                          /\ calls'[d].chunk = calls[d].chunk
  BY <1>1 DEF InStep, Shaped, Shape
<1>3. Generations'
  <2>1. \A d \in Calls : Pending(d)' /\ ~Stale(d) => active'
    BY <1>1, <1>2 DEF InStep, Generations, Pending
  <2> QED BY <1>1, <1>2, <2>1, GenerationsAreKept DEF InStep
<1>4. Steady
  BY <1>1 DEF Steady, SteadyBut, IsOver, Begun
<1>5. Reached'
  BY <1>2, <1>4, PlacesAreKept DEF InStep
<1>6. VoiceIsTheNewest'
  BY <1>1, <1>2 DEF InStep, VoiceIsTheNewest, Stale, Chunks
<1> QED BY <1>1, <1>2, <1>3, <1>5, <1>6 DEF InStep, Shaped, Voices, OneVoice, HeldPlays

LEMMA PlayKeeps ==
    ASSUME InStep, NEW c \in Calls, calls[c].pc = "waiting", ~Stale(c), PlayChunk(c)
    PROVE  InStep'
<1> DEFINE i == calls[c].chunk
           e == <<c, i>>
<1>1. /\ UNCHANGED <<generation, active>>
      /\ calls' = [calls EXCEPT ![c].pc = "playing",
                                ![c].pending = IF i < Len(calls[c].chunks) THEN "asked" ELSE "none"]
  BY DEF PlayChunk
<1>2. /\ calls' \in [Calls -> Shape]
      /\ calls'[c].pc = "playing" /\ calls'[c].gen = calls[c].gen /\ calls'[c].chunk = calls[c].chunk
      /\ \A d \in Calls \ {c} : calls'[d] = calls[d]
  BY <1>1 DEF InStep, Shaped, Shape
<1>3. Voices' /\ SteadyBut({e}) /\ currentAudio' = e /\ onAudioEnd' = e
  BY PlayingIsSteady DEF InStep, PlayChunk, PlayAudio
<1>4. Shaped'
  BY <1>1, <1>2 DEF InStep, Shaped
<1>5. Generations'
  <2>1. \A d \in Calls : Pending(d)' /\ ~Stale(d) => active'
    BY <1>1, <1>2 DEF InStep, Generations, Pending
  <2> QED BY <1>1, <1>2, <2>1, GenerationsAreKept DEF InStep
<1>6. Reached'
  <2> SUFFICES ASSUME NEW d \in Calls, NEW j \in Nat \ {0}, <<d, j>> \in Elements
      PROVE  /\ j < calls'[d].chunk => IsOver(<<d, j>>)'
             /\ j > calls'[d].chunk \/ calls'[d].pc = "idle" => ~Begun(<<d, j>>)'
             /\ j = calls'[d].chunk /\ calls'[d].pc = "waiting" => ~Begun(<<d, j>>)'
             /\ j = calls'[d].chunk /\ calls'[d].pc = "resumed" => IsOver(<<d, j>>)'
    BY DEF Reached
  <2>1. CASE <<d, j>> = e
    <3>1. d = c /\ j = calls[c].chunk /\ calls[c].chunk \in Nat
      BY <2>1 DEF InStep, Shaped, Shape
    <3> QED BY <1>2, <3>1
  <2>2. CASE <<d, j>> # e
    <3>1. /\ IsOver(<<d, j>>) => IsOver(<<d, j>>)'
          /\ ~Begun(<<d, j>>) => ~Begun(<<d, j>>)'
      BY <1>3, <2>2 DEF SteadyBut
    <3>2. calls'[d].chunk = calls[d].chunk /\ (calls'[d].pc = calls[d].pc \/ calls'[d].pc = "playing")
      BY <1>2
    <3> QED BY <3>1, <3>2 DEF InStep, Reached
  <2> QED BY <2>1, <2>2
<1>7. VoiceIsTheNewest'
  <2>1. active /\ ~Stale(c)'
    BY <1>1, <1>2 DEF InStep, Generations, Pending, Stale
  <2> QED BY <1>1, <1>2, <1>3, <2>1 DEF VoiceIsTheNewest
<1> QED BY <1>3, <1>4, <1>5, <1>6, <1>7 DEF InStep

LEMMA TellsKeep ==
    ASSUME InStep, NEW e \in Chunks, NEW how \in {"ended", "failed"}, VoiceTells(e, how)
    PROVE  InStep'
<1>1. /\ e \in Elements /\ UNCHANGED <<generation, active>>
      /\ calls' = (IF e = currentAudio /\ onAudioEnd # None
                   THEN [calls EXCEPT ![onAudioEnd[1]].pc = "resumed"] ELSE calls)
  BY NoChunkIsNone DEF VoiceTells, IsCurrent
<1>2. /\ Voices' /\ Steady /\ IsOver(e)'
      /\ currentAudio' = (IF e = currentAudio THEN None ELSE currentAudio)
      /\ onAudioEnd' = (IF e = currentAudio THEN None ELSE onAudioEnd)
  BY <1>1, EndingIsSteady DEF InStep, VoiceTells
<1>3. Steady
  BY <1>2
<1>5. CASE e = currentAudio
  <2> DEFINE c == e[1]
  <2>1. /\ c \in Calls /\ ~Stale(c) /\ active /\ calls[c].pc = "playing"
        /\ e[2] = calls[c].chunk /\ onAudioEnd = e /\ e = <<c, e[2]>>
    BY <1>5 DEF InStep, VoiceIsTheNewest, Chunks
  <2>2. calls' = [calls EXCEPT ![c].pc = "resumed"]
    BY <1>1, <1>5, <2>1, NoChunkIsNone
  <2>3. /\ calls' \in [Calls -> Shape]
        /\ calls'[c].pc = "resumed" /\ calls'[c].gen = calls[c].gen /\ calls'[c].chunk = calls[c].chunk
        /\ \A d \in Calls \ {c} : calls'[d] = calls[d]
    BY <2>1, <2>2 DEF InStep, Shaped, Shape
  <2>4. Generations'
    <3>1. \A d \in Calls : Pending(d)' /\ ~Stale(d) => active'
      BY <1>1, <2>1, <2>3 DEF InStep, Generations, Pending
    <3> QED BY <1>1, <2>1, <2>3, <3>1, GenerationsAreKept DEF InStep
  <2>5. Reached'
    <3> SUFFICES ASSUME NEW d \in Calls, NEW j \in Nat \ {0}, <<d, j>> \in Elements
        PROVE  /\ j < calls'[d].chunk => IsOver(<<d, j>>)'
               /\ j > calls'[d].chunk \/ calls'[d].pc = "idle" => ~Begun(<<d, j>>)'
               /\ j = calls'[d].chunk /\ calls'[d].pc = "waiting" => ~Begun(<<d, j>>)'
               /\ j = calls'[d].chunk /\ calls'[d].pc = "resumed" => IsOver(<<d, j>>)'
      BY DEF Reached
    <3>1. CASE d # c
      BY <1>3, <2>3, <3>1 DEF InStep, Reached, Steady, SteadyBut
    <3>2. CASE d = c
      <4>1. j = calls[c].chunk => IsOver(<<d, j>>)'
        BY <1>2, <2>1, <3>2
      <4> QED BY <1>3, <2>1, <2>3, <3>2, <4>1 DEF InStep, Reached, Steady, SteadyBut
    <3> QED BY <3>1, <3>2
  <2>6. VoiceIsTheNewest'
    BY <1>2, <1>5, NoneIsNewest
  <2> QED BY <1>1, <1>2, <2>3, <2>4, <2>5, <2>6 DEF InStep, Shaped
<1>6. CASE e # currentAudio
  <2>1. UNCHANGED <<currentAudio, onAudioEnd, calls>>
    BY <1>1, <1>2, <1>6
  <2>2. Generations' /\ VoiceIsTheNewest'
    BY <1>1, <2>1 DEF InStep, Generations, VoiceIsTheNewest, Pending, Stale
  <2>3. Reached'
    BY <1>3, <2>1, PlacesAreKept DEF InStep
  <2> QED BY <1>1, <1>2, <2>1, <2>2, <2>3 DEF InStep, Shaped
<1> QED BY <1>5, <1>6

LEMMA GoesOnKeep ==
    ASSUME InStep, NEW c \in Calls, GoOn(c)
    PROVE  InStep'
<1>0. calls[c].pc = "resumed"
  BY DEF GoOn
<1>1. CASE Stale(c) \/ calls[c].chunk = Len(calls[c].chunks)
  BY <1>0, <1>1, ReturnsKeep DEF GoOn
<1>2. CASE ~(Stale(c) \/ calls[c].chunk = Len(calls[c].chunks))
  <2>1. /\ calls' = [calls EXCEPT ![c].pc = "waiting", ![c].chunk = @ + 1]
        /\ UNCHANGED <<element, currentAudio, onAudioEnd, generation, active>>
    BY <1>2 DEF GoOn, engineVars
  <2>2. /\ calls' \in [Calls -> Shape] /\ calls[c].chunk \in Nat
        /\ calls'[c].pc = "waiting" /\ calls'[c].gen = calls[c].gen
        /\ calls'[c].chunk = calls[c].chunk + 1
        /\ \A d \in Calls \ {c} : calls'[d] = calls[d]
    BY <2>1 DEF InStep, Shaped, Shape
  <2>3. Generations'
    <3>1. \A d \in Calls : Pending(d)' /\ ~Stale(d) => active'
      BY <1>0, <2>1, <2>2 DEF InStep, Generations, Pending
    <3> QED BY <1>0, <2>1, <2>2, <3>1, GenerationsAreKept DEF InStep
  <2>4. Steady
    BY <2>1 DEF Steady, SteadyBut, IsOver, Begun
  <2>5. Reached'
    <3> SUFFICES ASSUME NEW d \in Calls, NEW j \in Nat \ {0}, <<d, j>> \in Elements
        PROVE  /\ j < calls'[d].chunk => IsOver(<<d, j>>)'
               /\ j > calls'[d].chunk \/ calls'[d].pc = "idle" => ~Begun(<<d, j>>)'
               /\ j = calls'[d].chunk /\ calls'[d].pc = "waiting" => ~Begun(<<d, j>>)'
               /\ j = calls'[d].chunk /\ calls'[d].pc = "resumed" => IsOver(<<d, j>>)'
      BY DEF Reached
    <3>1. CASE d # c
      BY <2>2, <2>4, <3>1 DEF InStep, Reached, Steady, SteadyBut
    <3>2. CASE d = c
      <4>1. /\ j <= calls[c].chunk => IsOver(<<d, j>>)
            /\ j > calls[c].chunk => ~Begun(<<d, j>>)
        BY <1>0, <2>2, <3>2 DEF InStep, Reached
      <4> QED BY <2>2, <2>4, <3>2, <4>1 DEF Steady, SteadyBut
    <3> QED BY <3>1, <3>2
  <2>6. VoiceIsTheNewest'
    <3> SUFFICES ASSUME currentAudio \in Chunks
        PROVE  /\ ~Stale(currentAudio[1])' /\ active'
               /\ calls'[currentAudio[1]].pc = "playing"
               /\ currentAudio[2] = calls'[currentAudio[1]].chunk
               /\ onAudioEnd' = currentAudio
      BY <2>1 DEF VoiceIsTheNewest
    <3> DEFINE d == currentAudio[1]
    <3>1. /\ d \in Calls /\ ~Stale(d) /\ active /\ calls[d].pc = "playing"
          /\ currentAudio[2] = calls[d].chunk /\ onAudioEnd = currentAudio
      BY DEF InStep, VoiceIsTheNewest, Chunks
    <3> QED BY <1>0, <2>1, <2>2, <3>1 DEF Stale
  <2> QED BY <2>1, <2>2, <2>3, <2>5, <2>6 DEF InStep, Shaped, Voices, OneVoice, HeldPlays
<1> QED BY <1>1, <1>2

\* What the browser and the page do leaves the queue.
LEMMA MovesKeep ==
    ASSUME InStep, EngineMoves, UNCHANGED queueVars
    PROVE  InStep'
<1>1. Voices' /\ Steady /\ UNCHANGED <<currentAudio, onAudioEnd>>
  BY MovingIsSteady DEF InStep
<1>2. UNCHANGED <<generation, active, calls>>
  BY DEF queueVars
<1>3. Reached'
  BY <1>1, <1>2, PlacesAreKept DEF InStep
<1>4. Generations' /\ VoiceIsTheNewest'
  BY <1>1, <1>2 DEF InStep, Generations, VoiceIsTheNewest, Pending, Stale
<1> QED BY <1>1, <1>2, <1>3, <1>4 DEF InStep, Shaped

-----------------------------------------------------------------------------
(* The theorems                                                            *)

LEMMA InStepAtFirst == EngineInit /\ QueueInit => InStep
<1> SUFFICES ASSUME EngineInit, QueueInit PROVE InStep
  OBVIOUS
<1>1. Shaped
  <2>1. [pc |-> "idle", gen |-> 0, chunks |-> <<>>, chunk |-> 1, pending |-> "none"] \in Shape
    BY DEF Shape, Made
  <2> QED BY <2>1 DEF QueueInit, Shaped
<1>2. Generations /\ Reached
  BY DEF EngineInit, QueueInit, Generations, Reached, Begun, IsOver, Pending
<1>3. Voices /\ VoiceIsTheNewest
  BY NoVoiceAtFirst, NoChunkIsNone DEF EngineInit, VoiceIsTheNewest
<1> QED BY <1>1, <1>2, <1>3 DEF InStep

LEMMA InStepKept == InStep /\ [QueueNext]_queueSpecVars => InStep'
<1> SUFFICES ASSUME InStep, [QueueNext]_queueSpecVars PROVE InStep'
  OBVIOUS
<1>1. ASSUME NEW c \in Calls, NEW text \in Texts, Speak(c, text) PROVE InStep'
  BY <1>1, SpeakKeeps
<1>2. ASSUME NEW c \in Calls, NEW answer \in {"ready", "refused"}, SynthAnswers(c, answer)
      PROVE  InStep'
  BY <1>2, AnswerKeeps
<1>3. ASSUME NEW c \in Calls, TakeChunk(c) PROVE InStep'
  BY <1>3, PlayKeeps, ReturnsKeep DEF TakeChunk
<1>4. ASSUME NEW c \in Calls, ChunkRefused(c) PROVE InStep'
  BY <1>4, ReturnsKeep DEF ChunkRefused
<1>5. ASSUME NEW c \in Calls, GoOn(c) PROVE InStep'
  BY <1>5, GoesOnKeep
<1>6. ASSUME QueueStop PROVE InStep'
  BY <1>6, StopKeeps
<1>7. ASSUME NEW e \in Chunks, NEW how \in {"ended", "failed"}, VoiceTells(e, how) PROVE InStep'
  BY <1>7, TellsKeep
<1>8. ASSUME EngineMoves /\ UNCHANGED queueVars PROVE InStep'
  BY <1>8, MovesKeep
<1>9. ASSUME UNCHANGED queueSpecVars PROVE InStep'
  <2>1. UNCHANGED <<element, currentAudio, onAudioEnd, generation, active, calls>>
    BY <1>9 DEF queueSpecVars, engineVars, queueVars
  <2> QED BY <2>1 DEF InStep, Shaped, Generations, Voices, OneVoice, HeldPlays, Reached,
                      VoiceIsTheNewest, Pending, Stale, IsOver, Begun
<1> QED BY <1>1, <1>2, <1>3, <1>4, <1>5, <1>6, <1>7, <1>8, <1>9 DEF QueueNext

\* The inductive invariant: the queue's calls, its generation and the
\* engine's elements go together (speech.ts speak, voice.ts), however the
\* recordings, the ends of voices, newer calls and stops interleave.
THEOREM AlwaysInStep == QueueSpec => []InStep
<1> QED BY InStepAtFirst, InStepKept, PTL DEF QueueSpec

LEMMA InStepOrders ==
    ASSUME InStep
    PROVE  ChunksInOrder
<1> SUFFICES ASSUME NEW c \in Calls, NEW i \in 2..MaxChunks, element[<<c, i>>] # "none"
    PROVE  element[<<c, i - 1>>] \in {"ended", "failed"}
  BY DEF ChunksInOrder
<1>1. /\ <<c, i>> \in Elements /\ <<c, i - 1>> \in Elements
      /\ i \in Nat \ {0} /\ i - 1 \in Nat \ {0}
  BY NoChunkIsNone, QueueAssumption DEF Chunks
<1>2. calls[c].chunk \in Nat
  BY DEF InStep, Shaped, Shape
<1>3. ~(i > calls[c].chunk)
  BY <1>1 DEF InStep, Reached, Begun
<1> QED BY <1>1, <1>2, <1>3 DEF InStep, Reached, IsOver

-----------------------------------------------------------------------------
(* Types, and the expressions of the queue's texts                         *)

LEMMA MadeIs ==
    ASSUME NEW made \in Made
    PROVE  /\ made \in Seq(Seq(Cue)) /\ Len(made) \in Nat /\ Len(made) <= MaxChunks
           /\ \A i \in 1..Len(made) : made[i] \in Seq(Timely) /\ made[i] \in Seq(Cue)
           /\ Releases(made)
<1>1. made \in Seq(Seq(Timely)) /\ Releases(made) /\ Len(made) <= MaxChunks
  <2>1. CASE made = <<>>
    BY <2>1, QueueAssumption DEF Releases, Marked
  <2>2. CASE made # <<>>
    <3>1. PICK text \in Texts : made = SpeechChunks(text)
      BY <2>2 DEF Made
    <3> QED BY <3>1, ChunksRelease, ChunksAssumption
  <2> QED BY <2>1, <2>2
<1>2. \A i \in 1..Len(made) : made[i] \in Seq(Timely)
  BY <1>1
<1>3. \A i \in 1..Len(made) : made[i] \in Seq(Cue)
  <2> SUFFICES ASSUME NEW i \in 1..Len(made) PROVE made[i] \in Seq(Cue)
    OBVIOUS
  <2> DEFINE tr == made[i]
  <2>1. tr \in Seq(Timely)
    BY <1>2
  <2> HIDE DEF tr
  <2>2. Len(tr) \in Nat /\ tr = [j \in 1..Len(tr) |-> tr[j]] /\ \A j \in 1..Len(tr) : tr[j] \in Cue
    BY <2>1, TimelyIsCue
  <2>3. tr \in Seq(Cue)
    BY <2>2
  <2> QED BY <2>3 DEF tr
<1>4. made \in Seq(Seq(Cue)) /\ Len(made) \in Nat
  <2>1. Len(made) \in Nat /\ made = [j \in 1..Len(made) |-> made[j]]
    BY <1>1
  <2> QED BY <1>3, <2>1
<1> QED BY <1>1, <1>2, <1>3, <1>4

\* A call's chunk is one of those its text made.
Placed ==
    /\ active \in BOOLEAN
    /\ stops \in 0..MaxStops
    /\ \A c \in Calls : /\ calls[c].chunk \in 1..MaxChunks
                        /\ Pending(c) => calls[c].chunk <= Len(calls[c].chunks)

\* What is said is the current call's chunk; walked to its end, the last one
\* has released what its text set.
SaysChunk ==
    /\ speaking => currentAudio \in Chunks
    /\ currentAudio \in Chunks =>
          LET call == calls[currentAudio[1]]
          IN /\ speaking
             /\ track = call.chunks[call.chunk]
             /\ nextCue <= Len(track)
             /\ call.chunk = Len(call.chunks) /\ nextCue = Len(track) /\ Marked(call.chunks) =>
                   asked.source # "text"

\* A text's expression is the newest call's, which has a tag and is not past
\* its release.
Holds(c) ==
    /\ ~Stale(c)
    /\ Pending(c) \/ calls[c].pc = "failed"
    /\ Marked(calls[c].chunks)
    /\ ~(calls[c].pc = "resumed" /\ calls[c].chunk = Len(calls[c].chunks))
TextHeld == asked.source = "text" => \E c \in Calls : Holds(c)

Telling == InStep /\ EngineTypeOK /\ Placed /\ SaysChunk /\ TextHeld

LEMMA CallIs ==
    ASSUME InStep, Placed, NEW c \in Calls
    PROVE  /\ calls[c] \in Shape /\ calls[c].chunks \in Made
           /\ calls[c].chunk \in Nat /\ calls[c].chunk >= 1
           /\ Pending(c) => calls[c].chunk \in 1..Len(calls[c].chunks)
<1>1. calls[c] \in Shape
  BY DEF InStep, Shaped
<1>2. calls[c].chunks \in Made
  BY <1>1 DEF Shape
<1>3. Len(calls[c].chunks) \in Nat
  BY <1>2, MadeIs
<1>4. calls[c].chunk \in 1..MaxChunks /\ MaxChunks \in Nat
  BY QueueAssumption DEF Placed
<1> QED BY <1>1, <1>2, <1>3, <1>4 DEF Placed

LEMMA QueueTyped == InStep /\ Placed => QueueTypeOK
<1> SUFFICES ASSUME InStep, Placed PROVE QueueTypeOK
  OBVIOUS
<1>1. ASSUME NEW c \in Calls PROVE calls[c] \in Call
  <2>1. calls[c] \in Shape /\ calls[c].chunks \in Seq(Seq(Cue)) /\ calls[c].chunk \in 1..MaxChunks
    BY CallIs, MadeIs DEF Placed
  <2> QED BY <2>1 DEF Shape, Call
<1>2. calls \in [Calls -> Call]
  BY <1>1 DEF InStep, Shaped
<1> QED BY <1>2 DEF QueueTypeOK, InStep, Shaped, Placed

\* What the queue asks of the engine.
LEMMA QueueCallsEngine ==
    ASSUME InStep, Placed, QueueNext
    PROVE  EngineCall \/ (EngineMoves /\ UNCHANGED queueVars)
<1>1. ASSUME NEW c \in Calls, calls[c].pc = "waiting", PlayChunk(c) PROVE EngineCall
  <2> DEFINE i == calls[c].chunk
             tr == calls[c].chunks[i]
  <2>1. i \in 1..Len(calls[c].chunks) /\ i \in 1..MaxChunks /\ calls[c].chunks \in Made
    BY <1>1, CallIs DEF Pending, Placed
  <2>2. tr \in Seq(Cue) /\ <<c, i>> \in Elements
    BY <2>1, MadeIs, QueueAssumption DEF Chunks
  <2>3. PlayShowing(<<c, i>>, tr, asked)
    BY <1>1 DEF PlayChunk, PlayAudio
  <2> HIDE DEF tr
  <2> QED BY <2>2, <2>3 DEF EngineCall
<1>2. ASSUME NEW e \in Chunks, NEW how \in {"ended", "failed"}, VoiceTells(e, how) PROVE EngineCall
  BY <1>2, NoChunkIsNone DEF VoiceTells, EngineCall
<1>3. StopSpeech \/ UNCHANGED engineVars => EngineCall
  BY DEF EngineCall
<1> QED BY <1>1, <1>2, <1>3
     DEF QueueNext, Speak, QueueStop, SynthAnswers, TakeChunk, ChunkRefused, GoOn, Returns

LEMMA PlacedKept ==
    ASSUME InStep, Placed, [QueueNext]_queueSpecVars
    PROVE  Placed'
<1>0. /\ MaxChunks \in Nat \ {0} /\ MaxStops \in Nat
      /\ calls \in [Calls -> Shape] /\ 1 \in 1..MaxChunks
  BY QueueAssumption DEF InStep, Shaped
<1>1. ASSUME NEW c \in Calls, NEW text \in Texts, Speak(c, text) PROVE Placed'
  <2> DEFINE made == SpeechChunks(text)
             f == [pc |-> IF made = <<>> THEN "done" ELSE "waiting",
                   gen |-> generation + 2, chunks |-> made, chunk |-> 1,
                   pending |-> IF made = <<>> THEN "none" ELSE "asked"]
  <2>1. active' \in BOOLEAN /\ stops' = stops /\ calls' = [calls EXCEPT ![c] = f]
    BY <1>1 DEF Speak
  <2>2. f.chunk = 1 /\ f.chunks = made /\ (f.pc = "waiting" \/ f.pc = "done")
        /\ (f.pc = "waiting" => made # <<>>)
    OBVIOUS
  <2>3. made \in Made
    BY DEF Made
  <2> HIDE DEF made, f
  <2>4. made # <<>> => 1 <= Len(made)
    <3>1. made \in Seq(Seq(Cue))
      BY <2>3, MadeIs
    <3> QED BY <3>1
  <2>5. calls'[c] = f /\ \A d \in Calls \ {c} : calls'[d] = calls[d]
    BY <1>0, <2>1
  <2> QED BY <1>0, <2>1, <2>2, <2>4, <2>5 DEF Placed, Pending
<1>2. ASSUME QueueStop PROVE Placed'
  <2>1. active' = FALSE /\ stops' = stops + 1 /\ stops < MaxStops /\ calls' = calls
    BY <1>2 DEF QueueStop
  <2>2. stops' \in 0..MaxStops
    BY <1>0, <2>1 DEF Placed
  <2> QED BY <2>1, <2>2 DEF Placed, Pending
<1>3. ASSUME NEW c \in Calls, NEW answer, SynthAnswers(c, answer) PROVE Placed'
  <2>1. calls' = [calls EXCEPT ![c].pending = answer] /\ UNCHANGED <<active, stops>>
    BY <1>3 DEF SynthAnswers
  <2>2. \A d \in Calls : calls'[d].chunk = calls[d].chunk /\ calls'[d].chunks = calls[d].chunks
                         /\ calls'[d].pc = calls[d].pc
    BY <1>0, <2>1 DEF Shape
  <2> QED BY <2>1, <2>2 DEF Placed, Pending
<1>4. ASSUME NEW c \in Calls, NEW how \in {"done", "failed"}, Returns(c, how) PROVE Placed'
  <2>1. /\ calls' = [calls EXCEPT ![c].pc = how, ![c].pending = "none"]
        /\ stops' = stops /\ active' = (IF Stale(c) THEN active ELSE FALSE)
    BY <1>4 DEF Returns
  <2>2. \A d \in Calls : calls'[d].chunk = calls[d].chunk /\ calls'[d].chunks = calls[d].chunks
                         /\ (calls'[d].pc = calls[d].pc \/ calls'[d].pc = how)
    BY <1>0, <2>1 DEF Shape
  <2> QED BY <2>1, <2>2 DEF Placed, Pending
<1>5. ASSUME NEW c \in Calls, calls[c].pc = "waiting", PlayChunk(c) PROVE Placed'
  <2> DEFINE p == IF calls[c].chunk < Len(calls[c].chunks) THEN "asked" ELSE "none"
  <2>1. calls' = [calls EXCEPT ![c].pc = "playing", ![c].pending = p] /\ UNCHANGED <<active, stops>>
    BY <1>5 DEF PlayChunk
  <2> HIDE DEF p
  <2>2. \A d \in Calls : calls'[d].chunk = calls[d].chunk /\ calls'[d].chunks = calls[d].chunks
                         /\ (calls'[d].pc = calls[d].pc \/ d = c)
    BY <1>0, <2>1 DEF Shape
  <2> QED BY <1>5, <2>1, <2>2 DEF Placed, Pending
<1>6. ASSUME NEW e \in Chunks, NEW how, VoiceTells(e, how) PROVE Placed'
  <2>1. CASE calls' = calls
    BY <1>6, <2>1 DEF VoiceTells, Placed, Pending
  <2>2. CASE calls' # calls
    <3>1. /\ e = currentAudio /\ onAudioEnd # None
          /\ calls' = [calls EXCEPT ![onAudioEnd[1]].pc = "resumed"] /\ UNCHANGED <<active, stops>>
      BY <1>6, <2>2 DEF VoiceTells, IsCurrent
    <3>2. onAudioEnd[1] \in Calls /\ calls[onAudioEnd[1]].pc = "playing"
      BY <3>1 DEF InStep, VoiceIsTheNewest, Chunks
    <3> DEFINE c == onAudioEnd[1]
    <3>3. \A d \in Calls : calls'[d].chunk = calls[d].chunk /\ calls'[d].chunks = calls[d].chunks
                           /\ (calls'[d].pc = calls[d].pc \/ d = c)
      BY <1>0, <3>1, <3>2 DEF Shape
    <3> QED BY <3>1, <3>2, <3>3 DEF Placed, Pending
  <2> QED BY <2>1, <2>2
<1>7. ASSUME NEW c \in Calls, GoOn(c) PROVE Placed'
  <2>1. CASE Stale(c) \/ calls[c].chunk = Len(calls[c].chunks)
    BY <1>4, <1>7, <2>1 DEF GoOn
  <2>2. CASE ~(Stale(c) \/ calls[c].chunk = Len(calls[c].chunks))
    <3>1. calls' = [calls EXCEPT ![c].pc = "waiting", ![c].chunk = @ + 1] /\ UNCHANGED <<active, stops>>
      BY <1>7, <2>2 DEF GoOn
    <3>2. /\ calls'[c].chunk = calls[c].chunk + 1 /\ calls'[c].chunks = calls[c].chunks
          /\ \A d \in Calls \ {c} : calls'[d] = calls[d]
      BY <1>0, <3>1 DEF Shape
    <3>3. /\ calls[c].chunk \in 1..Len(calls[c].chunks) /\ calls[c].chunk # Len(calls[c].chunks)
          /\ Len(calls[c].chunks) \in Nat /\ Len(calls[c].chunks) <= MaxChunks
      BY <1>7, <2>2, CallIs, MadeIs DEF GoOn, Pending
    <3>4. /\ calls'[c].chunk \in 1..MaxChunks /\ calls'[c].chunk <= Len(calls'[c].chunks)
      BY <1>0, <3>2, <3>3
    <3> QED BY <3>1, <3>2, <3>4 DEF Placed, Pending
  <2> QED BY <2>1, <2>2
<1>8. ASSUME UNCHANGED queueVars PROVE Placed'
  BY <1>8 DEF queueVars, Placed, Pending
<1> QED BY <1>1, <1>2, <1>3, <1>4, <1>5, <1>6, <1>7, <1>8
     DEF QueueNext, TakeChunk, ChunkRefused, queueSpecVars

LEMMA SilentNow ==
    ASSUME currentAudio' = None, speaking' = FALSE, asked'.source # "text"
    PROVE  SaysChunk' /\ TextHeld'
BY NoChunkIsNone DEF SaysChunk, TextHeld

LEMMA StopSpeechSilences ==
    ASSUME StopSpeech
    PROVE  currentAudio' = None /\ speaking' = FALSE /\ asked'.source # "text"
BY DEF StopSpeech, StopAudio, ReleasedText, Neutral

\* The engine left alone, and the calls' chunks: the text's expression stays
\* with its call.
LEMMA LeftAlone ==
    ASSUME SaysChunk, TextHeld, UNCHANGED <<speaking, currentAudio, track, nextCue, asked>>,
           currentAudio \in Chunks =>
              /\ calls'[currentAudio[1]].chunks = calls[currentAudio[1]].chunks
              /\ calls'[currentAudio[1]].chunk = calls[currentAudio[1]].chunk,
           \A c \in Calls : asked.source = "text" /\ Holds(c) => Holds(c)'
    PROVE  SaysChunk' /\ TextHeld'
<1>1. SaysChunk'
  BY DEF SaysChunk
<1>2. TextHeld'
  BY DEF TextHeld
<1> QED BY <1>1, <1>2

\* The voice in flight is of a call, at its chunk.
LEMMA VoiceIs ==
    ASSUME Telling, currentAudio \in Chunks, NEW c, c = currentAudio[1]
    PROVE  /\ c \in Calls /\ calls[c].pc = "playing" /\ ~Stale(c)
           /\ calls[c].chunks \in Made
           /\ calls[c].chunk \in 1..Len(calls[c].chunks)
           /\ track = calls[c].chunks[calls[c].chunk] /\ track \in Seq(Timely) /\ track \in Seq(Cue)
           /\ nextCue \in 0..Len(track)
           /\ currentAudio = <<c, calls[c].chunk>> /\ onAudioEnd = currentAudio
           /\ track # <<>> => Marked(calls[c].chunks)
<1>1. c \in Calls /\ calls[c].pc = "playing" /\ ~Stale(c) /\ onAudioEnd = currentAudio
      /\ currentAudio[2] = calls[c].chunk /\ currentAudio = <<c, currentAudio[2]>>
  BY DEF Telling, InStep, VoiceIsTheNewest, Chunks
<1>2. calls[c].chunks \in Made /\ calls[c].chunk \in 1..Len(calls[c].chunks)
  BY <1>1, CallIs DEF Telling, Pending
<1>3. track = calls[c].chunks[calls[c].chunk] /\ nextCue <= Len(track)
  BY DEF Telling, SaysChunk
<1>4. track \in Seq(Timely) /\ track \in Seq(Cue)
  BY <1>2, <1>3, MadeIs
<1>5. nextCue \in Nat
  BY DEF Telling, EngineTypeOK
<1>6. track # <<>> => Marked(calls[c].chunks)
  BY <1>2, <1>3 DEF Marked
<1>7. nextCue \in 0..Len(track)
  BY <1>3, <1>4, <1>5
<1> QED BY <1>1, <1>2, <1>3, <1>4, <1>6, <1>7

\* The last chunk of a text with a tag ends with the release.
LEMMA EndIsRelease ==
    ASSUME NEW made \in Made, Marked(made), NEW tr, tr = made[Len(made)]
    PROVE  /\ tr \in Seq(Cue) /\ Len(tr) \in Nat \ {0}
           /\ tr[Len(tr)].name = "neutral" /\ tr[Len(tr)].t = Duration
<1>1. tr # <<>> /\ tr[Len(tr)] = Release
  BY MadeIs DEF Releases
<1>2. Len(made) \in 1..Len(made)
  <2>1. Len(made) \in Nat /\ Len(made) # 0
    BY MadeIs DEF Marked
  <2> QED BY <2>1
<1>3. tr \in Seq(Cue)
  BY <1>2, MadeIs
<1>4. Len(tr) \in Nat \ {0}
  BY <1>1, <1>3
<1> QED BY <1>1, <1>3, <1>4 DEF Release

LEMMA AnswerTells ==
    ASSUME Telling, NEW c \in Calls, NEW answer, SynthAnswers(c, answer)
    PROVE  SaysChunk' /\ TextHeld'
<1>1. /\ calls' = [calls EXCEPT ![c].pending = answer]
      /\ UNCHANGED <<speaking, currentAudio, track, nextCue, asked, generation>>
  BY DEF SynthAnswers, engineVars
<1>2. \A d \in Calls : /\ calls'[d].chunk = calls[d].chunk /\ calls'[d].chunks = calls[d].chunks
                       /\ calls'[d].pc = calls[d].pc /\ calls'[d].gen = calls[d].gen
  BY <1>1 DEF Telling, InStep, Shaped, Shape
<1>3. \A d \in Calls : Holds(d) => Holds(d)'
  BY <1>1, <1>2 DEF Holds, Stale, Pending
<1>4. currentAudio \in Chunks => currentAudio[1] \in Calls
  BY DEF Chunks
<1> QED BY <1>1, <1>2, <1>3, <1>4, LeftAlone DEF Telling

LEMMA ReturnsTell ==
    ASSUME Telling, NEW c \in Calls, NEW how \in {"done", "failed"}, Returns(c, how),
           \/ Stale(c)
           \/ how = "failed" /\ calls[c].pc = "waiting"
           \/ calls[c].pc = "resumed" /\ calls[c].chunk = Len(calls[c].chunks)
    PROVE  SaysChunk' /\ TextHeld'
<1>1. /\ calls' = [calls EXCEPT ![c].pc = how, ![c].pending = "none"]
      /\ UNCHANGED <<speaking, currentAudio, track, nextCue, asked, generation>>
  BY DEF Returns, engineVars
<1>2. /\ \A d \in Calls : /\ calls'[d].chunk = calls[d].chunk /\ calls'[d].chunks = calls[d].chunks
                          /\ calls'[d].gen = calls[d].gen
                          /\ d # c => calls'[d].pc = calls[d].pc
      /\ calls'[c].pc = how
  BY <1>1 DEF Telling, InStep, Shaped, Shape
<1>3. ASSUME NEW d \in Calls, Holds(d) PROVE Holds(d)'
  <2>1. CASE d # c
    BY <1>1, <1>2, <1>3, <2>1 DEF Holds, Stale, Pending
  <2>2. CASE d = c
    <3>1. how = "failed"
      BY <1>3, <2>2 DEF Holds
    <3> QED BY <1>1, <1>2, <1>3, <2>2, <3>1 DEF Holds, Stale, Pending
  <2> QED BY <2>1, <2>2
<1>4. currentAudio \in Chunks => currentAudio[1] \in Calls
  BY DEF Chunks
<1> QED BY <1>1, <1>2, <1>3, <1>4, LeftAlone DEF Telling

LEMMA PlayTells ==
    ASSUME Telling, NEW c \in Calls, calls[c].pc = "waiting", ~Stale(c), PlayChunk(c)
    PROVE  SaysChunk' /\ TextHeld'
<1> DEFINE i == calls[c].chunk
           made == calls[c].chunks
           tr == made[i]
           p == IF i < Len(made) THEN "asked" ELSE "none"
<1>1. /\ calls' = [calls EXCEPT ![c].pc = "playing", ![c].pending = p]
      /\ currentAudio' = <<c, i>> /\ speaking' = TRUE /\ track' = tr
      /\ nextCue' = SoughtTo(tr, 0) /\ asked' = asked /\ generation' = generation
  BY DEF PlayChunk, PlayAudio, PlayShowing, Begin
<1>2. made \in Made /\ i \in 1..Len(made) /\ i \in 1..MaxChunks
  BY CallIs DEF Telling, Placed, Pending
<1> HIDE DEF i, made, p
<1>3. /\ \A d \in Calls : /\ calls'[d].chunk = calls[d].chunk /\ calls'[d].chunks = calls[d].chunks
                          /\ calls'[d].gen = calls[d].gen
                          /\ d # c => calls'[d].pc = calls[d].pc
      /\ calls'[c].pc = "playing"
  BY <1>1 DEF Telling, InStep, Shaped, Shape
<1>4. <<c, i>> \in Chunks /\ <<c, i>>[1] = c
  BY <1>2 DEF Chunks
<1>5. tr \in Seq(Cue) /\ nextCue' \in 0..Len(tr)
  <2>1. tr \in Seq(Cue)
    BY <1>2, MadeIs
  <2> QED BY <1>1, <2>1, SoughtIs
<1>6. i = Len(made) /\ Marked(made) => nextCue' # Len(tr)
  <2> SUFFICES ASSUME i = Len(made), Marked(made) PROVE nextCue' # Len(tr)
    OBVIOUS
  <2>1. Len(tr) \in Nat \ {0} /\ tr[Len(tr)].t = Duration
    BY <1>2, EndIsRelease
  <2>2. Len(tr) \in 1..Len(tr) /\ tr[Len(tr)].t > 0
    BY <2>1, EngineAssumption
  <2>3. nextCue' < Len(tr)
    BY <1>1, <1>5, <2>2, SoughtIs
  <2> QED BY <1>5, <2>3
<1>7. SaysChunk'
  <2>1. calls'[c].chunks = made /\ calls'[c].chunk = i
    BY <1>3 DEF i, made
  <2>2. Len(tr) \in Nat /\ nextCue' <= Len(tr)
    BY <1>5
  <2> HIDE DEF tr
  <2> QED BY <1>1, <1>4, <1>6, <2>1, <2>2 DEF SaysChunk, tr
<1>8. TextHeld'
  <2> SUFFICES ASSUME NEW d \in Calls, Holds(d), asked.source = "text" PROVE \E x \in Calls : Holds(x)'
    BY <1>1 DEF Telling, TextHeld
  <2>1. d = c
    BY OneIsNewest DEF Telling, InStep, Holds, Pending
  <2>2. Holds(c)'
    BY <1>1, <1>3, <2>1 DEF Holds, Stale, Pending
  <2> QED BY <2>2
<1> QED BY <1>7, <1>8

LEMMA VoiceEndTells ==
    ASSUME Telling, NEW e \in Chunks, NEW how \in {"ended", "failed"}, VoiceTells(e, how)
    PROVE  SaysChunk' /\ TextHeld'
<1>1. CASE e = currentAudio
  <2> DEFINE c == e[1]
             made == calls[c].chunks
  <2>1. /\ c \in Calls /\ calls[c].pc = "playing" /\ ~Stale(c) /\ made \in Made
        /\ calls[c].chunk \in 1..Len(made) /\ track = made[calls[c].chunk]
        /\ track \in Seq(Timely) /\ track \in Seq(Cue) /\ nextCue \in 0..Len(track)
        /\ onAudioEnd = e /\ (track # <<>> => Marked(made))
    BY <1>1, VoiceIs
  <2>2. /\ FinishSpeech(e, how) /\ generation' = generation
        /\ calls' = [calls EXCEPT ![c].pc = "resumed"]
    BY <1>1, <2>1, NoChunkIsNone DEF VoiceTells, OnEnded, IsCurrent
  <2>3. currentAudio' = None /\ speaking' = FALSE /\ Walk(Duration)
    BY <2>2 DEF FinishSpeech
  <2>4. SaysChunk'
    BY <2>3, NoChunkIsNone DEF SaysChunk
  <2>5. /\ calls'[c].pc = "resumed" /\ calls'[c].chunk = calls[c].chunk
        /\ calls'[c].chunks = made /\ calls'[c].gen = calls[c].gen
    BY <2>1, <2>2 DEF Telling, InStep, Shaped, Shape
  <2>6. FaceTyped /\ Duration \in Nat
    BY EngineTypes, EngineAssumption DEF Telling
  <2>7. /\ nextCue' \in Nat /\ nextCue <= nextCue' /\ (nextCue' <= Len(track) \/ nextCue' = nextCue)
        /\ nextCue' = WalkedBy(track, nextCue, Duration)
        /\ nextCue' = nextCue => asked' = asked
        /\ nextCue < nextCue' /\ track[nextCue'].name = "neutral" => asked'.source # "text"
    BY <2>3, <2>6, WalkTyped
  <2>8. ASSUME asked'.source = "text" PROVE Marked(made) /\ calls[c].chunk # Len(made)
    <3>1. Marked(made)
      <4> SUFFICES ASSUME ~Marked(made) PROVE FALSE
        OBVIOUS
      <4>1. track = <<>>
        BY <2>1
      <4>2. nextCue' = nextCue
        BY <2>1, <2>7, <4>1
      <4>3. PICK d \in Calls : Holds(d)
        BY <2>7, <2>8, <4>2 DEF Telling, TextHeld
      <4>4. d = c
        BY <2>1, <4>3, OneIsNewest DEF Telling, InStep, Holds, Pending
      <4> QED BY <4>3, <4>4 DEF Holds
    <3>2. ASSUME calls[c].chunk = Len(made) PROVE FALSE
      <4>1. track = made[Len(made)]
        BY <2>1, <3>2
      <4>2. Len(track) \in Nat \ {0} /\ track[Len(track)].name = "neutral"
        BY <2>1, <3>1, <4>1, EndIsRelease
      <4>3. \A i \in 1..Len(track) : track[i].t <= Duration
        <5> SUFFICES ASSUME NEW i \in 1..Len(track) PROVE track[i].t <= Duration
          OBVIOUS
        <5>1. track[i] \in Timely
          BY <2>1
        <5> QED BY <5>1, <2>6 DEF Timely
      <4>4. nextCue' = Len(track)
        BY <2>1, <2>6, <2>7, <4>3, WalkedToEnd
      <4>5. nextCue = nextCue'
        BY <2>1, <2>7, <2>8, <4>2, <4>4
      <4>6. asked.source # "text"
        BY <1>1, <3>1, <3>2, <4>4, <4>5 DEF Telling, SaysChunk
      <4> QED BY <2>7, <2>8, <4>5, <4>6
    <3> QED BY <3>1, <3>2
  <2>9. TextHeld'
    <3> SUFFICES ASSUME asked'.source = "text" PROVE Holds(c)'
      BY <2>1 DEF TextHeld
    <3>1. Marked(made) /\ calls[c].chunk # Len(made)
      BY <2>8
    <3> QED BY <2>1, <2>2, <2>5, <3>1 DEF Holds, Stale, Pending
  <2> QED BY <2>4, <2>9
<1>2. CASE e # currentAudio
  <2>1. UNCHANGED <<speaking, currentAudio, track, nextCue, asked, calls, generation>>
    BY <1>2 DEF VoiceTells, OnEnded, IsCurrent, faceVars
  <2>2. \A d \in Calls : Holds(d) => Holds(d)'
    BY <2>1 DEF Holds, Stale, Pending
  <2> QED BY <2>1, <2>2, LeftAlone DEF Telling
<1> QED BY <1>1, <1>2

LEMMA GoOnTells ==
    ASSUME Telling, NEW c \in Calls, GoOn(c)
    PROVE  SaysChunk' /\ TextHeld'
<1>0. calls[c].pc = "resumed"
  BY DEF GoOn
<1>1. CASE Stale(c) \/ calls[c].chunk = Len(calls[c].chunks)
  BY <1>0, <1>1, ReturnsTell DEF GoOn
<1>2. CASE ~(Stale(c) \/ calls[c].chunk = Len(calls[c].chunks))
  <2>1. /\ calls' = [calls EXCEPT ![c].pc = "waiting", ![c].chunk = @ + 1]
        /\ UNCHANGED <<speaking, currentAudio, track, nextCue, asked, generation>>
    BY <1>2 DEF GoOn, engineVars
  <2>2. /\ calls'[c].pc = "waiting" /\ calls'[c].gen = calls[c].gen
        /\ calls'[c].chunks = calls[c].chunks
        /\ \A d \in Calls \ {c} : calls'[d] = calls[d]
    BY <2>1 DEF Telling, InStep, Shaped, Shape
  <2>3. ASSUME NEW d \in Calls, Holds(d) PROVE Holds(d)'
    <3>1. CASE d # c
      BY <2>1, <2>2, <2>3, <3>1 DEF Holds, Stale, Pending
    <3>2. CASE d = c
      BY <2>1, <2>2, <2>3, <3>2 DEF Holds, Stale, Pending
    <3> QED BY <3>1, <3>2
  <2>4. currentAudio \in Chunks => currentAudio[1] \in Calls \ {c}
    BY <1>0, VoiceIs DEF Chunks
  <2> QED BY <2>1, <2>2, <2>3, <2>4, LeftAlone DEF Telling
<1> QED BY <1>1, <1>2

LEMMA MovesTell ==
    ASSUME Telling, EngineMoves, UNCHANGED queueVars
    PROVE  SaysChunk' /\ TextHeld'
<1>0. UNCHANGED <<generation, calls>>
  BY DEF queueVars
<1>a. \A d \in Calls : Holds(d) => Holds(d)'
  BY <1>0 DEF Holds, Stale, Pending
<1>1. CASE UNCHANGED <<speaking, currentAudio, track, nextCue, asked>>
  BY <1>0, <1>1, <1>a, LeftAlone DEF Telling
<1>2. CASE Frame
  <2> DEFINE c == currentAudio[1]
             made == calls[c].chunks
  <2>1. /\ speaking /\ Walk(cueTime) /\ nextCue' # nextCue
        /\ UNCHANGED <<speaking, currentAudio, track>>
    BY <1>2 DEF Frame, voiceVars, Walk
  <2>2. currentAudio \in Chunks
    BY <2>1 DEF Telling, SaysChunk
  <2>3. /\ c \in Calls /\ calls[c].pc = "playing" /\ ~Stale(c) /\ made \in Made
        /\ calls[c].chunk \in 1..Len(made) /\ track = made[calls[c].chunk]
        /\ track \in Seq(Cue) /\ nextCue \in 0..Len(track) /\ (track # <<>> => Marked(made))
    BY <2>2, VoiceIs
  <2>4. FaceTyped /\ cueTime \in Nat
    BY EngineTypes DEF Telling, FaceTyped
  <2>5. /\ nextCue' \in Nat /\ nextCue <= nextCue' /\ (nextCue' <= Len(track) \/ nextCue' = nextCue)
        /\ nextCue < nextCue' /\ track[nextCue'].name = "neutral" => asked'.source # "text"
    BY <2>1, <2>4, WalkTyped
  <2>6. nextCue < nextCue' /\ nextCue' <= Len(track)
    BY <2>1, <2>3, <2>5
  <2>7. Marked(made)
    <3>1. track # <<>>
      BY <2>3, <2>5, <2>6
    <3> QED BY <2>3, <3>1
  <2>8. calls[c].chunk = Len(made) /\ nextCue' = Len(track) => asked'.source # "text"
    <3> SUFFICES ASSUME calls[c].chunk = Len(made), nextCue' = Len(track) PROVE asked'.source # "text"
      OBVIOUS
    <3>1. track[Len(track)].name = "neutral"
      BY <2>3, <2>7, EndIsRelease
    <3> QED BY <2>5, <2>6, <3>1
  <2>9. SaysChunk'
    BY <1>0, <2>1, <2>2, <2>3, <2>6, <2>8 DEF SaysChunk
  <2>10. Holds(c)
    BY <2>3, <2>7 DEF Holds, Pending
  <2>11. TextHeld'
    BY <1>a, <2>3, <2>10 DEF TextHeld
  <2> QED BY <2>9, <2>11
<1>3. ASSUME NEW name \in Names \cup {"neutral"}, Express(name) PROVE SaysChunk' /\ TextHeld'
  <2>1. asked'.source # "text" /\ UNCHANGED <<speaking, currentAudio, track, nextCue>>
    BY <1>3 DEF Express, Neutral, voiceVars
  <2>2. SaysChunk'
    BY <1>0, <2>1 DEF Telling, SaysChunk
  <2> QED BY <2>1, <2>2 DEF TextHeld
<1>4. ASSUME NEW e \in Elements, Heard(e) \/ Advance(e)
      PROVE  UNCHANGED <<speaking, currentAudio, track, nextCue, asked>>
  BY <1>4 DEF Heard, Advance, TimePasses, faceVars, voiceVars
<1> QED BY <1>1, <1>2, <1>3, <1>4 DEF EngineMoves

LEMMA TellingAtFirst == EngineInit /\ QueueInit => Telling
<1> SUFFICES ASSUME EngineInit, QueueInit PROVE Telling
  OBVIOUS
<1>1. InStep /\ EngineTypeOK
  BY InStepAtFirst, EngineTypedAtFirst
<1>2. calls = [c \in Calls |-> [pc |-> "idle", gen |-> 0, chunks |-> <<>>, chunk |-> 1,
                                pending |-> "none"]] /\ active = FALSE /\ stops = 0
  BY DEF QueueInit
<1>3. Placed
  <2>1. \A c \in Calls : calls[c].pc = "idle" /\ calls[c].chunk = 1
    BY <1>2
  <2>2. 1 \in 1..MaxChunks /\ 0 \in 0..MaxStops
    BY QueueAssumption
  <2> QED BY <1>2, <2>1, <2>2 DEF Placed, Pending
<1>4. SaysChunk /\ TextHeld
  BY NoChunkIsNone DEF EngineInit, SaysChunk, TextHeld, Neutral
<1> QED BY <1>1, <1>3, <1>4 DEF Telling

LEMMA TellingKept == Telling /\ [QueueNext]_queueSpecVars => Telling'
<1> SUFFICES ASSUME Telling, [QueueNext]_queueSpecVars PROVE Telling'
  OBVIOUS
<1>1. InStep' /\ Placed'
  BY InStepKept, PlacedKept DEF Telling
<1>2. EngineTypeOK'
  <2>1. QueueNext => EngineTypeOK'
    BY QueueCallsEngine, EngineCallTyped, EngineMovesTyped DEF Telling
  <2>2. UNCHANGED queueSpecVars => EngineTypeOK'
    BY EngineCallTyped DEF Telling, queueSpecVars, EngineCall
  <2> QED BY <2>1, <2>2
<1>3. SaysChunk' /\ TextHeld'
  <2>1. ASSUME NEW c \in Calls, NEW text \in Texts, Speak(c, text) PROVE SaysChunk' /\ TextHeld'
    BY <2>1, StopSpeechSilences, SilentNow DEF Speak
  <2>2. ASSUME NEW c \in Calls, NEW answer \in {"ready", "refused"}, SynthAnswers(c, answer)
        PROVE  SaysChunk' /\ TextHeld'
    BY <2>2, AnswerTells
  <2>3. ASSUME NEW c \in Calls, TakeChunk(c) PROVE SaysChunk' /\ TextHeld'
    BY <2>3, PlayTells, ReturnsTell DEF TakeChunk
  <2>4. ASSUME NEW c \in Calls, ChunkRefused(c) PROVE SaysChunk' /\ TextHeld'
    <3>1. CASE Stale(c)
      BY <2>4, <3>1, ReturnsTell DEF ChunkRefused
    <3>2. CASE ~Stale(c)
      <4>1. Returns(c, "failed") /\ calls[c].pc = "waiting"
        BY <2>4, <3>2 DEF ChunkRefused
      <4> QED BY <4>1, ReturnsTell
    <3> QED BY <3>1, <3>2
  <2>5. ASSUME NEW c \in Calls, GoOn(c) PROVE SaysChunk' /\ TextHeld'
    BY <2>5, GoOnTells
  <2>6. QueueStop => SaysChunk' /\ TextHeld'
    BY StopSpeechSilences, SilentNow DEF QueueStop
  <2>7. ASSUME NEW e \in Chunks, NEW how \in {"ended", "failed"}, VoiceTells(e, how)
        PROVE  SaysChunk' /\ TextHeld'
    BY <2>7, VoiceEndTells
  <2>8. EngineMoves /\ UNCHANGED queueVars => SaysChunk' /\ TextHeld'
    BY MovesTell
  <2>9. ASSUME UNCHANGED queueSpecVars PROVE SaysChunk' /\ TextHeld'
    <3>1. UNCHANGED <<speaking, currentAudio, track, nextCue, asked, generation, calls>>
      BY <2>9 DEF queueSpecVars, engineVars, queueVars
    <3>2. \A d \in Calls : Holds(d) => Holds(d)'
      BY <3>1 DEF Holds, Stale, Pending
    <3> QED BY <3>1, <3>2, LeftAlone DEF Telling
  <2> QED BY <2>1, <2>2, <2>3, <2>4, <2>5, <2>6, <2>7, <2>8, <2>9 DEF QueueNext
<1> QED BY <1>1, <1>2, <1>3 DEF Telling

=============================================================================
