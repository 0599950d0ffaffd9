-------------------------- MODULE SpeechStreamProofs --------------------------
(***************************************************************************)
(* Theorems about SpeechStream, for any streams, latency and recordings    *)
(* and without the runs' bound on time.                                    *)
(***************************************************************************)
EXTENDS SpeechStream, FaceEngineProofs, FiniteSetTheorems

-----------------------------------------------------------------------------
(* The timeline                                                            *)

Length(span) == span.end - span.start

\* Spans one after the other, on the clock and in the content, up to `upTo`.
InOrderUpTo(list, upTo) ==
    /\ \A i \in 1..Len(list) : /\ list[i].start <= list[i].end
                               /\ list[i].offset + Length(list[i]) <= upTo
    /\ \A i, j \in 1..Len(list) : i < j =>
        /\ list[i].end <= list[j].start
        /\ list[i].offset + Length(list[i]) <= list[j].offset

Started(list, time) == {i \in 1..Len(list) : list[i].start <= time}

LEMMA FirstOfMany ==
    ASSUME NEW n \in Nat
    PROVE  IsFiniteSet(1..n) /\ Cardinality(1..n) = n
<1>1. IsFiniteSet(1..n) /\ Cardinality(1..n) = IF 1 > n THEN 0 ELSE n - 1 + 1
  BY FS_Interval
<1> QED BY <1>1

LEMMA SpansAreNumbers ==
    ASSUME NEW list \in Seq(Span), NEW i \in 1..Len(list)
    PROVE  list[i].start \in Nat /\ list[i].end \in Nat /\ list[i].offset \in Nat
<1>1. list[i] \in Span
  OBVIOUS
<1> QED BY <1>1 DEF Span

\* Those started are the first ones.
LEMMA StartedFirst ==
    ASSUME NEW list \in Seq(Span), NEW upTo, InOrderUpTo(list, upTo), NEW time \in Nat
    PROVE  \E k \in 0..Len(list) : Started(list, time) = 1..k /\ Cardinality(Started(list, time)) = k
<1> DEFINE S == Started(list, time)
           k == Cardinality(S)
<1>1. S \subseteq 1..Len(list) /\ Len(list) \in Nat
  BY DEF Started
<1>2. IsFiniteSet(S) /\ k \in Nat /\ k <= Len(list)
  BY <1>1, FirstOfMany, FS_Subset, FS_CardinalityType
<1>3. ASSUME NEW i \in S, NEW j \in 1..i PROVE j \in S
  <2>1. i \in 1..Len(list) /\ j \in 1..Len(list) /\ list[i].start <= time
    BY DEF Started
  <2>2. CASE j = i
    BY <2>2
  <2>3. CASE j < i
    <3>1. list[j].start <= list[j].end /\ list[j].end <= list[i].start
      BY <2>1, <2>3 DEF InOrderUpTo
    <3>2. list[j].start <= time
      BY <2>1, <3>1, SpansAreNumbers
    <3> QED BY <2>1, <3>2 DEF Started
  <2> QED BY <2>1, <2>2, <2>3
<1>4. ASSUME NEW i \in S PROVE i <= k
  <2>1. i \in Nat /\ 1..i \subseteq S
    BY <1>1, <1>3
  <2>2. Cardinality(1..i) <= k
    BY <1>2, <2>1, FS_Subset
  <2> QED BY <2>1, <2>2, FirstOfMany
<1>5. ASSUME NEW i \in 1..k, i \notin S PROVE FALSE
  <2>1. ASSUME NEW n \in S PROVE n \in 1..(i - 1)
    BY <1>1, <1>3, <1>5
  <2>2. k <= Cardinality(1..(i - 1))
    <3>1. i - 1 \in Nat
      BY <1>2
    <3> QED BY <2>1, <3>1, FirstOfMany, FS_Subset
  <2>3. Cardinality(1..(i - 1)) = i - 1
    <3>1. i - 1 \in Nat
      BY <1>2
    <3> QED BY <3>1, FirstOfMany
  <2> QED BY <1>2, <2>2, <2>3
<1>6. S = 1..k
  <2>1. ASSUME NEW i \in S PROVE i \in 1..k
    <3>1. i \in 1..Len(list)
      BY <1>1
    <3> QED BY <1>2, <1>4, <3>1
  <2>2. ASSUME NEW i \in 1..k PROVE i \in S
    BY <1>5, <2>2
  <2> HIDE DEF S, k
  <2> QED BY <2>1, <2>2
<1> QED BY <1>2, <1>6

\* What is heard at a time.
HeardAt(list, k, time) ==
    list[k].offset + (IF time < list[k].end THEN time ELSE list[k].end) - list[k].start

LEMMA PositionIs ==
    ASSUME NEW list \in Seq(Span), NEW upTo, InOrderUpTo(list, upTo), NEW time \in Nat
    PROVE  \E k \in 0..Len(list) :
              /\ Started(list, time) = 1..k
              /\ Position(list, time) = IF k = 0 THEN 0 ELSE HeardAt(list, k, time)
<1>1. PICK k \in 0..Len(list) : /\ Started(list, time) = 1..k
                                /\ Cardinality(Started(list, time)) = k
  BY StartedFirst
<1>2. Started(list, time) = {} <=> k = 0
  BY <1>1
<1> QED BY <1>1, <1>2 DEF Position, Started, HeardAt

\* The position only moves on.
LEMMA PositionGrows ==
    ASSUME NEW list \in Seq(Span), NEW upTo, InOrderUpTo(list, upTo),
           NEW a \in Nat, NEW b \in Nat, a <= b
    PROVE  Position(list, a) \in Nat /\ Position(list, a) <= Position(list, b)
<1>1. PICK j \in 0..Len(list) : /\ Started(list, a) = 1..j
                                /\ Position(list, a) = IF j = 0 THEN 0 ELSE HeardAt(list, j, a)
  BY PositionIs
<1>2. PICK k \in 0..Len(list) : /\ Started(list, b) = 1..k
                                /\ Position(list, b) = IF k = 0 THEN 0 ELSE HeardAt(list, k, b)
  BY PositionIs
<1>3. j <= k
  <2>1. j # 0 => j \in Started(list, b)
    <3>1. j # 0 => j \in 1..Len(list) /\ j \in Started(list, a)
      BY <1>1
    <3> QED BY <3>1, SpansAreNumbers DEF Started
  <2> QED BY <1>2, <2>1
<1>a. ASSUME NEW i \in 1..Len(list)
      PROVE  /\ list[i].start \in Nat /\ list[i].end \in Nat /\ list[i].offset \in Nat
             /\ list[i].start <= list[i].end
  BY SpansAreNumbers DEF InOrderUpTo
<1>4. ASSUME NEW i \in 1..Len(list), NEW t \in Nat, i \in Started(list, t)
      PROVE  /\ HeardAt(list, i, t) \in Nat /\ list[i].offset <= HeardAt(list, i, t)
             /\ HeardAt(list, i, t) <= list[i].offset + Length(list[i])
  <2>1. list[i].start <= t
    BY <1>4 DEF Started
  <2>2. ASSUME NEW s \in Nat, NEW e \in Nat, NEW o \in Nat, s <= e, s <= t
        PROVE  LET at == o + (IF t < e THEN t ELSE e) - s
               IN at \in Nat /\ o <= at /\ at <= o + (e - s)
    BY <2>2
  <2> QED BY <1>a, <2>1, <2>2 DEF HeardAt, Length
<1>5. j # 0 => HeardAt(list, j, a) \in Nat
  BY <1>1, <1>4
<1>6. CASE j = 0
  BY <1>1, <1>2, <1>4, <1>6
<1>7. CASE j # 0 /\ j = k
  <2>1. HeardAt(list, j, a) <= HeardAt(list, j, b)
    BY <1>a, <1>7 DEF HeardAt
  <2> QED BY <1>1, <1>2, <1>5, <1>7, <2>1
<1>8. CASE j # 0 /\ j < k
  <2>1. j \in 1..Len(list) /\ k \in 1..Len(list) /\ j \in Started(list, a) /\ k \in Started(list, b)
    BY <1>1, <1>2, <1>8
  <2>2. HeardAt(list, j, a) <= list[j].offset + Length(list[j])
        /\ list[k].offset <= HeardAt(list, k, b) /\ HeardAt(list, k, b) \in Nat
    BY <1>4, <2>1
  <2>3. list[j].offset + Length(list[j]) <= list[k].offset
    BY <1>8, <2>1 DEF InOrderUpTo
  <2>4. list[j].offset + Length(list[j]) \in Int /\ list[k].offset \in Nat
    BY <1>a, <2>1 DEF Length
  <2> QED BY <1>1, <1>2, <1>5, <1>8, <2>2, <2>3, <2>4
<1> QED BY <1>3, <1>6, <1>7, <1>8

\* A phrase scheduled joins on.
Joined(list, upTo) ==
    /\ \A i \in 1..Len(list) :
        list[i].offset = IF i = 1 THEN 0
                         ELSE list[i - 1].offset + list[i - 1].end - list[i - 1].start
    /\ \A i \in 2..Len(list) : list[i - 1].end <= list[i].start
    /\ list # <<>> => Last(list).offset + Last(list).end - Last(list).start = upTo
    /\ list = <<>> => upTo = 0

\* One span more, at `upTo` in the content and d long.
Adds(list, more, upTo, d) ==
    /\ Len(more) = Len(list) + 1
    /\ \A i \in 1..Len(list) : more[i] = list[i]
    /\ more[Len(list) + 1].offset = upTo
    /\ more[Len(list) + 1].end - more[Len(list) + 1].start = d

LEMMA ScheduledJoins ==
    ASSUME NEW list \in Seq(Span), NEW upTo \in Nat, InOrderUpTo(list, upTo), Joined(list, upTo),
           NEW time \in Nat, NEW d \in Nat
    PROVE  /\ Scheduled(list, time, d, upTo) \in Seq(Span)
           /\ InOrderUpTo(Scheduled(list, time, d, upTo), upTo + d)
           /\ Joined(Scheduled(list, time, d, upTo), upTo + d)
           /\ Adds(list, Scheduled(list, time, d, upTo), upTo, d)
<1> DEFINE n == Len(list)
           start == IF list = <<>> \/ Last(list).end < time + 1 THEN time + 1 ELSE Last(list).end
           new == [start |-> start, end |-> start + d, offset |-> upTo]
           more == Append(list, new)
<1>0. /\ n \in Nat /\ (list = <<>> <=> n = 0)
      /\ \A i \in 1..n : list[i] \in Span
      /\ n # 0 => n \in 1..n /\ Last(list) = list[n]
  BY DEF Last
<1>1. Scheduled(list, time, d, upTo) = more
  BY DEF Scheduled
<1>2. start \in Nat /\ (n # 0 => list[n].end <= start)
  <2>1. CASE n = 0
    BY <1>0, <2>1
  <2>2. CASE n # 0
    <3>1. Last(list) = list[n] /\ list[n].end \in Nat /\ list # <<>>
      BY <1>0, <2>2 DEF Span
    <3>2. start = IF list[n].end < time + 1 THEN time + 1 ELSE list[n].end
      BY <3>1
    <3> HIDE DEF start, n
    <3> QED BY <3>1, <3>2
  <2> QED BY <2>1, <2>2
<1>3. new \in Span /\ new.start = start /\ new.end = start + d /\ new.offset = upTo
  BY <1>2 DEF Span
<1> HIDE DEF start, new
<1>4. /\ more \in Seq(Span) /\ Len(more) = n + 1 /\ more[n + 1] = new
      /\ \A i \in 1..n : more[i] = list[i]
      /\ more # <<>> /\ Last(more) = new
  BY <1>0, <1>3 DEF Last
<1> HIDE DEF n, more
<1>a. \A i \in 1..n : list[i].start \in Nat /\ list[i].end \in Nat /\ list[i].offset \in Nat
  BY <1>0 DEF Span
<1>b. \A i \in 1..(n + 1) : i = n + 1 \/ i \in 1..n
  BY <1>0
<1>5. InOrderUpTo(more, upTo + d)
  <2>1. \A i \in 1..n : /\ list[i].start <= list[i].end
                        /\ list[i].offset + Length(list[i]) <= upTo
    BY DEF InOrderUpTo, n
  <2>2. \A i, j \in 1..n : i < j => /\ list[i].end <= list[j].start
                                    /\ list[i].offset + Length(list[i]) <= list[j].offset
    BY DEF InOrderUpTo, n
  <2>3. \A i \in 1..n : list[i].end <= start
    <3>1. ASSUME NEW i \in 1..n, i # n PROVE list[i].end <= start
      <4>1. n \in 1..n /\ i < n
        BY <1>0, <3>1
      <4>2. list[i].end <= list[n].start /\ list[n].start <= list[n].end /\ list[n].end <= start
        BY <1>0, <1>2, <2>1, <2>2, <4>1
      <4> QED BY <1>2, <1>a, <4>1, <4>2
    <3> QED BY <1>0, <1>2, <3>1
  <2>4. ASSUME NEW i \in 1..(n + 1)
        PROVE  more[i].start <= more[i].end /\ more[i].offset + Length(more[i]) <= upTo + d
    <3>1. CASE i = n + 1
      BY <1>2, <1>3, <1>4, <3>1 DEF Length
    <3>2. CASE i \in 1..n
      BY <1>4, <1>a, <2>1, <3>2 DEF Length
    <3> QED BY <1>b, <3>1, <3>2
  <2>5. ASSUME NEW i \in 1..(n + 1), NEW j \in 1..(n + 1), i < j
        PROVE  more[i].end <= more[j].start /\ more[i].offset + Length(more[i]) <= more[j].offset
    <3>1. i \in 1..n
      BY <1>0, <2>5
    <3>2. CASE j = n + 1
      BY <1>3, <1>4, <2>1, <2>3, <3>1, <3>2
    <3>3. CASE j \in 1..n
      BY <1>4, <2>2, <2>5, <3>1, <3>3
    <3> QED BY <1>b, <3>2, <3>3
  <2> QED BY <1>4, <2>4, <2>5 DEF InOrderUpTo
<1>6. Joined(more, upTo + d)
  <2>1. ASSUME NEW i \in 1..(n + 1)
        PROVE  more[i].offset = IF i = 1 THEN 0
                                ELSE more[i - 1].offset + more[i - 1].end - more[i - 1].start
    <3>1. CASE i \in 1..n
      <4>1. i # 1 => i - 1 \in 1..n
        BY <1>0, <3>1
      <4> QED BY <1>4, <3>1, <4>1 DEF Joined, n
    <3>2. CASE i = n + 1 /\ n = 0
      BY <1>0, <1>3, <1>4, <3>2 DEF Joined
    <3>3. CASE i = n + 1 /\ n # 0
      <4>1. list[n].offset + list[n].end - list[n].start = upTo
        BY <1>0, <3>3 DEF Joined
      <4>2. i - 1 = n /\ i # 1 /\ n \in 1..n
        BY <1>0, <3>3
      <4> QED BY <1>3, <1>4, <3>3, <4>1, <4>2
    <3> QED BY <1>b, <3>1, <3>2, <3>3
  <2>2. ASSUME NEW i \in 2..(n + 1) PROVE more[i - 1].end <= more[i].start
    <3>1. i - 1 \in 1..n /\ (i \in 2..n \/ i = n + 1)
      BY <1>0
    <3>2. CASE i \in 2..n
      <4>1. i \in 1..n
        BY <3>2
      <4> QED BY <1>4, <3>1, <3>2, <4>1 DEF Joined, n
    <3>3. CASE i = n + 1
      BY <1>0, <1>2, <1>3, <1>4, <3>1, <3>3
    <3> QED BY <3>1, <3>2, <3>3
  <2>3. Last(more).offset + Last(more).end - Last(more).start = upTo + d
    BY <1>2, <1>3, <1>4
  <2> QED BY <1>4, <2>1, <2>2, <2>3 DEF Joined
<1>7. Adds(list, more, upTo, d)
  <2>1. new.offset = upTo /\ new.end - new.start = d
    BY <1>2, <1>3
  <2> QED BY <1>4, <2>1 DEF Adds, n
<1> QED BY <1>1, <1>4, <1>5, <1>6, <1>7

-----------------------------------------------------------------------------
(* The inductive invariant                                                 *)

Timed ==
    /\ frames \in Streams /\ read \in 0..Len(frames)
    /\ spans \in Seq(Span) /\ samples \in Nat
    /\ now \in Nat /\ lastTime \in 0..now /\ sinceTick \in 0..MaxLate

\* Each phrase queued is one a frame read has said.
Sourced ==
    /\ Len(spans) = chunks
    /\ \A i \in 1..Len(spans) : \E k \in 1..read : SaysPhrase(frames[k], i, spans[i])

Line == InOrderUpTo(spans, samples) /\ Joined(spans, samples) /\ Sourced

\* A mouth that moves has no element, and keeps to the sound.
Mouth ==
    /\ MouthKeepsToSound
    /\ streamSpeaking => currentAudio = None /\ cueTime \in Nat

\* The answer is read on, or left.
ReadsOn == read' \in 0..Len(frames) /\ read <= read'

\* How far the answer's reader is, why a player stopped, and that nothing but
\* a whole recording is played as an element.
Recorded ==
    /\ Begun(Recording) => whole
    /\ \A e \in Elements \ {Recording} : ~Begun(e)
Course ==
    /\ Recorded
    /\ reader = "playing" => whole
    /\ reader = "draining" => ~whole /\ sealed /\ recording = "resolved"
    /\ sealed => reader \notin {"unasked", "fetching", "reading"}
    /\ playerStopped /\ ~handleStopped =>
          \/ whole /\ reader \in {"playing", "resolved"}
          \/ sealed /\ TimelineOver(spans, now)
    /\ ResolvedMeansHeard

InTune == Voices /\ Timed /\ Line /\ Mouth /\ Course /\ StoppedIsSilent

-----------------------------------------------------------------------------
(* The player and the handle                                               *)

LEMMA ClosingIsSteady ==
    ASSUME Voices, CloseMouth
    PROVE  Voices' /\ Steady /\ ~streamSpeaking'
<1>1. CASE streamSpeaking
  BY <1>1, StoppingIsSteady DEF CloseMouth, StopSpeech
<1>2. CASE ~streamSpeaking
  <2>1. UNCHANGED <<element, currentAudio>> /\ streamSpeaking' = FALSE
    BY <1>2 DEF CloseMouth, engineVars
  <2> QED BY <2>1 DEF Voices, OneVoice, HeldPlays, Steady, SteadyBut, IsOver, Begun
<1> QED BY <1>1, <1>2

\* What is over stays over.
LEMMA OverLater ==
    ASSUME NEW list \in Seq(Span), NEW a \in Nat, NEW b \in Nat, a <= b, TimelineOver(list, a)
    PROVE  TimelineOver(list, b)
<1>1. list # <<>> /\ Last(list).end <= a
  BY DEF TimelineOver
<1>2. Last(list) \in Span
  BY <1>1 DEF Last
<1>3. Last(list).end \in Nat
  BY <1>2 DEF Span
<1> QED BY <1>1, <1>3 DEF TimelineOver

\* A tick leaves the mouth shut, or where the sound is; and it stops the player
\* only past the end of all it has.
MouthPut(list) ==
    /\ currentAudio' = None /\ speaking' /\ cueTime' \in Nat
    /\ TimelineActive(list, lastTime')
    /\ cueTime' = Position(list, lastTime')

LEMMA TickIsInTune ==
    ASSUME Voices, Mouth, ~playerStopped, now \in Nat, lastTime \in 0..now,
           NEW list \in Seq(Span), NEW upTo, InOrderUpTo(list, upTo),
           NEW held, NEW seal, NEW len, TickOn(held, list, seal, len)
    PROVE  /\ Voices' /\ Steady /\ lastTime' \in 0..now
           /\ sinceTick' = 0
           /\ streamSpeaking' => ~held /\ MouthPut(list)
           /\ playerStopped' => seal /\ TimelineOver(list, now)
<1>1. PICK time \in Outputs(held) :
        /\ lastTime' = time /\ sinceTick' = 0
        /\ playerStopped' = (~held /\ seal /\ TimelineOver(list, time))
        /\ CloseMouth \/ (~held /\ TimelineActive(list, time) /\ OpenMouth(list, time, len))
  <2>1. PICK time \in Outputs(held) :
          /\ lastTime' = time /\ sinceTick' = 0
          /\ playerStopped' = (~held /\ seal /\ TimelineOver(list, time))
          /\ IF ~held /\ seal /\ TimelineOver(list, time) THEN CloseMouth
             ELSE MouthAt(held, list, time, len)
    BY DEF TickOn
  <2>2. CloseMouth \/ (~held /\ TimelineActive(list, time) /\ OpenMouth(list, time, len))
    BY <2>1 DEF MouthAt
  <2> QED BY <2>1, <2>2
<1>2. time \in 0..now
  BY <1>1 DEF Outputs
<1>3. playerStopped' => seal /\ TimelineOver(list, now)
  <2>1. playerStopped' => seal /\ TimelineOver(list, time)
    BY <1>1
  <2>2. time \in Nat /\ time <= now
    BY <1>2
  <2> QED BY <2>1, <2>2, OverLater
<1>4. CASE CloseMouth
  BY <1>1, <1>2, <1>3, <1>4, ClosingIsSteady
<1>5. CASE ~held /\ TimelineActive(list, time) /\ OpenMouth(list, time, len)
  <2>1. /\ speaking' = TRUE /\ cueTime' = Position(list, time)
        /\ IF streamSpeaking THEN UNCHANGED voiceVars ELSE StopAudio
    BY <1>5 DEF OpenMouth
  <2>2. Position(list, time) \in Nat
    BY <1>2, PositionGrows
  <2>3. Voices' /\ Steady /\ currentAudio' = None
    <3>1. CASE streamSpeaking
      <4>1. UNCHANGED <<element, currentAudio>> /\ currentAudio = None
        BY <2>1, <3>1 DEF voiceVars, Mouth
      <4> QED BY <4>1 DEF Voices, OneVoice, HeldPlays, Steady, SteadyBut, IsOver, Begun
    <3>2. CASE ~streamSpeaking
      BY <2>1, <3>2, StoppingIsSteady
    <3> QED BY <3>1, <3>2
  <2> QED BY <1>1, <1>2, <1>3, <1>5, <2>1, <2>2, <2>3 DEF MouthPut
<1> QED BY <1>1, <1>4, <1>5

LEMMA StoppedHandleIsSilent ==
    ASSUME Voices, StoppedIsSilent, StopHandle
    PROVE  Voices' /\ Steady /\ handleStopped' /\ ~streamSpeaking' /\ StoppedIsSilent'
<1>1. CASE handleStopped
  <2>1. UNCHANGED <<element, currentAudio, speaking, handleStopped, playerStopped, streamSpeaking>>
    BY <1>1 DEF StopHandle, engineVars
  <2> QED BY <1>1, <2>1 DEF StoppedIsSilent, Voices, OneVoice, HeldPlays, Steady, SteadyBut, IsOver, Begun
<1>2. CASE ~handleStopped
  <2>1. StopSpeech /\ handleStopped' = TRUE /\ playerStopped' = TRUE /\ streamSpeaking' = FALSE
    BY <1>2 DEF StopHandle
  <2>2. speaking' = FALSE /\ StopAudio
    BY <2>1 DEF StopSpeech
  <2> QED BY <2>1, <2>2, StoppingIsSteady, StreamAssumption DEF StoppedIsSilent
<1> QED BY <1>1, <1>2

\* A steady step begins no recording.
LEMMA RecordingIsNew ==
    ASSUME Steady, Recorded, whole' = whole
    PROVE  Recorded'
BY StreamAssumption DEF Recorded, Steady, SteadyBut

\* A step that stops nothing keeps the course.
LEMMA CourseIsKept ==
    ASSUME Timed, Course, Steady, now' \in Nat, now <= now',
           UNCHANGED <<reader, whole, recording, sealed, spans, handleStopped>>,
           playerStopped' => playerStopped \/ (sealed /\ TimelineOver(spans, now))
    PROVE  Course'
<1>1. TimelineOver(spans, now) => TimelineOver(spans, now')
  BY OverLater DEF Timed
<1>2. IsOver(Recording) => IsOver(Recording)'
  BY StreamAssumption DEF Steady, SteadyBut
<1>3. ResolvedMeansHeard'
  BY <1>1, <1>2 DEF Course, ResolvedMeansHeard, IsOver
<1>4. Recorded'
  BY RecordingIsNew DEF Course
<1> QED BY <1>1, <1>3, <1>4 DEF Course, TimelineOver

-----------------------------------------------------------------------------
(* The actions                                                             *)

\* A step that leaves the timeline keeps it.
LEMMA SameLine ==
    ASSUME Timed, Line, UNCHANGED <<frames, spans, samples, chunks>>, read' = read \/ ReadsOn
    PROVE  Line'
<1>1. 1..read \subseteq 1..read'
  BY StreamAssumption DEF Timed, ReadsOn
<1>2. Sourced'
  BY <1>1 DEF Line, Sourced
<1> QED BY <1>2 DEF Line, InOrderUpTo, Joined, Length

\* While frames are read, the player takes more.
LEMMA StillReading ==
    ASSUME Course, reader = "reading", ~handleStopped
    PROVE  ~playerStopped /\ ~sealed
BY DEF Course

LEMMA RejectsInTune ==
    ASSUME InTune, Rejects, read' = read \/ ReadsOn
    PROVE  InTune'
<1>1. /\ reader' = "rejected" /\ StopHandle
      /\ UNCHANGED <<frames, samples, chunks, whole, spans, sealed, lastTime, now, sinceTick>>
  BY DEF Rejects, Rejecting, assemblyVars, contextVars
<1>2. /\ Voices' /\ Steady /\ handleStopped' /\ ~streamSpeaking' /\ StoppedIsSilent'
  BY <1>1, StoppedHandleIsSilent DEF InTune
<1>3. Line'
  BY <1>1, SameLine DEF InTune
<1>4. Timed' /\ Mouth'
  BY <1>1, <1>2 DEF InTune, Timed, Mouth, MouthKeepsToSound, ReadsOn
<1>5. Course'
  BY <1>1, <1>2, RecordingIsNew DEF InTune, Course, ResolvedMeansHeard
<1> QED BY <1>2, <1>3, <1>4, <1>5 DEF InTune

\* Where a tick puts it, the mouth keeps to the sound.
LEMMA MouthIsPut ==
    ASSUME sinceTick' = 0, streamSpeaking' => ~paused' /\ MouthPut(spans')
    PROVE  Mouth'
<1> SUFFICES ASSUME streamSpeaking' PROVE Mouth'
  BY DEF Mouth, MouthKeepsToSound
<1>1. /\ currentAudio' = None /\ speaking' /\ cueTime' \in Nat
      /\ TimelineActive(spans, lastTime)' /\ cueTime' = Position(spans, lastTime)'
  BY DEF MouthPut, TimelineActive, Position
<1> QED BY <1>1 DEF Mouth, MouthKeepsToSound

LEMMA TickInTune ==
    ASSUME InTune, Tick \/ Resume
    PROVE  InTune'
<1>1. PICK held : TickOn(held, spans, sealed, length) /\ (~held => ~paused')
  <2>1. CASE Tick
    <3>1. TickOn(Held, spans, sealed, length) /\ paused' = paused
      BY <2>1 DEF Tick
    <3>2. ~Held => ~paused'
      BY <3>1 DEF Held
    <3> QED BY <3>1, <3>2
  <2>2. CASE Resume
    <3>1. TickOn(FALSE, spans, sealed, length) /\ ~paused'
      BY <2>2 DEF Resume
    <3> QED BY <3>1
  <2> QED BY <2>1, <2>2
<1>2. /\ ~playerStopped
      /\ UNCHANGED <<frames, read, reader, handleStopped, recording, samples, chunks, whole, spans,
                     sealed, now>>
  BY DEF Tick, Resume, handleVars, assemblyVars
<1>3. now \in Nat /\ lastTime \in 0..now /\ spans \in Seq(Span) /\ InOrderUpTo(spans, samples)
  BY DEF InTune, Timed, Line
<1>4. /\ Voices' /\ Steady /\ lastTime' \in 0..now /\ sinceTick' = 0
      /\ streamSpeaking' => ~held /\ MouthPut(spans)
      /\ playerStopped' => sealed /\ TimelineOver(spans, now)
  BY <1>1, <1>2, <1>3, TickIsInTune DEF InTune
<1>5. Timed' /\ Line'
  BY <1>2, <1>3, <1>4, SameLine, StreamAssumption DEF InTune, Timed
<1>6. Mouth'
  BY <1>1, <1>2, <1>4, MouthIsPut
<1>7. Course'
  BY <1>2, <1>3, <1>4, CourseIsKept DEF InTune
<1>8. StoppedIsSilent'
  BY <1>2 DEF InTune, StoppedIsSilent
<1> QED BY <1>4, <1>5, <1>6, <1>7, <1>8 DEF InTune

LEMMA PauseInTune == ASSUME InTune, Pause PROVE InTune'
<1>1. /\ ~playerStopped /\ CloseMouth /\ lastTime' \in Outputs(Held)
      /\ UNCHANGED <<frames, read, reader, handleStopped, recording, samples, chunks, whole, spans,
                     sealed, playerStopped, now, sinceTick>>
  BY DEF Pause, handleVars, assemblyVars, contextVars
<1>2. Voices' /\ Steady /\ ~streamSpeaking'
  BY <1>1, ClosingIsSteady DEF InTune
<1>3. lastTime' \in 0..now
  BY <1>1 DEF InTune, Timed, Outputs
<1>4. Timed' /\ Line' /\ Mouth'
  BY <1>1, <1>2, <1>3, SameLine DEF InTune, Timed, Mouth, MouthKeepsToSound
<1>5. Course'
  BY <1>1, <1>2, CourseIsKept DEF InTune, Timed
<1>6. StoppedIsSilent'
  BY <1>1 DEF InTune, StoppedIsSilent
<1> QED BY <1>2, <1>4, <1>5, <1>6 DEF InTune

\* The context's clock and state, and the page's and browser's moves.
LEMMA MovesInTune ==
    ASSUME InTune,
           \/ Unlock \/ Interrupted \/ ContextClock \/ FramesRun
           \/ EngineMoves /\ UNCHANGED streamVars
    PROVE  InTune'
<1>1. /\ UNCHANGED <<frames, read, reader, handleStopped, recording, samples, chunks, whole, spans,
                     sealed, playerStopped, streamSpeaking, paused, lastTime>>
      /\ now' = now \/ now' = now + 1
  BY DEF Unlock, Interrupted, ContextClock, FramesRun, streamVars, handleVars, assemblyVars,
         playerVars, contextVars
<1>2. /\ now \in Nat /\ now' \in Nat /\ now <= now' /\ lastTime \in 0..now /\ spans \in Seq(Span)
      /\ InOrderUpTo(spans, samples) /\ sinceTick \in 0..MaxLate /\ MaxLate \in Nat
  BY <1>1, StreamAssumption DEF InTune, Timed, Line
<1>3. /\ Voices' /\ Steady /\ UNCHANGED <<currentAudio, speaking>>
      /\ \A e \in Elements : element'[e] \in {"asked", "heard"} <=> element[e] \in {"asked", "heard"}
  <2>1. CASE UNCHANGED engineVars
    <3>1. UNCHANGED <<element, currentAudio, speaking>>
      BY <2>1 DEF engineVars
    <3> QED BY <3>1 DEF InTune, Voices, OneVoice, HeldPlays, Steady, SteadyBut, IsOver, Begun
  <2>2. CASE EngineMoves \/ FrameClock
    BY <2>2, MovingIsSteady DEF InTune
  <2> QED BY <2>1, <2>2 DEF Unlock, Interrupted, ContextClock, FramesRun
<1>4. /\ sinceTick' \in 0..MaxLate
      /\ streamSpeaking => cueTime' - cueTime = sinceTick' - sinceTick /\ cueTime' \in Nat
  <2>1. CASE FramesRun
    BY <1>2, <2>1 DEF InTune, Mouth, FramesRun, FrameClock, TimePasses
  <2>2. CASE Unlock \/ Interrupted \/ ContextClock
    BY <1>2, <2>2 DEF InTune, Mouth, Unlock, Interrupted, ContextClock, engineVars
  <2>3. CASE EngineMoves /\ UNCHANGED streamVars
    <3>1. sinceTick' = sinceTick
      BY <2>3 DEF streamVars, contextVars
    <3>2. ASSUME streamSpeaking, NEW e \in Elements, Advance(e) PROVE FALSE
      BY <3>2, EngineAssumption DEF InTune, Mouth, Advance
    <3>3. streamSpeaking => cueTime' = cueTime
      BY <2>3, <3>2 DEF EngineMoves, Frame, Heard, Express, faceVars
    <3> QED BY <1>2, <3>1, <3>3 DEF InTune, Mouth
  <2> QED BY <2>1, <2>2, <2>3
<1>5. Mouth'
  <2> SUFFICES ASSUME streamSpeaking PROVE Mouth'
    BY <1>1 DEF Mouth, MouthKeepsToSound
  <2>1. /\ currentAudio = None /\ cueTime \in Nat /\ speaking /\ ~paused
        /\ TimelineActive(spans, lastTime) /\ cueTime = Position(spans, lastTime) + sinceTick
    BY DEF InTune, Mouth, MouthKeepsToSound
  <2>2. Position(spans, lastTime) \in Nat
    BY <1>2, PositionGrows
  <2>3. Position(spans, lastTime)' = Position(spans, lastTime)
        /\ TimelineActive(spans, lastTime)' = TimelineActive(spans, lastTime)
    BY <1>1 DEF Position, TimelineActive
  <2>4. cueTime' = Position(spans, lastTime) + sinceTick'
    BY <1>2, <1>4, <2>1, <2>2
  <2> QED BY <1>1, <1>3, <1>4, <2>1, <2>3, <2>4 DEF Mouth, MouthKeepsToSound
<1>6. Timed' /\ Line'
  BY <1>1, <1>2, <1>4, SameLine DEF InTune, Timed
<1>7. Course'
  BY <1>1, <1>2, <1>3, CourseIsKept DEF InTune
<1>8. StoppedIsSilent'
  BY <1>1, <1>3, StreamAssumption DEF InTune, StoppedIsSilent
<1> QED BY <1>3, <1>5, <1>6, <1>7, <1>8 DEF InTune

\* A phrase taken is the next the frames say.
LEMMA ChunkSourced ==
    ASSUME Timed, Sourced, read < Len(frames), InOrder(frames[read + 1]),
           frames[read + 1].type = "chunk", chunks' = chunks + 1, read' = read + 1, frames' = frames,
           Adds(spans, spans', samples, frames[read + 1].samples)
    PROVE  Sourced'
<1> DEFINE f == frames[read + 1]
           n == Len(spans)
<1>1. read \in Nat /\ n \in Nat /\ n = chunks /\ Len(spans') = n + 1
  BY StreamAssumption DEF Timed, Sourced, Adds
<1>2. ASSUME NEW i \in 1..n PROVE \E k \in 1..(read + 1) : SaysPhrase(frames[k], i, spans'[i])
  <2>1. spans'[i] = spans[i]
    BY DEF Adds
  <2>2. PICK k \in 1..read : SaysPhrase(frames[k], i, spans[i])
    BY DEF Sourced
  <2>3. k \in 1..(read + 1)
    BY <1>1
  <2> QED BY <2>1, <2>2, <2>3
<1>3. \E k \in 1..(read + 1) : SaysPhrase(frames[k], n + 1, spans'[n + 1])
  <2>1. f.sequence = (n + 1) - 1 /\ f.from = samples /\ f.type = "chunk"
    BY <1>1 DEF InOrder
  <2>2. SaysPhrase(f, n + 1, spans'[n + 1])
    BY <2>1 DEF SaysPhrase, Adds
  <2>3. read + 1 \in 1..(read + 1)
    BY <1>1
  <2> QED BY <2>2, <2>3
<1>4. \A i \in 1..(n + 1) : i \in 1..n \/ i = n + 1
  BY <1>1
<1> HIDE DEF n, f
<1> QED BY <1>1, <1>2, <1>3, <1>4 DEF Sourced

LEMMA ChunkInTune ==
    ASSUME InTune, reader = "reading", ~handleStopped, read < Len(frames), read' = read + 1,
           NEW f, f = frames[read + 1], f.type = "chunk", f.samples \in Nat, ReadChunk(f)
    PROVE  InTune'
<1>0. read' \in 0..Len(frames) /\ read <= read'
  BY StreamAssumption DEF InTune, Timed
<1>1. CASE ~InOrder(f)
  BY <1>0, <1>1, RejectsInTune DEF ReadChunk, ReadsOn
<1>2. CASE InOrder(f)
  <2> DEFINE list == Scheduled(spans, now, f.samples, samples)
  <2>0. ~playerStopped /\ ~sealed
    BY StillReading DEF InTune
  <2>1. PICK len : /\ samples' = samples + f.samples /\ chunks' = chunks + 1 /\ spans' = list
                   /\ TickOn(Held, list, sealed, len)
                   /\ UNCHANGED <<frames, reader, handleStopped, recording, whole, sealed, paused, now>>
    BY <1>2, <2>0 DEF ReadChunk
  <2>2. /\ list \in Seq(Span) /\ InOrderUpTo(list, samples + f.samples)
        /\ Joined(list, samples + f.samples) /\ Adds(spans, list, samples, f.samples)
        /\ samples + f.samples \in Nat /\ now \in Nat /\ lastTime \in 0..now
    <3>1. /\ spans \in Seq(Span) /\ samples \in Nat /\ now \in Nat /\ lastTime \in 0..now
          /\ InOrderUpTo(spans, samples) /\ Joined(spans, samples)
      BY DEF InTune, Timed, Line
    <3>2. ASSUME NEW d \in Nat
          PROVE  /\ Scheduled(spans, now, d, samples) \in Seq(Span)
                 /\ InOrderUpTo(Scheduled(spans, now, d, samples), samples + d)
                 /\ Joined(Scheduled(spans, now, d, samples), samples + d)
                 /\ Adds(spans, Scheduled(spans, now, d, samples), samples, d)
      BY <3>1, ScheduledJoins
    <3>3. samples + f.samples \in Nat
      BY <3>1
    <3> QED BY <3>1, <3>2, <3>3
  <2> HIDE DEF list
  <2>3. /\ Voices' /\ Steady /\ lastTime' \in 0..now /\ sinceTick' = 0
        /\ streamSpeaking' => ~Held /\ MouthPut(list)
        /\ playerStopped' => sealed /\ TimelineOver(list, now)
    BY <2>0, <2>1, <2>2, TickIsInTune DEF InTune
  <2>4. Timed'
    BY <1>0, <2>1, <2>2, <2>3, StreamAssumption DEF InTune, Timed
  <2>5. Sourced'
    BY <1>2, <2>1, <2>2, ChunkSourced DEF InTune, Line
  <2>6. Line'
    BY <2>1, <2>2, <2>5 DEF Line
  <2>7. Mouth'
    BY <2>1, <2>3, MouthIsPut DEF Held
  <2>8. Course'
    BY <2>0, <2>1, <2>3, RecordingIsNew DEF InTune, Course, ResolvedMeansHeard
  <2>9. StoppedIsSilent'
    BY <2>1 DEF StoppedIsSilent
  <2> QED BY <2>3, <2>4, <2>6, <2>7, <2>8, <2>9 DEF InTune
<1> QED BY <1>1, <1>2

LEMMA DoneInTune ==
    ASSUME InTune, reader = "reading", ~handleStopped, ReadsOn, NEW f, ReadDone(f)
    PROVE  InTune'
<1>1. CASE whole
  <2>1. /\ playerStopped' = TRUE /\ streamSpeaking' = FALSE /\ reader' = "playing"
        /\ \E on : PlayShowing(Recording, ExpressionTrack(Duration), on)
        /\ UNCHANGED <<frames, handleStopped, samples, chunks, whole, spans, sealed, lastTime, now,
                       sinceTick>>
    BY <1>1 DEF ReadDone, assemblyVars, contextVars
  <2>2. Voices' /\ SteadyBut({Recording})
    BY <2>1, PlayingIsSteady DEF InTune
  <2>3. Timed' /\ Line' /\ Mouth' /\ StoppedIsSilent'
    BY <2>1, SameLine DEF InTune, Timed, Mouth, MouthKeepsToSound, StoppedIsSilent, ReadsOn
  <2>4. Course'
    <3>1. Recorded'
      BY <1>1, <2>1, <2>2 DEF InTune, Course, Recorded, SteadyBut
    <3> QED BY <1>1, <2>1, <3>1 DEF InTune, Course, ResolvedMeansHeard
  <2> QED BY <2>2, <2>3, <2>4 DEF InTune
<1>2. CASE ~whole /\ ~Complete(f)
  BY <1>2, RejectsInTune DEF ReadDone
<1>3. CASE ~whole /\ Complete(f)
  <2>1. /\ recording' = "resolved" /\ reader' = "draining" /\ sealed' = TRUE
        /\ TickOn(Held, spans, TRUE, samples)
        /\ UNCHANGED <<frames, handleStopped, samples, chunks, whole, spans, paused, now>>
    BY <1>3 DEF ReadDone, assemblyVars, contextVars
  <2>2. /\ spans \in Seq(Span) /\ InOrderUpTo(spans, samples) /\ ~playerStopped
        /\ now \in Nat /\ lastTime \in 0..now
    BY DEF InTune, Timed, Line, Course
  <2>3. /\ Voices' /\ Steady /\ lastTime' \in 0..now /\ sinceTick' = 0
        /\ streamSpeaking' => ~Held /\ MouthPut(spans)
        /\ playerStopped' => TimelineOver(spans, now)
    BY <2>1, <2>2, TickIsInTune DEF InTune
  <2>4. Timed' /\ Line'
    BY <2>1, <2>3, SameLine, StreamAssumption DEF InTune, Timed, ReadsOn
  <2>5. Mouth'
    BY <2>1, <2>3, MouthIsPut DEF Held
  <2>6. Course'
    BY <1>3, <2>1, <2>3, RecordingIsNew DEF InTune, Course, ResolvedMeansHeard, TimelineOver
  <2>7. StoppedIsSilent'
    BY <2>1 DEF StoppedIsSilent
  <2> QED BY <2>3, <2>4, <2>5, <2>6, <2>7 DEF InTune
<1> QED BY <1>1, <1>2, <1>3

\* A step of the reader's that leaves the engine, the player and the clock.
LEMMA ReaderInTune ==
    ASSUME InTune, read' = read \/ ReadsOn, Course',
           UNCHANGED <<engineVars, frames, handleStopped, samples, chunks, playerVars, contextVars>>
    PROVE  InTune'
<1>1. UNCHANGED <<element, currentAudio, speaking, cueTime, spans, sealed, playerStopped,
                  streamSpeaking, paused, lastTime, now, sinceTick>>
  BY DEF engineVars, playerVars, contextVars
<1>2. Timed' /\ Line'
  BY <1>1, SameLine DEF InTune, Timed, ReadsOn
<1>3. Voices' /\ Mouth' /\ StoppedIsSilent'
  BY <1>1 DEF InTune, Voices, OneVoice, HeldPlays, Mouth, MouthKeepsToSound, TimelineActive,
              Position, StoppedIsSilent
<1> QED BY <1>2, <1>3 DEF InTune

LEMMA ReadFrameInTune == ASSUME InTune, ReadFrame PROVE InTune'
<1> DEFINE f == frames[read + 1]
<1>1. reader = "reading" /\ read < Len(frames) /\ read' = read + 1
  BY DEF ReadFrame
<1>2. frames \in Seq(Frames) /\ f \in Frames /\ ReadsOn
  BY <1>1, StreamAssumption DEF InTune, Timed, ReadsOn
<1>3. CASE handleStopped
  <2>1. /\ reader' = "resolved"
        /\ UNCHANGED <<engineVars, frames, handleStopped, samples, chunks, whole, playerVars,
                       contextVars>>
    BY <1>3 DEF ReadFrame, assemblyVars
  <2>2. UNCHANGED <<element, sealed>>
    BY <2>1 DEF engineVars, playerVars
  <2>3. Course'
    BY <1>1, <1>3, <2>1, <2>2 DEF InTune, Course, Recorded, Begun, ResolvedMeansHeard
  <2> QED BY <1>2, <2>1, <2>3, ReaderInTune
<1>4. CASE ~handleStopped
  <2>1. TakeFrame(f)
    BY <1>4 DEF ReadFrame
  <2>2. CASE f.type = "chunk"
    <3>1. f.samples \in Nat
      BY <1>2, <2>2 DEF Frames
    <3>2. ReadChunk(f)
      BY <2>1, <2>2 DEF TakeFrame
    <3> QED BY <1>1, <1>2, <1>4, <2>2, <3>1, <3>2, ChunkInTune
  <2>3. CASE f.type = "done"
    <3>1. ReadDone(f)
      BY <2>1, <2>3 DEF TakeFrame
    <3> QED BY <1>1, <1>2, <1>4, <3>1, DoneInTune
  <2>4. CASE f.type = "error"
    <3>1. Rejects
      BY <2>1, <2>4 DEF TakeFrame
    <3> QED BY <1>2, <3>1, RejectsInTune
  <2>5. CASE f.type \notin {"chunk", "done", "error"}
    <3>1. ReadOther(f)
      BY <2>1, <2>5 DEF TakeFrame
    <3>2. UNCHANGED <<engineVars, frames, reader, handleStopped, samples, chunks, playerVars,
                    contextVars>>
      BY <3>1 DEF ReadOther
    <3>3. UNCHANGED <<element, spans, sealed, playerStopped, now>> /\ (whole => whole')
      BY <3>1, <3>2 DEF ReadOther, engineVars, playerVars, contextVars
    <3>4. Course'
      BY <1>1, <3>2, <3>3 DEF InTune, Course, Recorded, Begun, ResolvedMeansHeard
    <3> QED BY <1>2, <3>2, <3>4, ReaderInTune
  <2> QED BY <2>2, <2>3, <2>4, <2>5
<1> QED BY <1>3, <1>4

LEMMA DrainedInTune == ASSUME InTune, Answered \/ Drained PROVE InTune'
<1>1. /\ UNCHANGED <<engineVars, frames, read, handleStopped, recording, samples, chunks, whole,
                     playerVars, contextVars>>
      /\ \/ reader = "fetching" /\ reader' = "reading"
         \/ reader = "draining" /\ playerStopped /\ reader' = "resolved"
  BY DEF Answered, Drained, assemblyVars
<1>2. UNCHANGED <<element, spans, sealed, playerStopped, now>>
  BY <1>1 DEF engineVars, playerVars, contextVars
<1>3. Course'
  BY <1>1, <1>2 DEF InTune, Course, Recorded, Begun, ResolvedMeansHeard, TimelineOver
<1> QED BY <1>1, <1>3, ReaderInTune

LEMMA StopInTune == ASSUME InTune, StreamStop PROVE InTune'
<1>1. /\ StopHandle
      /\ UNCHANGED <<frames, read, reader, recording, samples, chunks, whole, spans, sealed, lastTime,
                     now, sinceTick>>
  BY DEF StreamStop, assemblyVars, contextVars
<1>2. /\ Voices' /\ Steady /\ handleStopped' /\ ~streamSpeaking' /\ StoppedIsSilent'
  BY <1>1, StoppedHandleIsSilent DEF InTune
<1>3. Timed' /\ Line' /\ Mouth'
  BY <1>1, <1>2, SameLine DEF InTune, Timed, Mouth, MouthKeepsToSound
<1>4. Course'
  BY <1>1, <1>2, RecordingIsNew DEF InTune, Course, ResolvedMeansHeard
<1> QED BY <1>2, <1>3, <1>4 DEF InTune

LEMMA TellsInTune ==
    ASSUME InTune, NEW how \in {"ended", "failed"}, RecordingTells(how)
    PROVE  InTune'
<1>1. /\ UNCHANGED <<frames, read, handleStopped, recording, samples, chunks, whole, spans, sealed,
                     playerStopped, streamSpeaking, paused, lastTime, now, sinceTick>>
      /\ reader' = IF IsCurrent(Recording) /\ onAudioEnd = Recording THEN "resolved" ELSE reader
  BY DEF RecordingTells, assemblyVars, playerVars, contextVars
<1>2. /\ Voices' /\ Steady /\ IsOver(Recording)'
      /\ currentAudio' = (IF Recording = currentAudio THEN None ELSE currentAudio)
      /\ element[Recording] \in {"asked", "heard", "cut"}
  BY EndingIsSteady, StreamAssumption DEF InTune, RecordingTells
<1>3. CASE Recording = currentAudio
  <2>1. ~streamSpeaking /\ speaking' = FALSE
    BY <1>3, StreamAssumption, EngineAssumption
       DEF InTune, Mouth, RecordingTells, OnEnded, IsCurrent, FinishSpeech
  <2>2. Timed' /\ Line' /\ Mouth'
    BY <1>1, <2>1, SameLine DEF InTune, Timed, Mouth, MouthKeepsToSound
  <2>3. ~handleStopped
    BY <1>3, StreamAssumption DEF InTune, Voices, HeldPlays, StoppedIsSilent
  <2>4. StoppedIsSilent'
    BY <1>1, <2>3 DEF StoppedIsSilent
  <2>5. whole
    BY <1>3, StreamAssumption DEF InTune, Voices, HeldPlays, Course, Recorded, Begun
  <2>6. reader' = reader \/ reader' = "resolved"
    BY <1>1
  <2>7. reader # "draining" /\ (sealed => reader \notin {"unasked", "fetching", "reading"})
    BY <2>5 DEF InTune, Course
  <2>8. Recorded' /\ ResolvedMeansHeard'
    <3>1. Recorded'
      BY <1>1, <1>2, RecordingIsNew DEF InTune, Course
    <3> QED BY <1>1, <1>2, <2>5, <3>1 DEF ResolvedMeansHeard, IsOver
  <2>9. playerStopped' /\ ~handleStopped' =>
          \/ whole' /\ reader' \in {"playing", "resolved"}
          \/ sealed' /\ TimelineOver(spans, now)'
    BY <1>1, <2>5, <2>6 DEF InTune, Course, TimelineOver
  <2>10. Course'
    BY <1>1, <2>5, <2>6, <2>7, <2>8, <2>9 DEF Course
  <2> QED BY <1>2, <2>2, <2>4, <2>10 DEF InTune
<1>4. CASE Recording # currentAudio
  <2>1. reader' = reader /\ UNCHANGED <<speaking, cueTime, currentAudio>>
    BY <1>1, <1>4 DEF RecordingTells, OnEnded, IsCurrent, faceVars
  <2>2. Timed' /\ Line' /\ Mouth'
    BY <1>1, <2>1, SameLine DEF InTune, Timed, Mouth, MouthKeepsToSound, TimelineActive,
                                        Position
  <2>3. Course'
    BY <1>1, <1>2, <2>1, CourseIsKept DEF InTune, Timed
  <2>4. StoppedIsSilent'
    BY <1>1, <1>2, <2>1 DEF InTune, StoppedIsSilent, IsOver
  <2> QED BY <1>2, <2>2, <2>3, <2>4 DEF InTune
<1> QED BY <1>3, <1>4

-----------------------------------------------------------------------------
(* The theorems                                                            *)

LEMMA InTuneAtFirst == EngineInit /\ StreamInit => InTune
<1> SUFFICES ASSUME EngineInit, StreamInit PROVE InTune
  OBVIOUS
<1>1. Voices /\ Recorded /\ speaking = FALSE
  BY NoVoiceAtFirst, StreamAssumption DEF EngineInit, Recorded, Begun
<1>2. /\ spans = <<>> /\ samples = 0 /\ chunks = 0 /\ read = 0 /\ now = 0 /\ lastTime = 0
      /\ sinceTick = 0 /\ frames \in Streams
      /\ reader \in {"unasked", "fetching"}
      /\ ~handleStopped /\ ~playerStopped /\ ~sealed /\ ~streamSpeaking /\ ~whole
  BY DEF StreamInit
<1>3. Timed
  BY <1>2, StreamAssumption DEF Timed
<1>4. Line
  BY <1>2 DEF Line, InOrderUpTo, Joined, Sourced
<1> QED BY <1>1, <1>2, <1>3, <1>4
     DEF InTune, Mouth, MouthKeepsToSound, Course, ResolvedMeansHeard, StoppedIsSilent

LEMMA InTuneKept == InTune /\ [StreamNext]_streamSpecVars => InTune'
<1> SUFFICES ASSUME InTune, [StreamNext]_streamSpecVars PROVE InTune'
  OBVIOUS
<1>1. CASE Answered \/ Drained
  BY <1>1, DrainedInTune
<1>2. CASE Breaks
  <2>1. Rejects /\ read' = read
    BY <1>2 DEF Breaks
  <2> QED BY <2>1, RejectsInTune
<1>3. CASE ReadFrame
  BY <1>3, ReadFrameInTune
<1>4. CASE StreamStop
  BY <1>4, StopInTune
<1>5. CASE Tick \/ Resume
  BY <1>5, TickInTune
<1>6. CASE Pause
  BY <1>6, PauseInTune
<1>7. CASE \/ Unlock \/ Interrupted \/ ContextClock \/ FramesRun
           \/ EngineMoves /\ UNCHANGED streamVars
  BY <1>7, MovesInTune
<1>8. CASE \E how \in {"ended", "failed"} : RecordingTells(how)
  BY <1>8, TellsInTune
<1>9. CASE UNCHANGED streamSpecVars
  <2>1. /\ UNCHANGED <<engineVars, frames, read, handleStopped, samples, chunks, playerVars, contextVars>>
        /\ UNCHANGED <<element, reader, whole, recording, spans, sealed, playerStopped, now>>
    BY <1>9 DEF streamSpecVars, streamVars, engineVars, handleVars, assemblyVars, playerVars, contextVars
  <2>2. Course'
    BY <2>1 DEF InTune, Course, Recorded, Begun, ResolvedMeansHeard, TimelineOver
  <2> QED BY <2>1, <2>2, ReaderInTune
<1> QED BY <1>1, <1>2, <1>3, <1>4, <1>5, <1>6, <1>7, <1>8, <1>9 DEF StreamNext

\* The inductive invariant: the timeline, the mouth, the reader of the answer
\* and the player's stop go together (speech-stream/index.ts, player.ts).
THEOREM AlwaysInTune == StreamSpec => []InTune
<1> QED BY InTuneAtFirst, InTuneKept, PTL DEF StreamSpec

\* A tick brings the mouth to the sound and closes it for a pause, a gap and
\* the end (speech-stream/player.ts tick, closeMouth): what it is ahead of the
\* sound by is what the engine's frames ran since (voice.ts cueTime), whatever
\* the context's latency and interruptions.
THEOREM MouthAlwaysKeepsToSound == StreamSpec => []MouthKeepsToSound
<1>1. InTune => MouthKeepsToSound
  BY DEF InTune, Mouth
<1> QED BY <1>1, AlwaysInTune, PTL

-----------------------------------------------------------------------------
(* The samples the phrases say, frame by frame                             *)

LEMMA AddSamplesIs ==
    ASSUME NEW sum \in Nat, NEW f \in Frames
    PROVE  AddSamples(sum, f) \in Nat
<1>1. CASE f.type = "chunk"
  <2>1. f.samples \in Nat
    BY <1>1 DEF Frames
  <2> QED BY <1>1, <2>1 DEF AddSamples
<1> QED BY <1>1 DEF AddSamples

\* FoldLeft over frames adds their samples one after the other.
LEMMA SamplesInTurn ==
    ASSUME NEW s \in Seq(Frames)
    PROVE  \E v \in [0..Len(s) -> Nat] :
              /\ v[0] = 0
              /\ \A k \in 1..Len(s) : v[k] = AddSamples(v[k - 1], s[k])
              /\ FoldLeft(AddSamples, 0, s) = v[Len(s)]
<1> DEFINE n == Len(s)
           C(g) == g = [t \in SUBSET (DOMAIN s) |->
                          IF t = {} THEN 0 ELSE AddSamples(g[t \ {Max(t)}], s[Max(t)])]
           F == [p \in Nat \X (1..n) |-> AddSamples(p[1], s[p[2]])]
           G == CHOOSE g : C(g)
           v == [k \in 0..n |-> G[1..k]]
<1>1. n \in Nat /\ DOMAIN s = 1..n /\ \A k \in 1..n : s[k] \in Frames
  OBVIOUS
<1>2. F \in [Nat \X (1..n) -> Nat]
  BY <1>1, AddSamplesIs
<1>3. \E g : C(g)
  <2>0. \E g : Descends(g, Nat, n, 0, F)
    <3> HIDE DEF F, n
    <3> QED BY <1>1, <1>2, RecursionExists
  <2> HIDE DEF F, n
  <2>1. PICK g : Descends(g, Nat, n, 0, F)
    BY <2>0
  <2>a. /\ g \in [SUBSET (1..n) -> Nat]
        /\ \A t \in SUBSET (1..n) :
             g[t] = IF t = {} THEN 0 ELSE F[<<g[t \ {Max(t)}], Max(t)>>]
    BY <2>1 DEF Descends
  <2>2. ASSUME NEW t \in SUBSET (1..n), t # {}
        PROVE  g[t] = AddSamples(g[t \ {Max(t)}], s[Max(t)])
    <3>1. Max(t) \in 1..n /\ t \ {Max(t)} \in SUBSET (1..n)
      BY <1>1, <2>2, MaxIsMember
    <3>2. g[t \ {Max(t)}] \in Nat
      BY <2>a, <3>1
    <3>3. F[<<g[t \ {Max(t)}], Max(t)>>] = AddSamples(g[t \ {Max(t)}], s[Max(t)])
      <4> DEFINE a == g[t \ {Max(t)}]
                 m == Max(t)
      <4>1. a \in Nat /\ m \in 1..n
        BY <3>1, <3>2
      <4> HIDE DEF a, m
      <4>2. F[<<a, m>>] = AddSamples(a, s[m])
        BY <4>1 DEF F
      <4> QED BY <4>2 DEF a, m
    <3> QED BY <2>a, <2>2, <3>3
  <2>3. g = [t \in SUBSET (1..n) |->
                IF t = {} THEN 0 ELSE AddSamples(g[t \ {Max(t)}], s[Max(t)])]
    <3>1. g = [t \in SUBSET (1..n) |-> g[t]]
      BY <2>a
    <3>2. \A t \in SUBSET (1..n) :
            g[t] = IF t = {} THEN 0 ELSE AddSamples(g[t \ {Max(t)}], s[Max(t)])
      BY <2>a, <2>2
    <3> QED BY <3>1, <3>2
  <2> QED BY <1>1, <2>3
<1>4. C(G)
  BY <1>3
<1>5. FoldLeft(AddSamples, 0, s) = G[DOMAIN s]
  BY DEF FoldLeft, MapThenFoldSet
<1> HIDE DEF G, n
<1>6. v[0] = 0
  <2>1. 1..0 = {} /\ {} \in SUBSET (DOMAIN s)
    OBVIOUS
  <2> QED BY <1>1, <1>4, <2>1
<1>7. \A k \in 1..n : v[k] = AddSamples(v[k - 1], s[k])
  <2> TAKE k \in 1..n
  <2>1. /\ 1..k \in SUBSET (DOMAIN s) /\ 1..k # {}
        /\ Max(1..k) = k /\ (1..k) \ {k} = 1..(k - 1)
    BY <1>1, UpTo
  <2>2. G[1..k] = AddSamples(G[1..(k - 1)], s[k])
    BY <1>4, <2>1
  <2>3. v[k] = G[1..k] /\ v[k - 1] = G[1..(k - 1)]
    BY <1>1
  <2> QED BY <2>2, <2>3
<1>8. v[n] = G[DOMAIN s]
  BY <1>1
<1> HIDE DEF v
<1>9. \A k \in 0..n : v[k] \in Nat
  <2> DEFINE V == Nat
  <2>1. \A k \in 1..n : v[k - 1] \in V => v[k] \in V
    BY <1>1, <1>7, AddSamplesIs
  <2>2. v[0] \in V
    BY <1>6
  <2> HIDE DEF V
  <2>3. \A k \in 0..n : v[k] \in V
    BY <1>1, <2>1, <2>2, AllAlong
  <2> QED BY <2>3 DEF V
<1>10. v \in [0..n -> Nat]
  BY <1>9 DEF v
<1> QED BY <1>5, <1>6, <1>7, <1>8, <1>10 DEF n

\* v counts the samples said after each of the first n frames.
SentRun(v, n) ==
    /\ v \in [0..n -> Nat]
    /\ v[0] = 0
    /\ \A k \in 1..n : v[k] = AddSamples(v[k - 1], frames[k])
    /\ SentSamples(n) = v[n]

LEMMA SentRuns ==
    ASSUME frames \in Seq(Frames), NEW n \in 0..Len(frames)
    PROVE  \E v : SentRun(v, n)
<1> DEFINE s == SubSeq(frames, 1, n)
<1>1. s \in Seq(Frames) /\ Len(s) = n /\ \A k \in 1..n : s[k] = frames[k]
  <2>1. CASE n = 0
    BY <2>1
  <2>2. CASE n \in 1..Len(frames)
    BY <2>2
  <2> QED BY <2>1, <2>2
<1>2. SentSamples(n) = FoldLeft(AddSamples, 0, s)
  BY DEF SentSamples
<1> HIDE DEF s
<1>3. PICK v \in [0..Len(s) -> Nat] :
        /\ v[0] = 0
        /\ \A k \in 1..Len(s) : v[k] = AddSamples(v[k - 1], s[k])
        /\ FoldLeft(AddSamples, 0, s) = v[Len(s)]
  BY <1>1, SamplesInTurn
<1>4. SentRun(v, n)
  BY <1>1, <1>2, <1>3 DEF SentRun
<1> QED BY <1>4

\* Nothing is said before the first frame, and a frame adds its own samples.
LEMMA SentNext ==
    ASSUME frames \in Seq(Frames)
    PROVE  /\ SentSamples(0) = 0
           /\ \A n \in 0..Len(frames) :
                n < Len(frames) => SentSamples(n + 1) = AddSamples(SentSamples(n), frames[n + 1])
<1>0. Len(frames) \in Nat
  OBVIOUS
<1>1. SentSamples(0) = 0
  <2>1. 0 \in 0..Len(frames)
    BY <1>0
  <2>2. PICK v : SentRun(v, 0)
    BY <2>1, SentRuns
  <2> QED BY <2>2 DEF SentRun
<1>2. ASSUME NEW n \in 0..Len(frames), n < Len(frames)
      PROVE  SentSamples(n + 1) = AddSamples(SentSamples(n), frames[n + 1])
  <2>0. n \in Nat /\ n + 1 \in 0..Len(frames)
    BY <1>0, <1>2
  <2>1. PICK v : SentRun(v, n)
    BY SentRuns
  <2>2. PICK w : SentRun(w, n + 1)
    BY <2>0, SentRuns
  <2> DEFINE S == {k \in Nat : k <= n => v[k] = w[k]}
  <2>3. 0 \in S
    BY <2>1, <2>2 DEF SentRun
  <2>4. \A k \in Nat : k \in S => k + 1 \in S
    <3> SUFFICES ASSUME NEW k \in Nat, k <= n => v[k] = w[k], k + 1 <= n
                 PROVE  v[k + 1] = w[k + 1]
      OBVIOUS
    <3>1. k + 1 \in 1..n /\ k + 1 \in 1..(n + 1) /\ (k + 1) - 1 = k /\ v[k] = w[k]
      BY <2>0
    <3>2. v[k + 1] = AddSamples(v[k], frames[k + 1])
      BY <2>1, <3>1 DEF SentRun
    <3>3. w[k + 1] = AddSamples(w[k], frames[k + 1])
      BY <2>2, <3>1 DEF SentRun
    <3> QED BY <3>1, <3>2, <3>3
  <2>5. Nat \subseteq S
    <3> HIDE DEF S
    <3> QED BY <2>3, <2>4, NatInd
  <2>6. v[n] = w[n]
    BY <2>0, <2>5
  <2>7. n + 1 \in 1..(n + 1) /\ (n + 1) - 1 = n
    BY <2>0
  <2>8. w[n + 1] = AddSamples(w[n], frames[n + 1])
    BY <2>2, <2>7 DEF SentRun
  <2> QED BY <2>1, <2>2, <2>6, <2>8 DEF SentRun
<1> QED BY <1>1, <1>2

-----------------------------------------------------------------------------
(* The types, the recording and the face                                   *)

Flagged ==
    /\ reader \in {"unasked", "fetching", "reading", "draining", "playing", "resolved", "rejected"}
    /\ recording \in {"none", "resolved", "rejected"}
    /\ length \in Nat /\ chunks \in Nat
    /\ marked \in BOOLEAN /\ handleStopped \in BOOLEAN /\ whole \in BOOLEAN /\ sealed \in BOOLEAN
    /\ playerStopped \in BOOLEAN /\ streamSpeaking \in BOOLEAN
    /\ paused \in BOOLEAN /\ running \in BOOLEAN

LEMMA StreamTyped == Timed /\ Flagged => StreamTypeOK
BY DEF Timed, Flagged, StreamTypeOK

\* While frames are read nothing is offered yet, and the samples counted are
\* those the frames read have said.
Counted ==
    /\ reader \in {"unasked", "fetching", "reading"} => recording = "none"
    /\ reader \in {"unasked", "fetching"} => read = 0 /\ samples = 0
    /\ reader = "reading" => samples = SentSamples(read)
    /\ whole => \E i \in 1..read : frames[i].type = "recording"
    /\ RecordingIsWhole

\* A track whose walk to the recording's end ends with a release.
Closes(tr) ==
    /\ Len(tr) > 0
    /\ tr[Len(tr)].name = "neutral"
    /\ \A i \in 1..Len(tr) : tr[i].t <= Duration

\* An expression of the text's is on only while a marked text is said: by the
\* player, or as a whole recording whose release is still to come.
Facing ==
    /\ asked.source = "text" => speaking /\ marked
    /\ speaking => streamSpeaking \/ currentAudio = Recording
    /\ track = <<>> \/ marked
    /\ currentAudio = Recording =>
        /\ speaking
        /\ nextCue <= Len(track)
        /\ marked => Closes(track)
        /\ marked /\ nextCue = Len(track) => asked.source # "text"

Sounding == InTune /\ EngineTypeOK /\ Flagged /\ Counted /\ Facing

LEMMA TrackIs ==
    ASSUME marked \in BOOLEAN, NEW len \in Nat
    PROVE  /\ ExpressionTrack(len) \in Seq(Cue)
           /\ ~marked => ExpressionTrack(len) = <<>>
           /\ marked => /\ Len(ExpressionTrack(len)) = 2
                        /\ ExpressionTrack(len)[1].t = len \div 2
                        /\ ExpressionTrack(len)[2] = [t |-> len, name |-> "neutral"]
<1>1. CASE ~marked
  <2>1. ExpressionTrack(len) = <<>>
    BY <1>1 DEF ExpressionTrack
  <2> QED BY <1>1, <2>1
<1>2. CASE marked
  <2> DEFINE tag == [t |-> len \div 2, name |-> CHOOSE n \in Names : TRUE]
             release == [t |-> len, name |-> "neutral"]
  <2>1. ExpressionTrack(len) = <<tag, release>>
    BY <1>2 DEF ExpressionTrack
  <2>2. tag \in Cue /\ release \in Cue /\ tag.t = len \div 2
    <3>1. (CHOOSE n \in Names : TRUE) \in Names
      BY EngineAssumption
    <3>2. len \div 2 \in Nat
      OBVIOUS
    <3> QED BY <3>1, <3>2 DEF Cue
  <2> HIDE DEF tag
  <2>3. release = [t |-> len, name |-> "neutral"]
    OBVIOUS
  <2> HIDE DEF release
  <2>4. <<tag, release>> \in Seq(Cue) /\ Len(<<tag, release>>) = 2
        /\ <<tag, release>>[1] = tag /\ <<tag, release>>[2] = release
    BY <2>2
  <2> QED BY <1>2, <2>1, <2>2, <2>3, <2>4
<1> QED BY <1>1, <1>2

\* The mouth closed, by whoever closes it.
LEMMA ClosedFaces ==
    ASSUME Facing, StopSpeech, marked' = marked
    PROVE  Facing' /\ EngineCall
<1>1. /\ currentAudio' = None /\ speaking' = FALSE /\ asked'.source # "text" /\ track' = <<>>
  BY DEF StopSpeech, StopAudio, ReleasedText, Neutral
<1>2. None # Recording
  BY EngineAssumption, StreamAssumption
<1> QED BY <1>1, <1>2 DEF Facing, EngineCall

LEMMA LeftFaces ==
    ASSUME Facing, UNCHANGED <<engineVars, marked>>, streamSpeaking' = streamSpeaking
    PROVE  Facing' /\ EngineCall
<1>1. UNCHANGED <<speaking, currentAudio, track, nextCue, asked>>
  BY DEF engineVars
<1> QED BY <1>1 DEF Facing, Closes, EngineCall

LEMMA ClosingFaces ==
    ASSUME Facing, CloseMouth, marked' = marked
    PROVE  Facing' /\ EngineCall /\ streamSpeaking' = FALSE
<1>1. streamSpeaking' = FALSE
  BY DEF CloseMouth
<1>2. CASE streamSpeaking
  BY <1>1, <1>2, ClosedFaces DEF CloseMouth
<1>3. CASE ~streamSpeaking
  <2>1. UNCHANGED <<speaking, currentAudio, track, nextCue, asked>> /\ UNCHANGED engineVars
    BY <1>3 DEF CloseMouth, engineVars
  <2>2. EngineCall
    BY <2>1 DEF EngineCall
  <2> QED BY <1>1, <1>3, <2>1, <2>2 DEF Facing, Closes
<1> QED BY <1>2, <1>3

\* A tick, on the timeline and the length it finds.
LEMMA TickFaces ==
    ASSUME Facing, Mouth, marked \in BOOLEAN, marked' = marked, now \in Nat, lastTime \in 0..now,
           playerStopped \in BOOLEAN, streamSpeaking \in BOOLEAN,
           NEW list \in Seq(Span), NEW upTo, InOrderUpTo(list, upTo),
           NEW held, NEW seal, NEW len \in Nat, TickOn(held, list, seal, len)
    PROVE  Facing' /\ EngineCall /\ playerStopped' \in BOOLEAN /\ streamSpeaking' \in BOOLEAN
<1>1. CASE playerStopped
  BY <1>1, LeftFaces DEF TickOn
<1>2. CASE ~playerStopped
  <2>1. PICK time \in Outputs(held) :
          /\ playerStopped' = (~held /\ seal /\ TimelineOver(list, time))
          /\ CloseMouth \/ OpenMouth(list, time, len)
    BY <1>2 DEF TickOn, MouthAt
  <2>2. playerStopped' \in BOOLEAN
    BY <2>1
  <2>3. CASE CloseMouth
    BY <2>2, <2>3, ClosingFaces
  <2>4. CASE OpenMouth(list, time, len)
    <3> DEFINE tr == ExpressionTrack(len)
               at == Position(list, time)
    <3>1. tr \in Seq(Cue) /\ (tr = <<>> \/ marked)
      BY TrackIs
    <3>2. at \in Nat
      <4>1. time \in Nat /\ time <= time
        BY <2>1 DEF Outputs
      <4> QED BY <4>1, PositionGrows
    <3>3. /\ streamSpeaking' = TRUE /\ speaking' = TRUE /\ cueTime' = at /\ track' = tr
          /\ nextCue' = SoughtTo(tr, at) /\ UNCHANGED asked
          /\ IF streamSpeaking THEN UNCHANGED voiceVars ELSE StopAudio
      BY <2>4 DEF OpenMouth
    <3> HIDE DEF tr, at
    <3>4. OpensAt(tr, at)
      BY <3>3 DEF OpensAt
    <3>5. EngineCall
      BY <3>1, <3>2, <3>4 DEF EngineCall
    <3>6. currentAudio' = None
      BY <3>3 DEF Mouth, voiceVars, StopAudio
    <3>7. None # Recording
      BY EngineAssumption, StreamAssumption
    <3>8. Facing'
      BY <3>1, <3>3, <3>6, <3>7 DEF Facing
    <3> QED BY <2>2, <3>3, <3>5, <3>8
  <2> QED BY <2>1, <2>3, <2>4
<1> QED BY <1>1, <1>2

LEMMA StopHandleFaces ==
    ASSUME Facing, Flagged, StopHandle, marked' = marked
    PROVE  /\ Facing' /\ EngineCall
           /\ handleStopped' \in BOOLEAN /\ playerStopped' \in BOOLEAN /\ streamSpeaking' \in BOOLEAN
<1>1. CASE handleStopped
  <2>1. UNCHANGED engineVars /\ UNCHANGED <<handleStopped, playerStopped, streamSpeaking>>
    BY <1>1 DEF StopHandle
  <2> QED BY <2>1, LeftFaces DEF Flagged
<1>2. CASE ~handleStopped
  BY <1>2, ClosedFaces DEF StopHandle
<1> QED BY <1>1, <1>2

\* The whole recording begins: its release is still to come.
LEMMA WholeFaces ==
    ASSUME Facing, marked \in BOOLEAN, marked' = marked, EngineTypeOK,
           NEW on \in {asked, ReleasedText}, PlayShowing(Recording, ExpressionTrack(Duration), on)
    PROVE  Facing' /\ EngineCall
<1> DEFINE tr == ExpressionTrack(Duration)
<1>0. Duration \in Nat \ {0} /\ Recording \in Elements
  BY EngineAssumption, StreamAssumption
<1>1. /\ tr \in Seq(Cue)
      /\ ~marked => tr = <<>>
      /\ marked => /\ Len(tr) = 2 /\ tr[1].t = Duration \div 2
                   /\ tr[2] = [t |-> Duration, name |-> "neutral"]
  BY <1>0, TrackIs
<1>2. /\ currentAudio' = Recording /\ speaking' = TRUE /\ track' = tr /\ asked' = on
      /\ nextCue' = SoughtTo(tr, 0) /\ PlayShowing(Recording, tr, on)
  BY DEF PlayShowing, Begin
<1> HIDE DEF tr
<1>3. EngineCall
  BY <1>0, <1>1, <1>2 DEF EngineCall
<1>4. SoughtTo(tr, 0) \in 0..Len(tr)
  BY <1>1, SoughtIs
<1>5. marked => Closes(tr) /\ SoughtTo(tr, 0) < Len(tr)
  <2> SUFFICES ASSUME marked PROVE Closes(tr) /\ SoughtTo(tr, 0) < Len(tr)
    OBVIOUS
  <2>1. Len(tr) = 2 /\ tr[1].t = Duration \div 2 /\ tr[2].t = Duration /\ tr[2].name = "neutral"
    BY <1>1
  <2>2. Duration \div 2 <= Duration
    BY <1>0
  <2>3. \A i \in 1..2 : i = 1 \/ i = 2
    OBVIOUS
  <2>4. Closes(tr)
    BY <1>0, <2>1, <2>2, <2>3 DEF Closes
  <2>5. \E i \in 1..Len(tr) : tr[i].t > 0
    <3>1. 2 \in 1..Len(tr) /\ tr[2].t > 0
      BY <1>0, <2>1
    <3> QED BY <3>1
  <2>6. SoughtTo(tr, 0) < Len(tr)
    BY <1>1, <2>5, SoughtIs
  <2> QED BY <2>4, <2>6
<1>6. Len(tr) \in Nat
  BY <1>1
<1>7. tr = <<>> \/ marked
  BY <1>1
<1>8. nextCue' <= Len(tr)
  BY <1>2, <1>4, <1>6
<1>9. marked => Closes(tr) /\ nextCue' # Len(tr)
  BY <1>2, <1>4, <1>5, <1>6
<1>10. asked'.source = "text" => marked
  BY <1>2 DEF Facing, ReleasedText, Neutral
<1>11. Facing'
  BY <1>2, <1>7, <1>8, <1>9, <1>10 DEF Facing, Closes
<1> QED BY <1>3, <1>11

\* The walk to the end of the recording releases the text's expression.
LEMMA TellsFaces ==
    ASSUME Facing, EngineTypeOK, marked \in BOOLEAN, marked' = marked,
           streamSpeaking' = streamSpeaking, (streamSpeaking => currentAudio = None),
           NEW how \in {"ended", "failed"}, RecordingTells(how)
    PROVE  Facing' /\ EngineCall
<1>0. None # Recording /\ Recording \in Elements /\ Duration \in Nat
  BY EngineAssumption, StreamAssumption
<1>1. OnEnded(Recording, how)
  BY DEF RecordingTells
<1>2. EngineCall
  BY <1>0, <1>1 DEF EngineCall
<1>3. CASE Recording = currentAudio
  <2>1. /\ currentAudio' = None /\ speaking' = FALSE /\ track' = track /\ Walk(Duration)
    BY <1>1, <1>3 DEF OnEnded, IsCurrent, FinishSpeech
  <2>2. FaceTyped /\ track \in Seq(Cue) /\ nextCue \in Nat /\ nextCue <= Len(track)
    BY <1>3, EngineTypes DEF FaceTyped, Facing
  <2>3. /\ nextCue' \in Nat /\ nextCue <= nextCue' /\ (nextCue' <= Len(track) \/ nextCue' = nextCue)
        /\ nextCue' = WalkedBy(track, nextCue, Duration)
        /\ nextCue' = nextCue => asked' = asked
        /\ nextCue < nextCue' /\ track[nextCue'].name = "neutral" => asked'.source # "text"
    BY <1>0, <2>1, <2>2, WalkTyped
  <2>4. CASE ~marked
    <3>1. track = <<>> /\ asked.source # "text"
      BY <2>4 DEF Facing
    <3>2. nextCue' = nextCue
      BY <2>2, <2>3, <3>1
    <3>3. asked'.source # "text"
      BY <2>3, <3>1, <3>2
    <3> QED BY <1>0, <1>2, <2>1, <3>1, <3>3 DEF Facing
  <2>5. CASE marked
    <3>1. Closes(track) /\ (nextCue = Len(track) => asked.source # "text")
      BY <1>3, <2>5 DEF Facing
    <3>2. nextCue' = Len(track)
      BY <1>0, <2>2, <2>3, <3>1, WalkedToEnd DEF Closes
    <3>3. asked'.source # "text"
      BY <2>2, <2>3, <3>1, <3>2 DEF Closes
    <3> QED BY <1>0, <1>2, <2>1, <2>5, <3>3 DEF Facing
  <2> QED BY <2>4, <2>5
<1>4. CASE Recording # currentAudio
  <2>1. UNCHANGED <<speaking, currentAudio, track, nextCue, asked>>
    BY <1>1, <1>4 DEF OnEnded, IsCurrent, faceVars
  <2> QED BY <1>2, <2>1 DEF Facing, Closes
<1> QED BY <1>3, <1>4

LEMMA MovesFaces ==
    ASSUME Facing, EngineTypeOK, marked \in BOOLEAN, marked' = marked,
           streamSpeaking' = streamSpeaking, EngineMoves \/ FrameClock
    PROVE  Facing'
<1>1. CASE UNCHANGED <<speaking, currentAudio, track, nextCue, asked>>
  BY <1>1 DEF Facing, Closes
<1>2. CASE Frame
  <2>1. /\ speaking /\ Walk(cueTime) /\ nextCue' # nextCue
        /\ UNCHANGED <<speaking, currentAudio, track>>
    BY <1>2 DEF Frame, voiceVars, Walk
  <2>2. FaceTyped /\ cueTime \in Nat /\ track \in Seq(Cue) /\ nextCue \in Nat
    BY EngineTypes DEF FaceTyped
  <2>3. /\ nextCue' \in Nat /\ nextCue <= nextCue' /\ (nextCue' <= Len(track) \/ nextCue' = nextCue)
        /\ nextCue < nextCue' /\ track[nextCue'].name = "neutral" => asked'.source # "text"
    BY <2>1, <2>2, WalkTyped
  <2>4. nextCue < nextCue' /\ nextCue' <= Len(track) /\ track # <<>>
    BY <2>1, <2>2, <2>3
  <2>5. marked
    BY <2>4 DEF Facing
  <2>6. currentAudio = Recording => Closes(track) /\ (nextCue' = Len(track) => asked'.source # "text")
    BY <2>3, <2>4, <2>5 DEF Facing, Closes
  <2>7. Closes(track)' <=> Closes(track)
    BY <2>1 DEF Closes
  <2> QED BY <2>1, <2>4, <2>5, <2>6, <2>7 DEF Facing
<1>3. ASSUME NEW name \in Names \cup {"neutral"}, Express(name) PROVE Facing'
  <2>1. asked'.source # "text" /\ UNCHANGED <<speaking, currentAudio, track, nextCue>>
    BY <1>3 DEF Express, Neutral, voiceVars
  <2> QED BY <2>1 DEF Facing, Closes
<1>4. ASSUME NEW e \in Elements, Heard(e) \/ Advance(e)
      PROVE  UNCHANGED <<speaking, currentAudio, track, nextCue, asked>>
  BY <1>4 DEF Heard, Advance, TimePasses, faceVars, voiceVars
<1>5. FrameClock => UNCHANGED <<speaking, currentAudio, track, nextCue, asked>>
  BY DEF FrameClock, TimePasses, voiceVars
<1> QED BY <1>1, <1>2, <1>3, <1>4, <1>5 DEF EngineMoves

-----------------------------------------------------------------------------
(* What was read, step by step                                             *)

\* A step that reads no frame.
LEMMA CountedKept ==
    ASSUME Counted, frames \in Seq(Frames), UNCHANGED <<frames, read, samples, recording, whole>>,
           \/ reader' = reader
           \/ reader' \in {"draining", "playing", "resolved", "rejected"}
           \/ reader = "fetching" /\ reader' = "reading"
    PROVE  Counted'
<1>1. SentSamples(read)' = SentSamples(read) /\ SentSamples(0) = 0
  BY SentNext DEF SentSamples
<1>2. RecordingIsWhole'
  BY <1>1 DEF Counted, RecordingIsWhole
<1>3. reader' = "reading" => samples' = SentSamples(read)'
  BY <1>1 DEF Counted
<1> QED BY <1>2, <1>3 DEF Counted

\* An error leaves no recording.
LEMMA RejectsCounted ==
    ASSUME Counted, Timed, reader \in {"fetching", "reading"}, Rejects,
           read' = read \/ read' = read + 1
    PROVE  Counted'
<1>1. /\ reader' = "rejected" /\ recording = "none" /\ recording' = "rejected"
      /\ UNCHANGED <<frames, whole>>
  BY DEF Rejects, Rejecting, Counted, assemblyVars
<1>2. 1..read \subseteq 1..read'
  BY StreamAssumption DEF Timed
<1>3. whole' => \E i \in 1..read' : frames'[i].type = "recording"
  BY <1>1, <1>2 DEF Counted
<1> QED BY <1>1, <1>3 DEF Counted, RecordingIsWhole

LEMMA ReadFrameCounted == ASSUME Counted, Timed, Course, ReadFrame PROVE Counted'
<1> DEFINE f == frames[read + 1]
<1>1. reader = "reading" /\ read < Len(frames) /\ read' = read + 1 /\ recording = "none"
      /\ samples = SentSamples(read)
  BY DEF ReadFrame, Counted
<1>2. /\ frames \in Seq(Frames) /\ read \in Nat /\ read + 1 \in 1..Len(frames) /\ samples \in Nat
      /\ 1..read \subseteq 1..(read + 1) /\ read + 1 \in 1..(read + 1)
  BY <1>1, StreamAssumption DEF Timed
<1>3. SentSamples(read + 1) = AddSamples(samples, f)
  BY <1>1, <1>2, SentNext
<1> HIDE DEF f
<1>4. ASSUME frames' = frames PROVE SentSamples(read)' = SentSamples(read + 1) /\ frames[read'] = f
  BY <1>1, <1>4 DEF SentSamples, f
<1>5. ASSUME whole, frames' = frames PROVE \E i \in 1..read' : frames'[i].type = "recording"
  BY <1>1, <1>2, <1>5 DEF Counted
<1>6. CASE handleStopped
  <2>1. reader' = "resolved" /\ recording' = "none" /\ UNCHANGED <<frames, whole>>
    BY <1>1, <1>6 DEF ReadFrame, assemblyVars
  <2> QED BY <1>5, <2>1 DEF Counted, RecordingIsWhole
<1>7. CASE ~handleStopped
  <2>0. TakeFrame(f)
    BY <1>7 DEF ReadFrame, f
  <2>1. CASE Rejects
    BY <1>1, <2>1, RejectsCounted
  <2>2. CASE f.type = "chunk" /\ ~Rejects
    <3>1. /\ samples' = samples + f.samples
          /\ UNCHANGED <<frames, reader, recording, whole>>
      BY <1>1, <1>7, <2>0, <2>2, StillReading DEF TakeFrame, ReadChunk
    <3>2. samples' = SentSamples(read)'
      BY <1>3, <1>4, <2>2, <3>1 DEF AddSamples
    <3> QED BY <1>1, <1>5, <3>1, <3>2 DEF Counted, RecordingIsWhole
  <2>3. CASE f.type = "done" /\ ~Rejects
    <3>1. ReadDone(f)
      BY <2>0, <2>3 DEF TakeFrame
    <3>2. /\ recording' = "resolved" /\ reader' \in {"playing", "draining"}
          /\ UNCHANGED <<frames, samples, whole>>
          /\ ~whole => f.samples = samples
      BY <2>3, <3>1 DEF ReadDone, Complete, assemblyVars
    <3>3. read' > 0 /\ frames'[read'].type = "done" /\ frames'[read'] = f
      BY <1>1, <1>2, <1>4, <2>3, <3>2
    <3>4. ~whole => samples' = SentSamples(read)' /\ samples' = frames'[read'].samples
      BY <1>3, <1>4, <2>3, <3>2, <3>3 DEF AddSamples
    <3>5. whole' => \E i \in 1..read' : frames'[i].type = "recording"
      BY <1>5, <3>2
    <3>6. RecordingIsWhole'
      BY <3>2, <3>3, <3>4, <3>5 DEF RecordingIsWhole
    <3> QED BY <3>2, <3>5, <3>6 DEF Counted
  <2>4. CASE f.type \notin {"chunk", "done", "error"}
    <3>1. /\ whole' = (whole \/ f.type = "recording")
          /\ UNCHANGED <<frames, reader, recording, samples>>
      BY <2>0, <2>4 DEF TakeFrame, ReadOther
    <3>2. samples' = SentSamples(read)'
      BY <1>1, <1>3, <1>4, <2>4, <3>1 DEF AddSamples
    <3>3. whole' => \E i \in 1..read' : frames'[i].type = "recording"
      <4>1. CASE whole
        BY <1>5, <3>1, <4>1
      <4>2. CASE f.type = "recording"
        <5>1. frames'[read + 1].type = "recording" /\ read + 1 \in 1..read'
          BY <1>1, <1>2, <3>1, <4>2 DEF f
        <5> QED BY <5>1
      <4> QED BY <3>1, <4>1, <4>2
    <3> QED BY <1>1, <3>1, <3>2, <3>3 DEF Counted, RecordingIsWhole
  <2>5. CASE f.type = "error"
    BY <2>0, <2>1, <2>5 DEF TakeFrame
  <2> QED BY <2>1, <2>2, <2>3, <2>4, <2>5
<1> QED BY <1>6, <1>7

-----------------------------------------------------------------------------
(* What a stream asks of the engine, and the invariant kept                *)

StepsWell == Facing' /\ Flagged' /\ (EngineCall \/ FrameClock \/ (EngineMoves /\ UNCHANGED streamVars))

LEMMA TickWell == ASSUME Sounding, Tick \/ Resume PROVE StepsWell
<1>1. PICK held : TickOn(held, spans, sealed, length)
  BY DEF Tick, Resume
<1>2. UNCHANGED <<marked, reader, handleStopped, recording, length, chunks, whole, sealed>>
      /\ paused' \in BOOLEAN /\ running' \in BOOLEAN
  BY DEF Tick, Resume, handleVars, assemblyVars, Sounding, Flagged
<1>3. /\ Facing /\ Mouth /\ marked \in BOOLEAN /\ now \in Nat /\ lastTime \in 0..now
      /\ playerStopped \in BOOLEAN /\ streamSpeaking \in BOOLEAN /\ length \in Nat
      /\ spans \in Seq(Span) /\ InOrderUpTo(spans, samples)
  BY DEF Sounding, InTune, Timed, Line, Flagged
<1>4. Facing' /\ EngineCall /\ playerStopped' \in BOOLEAN /\ streamSpeaking' \in BOOLEAN
  BY <1>1, <1>2, <1>3, TickFaces
<1>5. Flagged'
  BY <1>2, <1>4 DEF Sounding, Flagged
<1> QED BY <1>4, <1>5 DEF StepsWell

LEMMA RejectsWell == ASSUME Sounding, Rejects PROVE StepsWell
<1>1. /\ StopHandle /\ reader' = "rejected" /\ recording' \in {"none", "resolved", "rejected"}
      /\ UNCHANGED <<marked, length, chunks, whole, sealed, paused, running>>
  BY DEF Rejects, Rejecting, assemblyVars, contextVars, Sounding, Flagged
<1>2. /\ Facing' /\ EngineCall
      /\ handleStopped' \in BOOLEAN /\ playerStopped' \in BOOLEAN /\ streamSpeaking' \in BOOLEAN
  BY <1>1, StopHandleFaces DEF Sounding
<1>3. Flagged'
  BY <1>1, <1>2 DEF Sounding, Flagged
<1> QED BY <1>2, <1>3 DEF StepsWell

\* The engine and the player left alone.
LEMMA AsideWell ==
    ASSUME Sounding, UNCHANGED <<engineVars, marked, handleStopped, length, chunks, sealed,
                                 playerStopped, streamSpeaking, paused>>,
           reader' = reader \/ reader' \in {"reading", "resolved"},
           recording' = recording, running' \in BOOLEAN, whole' \in BOOLEAN
    PROVE  StepsWell
<1>1. Facing' /\ EngineCall
  BY LeftFaces DEF Sounding
<1>2. Flagged'
  BY DEF Sounding, Flagged
<1> QED BY <1>1, <1>2 DEF StepsWell

LEMMA ReadFrameWell == ASSUME Sounding, ReadFrame PROVE StepsWell
<1> DEFINE f == frames[read + 1]
<1>1. read < Len(frames) /\ read' = read + 1 /\ reader = "reading"
  BY DEF ReadFrame
<1>2. f \in Frames
  BY <1>1, StreamAssumption DEF Sounding, InTune, Timed
<1> HIDE DEF f
<1>3. CASE handleStopped
  <2>1. /\ reader' = "resolved"
        /\ UNCHANGED <<engineVars, marked, handleStopped, recording, length, chunks, whole, sealed,
                       playerStopped, streamSpeaking, paused, running>>
    BY <1>3 DEF ReadFrame, assemblyVars, playerVars, contextVars
  <2> QED BY <2>1, AsideWell DEF Sounding, Flagged
<1>4. CASE ~handleStopped
  <2>0. TakeFrame(f)
    BY <1>4 DEF ReadFrame, f
  <2>1. CASE Rejects
    BY <2>1, RejectsWell
  <2>2. CASE f.type = "chunk" /\ ~Rejects
    <3>0. /\ f.samples \in Nat /\ samples \in Nat /\ length \in Nat /\ chunks \in Nat
          /\ now \in Nat /\ lastTime \in 0..now /\ spans \in Seq(Span)
          /\ InOrderUpTo(spans, samples) /\ Joined(spans, samples)
      BY <1>2, <2>2 DEF Frames, Sounding, InTune, Timed, Line, Flagged
    <3> DEFINE heard == samples + f.samples
               len == IF heard > length THEN heard ELSE length
               list == Scheduled(spans, now, f.samples, samples)
    <3>a. ~playerStopped /\ ~sealed
      BY <1>1, <1>4, StillReading DEF Sounding, InTune
    <3>1. /\ chunks' = chunks + 1 /\ length' = len /\ TickOn(Held, list, sealed, len)
          /\ UNCHANGED <<marked, reader, handleStopped, recording, whole, sealed, paused, running>>
      BY <2>0, <2>2, <3>a DEF TakeFrame, ReadChunk
    <3>2. list \in Seq(Span) /\ InOrderUpTo(list, heard) /\ len \in Nat
      <4>1. ASSUME NEW d \in Nat
            PROVE  /\ Scheduled(spans, now, d, samples) \in Seq(Span)
                   /\ InOrderUpTo(Scheduled(spans, now, d, samples), samples + d)
        BY <3>0, ScheduledJoins
      <4>2. heard \in Nat
        BY <3>0
      <4>3. len \in Nat
        BY <3>0, <4>2
      <4> QED BY <3>0, <4>1, <4>3
    <3> HIDE DEF list, len, heard
    <3>3. /\ Facing /\ Mouth /\ marked \in BOOLEAN
          /\ playerStopped \in BOOLEAN /\ streamSpeaking \in BOOLEAN
      BY DEF Sounding, InTune, Flagged
    <3>4. Facing' /\ EngineCall /\ playerStopped' \in BOOLEAN /\ streamSpeaking' \in BOOLEAN
      BY <3>0, <3>1, <3>2, <3>3, TickFaces
    <3>5. Flagged'
      BY <3>0, <3>1, <3>2, <3>4 DEF Sounding, Flagged
    <3> QED BY <3>4, <3>5 DEF StepsWell
  <2>3. CASE f.type = "done" /\ ~Rejects
    <3>0. ReadDone(f)
      BY <2>0, <2>3 DEF TakeFrame
    <3>1. CASE whole
      <4>1. /\ playerStopped' = TRUE /\ streamSpeaking' = FALSE /\ recording' = "resolved"
            /\ reader' = "playing"
            /\ \E on \in {asked, ReleasedText} :
                 PlayShowing(Recording, ExpressionTrack(Duration), on)
            /\ UNCHANGED <<marked, handleStopped, length, chunks, whole, sealed, paused, running>>
        BY <3>0, <3>1 DEF ReadDone, assemblyVars, contextVars
      <4>2. Facing' /\ EngineCall
        BY <4>1, WholeFaces DEF Sounding, Flagged
      <4>3. Flagged'
        BY <4>1 DEF Sounding, Flagged
      <4> QED BY <4>2, <4>3 DEF StepsWell
    <3>2. CASE ~whole
      <4>1. /\ length' = samples /\ recording' = "resolved" /\ reader' = "draining" /\ sealed' = TRUE
            /\ TickOn(Held, spans, TRUE, samples)
            /\ UNCHANGED <<marked, handleStopped, chunks, whole, paused, running>>
        BY <2>3, <3>0, <3>2 DEF ReadDone, assemblyVars, contextVars
      <4>2. /\ Facing /\ Mouth /\ marked \in BOOLEAN /\ now \in Nat /\ lastTime \in 0..now
            /\ playerStopped \in BOOLEAN /\ streamSpeaking \in BOOLEAN /\ samples \in Nat
            /\ spans \in Seq(Span) /\ InOrderUpTo(spans, samples)
        BY DEF Sounding, InTune, Timed, Line, Flagged
      <4>3. Facing' /\ EngineCall /\ playerStopped' \in BOOLEAN /\ streamSpeaking' \in BOOLEAN
        BY <4>1, <4>2, TickFaces
      <4>4. Flagged'
        BY <4>1, <4>2, <4>3 DEF Sounding, Flagged
      <4> QED BY <4>3, <4>4 DEF StepsWell
    <3> QED BY <3>1, <3>2
  <2>4. CASE f.type \notin {"chunk", "done", "error"}
    <3>1. /\ whole' = (whole \/ f.type = "recording")
          /\ UNCHANGED <<engineVars, marked, reader, handleStopped, recording, length, chunks, sealed,
                         playerStopped, streamSpeaking, paused, running>>
      BY <2>0, <2>4 DEF TakeFrame, ReadOther, playerVars, contextVars
    <3> QED BY <3>1, AsideWell DEF Sounding, Flagged
  <2>5. CASE f.type = "error"
    BY <2>0, <2>1, <2>5 DEF TakeFrame
  <2> QED BY <2>1, <2>2, <2>3, <2>4, <2>5
<1> QED BY <1>3, <1>4

LEMMA StreamStepsWell == ASSUME Sounding, StreamNext PROVE StepsWell
<1>1. CASE Answered \/ Drained \/ Unlock \/ Interrupted \/ ContextClock
  <2>1. /\ UNCHANGED <<engineVars, marked, handleStopped, length, chunks, sealed,
                       playerStopped, streamSpeaking, paused, recording, whole>>
        /\ reader' = reader \/ reader' \in {"reading", "resolved"}
        /\ running' = running \/ running' \in BOOLEAN
    BY <1>1 DEF Answered, Drained, Unlock, Interrupted, ContextClock, handleVars, assemblyVars,
                playerVars, contextVars
  <2> QED BY <2>1, AsideWell DEF Sounding, Flagged
<1>2. CASE Breaks
  BY <1>2, RejectsWell DEF Breaks
<1>3. CASE ReadFrame
  BY <1>3, ReadFrameWell
<1>4. CASE StreamStop
  <2>1. /\ StopHandle
        /\ UNCHANGED <<marked, reader, recording, length, chunks, whole, sealed, paused, running>>
    BY <1>4 DEF StreamStop, assemblyVars, contextVars
  <2>2. /\ Facing' /\ EngineCall
        /\ handleStopped' \in BOOLEAN /\ playerStopped' \in BOOLEAN /\ streamSpeaking' \in BOOLEAN
    BY <2>1, StopHandleFaces DEF Sounding
  <2>3. Flagged'
    BY <2>1, <2>2 DEF Sounding, Flagged
  <2> QED BY <2>2, <2>3 DEF StepsWell
<1>5. CASE Tick \/ Resume
  BY <1>5, TickWell
<1>6. CASE Pause
  <2>1. /\ CloseMouth /\ paused' = TRUE /\ running' = running
        /\ UNCHANGED <<marked, reader, handleStopped, recording, length, chunks, whole, sealed,
                       playerStopped>>
    BY <1>6 DEF Pause, handleVars, assemblyVars, contextVars
  <2>2. Facing' /\ EngineCall /\ streamSpeaking' = FALSE
    BY <2>1, ClosingFaces DEF Sounding
  <2>3. Flagged'
    BY <2>1, <2>2 DEF Sounding, Flagged
  <2> QED BY <2>2, <2>3 DEF StepsWell
<1>7. ASSUME NEW how \in {"ended", "failed"}, RecordingTells(how) PROVE StepsWell
  <2>1. /\ UNCHANGED <<marked, handleStopped, recording, length, chunks, whole, sealed, playerStopped,
                       streamSpeaking, paused, running>>
        /\ reader' = reader \/ reader' = "resolved"
    BY <1>7 DEF RecordingTells, assemblyVars, playerVars, contextVars
  <2>2. Facing' /\ EngineCall
    BY <1>7, <2>1, TellsFaces DEF Sounding, Flagged, InTune, Mouth
  <2>3. Flagged'
    BY <2>1 DEF Sounding, Flagged
  <2> QED BY <2>2, <2>3 DEF StepsWell
<1>8. CASE FramesRun \/ (EngineMoves /\ UNCHANGED streamVars)
  <2>1. UNCHANGED <<marked, reader, handleStopped, recording, length, chunks, whole, sealed,
                    playerStopped, streamSpeaking, paused, running>>
    BY <1>8 DEF FramesRun, streamVars, handleVars, assemblyVars, playerVars, contextVars
  <2>2. Facing'
    BY <1>8, <2>1, MovesFaces DEF Sounding, Flagged, FramesRun
  <2>3. Flagged'
    BY <2>1 DEF Sounding, Flagged
  <2> QED BY <1>8, <2>2, <2>3 DEF StepsWell, FramesRun
<1> QED BY <1>1, <1>2, <1>3, <1>4, <1>5, <1>6, <1>7, <1>8 DEF StreamNext

LEMMA StreamCounted == ASSUME Sounding, StreamNext PROVE Counted'
<1>0. Counted /\ Timed /\ Course /\ frames \in Seq(Frames)
  BY StreamAssumption DEF Sounding, InTune, Timed
<1>1. CASE ReadFrame
  BY <1>0, <1>1, ReadFrameCounted
<1>2. CASE Breaks
  BY <1>0, <1>2, RejectsCounted DEF Breaks
<1>3. CASE ~ReadFrame /\ ~Breaks
  <2>1. /\ UNCHANGED <<frames, read, samples, recording, whole>>
        /\ \/ reader' = reader
           \/ reader' \in {"draining", "playing", "resolved", "rejected"}
           \/ reader = "fetching" /\ reader' = "reading"
    BY <1>3 DEF StreamNext, Answered, Drained, StreamStop, Tick, Pause, Resume, Unlock, Interrupted,
                ContextClock, FramesRun, RecordingTells, handleVars, assemblyVars, streamVars
  <2> QED BY <1>0, <2>1, CountedKept
<1> QED BY <1>1, <1>2, <1>3

LEMMA SoundingAtFirst == EngineInit /\ StreamInit => Sounding
<1> SUFFICES ASSUME EngineInit, StreamInit PROVE Sounding
  OBVIOUS
<1>1. InTune /\ EngineTypeOK
  BY InTuneAtFirst, EngineTypedAtFirst
<1>2. Flagged
  BY StreamAssumption DEF StreamInit, Flagged
<1>3. Counted
  <2>1. recording = "none" /\ read = 0 /\ samples = 0 /\ reader \in {"unasked", "fetching"} /\ ~whole
    BY DEF StreamInit
  <2> QED BY <2>1 DEF Counted, RecordingIsWhole
<1>4. Facing
  <2>1. asked.source = "none" /\ speaking = FALSE /\ track = <<>> /\ currentAudio = None
    BY DEF EngineInit, Neutral
  <2>2. None # Recording
    BY EngineAssumption, StreamAssumption
  <2> QED BY <2>1, <2>2 DEF Facing
<1> QED BY <1>1, <1>2, <1>3, <1>4 DEF Sounding

LEMMA SoundingKept == Sounding /\ [StreamNext]_streamSpecVars => Sounding'
<1> SUFFICES ASSUME Sounding, [StreamNext]_streamSpecVars PROVE Sounding'
  OBVIOUS
<1>1. InTune'
  BY InTuneKept DEF Sounding
<1>2. CASE StreamNext
  <2>1. StepsWell /\ Counted'
    BY <1>2, StreamStepsWell, StreamCounted
  <2>2. EngineTypeOK'
    BY <2>1, EngineCallTyped, EngineMovesTyped DEF Sounding, StepsWell
  <2> QED BY <1>1, <2>1, <2>2 DEF Sounding, StepsWell
<1>3. CASE UNCHANGED streamSpecVars
  <2>1. /\ UNCHANGED engineVars
        /\ UNCHANGED <<frames, marked, read, reader, handleStopped, recording, length, samples, chunks,
                       whole, sealed, playerStopped, streamSpeaking, paused, running>>
    BY <1>3 DEF streamSpecVars, streamVars, handleVars, assemblyVars, playerVars, contextVars
  <2>2. StepsWell
    BY <2>1, AsideWell DEF Sounding, Flagged
  <2>3. EngineTypeOK'
    BY <2>1, EngineCallTyped DEF Sounding, EngineCall
  <2>4. Counted'
    BY <2>1, CountedKept, StreamAssumption DEF Sounding, InTune, Timed
  <2> QED BY <1>1, <2>2, <2>3, <2>4 DEF Sounding, StepsWell
<1> QED BY <1>2, <1>3

\* The inductive invariant of a stream and the face it moves: what was read is
\* what is counted (protocol.ts SpeechAssembly), and a text's expression is on
\* only under its sound (expression-mixer.ts).
THEOREM AlwaysSounding == StreamSpec => []Sounding
<1> QED BY SoundingAtFirst, SoundingKept, PTL DEF StreamSpec
=============================================================================
