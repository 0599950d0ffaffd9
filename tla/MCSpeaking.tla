------------------------------ MODULE MCSpeaking ------------------------------
EXTENDS Speaking

CONSTANTS c1, c2, rec

MCCalls == {c1, c2}
MCElements == (MCCalls \X (1..2)) \cup {rec}

\* Texts: two chunks, a tag in the first; a tag alone, then a chunk with a
\* [neutral]; a tag alone, which says nothing.
Tag(word, name) == [word |-> word, name |-> name]
Words(tags) == [said |-> TRUE, tags |-> tags]
TagsOnly(tags) == [said |-> FALSE, tags |-> tags]
MCTexts ==
    {<<Words(<<Tag(2, "happy")>>), Words(<<>>)>>,
     <<TagsOnly(<<Tag(0, "happy")>>), Words(<<Tag(2, "neutral")>>)>>,
     <<TagsOnly(<<Tag(3, "happy")>>)>>}

\* Tracks of a browser's text: none, and a tag with its release.
MCTracks ==
    {<<>>, <<[t |-> 1, name |-> "happy"], [t |-> 2, name |-> "neutral"]>>}

\* Streams: two phrases; a phrase missing; the totals of more than came; an
\* error after a phrase; a whole recording.
Start == [type |-> "start"]
Phrase(n, from, count) ==
    [type |-> "chunk", sequence |-> n, from |-> from, samples |-> count]
Done(n, count) == [type |-> "done", chunks |-> n, samples |-> count]
MCStreams ==
    {<<Start, Phrase(0, 0, 2), Phrase(1, 2, 1), Done(2, 3)>>,
     <<Start, Phrase(0, 0, 2), Phrase(2, 3, 1), Done(3, 4)>>,
     <<Start, Phrase(0, 0, 2), Done(2, 3)>>,
     <<Start, Phrase(0, 0, 1), [type |-> "error"]>>,
     <<Start, [type |-> "recording"], Done(1, 3)>>}
=============================================================================
