------------------------------ MODULE MCSessions ------------------------------
EXTENDS Sessions

CONSTANTS t1, t2, load

MCTabs == {t1, t2}

MCCalls == (MCTabs \X {Me}) \cup {<<t1, load>>}

\* A call always ends: the first tab's, whatever the other tab does with the
\* lock they share (liveness costs TLC too much to ask of every call).
LoadEnds == CallEnds(<<t1, load>>)
=============================================================================
