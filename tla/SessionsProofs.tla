---------------------------- MODULE SessionsProofs ----------------------------
(***************************************************************************)
(* Theorems about Sessions, for any tabs, users and calls and without the  *)
(* runs' bounds on sessions and tokens.                                    *)
(***************************************************************************)
EXTENDS Sessions, TLAPS

-----------------------------------------------------------------------------
(* The inductive invariant                                                 *)

Refreshers == Tabs \cup {Dropped}

\* What a refresh holds: a cookie from when it asks, of a token issued; the
\* successor of that, issued too, when it is answered; and a session that
\* has ended when that is the answer.
Holding(f) ==
    /\ f.cookie # None =>
         /\ f.pc \notin {"none", "lock"}
         /\ f.cookie[2] <= sessions[f.cookie[1]].issued
    /\ f.pc = "claiming" => f.cookie # None
    /\ f.pc = "issued" =>
         /\ f.cookie # None
         /\ f.answer = Successor(f.cookie)
         /\ f.answer[2] <= sessions[f.answer[1]].issued
    /\ f.pc # "issued" => f.answer = None
    /\ f.pc = "pause" => f.attempt = 0
    /\ f.pc = "ended" => ~Live(f.cookie)
AskedFor == \A r \in Refreshers : Holding(refresh[r])

\* The cookie is of a token issued.
JarIssued == jar # None => jar[2] <= sessions[jar[1]].issued

\* With locks, the cookie and the one a tab asks with are at most one token
\* behind their session, and no tab is superseded.
Near(tk) == Live(tk) => sessions[tk[1]].issued <= tk[2] + 1
NoneBehind ==
    locks =>
        /\ jar # None => Near(jar)
        /\ \A t \in Tabs : /\ refresh[t].cookie # None => Near(refresh[t].cookie)
                           /\ refresh[t].pc # "superseded"

\* With locks, cookies are asked with in the order they were set: the one in
\* the jar is the latest of its session, the one of a dropped request the
\* earliest.
NotAfter(tk, later) == tk # None /\ later # None /\ tk[1] = later[1] => tk[2] <= later[2]
InTurn ==
    locks =>
        /\ \A r \in Refreshers : NotAfter(refresh[r].cookie, jar)
        /\ \A t \in Tabs : NotAfter(refresh[Dropped].cookie, refresh[t].cookie)

\* Until an answer overtakes a newer cookie, a tab whose session is live has
\* that session in the jar.
LiveIsJars ==
    ~overtaken => \A t \in Tabs : Live(token[t]) => jar # None /\ jar[1] = token[t][1]

Consistent ==
    /\ SessionsTypeOK /\ AskedFor /\ JarIssued /\ NoneBehind /\ InTurn /\ LiveIsJars

-----------------------------------------------------------------------------
(* Types                                                                   *)

LEMMA Beginnings ==
    /\ Unopened \in Session
    /\ Idle \in Refresh
    /\ NoCall \in Call
    /\ \A tk \in Tokens \cup {None} : Sent(tk) \in Call
<1>1. Unopened \in Session
  BY DEF Unopened, Session
<1>2. Idle \in Refresh
  BY DEF Idle, Refresh, Answers
<1>3. NoCall \in Call
  BY DEF NoCall, Call
<1>4. ASSUME NEW tk \in Tokens \cup {None} PROVE Sent(tk) \in Call
  BY DEF Sent, Call
<1> QED BY <1>1, <1>2, <1>3, <1>4

LEMMA TypesAtFirst == Init => SessionsTypeOK
<1> SUFFICES ASSUME Init PROVE SessionsTypeOK
  OBVIOUS
<1>1. \A t \in Tabs : lock = t <=> locks /\ refresh[t].pc \notin {"none", "lock"}
  BY SessionsAssumption DEF Init, Idle
<1>2. sessions \in [SessionIds -> Session] /\ refresh \in [Tabs \cup {Dropped} -> Refresh]
      /\ call \in [Calls -> Call]
  BY Beginnings DEF Init
<1> QED BY <1>1, <1>2 DEF Init, SessionsTypeOK

LEMMA SuccessorsAreTokens ==
    ASSUME NEW tk \in Tokens
    PROVE  Successor(tk) \in Tokens
BY DEF Successor, Tokens

LEMMA RevokedAreSessions ==
    ASSUME sessions \in [SessionIds -> Session], NEW ids
    PROVE  Revoked(ids) \in [SessionIds -> Session]
BY DEF Revoked, Over, Session

LEMMA AnsweredTypes ==
    ASSUME SessionsTypeOK, NEW r \in Refreshers, NEW how \in Answers,
           how = "issued" => refresh[r].cookie # None
    PROVE  Answered(r, how) \in [Refreshers -> Refresh]
<1>1. refresh[r] \in Refresh /\ refresh[r].cookie \in Tokens \cup {None}
  BY DEF SessionsTypeOK, Refreshers, Refresh
<1>2. how = "issued" => Successor(refresh[r].cookie) \in Tokens
  BY <1>1, SuccessorsAreTokens
<1> QED BY <1>1, <1>2 DEF Answered, SessionsTypeOK, Refreshers, Refresh

LEMMA RepeatAnswers == ASSUME NEW tk PROVE RepeatAnswer(tk) \in Answers
BY DEF RepeatAnswer, Answers

LEMMA CallTypes ==
    ASSUME SessionsTypeOK, NEW t \in Tabs, NEW tk \in Tokens \cup {None}
    PROVE  /\ Resent(t, tk) \in [Calls -> Call]
           /\ [Resent(t, tk) EXCEPT ![<<t, Me>>] = Sent(tk)] \in [Calls -> Call]
           /\ GivenUp(t) \in [Calls -> Call]
<1>1. Resent(t, tk) \in [Calls -> Call]
  <2>1. ASSUME NEW c \in Calls PROVE [call[c] EXCEPT !.pc = "again", !.with = tk] \in Call
    BY DEF SessionsTypeOK, Call
  <2> QED BY <2>1 DEF Resent, SessionsTypeOK
<1>2. GivenUp(t) \in [Calls -> Call]
  BY Beginnings DEF GivenUp, SessionsTypeOK
<1>3. [Resent(t, tk) EXCEPT ![<<t, Me>>] = Sent(tk)] \in [Calls -> Call]
  BY <1>1, Beginnings
<1> QED BY <1>1, <1>2, <1>3

\* The lock is held by the tab that is at its exchange.
Coherent(t) == lock = t <=> locks /\ refresh[t].pc \notin {"none", "lock"}

LEMMA TabsAreNotDropped == \A t \in Tabs : t # Dropped /\ t # None
BY SessionsAssumption

\* A refresh that has its lock goes on: the lock stays with it.
LEMMA GoingOnKeepsLock ==
    ASSUME SessionsTypeOK, NEW r \in Refreshers, NEW f \in Refresh,
           refresh[r].pc \notin {"none", "lock"}, f.pc \notin {"none", "lock"},
           refresh' = [refresh EXCEPT ![r] = f], UNCHANGED <<lock, locks>>
    PROVE  \A t \in Tabs : Coherent(t)'
BY DEF SessionsTypeOK, Refreshers, Coherent

\* One that is done gives it back.
LEMMA DoneReleases ==
    ASSUME SessionsTypeOK, NEW t \in Tabs, NEW g,
           refresh' = [[refresh EXCEPT ![Dropped] = g] EXCEPT ![t] = Idle] \/
           refresh' = [[refresh EXCEPT ![Dropped] = g] EXCEPT ![t] = [Idle EXCEPT !.pc = "lock"]],
           lock' = Released(t), UNCHANGED locks
    PROVE  /\ \A u \in Tabs : Coherent(u)'
           /\ lock' \in Tabs \cup {None}
<1>1. ASSUME NEW u \in Tabs PROVE Coherent(u)'
  <2>1. CASE u = t
    <3>1. refresh'[t].pc \in {"none", "lock"}
      BY SessionsAssumption DEF SessionsTypeOK, Idle
    <3>2. lock' # t
      BY TabsAreNotDropped DEF Released
    <3> QED BY <2>1, <3>1, <3>2 DEF Coherent
  <2>2. CASE u # t
    <3>1. refresh'[u] = refresh[u]
      BY <2>2, TabsAreNotDropped DEF SessionsTypeOK
    <3>2. lock' = u <=> lock = u
      BY <2>2, TabsAreNotDropped DEF Released
    <3> QED BY <3>1, <3>2 DEF Coherent, SessionsTypeOK
  <2> QED BY <2>1, <2>2
<1> QED BY <1>1 DEF Released, SessionsTypeOK

LEMMA TypesKept == ASSUME SessionsTypeOK, AskedFor, Next PROVE SessionsTypeOK'
<1> USE DEF Refreshers
<1>0. /\ \A r \in Refreshers : refresh[r] \in Refresh
      /\ \A t \in Tabs : Coherent(t) /\ token[t] \in Tokens \cup {None} /\ user[t] \in Users \cup {None}
      /\ \A s \in SessionIds : sessions[s] \in Session
      /\ \A c \in Calls : call[c] \in Call
  BY DEF SessionsTypeOK, Coherent
<1> DEFINE Data ==
             /\ sessions' \in [SessionIds -> Session]
             /\ jar' \in Tokens \cup {None}
             /\ locks' \in BOOLEAN
             /\ lock' \in Tabs \cup {None}
             /\ token' \in [Tabs -> Tokens \cup {None}]
             /\ user' \in [Tabs -> Users \cup {None}]
             /\ refresh' \in [Tabs \cup {Dropped} -> Refresh]
             /\ call' \in [Calls -> Call]
             /\ overtaken' \in BOOLEAN
<1> SUFFICES Data /\ \A t \in Tabs : Coherent(t)'
  BY DEF SessionsTypeOK, Coherent
<1>a. ASSUME NEW r \in Refreshers, NEW how \in Answers, refresh[r].pc \notin {"none", "lock"},
             how = "issued" => refresh[r].cookie # None,
             refresh' = Answered(r, how), UNCHANGED <<lock, locks>>
      PROVE  refresh' \in [Tabs \cup {Dropped} -> Refresh] /\ \A t \in Tabs : Coherent(t)'
  <2>1. refresh' \in [Tabs \cup {Dropped} -> Refresh]
    BY <1>a, AnsweredTypes
  <2>2. refresh' = [refresh EXCEPT ![r] = refresh'[r]] /\ refresh'[r].pc = how
    BY <1>a, <1>0 DEF Answered, SessionsTypeOK, Refresh
  <2> QED BY <1>a, <2>1, <2>2, GoingOnKeepsLock DEF Answers
<1>b. ASSUME NEW tk PROVE RepeatAnswer(tk) \in Answers
  BY RepeatAnswers
<1>1. ASSUME NEW r \in Refreshers, RotateReads(r) PROVE Data /\ \A t \in Tabs : Coherent(t)'
  <2> DEFINE tk == refresh[r].cookie
  <2>1. CASE ~Live(tk)
    <3>1. refresh' = Answered(r, "ended") /\ UNCHANGED sessions
      BY <1>1, <2>1 DEF RotateReads
    <3> QED BY <1>1, <1>a, <3>1 DEF RotateReads, SessionsTypeOK, Answers
  <2>2. CASE Live(tk) /\ tk[2] < sessions[tk[1]].issued
    <3>1. AnswerRepeat(r, tk) /\ tk # None
      BY <1>1, <2>2 DEF RotateReads, Live
    <3>2. sessions' \in [SessionIds -> Session]
      BY <3>1, RevokedAreSessions DEF AnswerRepeat, SessionsTypeOK
    <3> QED BY <1>1, <1>a, <1>b, <3>1, <3>2 DEF RotateReads, AnswerRepeat, SessionsTypeOK
  <2>3. CASE Live(tk) /\ ~(tk[2] < sessions[tk[1]].issued)
    <3> DEFINE f == [refresh[r] EXCEPT !.pc = "claiming"]
    <3>1. refresh' = [refresh EXCEPT ![r] = f] /\ UNCHANGED sessions
      BY <1>1, <2>3 DEF RotateReads
    <3>2. f \in Refresh /\ f.pc = "claiming"
      BY <1>0 DEF Refresh
    <3>3. refresh' \in [Tabs \cup {Dropped} -> Refresh] /\ \A t \in Tabs : Coherent(t)'
      BY <1>1, <3>1, <3>2, GoingOnKeepsLock DEF RotateReads, SessionsTypeOK
    <3> QED BY <1>1, <3>1, <3>3 DEF RotateReads, SessionsTypeOK
  <2> QED BY <2>1, <2>2, <2>3
<1>2. ASSUME NEW r \in Refreshers, RotateClaims(r) PROVE Data /\ \A t \in Tabs : Coherent(t)'
  <2> DEFINE tk == refresh[r].cookie
  <2>0. tk # None /\ tk \in Tokens /\ tk[1] \in SessionIds
    BY <1>0, <1>2 DEF RotateClaims, AskedFor, Holding, Refresh, Tokens
  <2>1. CASE Claimable(tk)
    <3>1. sessions' = [sessions EXCEPT ![tk[1]].issued = @ + 1] /\ refresh' = Answered(r, "issued")
      BY <1>2, <2>1 DEF RotateClaims
    <3>2. sessions' \in [SessionIds -> Session]
      BY <3>1, <2>0, <1>0 DEF Session, SessionsTypeOK
    <3> QED BY <1>2, <1>a, <2>0, <3>1, <3>2 DEF RotateClaims, SessionsTypeOK, Answers
  <2>2. CASE ~Claimable(tk)
    <3>1. AnswerRepeat(r, tk)
      BY <1>2, <2>2 DEF RotateClaims
    <3>2. sessions' \in [SessionIds -> Session]
      BY <3>1, RevokedAreSessions DEF AnswerRepeat, SessionsTypeOK
    <3> QED BY <1>2, <1>a, <1>b, <2>0, <3>1, <3>2 DEF RotateClaims, AnswerRepeat, SessionsTypeOK
  <2> QED BY <2>1, <2>2
<1>3. ASSUME NEW r \in Refreshers, ServerFails(r) PROVE Data /\ \A t \in Tabs : Coherent(t)'
  BY <1>3, <1>a DEF ServerFails, SessionsTypeOK, Answers
<1>4. ASSUME NEW s \in SessionIds, GraceEnds(s) \/ Expires(s) \/ EndedElsewhere(s)
      PROVE Data /\ \A t \in Tabs : Coherent(t)'
  <2>1. sessions' \in [SessionIds -> Session]
    <3>1. CASE GraceEnds(s) \/ Expires(s)
      BY <3>1, <1>0 DEF GraceEnds, Expires, Session, SessionsTypeOK
    <3>2. CASE EndedElsewhere(s)
      BY <3>2, RevokedAreSessions DEF EndedElsewhere, SessionsTypeOK
    <3> QED BY <1>4, <3>1, <3>2
  <2> QED BY <1>0, <1>4, <2>1 DEF GraceEnds, Expires, EndedElsewhere, SessionsTypeOK, Coherent

<1>5. ASSUME NEW t \in Tabs, Ask(t) \/ AskAgain(t) PROVE Data /\ \A u \in Tabs : Coherent(u)'
  <2>1. CASE Ask(t)
    <3> DEFINE f == [Idle EXCEPT !.pc = "asked", !.cookie = jar]
    <3>1. f \in Refresh /\ f.pc = "asked"
      BY Beginnings DEF Refresh, SessionsTypeOK
    <3>2. refresh' \in [Tabs \cup {Dropped} -> Refresh]
      BY <2>1, <3>1 DEF Ask, SessionsTypeOK
    <3>3. ASSUME NEW u \in Tabs PROVE Coherent(u)'
      <4>1. /\ refresh'[t].pc = "asked" /\ refresh[t].pc = "lock"
            /\ u # t => refresh'[u] = refresh[u]
        BY <2>1, <3>1 DEF Ask, SessionsTypeOK
      <4>2. lock' = (IF locks THEN t ELSE None) /\ locks' = locks /\ (~locks \/ lock = None)
        BY <2>1 DEF Ask, MayAsk
      <4>3. Coherent(u) /\ u # None /\ t # None
        BY <1>0, TabsAreNotDropped
      <4>4. CASE u = t
        BY <4>1, <4>2, <4>3, <4>4 DEF Coherent
      <4>5. CASE u # t
        BY <4>1, <4>2, <4>3, <4>5 DEF Coherent
      <4> QED BY <4>4, <4>5
    <3> QED BY <2>1, <3>2, <3>3 DEF Ask, SessionsTypeOK
  <2>2. CASE AskAgain(t)
    <3> DEFINE f == [Idle EXCEPT !.pc = "asked", !.cookie = jar, !.attempt = refresh[t].attempt + 1]
    <3>0. refresh[t].attempt + 1 \in 0..1
      BY <2>2 DEF AskAgain, AskedFor, Holding
    <3>1. f \in Refresh /\ f.pc = "asked"
      BY <3>0 DEF Idle, Refresh, SessionsTypeOK
    <3>2. refresh' = [refresh EXCEPT ![t] = f] /\ UNCHANGED <<lock, locks>>
      BY <2>2 DEF AskAgain
    <3>3. refresh' \in [Tabs \cup {Dropped} -> Refresh] /\ \A u \in Tabs : Coherent(u)'
      BY <2>2, <3>1, <3>2, GoingOnKeepsLock DEF AskAgain, SessionsTypeOK
    <3> QED BY <2>2, <3>3 DEF AskAgain, SessionsTypeOK
  <2> QED BY <1>5, <2>1, <2>2
<1>c. ASSUME NEW t \in Tabs, refresh' = [refresh EXCEPT ![t] = Idle], lock' = Released(t),
             UNCHANGED locks
      PROVE  /\ refresh' \in [Tabs \cup {Dropped} -> Refresh]
             /\ lock' \in Tabs \cup {None}
             /\ \A u \in Tabs : Coherent(u)'
  <2>1. refresh' = [[refresh EXCEPT ![Dropped] = refresh[Dropped]] EXCEPT ![t] = Idle]
    BY <1>c DEF SessionsTypeOK
  <2>2. refresh' \in [Tabs \cup {Dropped} -> Refresh]
    BY <1>c, Beginnings DEF SessionsTypeOK
  <2> QED BY <1>c, <2>1, <2>2, DoneReleases
<1>d. ASSUME NEW t \in Tabs PROVE Overtaken(t) \in BOOLEAN
  BY DEF Overtaken, SessionsTypeOK
<1>6. ASSUME NEW t \in Tabs, Renewed(t) PROVE Data /\ \A u \in Tabs : Coherent(u)'
  <2>1. refresh[t].answer \in Tokens \cup {None}
    BY <1>0 DEF Refresh
  <2>2. call' \in [Calls -> Call]
    BY <1>6, <2>1, CallTypes DEF Renewed
  <2> QED BY <1>6, <1>c, <1>d, <2>1, <2>2 DEF Renewed, SessionsTypeOK
<1>7. ASSUME NEW t \in Tabs, Refused(t) \/ Superseded(t) PROVE Data /\ \A u \in Tabs : Coherent(u)'
  <2>1. ASSUME EndSession(t), UNCHANGED locks
        PROVE  /\ refresh' \in [Tabs \cup {Dropped} -> Refresh] /\ \A u \in Tabs : Coherent(u)'
               /\ lock' \in Tabs \cup {None} /\ token' \in [Tabs -> Tokens \cup {None}]
               /\ user' \in [Tabs -> Users \cup {None}] /\ call' \in [Calls -> Call]
    BY <2>1, <1>c, CallTypes DEF EndSession, SessionsTypeOK
  <2>2. CASE Refused(t)
    BY <2>1, <2>2, <1>d DEF Refused, SessionsTypeOK
  <2>3. CASE Superseded(t) /\ refresh[t].attempt = 0
    <3> DEFINE f == [refresh[t] EXCEPT !.pc = "pause"]
    <3>1. refresh' = [refresh EXCEPT ![t] = f] /\ UNCHANGED <<lock, locks>>
      BY <2>3 DEF Superseded
    <3>2. f \in Refresh /\ f.pc = "pause"
      BY <1>0 DEF Refresh
    <3>3. refresh' \in [Tabs \cup {Dropped} -> Refresh] /\ \A u \in Tabs : Coherent(u)'
      BY <2>3, <3>1, <3>2, GoingOnKeepsLock DEF Superseded, SessionsTypeOK
    <3> QED BY <2>3, <3>1, <3>3 DEF Superseded, SessionsTypeOK
  <2>4. CASE Superseded(t) /\ refresh[t].attempt # 0
    BY <2>1, <2>4 DEF Superseded, SessionsTypeOK
  <2> QED BY <1>7, <2>2, <2>3, <2>4
<1>8. ASSUME NEW t \in Tabs, LostAnswer(t) PROVE Data /\ \A u \in Tabs : Coherent(u)'
  <2>1. jar' \in Tokens \cup {None}
    BY <1>8, <1>0 DEF LostAnswer, Brought, SessionsTypeOK, Refresh
  <2> QED BY <1>8, <1>c, <1>d, <2>1, CallTypes DEF LostAnswer, SessionsTypeOK
<1>9. ASSUME NEW t \in Tabs, Reload(t) PROVE Data /\ \A u \in Tabs : Coherent(u)'
  <2>1. jar' \in Tokens \cup {None}
    BY <1>9, <1>0 DEF Reload, Brought, SessionsTypeOK, Refresh
  <2> DEFINE g == IF InFlight(t) THEN refresh[t] ELSE refresh[Dropped]
             f == IF jar' = None THEN Idle ELSE [Idle EXCEPT !.pc = "lock"]
  <2>2. refresh' = [[refresh EXCEPT ![Dropped] = g] EXCEPT ![t] = f]
    BY <1>9, TabsAreNotDropped DEF Reload, SessionsTypeOK
  <2>3. f \in Refresh /\ g \in Refresh
    BY <1>0, Beginnings DEF Refresh
  <2>4. refresh' \in [Tabs \cup {Dropped} -> Refresh]
    BY <2>2, <2>3 DEF SessionsTypeOK
  <2>5. lock' \in Tabs \cup {None} /\ \A u \in Tabs : Coherent(u)'
    BY <1>9, <2>2, DoneReleases DEF Reload
  <2>6. call' \in [Calls -> Call]
    BY <1>9, Beginnings DEF Reload, SessionsTypeOK
  <2> QED BY <1>9, <1>d, <2>1, <2>4, <2>5, <2>6 DEF Reload, SessionsTypeOK

<1>10. ASSUME NEW t \in Tabs, NEW u \in Users, LogIn(t, u) PROVE Data /\ \A v \in Tabs : Coherent(v)'
  <2>1. PICK s \in SessionIds :
           /\ sessions' = [Revoked(Named(jar)) EXCEPT ![s].user = u, ![s].issued = 1]
           /\ jar' = <<s, 1>>
           /\ token' = [token EXCEPT ![t] = <<s, 1>>]
           /\ call' = [call EXCEPT ![<<t, Me>>] = Sent(<<s, 1>>)]
    BY <1>10 DEF LogIn
  <2>2. <<s, 1>> \in Tokens
    BY DEF Tokens
  <2>3. sessions' \in [SessionIds -> Session]
    <3>1. Revoked(Named(jar)) \in [SessionIds -> Session]
      BY RevokedAreSessions DEF SessionsTypeOK
    <3> QED BY <2>1, <3>1 DEF Session
  <2>4. call' \in [Calls -> Call]
    BY <2>1, <2>2, Beginnings DEF SessionsTypeOK
  <2> QED BY <1>0, <1>10, <2>1, <2>2, <2>3, <2>4 DEF LogIn, SessionsTypeOK, Coherent
<1>11. ASSUME NEW t \in Tabs, NEW heard \in BOOLEAN, LogOut(t, heard)
       PROVE  Data /\ \A v \in Tabs : Coherent(v)'
  <2>1. sessions' \in [SessionIds -> Session] /\ jar' \in Tokens \cup {None}
    BY <1>11, RevokedAreSessions DEF LogOut, SessionsTypeOK
  <2> QED BY <1>0, <1>11, <2>1 DEF LogOut, SessionsTypeOK, Coherent
<1>12. ASSUME Discarded PROVE Data /\ \A v \in Tabs : Coherent(v)'
  <2>1. refresh' = [refresh EXCEPT ![Dropped] = Idle]
    BY <1>12 DEF Discarded
  <2>2. \A v \in Tabs : refresh'[v] = refresh[v]
    BY <2>1, TabsAreNotDropped DEF SessionsTypeOK
  <2>3. refresh' \in [Tabs \cup {Dropped} -> Refresh]
    BY <2>1, Beginnings DEF SessionsTypeOK
  <2> QED BY <1>0, <1>12, <2>2, <2>3 DEF Discarded, SessionsTypeOK, Coherent
<1>13. ASSUME NEW c \in Calls, Send(c) PROVE Data /\ \A v \in Tabs : Coherent(v)'
  <2>1. call' \in [Calls -> Call]
    BY <1>13, <1>0, SessionsAssumption, Beginnings DEF Send, SessionsTypeOK
  <2> QED BY <1>0, <1>13, <2>1 DEF Send, SessionsTypeOK, Coherent
<1>14. ASSUME NEW c \in Calls, Served(c) PROVE Data /\ \A v \in Tabs : Coherent(v)'
  <2>1. call' \in [Calls -> Call]
    BY <1>14, <1>0, Beginnings DEF Served, SessionsTypeOK, Call
  <2>2. user' \in [Tabs -> Users \cup {None}]
    <3>1. CASE Authorized(call[c].with)
      <4>1. call[c].with \in Tokens
        BY <1>0, <3>1 DEF Authorized, Live, Call
      <4>2. sessions[call[c].with[1]].user \in Users \cup {None}
        BY <1>0, <4>1 DEF Tokens, Session
      <4> QED BY <1>14, <3>1, <4>2, SessionsAssumption DEF Served, TakenFor, SessionsTypeOK
    <3>2. CASE ~Authorized(call[c].with)
      BY <1>14, <3>2 DEF Served, SessionsTypeOK
    <3> QED BY <3>1, <3>2
  <2> QED BY <1>0, <1>14, <2>1, <2>2 DEF Served, SessionsTypeOK, Coherent
<1>15. ASSUME NEW c \in Calls, Renew(c) PROVE Data /\ \A v \in Tabs : Coherent(v)'
  <2> DEFINE t == c[1]
  <2>0. t \in Tabs
    BY SessionsAssumption
  <2>1. call' \in [Calls -> Call]
    <3>1. \A pc \in {"again", "renewing"} : [call[c] EXCEPT !.pc = pc] \in Call
      BY <1>0 DEF Call
    <3>2. [call[c] EXCEPT !.pc = "again", !.with = token[t]] \in Call
      BY <1>0, <2>0 DEF Call
    <3> QED BY <1>15, <3>1, <3>2, Beginnings DEF Renew, SessionsTypeOK
  <2>2. CASE UNCHANGED refresh
    BY <1>0, <1>15, <2>1, <2>2 DEF Renew, SessionsTypeOK, Coherent
  <2>3. CASE refresh' = Refreshing(t)
    <3> DEFINE f == [Idle EXCEPT !.pc = "lock"]
    <3>1. f \in Refresh /\ f.pc = "lock"
      BY Beginnings DEF Refresh
    <3>2. \/ refresh' = refresh
          \/ refresh[t].pc = "none" /\ refresh' = [refresh EXCEPT ![t] = f]
      BY <2>3 DEF Refreshing
    <3>3. refresh' \in [Tabs \cup {Dropped} -> Refresh]
      BY <3>1, <3>2 DEF SessionsTypeOK
    <3>4. \A v \in Tabs : refresh'[v].pc = refresh[v].pc
                          \/ {refresh[v].pc, refresh'[v].pc} \subseteq {"none", "lock"}
      BY <3>1, <3>2 DEF SessionsTypeOK
    <3> QED BY <1>0, <1>15, <2>1, <3>3, <3>4 DEF Renew, SessionsTypeOK, Coherent
  <2> QED BY <1>15, <2>2, <2>3 DEF Renew
<1> QED BY <1>1, <1>2, <1>3, <1>4, <1>5, <1>6, <1>7, <1>8, <1>9, <1>10, <1>11, <1>12, <1>13,
           <1>14, <1>15 DEF Next

-----------------------------------------------------------------------------
(* How sessions and refreshes change                                       *)

\* A session issues tokens and ends, and takes neither back.
Grown ==
    \A s \in SessionIds : /\ sessions[s].issued <= sessions'[s].issued
                          /\ sessions[s].over => sessions'[s].over
SameIssued == \A s \in SessionIds : sessions'[s].issued = sessions[s].issued

LEMMA RevokingGrows ==
    ASSUME SessionsTypeOK, NEW ids, sessions' = Revoked(ids)
    PROVE  /\ Grown /\ SameIssued
           /\ \A s \in SessionIds : s \in ids => sessions'[s].over
<1>1. ASSUME NEW s \in SessionIds
      PROVE  /\ sessions'[s].issued = sessions[s].issued
             /\ sessions[s].over => sessions'[s].over
             /\ s \in ids => sessions'[s].over
  BY <1>1 DEF Revoked, Over, SessionsTypeOK, Session
<1>2. \A s \in SessionIds : sessions[s].issued \in Nat
  BY DEF SessionsTypeOK, Session
<1> QED BY <1>1, <1>2 DEF Grown, SameIssued

LEMMA StayingGrows ==
    ASSUME SessionsTypeOK, UNCHANGED sessions PROVE Grown /\ SameIssued
<1>1. \A s \in SessionIds : sessions[s].issued \in Nat
  BY DEF SessionsTypeOK, Session
<1> QED BY <1>1 DEF Grown, SameIssued

\* What a refresh holds it goes on holding as sessions grow.
LEMMA HoldingLasts ==
    ASSUME SessionsTypeOK, SessionsTypeOK', Grown, NEW f \in Refresh, Holding(f)
    PROVE  Holding(f)'
<1>1. ASSUME NEW tk \in Tokens
      PROVE  /\ tk[1] \in SessionIds /\ tk[2] \in Nat
             /\ sessions[tk[1]].issued \in Nat /\ sessions'[tk[1]].issued \in Nat
             /\ sessions[tk[1]].issued <= sessions'[tk[1]].issued
             /\ sessions[tk[1]].over => sessions'[tk[1]].over
  BY DEF Tokens, Grown, SessionsTypeOK, Session
<1>2. f.cookie \in Tokens \cup {None} /\ f.answer \in Tokens \cup {None}
  BY DEF Refresh
<1>3. f.cookie # None => f.cookie[2] <= sessions'[f.cookie[1]].issued
  BY <1>1, <1>2 DEF Holding
<1>4. f.pc = "issued" => f.answer[2] <= sessions'[f.answer[1]].issued
  <2>1. f.pc = "issued" => f.cookie \in Tokens /\ f.answer = Successor(f.cookie)
                           /\ f.answer[2] <= sessions[f.answer[1]].issued
    BY <1>2 DEF Holding
  <2> QED BY <1>1, <2>1, SuccessorsAreTokens
<1>5. f.pc = "ended" => ~Live(f.cookie)'
  BY <1>1, <1>2 DEF Holding, Live
<1> QED BY <1>3, <1>4, <1>5 DEF Holding

Gone(f) == f.cookie = None /\ f.answer = None /\ f.pc \in {"none", "lock"}
Unasked(f) == f = Idle \/ f = [Idle EXCEPT !.pc = "lock"]

LEMMA UnaskedAreGone == ASSUME NEW f, Unasked(f) PROVE Gone(f)
BY DEF Unasked, Gone, Idle

Orderly == AskedFor /\ JarIssued /\ NoneBehind /\ InTurn

\* A step that issues and sets nothing: refreshes are given up, or go on with
\* the cookie they have; a cookie may be deleted.
LEMMA FewerHeld ==
    ASSUME SessionsTypeOK, SessionsTypeOK', Orderly, Grown, SameIssued,
           jar' \in {jar, None}, UNCHANGED locks,
           \A r \in Refreshers :
              \/ Gone(refresh'[r])
              \/ /\ refresh'[r].cookie = refresh[r].cookie
                 /\ Holding(refresh[r])'
                 /\ r \in Tabs /\ locks => refresh'[r].pc # "superseded"
    PROVE  Orderly'
<1>0. \A tk \in Tokens : sessions'[tk[1]].issued = sessions[tk[1]].issued
                         /\ (sessions[tk[1]].over => sessions'[tk[1]].over)
  BY DEF Tokens, Grown, SameIssued
<1>1. ASSUME NEW r \in Refreshers, Gone(refresh'[r]) PROVE Holding(refresh[r])'
  BY <1>1 DEF Holding, Gone
<1>2. JarIssued'
  BY <1>0 DEF JarIssued, Orderly, SessionsTypeOK
<1>3. NoneBehind'
  <2>0. SUFFICES ASSUME locks
        PROVE  /\ jar' # None => Near(jar)'
               /\ \A t \in Tabs : /\ refresh'[t].cookie # None => Near(refresh[t].cookie)'
                                  /\ refresh'[t].pc # "superseded"
    BY DEF NoneBehind
  <2>1. ASSUME NEW tk \in Tokens, Near(tk) PROVE /\ Live(tk)' => Live(tk)
                                                 /\ Live(tk) => sessions[tk[1]].issued <= tk[2] + 1
    BY <1>0, <2>1 DEF Near, Live
  <2>2. jar' # None => Near(jar)'
    BY <1>0, <2>0, <2>1 DEF Orderly, NoneBehind, SessionsTypeOK, Near
  <2>3. ASSUME NEW t \in Tabs
        PROVE  /\ refresh'[t].cookie # None => Near(refresh[t].cookie)'
               /\ refresh'[t].pc # "superseded"
    <3>1. CASE Gone(refresh'[t])
      BY <3>1 DEF Gone
    <3>2. CASE ~Gone(refresh'[t])
      <4>1. refresh'[t].cookie = refresh[t].cookie /\ refresh'[t].pc # "superseded"
        BY <2>0, <3>2 DEF Refreshers
      <4>2. refresh[t].cookie \in Tokens \cup {None}
        BY DEF SessionsTypeOK, Refresh
      <4> QED BY <1>0, <2>0, <2>1, <4>1, <4>2 DEF Orderly, NoneBehind, Near
    <3> QED BY <3>1, <3>2
  <2> QED BY <2>2, <2>3
<1>4. InTurn'
  <2>1. \A r \in Refreshers : refresh'[r].cookie \in {refresh[r].cookie, None}
    BY DEF Gone
  <2> QED BY <2>1 DEF Orderly, InTurn, NotAfter, Refreshers
<1>5. AskedFor'
  BY <1>1 DEF AskedFor
<1> QED BY <1>2, <1>3, <1>4, <1>5 DEF Orderly

\* With locks one tab at a time asks.
LEMMA OneAsks ==
    ASSUME SessionsTypeOK, AskedFor, locks, NEW t \in Tabs, NEW u \in Tabs, t # u,
           refresh[t].pc \notin {"none", "lock"}
    PROVE  refresh[u].cookie = None
BY DEF SessionsTypeOK, AskedFor, Holding, Refreshers

\* A refresh's answer sets its cookie.
LEMMA AnswerSetsCookie ==
    ASSUME SessionsTypeOK, SessionsTypeOK', Orderly, NEW t \in Tabs,
           refresh[t].pc = "issued", jar' = refresh[t].answer,
           Gone(refresh'[t]), UNCHANGED <<sessions, locks>>,
           \A r \in Refreshers \ {t} : refresh'[r] = refresh[r]
    PROVE  Orderly'
<1> DEFINE c == refresh[t].cookie
<1>1. /\ c \in Tokens /\ jar' = Successor(c)
      /\ jar'[1] = c[1] /\ jar'[2] = c[2] + 1 /\ jar'[2] <= sessions[jar'[1]].issued
  BY DEF SessionsTypeOK, Refresh, Orderly, AskedFor, Holding, Refreshers, Successor
<1>2. Grown
  BY StayingGrows
<1>3. ASSUME NEW r \in Refreshers PROVE Holding(refresh[r])'
  <2>1. CASE r = t
    BY <2>1 DEF Gone, Holding
  <2>2. CASE r # t
    <3>1. refresh'[r] = refresh[r] /\ refresh[r] \in Refresh /\ Holding(refresh[r])
      BY <2>2 DEF Orderly, AskedFor, SessionsTypeOK, Refreshers
    <3> QED BY <1>2, <3>1, HoldingLasts DEF Holding, Live
  <2> QED BY <2>1, <2>2
<1>4. JarIssued'
  BY <1>1 DEF JarIssued
<1>5. NoneBehind'
  <2> SUFFICES ASSUME locks
      PROVE  /\ Near(jar)'
             /\ \A u \in Tabs : /\ refresh'[u].cookie # None => Near(refresh[u].cookie)'
                                /\ refresh'[u].pc # "superseded"
    BY DEF NoneBehind
  <2>1. Near(jar)'
    <3>1. Near(c) /\ c # None
      BY <1>1 DEF Orderly, NoneBehind, AskedFor, Holding, Refreshers
    <3>2. c[1] \in SessionIds /\ sessions[c[1]].issued \in Nat /\ c[2] \in Nat
      BY <1>1 DEF Tokens, SessionsTypeOK, Session
    <3>3. c \notin {None} /\ jar' # None => Live(jar)' = Live(c)
      BY <1>1, <3>1 DEF Live
    <3> QED BY <1>1, <3>1, <3>2, <3>3 DEF Near, Live
  <2>2. ASSUME NEW u \in Tabs
        PROVE  /\ refresh'[u].cookie # None => Near(refresh[u].cookie)'
               /\ refresh'[u].pc # "superseded"
    BY DEF Gone, Orderly, NoneBehind, Near, Live, Refreshers
  <2> QED BY <2>1, <2>2
<1>6. InTurn'
  <2> SUFFICES ASSUME locks
      PROVE  /\ \A r \in Refreshers : NotAfter(refresh[r].cookie, jar)'
             /\ \A u \in Tabs : NotAfter(refresh[Dropped].cookie, refresh[u].cookie)'
    BY DEF InTurn
  <2>1. ASSUME NEW u \in Tabs PROVE refresh'[u].cookie = None
    BY OneAsks DEF Orderly, Gone, Refreshers
  <2>2. refresh'[Dropped] = refresh[Dropped] /\ NotAfter(refresh[Dropped].cookie, c)
    BY TabsAreNotDropped DEF Refreshers, Orderly, InTurn
  <2>3. refresh[Dropped].cookie \in Tokens \cup {None}
    BY DEF SessionsTypeOK, Refresh
  <2>4. NotAfter(refresh[Dropped].cookie, jar)'
    <3>1. c[2] \in Nat /\ c # None /\ (refresh[Dropped].cookie # None => refresh[Dropped].cookie[2] \in Nat)
      BY <1>1, <2>3 DEF Tokens, Orderly, AskedFor, Holding, Refreshers
    <3> QED BY <1>1, <2>2, <3>1 DEF NotAfter
  <2> QED BY <2>1, <2>4 DEF NotAfter, Refreshers
<1> QED BY <1>3, <1>4, <1>5, <1>6 DEF Orderly, AskedFor

\* Asking takes the cookie of now.
LEMMA AskingTakesCookie ==
    ASSUME SessionsTypeOK, SessionsTypeOK', Orderly, NEW t \in Tabs,
           refresh'[t].cookie = jar, refresh'[t].answer = None, refresh'[t].pc = "asked",
           \A r \in Refreshers \ {t} : refresh'[r] = refresh[r],
           UNCHANGED <<sessions, jar, locks>>,
           locks => \A u \in Tabs \ {t} : refresh[u].cookie = None
    PROVE  Orderly'
<1>1. ASSUME NEW r \in Refreshers PROVE Holding(refresh[r])'
  <2>1. CASE r = t
    BY <2>1 DEF Holding, Orderly, JarIssued
  <2>2. CASE r # t
    <3>1. refresh'[r] = refresh[r] /\ refresh[r] \in Refresh /\ Holding(refresh[r])
      BY <2>2 DEF Orderly, AskedFor, SessionsTypeOK, Refreshers
    <3> QED BY <3>1 DEF Holding, Live
  <2> QED BY <2>1, <2>2
<1>2. JarIssued'
  BY DEF Orderly, JarIssued
<1>3. NoneBehind'
  BY DEF Orderly, NoneBehind, Near, Live, Refreshers
<1>4. InTurn'
  <2> SUFFICES ASSUME locks
      PROVE  /\ \A r \in Refreshers : NotAfter(refresh[r].cookie, jar)'
             /\ \A u \in Tabs : NotAfter(refresh[Dropped].cookie, refresh[u].cookie)'
    BY DEF InTurn
  <2>1. jar # None => jar[2] \in Nat
    BY DEF SessionsTypeOK, Tokens
  <2>2. refresh'[Dropped] = refresh[Dropped]
    BY TabsAreNotDropped DEF Refreshers
  <2>3. \A u \in Tabs \ {t} : refresh'[u].cookie = None
    BY DEF Refreshers
  <2> QED BY <2>1, <2>2, <2>3 DEF Orderly, InTurn, NotAfter, Refreshers
<1> QED BY <1>1, <1>2, <1>3, <1>4 DEF Orderly, AskedFor

\* An exchange issues the token after its cookie.
LEMMA ClaimIssues ==
    ASSUME SessionsTypeOK, SessionsTypeOK', Orderly, NEW r \in Refreshers,
           refresh[r].pc = "claiming", Claimable(refresh[r].cookie),
           sessions' = [sessions EXCEPT ![refresh[r].cookie[1]].issued = @ + 1],
           refresh' = Answered(r, "issued"), UNCHANGED <<jar, locks>>
    PROVE  Orderly' /\ Grown
<1> DEFINE c == refresh[r].cookie
<1>1. /\ c \in Tokens /\ c # None /\ c[1] \in SessionIds /\ c[2] \in Nat
      /\ sessions[c[1]].issued = c[2] /\ ~sessions[c[1]].over
  BY DEF Claimable, Live, SessionsTypeOK, Refresh, Refreshers, Tokens
<1>2. \A s \in SessionIds :
         /\ sessions'[s].issued = (IF s = c[1] THEN c[2] + 1 ELSE sessions[s].issued)
         /\ sessions'[s].over = sessions[s].over
         /\ sessions[s].issued \in Nat
  BY <1>1 DEF SessionsTypeOK, Session
<1>3. Grown
  BY <1>1, <1>2 DEF Grown
<1>4. /\ refresh'[r].pc = "issued" /\ refresh'[r].answer = Successor(c) /\ refresh'[r].cookie = c
      /\ \A q \in Refreshers \ {r} : refresh'[q] = refresh[q]
  BY DEF Answered, SessionsTypeOK, Refresh, Refreshers
<1>5. ASSUME NEW q \in Refreshers PROVE Holding(refresh[q])'
  <2>1. CASE q = r
    <3>1. Successor(c)[1] = c[1] /\ Successor(c)[2] = c[2] + 1
      BY DEF Successor
    <3>2. sessions'[c[1]].issued = c[2] + 1
      BY <1>1, <1>2
    <3> QED BY <1>1, <1>4, <2>1, <3>1, <3>2 DEF Holding, Successor
  <2>2. CASE q # r
    <3>1. refresh'[q] = refresh[q] /\ refresh[q] \in Refresh /\ Holding(refresh[q])
      BY <1>4, <2>2 DEF Orderly, AskedFor, SessionsTypeOK, Refreshers
    <3>2. ASSUME NEW f \in Refresh, Holding(f), refresh'[q] = f PROVE Holding(refresh[q])'
      BY <1>3, <3>2, HoldingLasts DEF Holding, Live
    <3> QED BY <3>1, <3>2
  <2> QED BY <2>1, <2>2
<1>6. JarIssued'
  BY <1>1, <1>2 DEF Orderly, JarIssued, SessionsTypeOK, Tokens
<1>7. NoneBehind'
  <2> SUFFICES ASSUME locks
      PROVE  /\ jar # None => Near(jar)'
             /\ \A t \in Tabs : /\ refresh'[t].cookie # None => Near(refresh[t].cookie)'
                                /\ refresh'[t].pc # "superseded"
    BY DEF NoneBehind
  <2>1. ASSUME NEW tk \in Tokens, Near(tk), NotAfter(c, tk), tk # None
        PROVE  sessions'[tk[1]].over \/ sessions'[tk[1]].issued <= tk[2] + 1
    BY <1>1, <1>2, <2>1 DEF Near, NotAfter, Live, Tokens
  <2>2. jar # None => Near(jar)'
    <3>1. jar # None => Near(jar) /\ NotAfter(c, jar) /\ jar \in Tokens
      BY DEF Orderly, NoneBehind, InTurn, SessionsTypeOK
    <3> QED BY <2>1, <3>1 DEF Near, Live
  <2>3. ASSUME NEW t \in Tabs
        PROVE  /\ refresh'[t].cookie # None => Near(refresh[t].cookie)'
               /\ refresh'[t].pc # "superseded"
    <3>1. refresh'[t].cookie = refresh[t].cookie /\ refresh'[t].pc # "superseded"
      BY <1>4 DEF Orderly, NoneBehind, Refreshers
    <3>2. refresh[t].cookie # None => Near(refresh[t].cookie) /\ refresh[t].cookie \in Tokens
      BY DEF Orderly, NoneBehind, SessionsTypeOK, Refresh
    <3>3. refresh[t].cookie # None => NotAfter(c, refresh[t].cookie)
      <4>1. CASE r = Dropped
        BY <4>1 DEF Orderly, InTurn
      <4>2. CASE r = t
        BY <1>1, <4>2 DEF NotAfter
      <4>3. CASE r \in Tabs /\ r # t
        BY <4>3, OneAsks DEF Orderly
      <4> QED BY <4>1, <4>2, <4>3 DEF Refreshers
    <3> QED BY <2>1, <3>1, <3>2, <3>3 DEF Near, Live
  <2> QED BY <2>2, <2>3
<1>8. InTurn'
  BY <1>4 DEF Orderly, InTurn, NotAfter, Refreshers
<1> QED BY <1>3, <1>5, <1>6, <1>7, <1>8 DEF Orderly, AskedFor

LEMMA KeptHolds ==
    ASSUME SessionsTypeOK, SessionsTypeOK', AskedFor, Grown, NEW r \in Refreshers,
           refresh'[r] = refresh[r]
    PROVE  Holding(refresh[r])'
<1>1. refresh[r] \in Refresh /\ Holding(refresh[r])
  BY DEF AskedFor, SessionsTypeOK, Refreshers
<1>2. ASSUME NEW f \in Refresh, Holding(f), refresh'[r] = f PROVE Holding(refresh[r])'
  BY <1>2, HoldingLasts DEF Holding, Live
<1> QED BY <1>1, <1>2

\* One refresh goes on with its cookie or is given up, the others stay.
LEMMA OneGoesOn ==
    ASSUME SessionsTypeOK, SessionsTypeOK', Orderly, Grown, SameIssued, NEW r \in Refreshers,
           jar' \in {jar, None}, UNCHANGED locks,
           \A q \in Refreshers \ {r} : refresh'[q] = refresh[q],
           \/ Gone(refresh'[r])
           \/ /\ refresh'[r].cookie = refresh[r].cookie
              /\ Holding(refresh[r])'
              /\ r \in Tabs /\ locks => refresh'[r].pc # "superseded"
    PROVE  Orderly'
<1>1. ASSUME NEW q \in Refreshers, q # r
      PROVE  /\ refresh'[q].cookie = refresh[q].cookie
             /\ Holding(refresh[q])'
             /\ q \in Tabs /\ locks => refresh'[q].pc # "superseded"
  BY <1>1, KeptHolds DEF Orderly, NoneBehind
<1> QED BY <1>1, FewerHeld

\* The other steps leave the refreshes as they are.
LEMMA NoneGoesOn ==
    ASSUME SessionsTypeOK, SessionsTypeOK', Orderly, Grown, SameIssued,
           jar' \in {jar, None}, UNCHANGED <<locks, refresh>>
    PROVE  Orderly'
<1>1. ASSUME NEW q \in Refreshers
      PROVE  /\ refresh'[q].cookie = refresh[q].cookie
             /\ Holding(refresh[q])'
             /\ q \in Tabs /\ locks => refresh'[q].pc # "superseded"
  BY <1>1, KeptHolds DEF Orderly, NoneBehind
<1> QED BY <1>1, FewerHeld

\* A token that comes back is answered with its live successor, or it ends its
\* session; with locks no tab's is older than that.
LEMMA RepeatsAreInOrder ==
    ASSUME SessionsTypeOK, SessionsTypeOK', Orderly, NEW r \in Refreshers,
           refresh[r].cookie # None, ~Claimable(refresh[r].cookie),
           AnswerRepeat(r, refresh[r].cookie), UNCHANGED <<jar, locks>>
    PROVE  Orderly'
<1> DEFINE c == refresh[r].cookie
<1>1. /\ c \in Tokens /\ c[1] \in SessionIds /\ c[2] \in Nat /\ sessions[c[1]].issued \in Nat
      /\ c[2] <= sessions[c[1]].issued /\ sessions[c[1]].late \in Nat
  BY DEF SessionsTypeOK, Session, Refresh, Refreshers, Tokens, Orderly, AskedFor, Holding
<1>2. Grown /\ SameIssued /\ (~InGrace(c) => sessions'[c[1]].over)
  BY <1>1, RevokingGrows, StayingGrows DEF AnswerRepeat
<1>3. /\ refresh'[r].pc = RepeatAnswer(c) /\ refresh'[r].cookie = c
      /\ refresh'[r].answer = (IF RepeatAnswer(c) = "issued" THEN Successor(c) ELSE None)
      /\ \A q \in Refreshers \ {r} : refresh'[q] = refresh[q]
  BY DEF AnswerRepeat, Answered, SessionsTypeOK, Refresh, Refreshers
<1>4. RepeatAnswer(c) = "ended" => sessions'[c[1]].over
  BY <1>1, <1>2 DEF RepeatAnswer, Grown
<1>5. RepeatAnswer(c) = "issued" => c[2] + 1 = sessions'[c[1]].issued
  BY <1>1, <1>2 DEF RepeatAnswer, SameIssued
<1>6. RepeatAnswer(c) = "superseded" =>
          ~sessions[c[1]].over /\ c[2] + 1 # sessions[c[1]].issued /\ c[2] # sessions[c[1]].issued
  BY DEF RepeatAnswer, Claimable, Live
<1>7. Holding(refresh[r])'
  <2>1. c[2] <= sessions'[c[1]].issued
    BY <1>1, <1>2 DEF SameIssued
  <2>2. Successor(c)[1] = c[1] /\ Successor(c)[2] = c[2] + 1
    BY DEF Successor
  <2>3. RepeatAnswer(c) = "issued" => Successor(c)[2] <= sessions'[Successor(c)[1]].issued
    BY <1>1, <1>5, <2>2
  <2>4. RepeatAnswer(c) = "ended" => ~Live(refresh[r].cookie)'
    BY <1>3, <1>4 DEF Live
  <2>5. RepeatAnswer(c) \in {"issued", "ended", "superseded"}
    BY DEF RepeatAnswer
  <2> QED BY <1>3, <2>1, <2>3, <2>4, <2>5 DEF Holding, Successor
<1>8. r \in Tabs /\ locks => refresh'[r].pc # "superseded"
  <2>1. r \in Tabs /\ locks => Near(c)
    BY DEF Orderly, NoneBehind
  <2> QED BY <1>1, <1>3, <1>6, <2>1 DEF Near, Live
<1> QED BY <1>2, <1>3, <1>7, <1>8, OneGoesOn DEF AnswerRepeat

LEMMA OrderlyKept ==
    ASSUME SessionsTypeOK, SessionsTypeOK', Orderly, Next PROVE Orderly'
<1>0. \A t \in Tabs : t \in Refreshers /\ t # Dropped
  BY TabsAreNotDropped DEF Refreshers
<1>a. \A r \in Refreshers : refresh[r] \in Refresh /\ Holding(refresh[r])
  BY DEF Orderly, AskedFor, SessionsTypeOK, Refreshers
<1>b. Gone(Idle)
  BY UnaskedAreGone DEF Unasked
<1>1. ASSUME NEW r \in Refreshers, RotateReads(r) PROVE Orderly'
  <2> DEFINE tk == refresh[r].cookie
  <2>1. CASE ~Live(tk)
    <3>1. refresh' = Answered(r, "ended") /\ UNCHANGED <<sessions, jar, locks>>
      BY <1>1, <2>1 DEF RotateReads
    <3>2. /\ refresh'[r].cookie = tk /\ refresh'[r].pc = "ended" /\ refresh'[r].answer = None
          /\ \A q \in Refreshers \ {r} : refresh'[q] = refresh[q]
      BY <3>1, <1>a DEF Answered, SessionsTypeOK, Refresh, Refreshers
    <3>3. tk # None => tk[2] <= sessions[tk[1]].issued
      BY <1>a DEF Holding
    <3>4. Holding(refresh[r])'
      BY <2>1, <3>1, <3>2, <3>3 DEF Holding, Live
    <3> QED BY <3>1, <3>2, <3>4, StayingGrows, OneGoesOn
  <2>2. CASE Live(tk) /\ tk[2] < sessions[tk[1]].issued
    <3>1. AnswerRepeat(r, tk) /\ tk # None /\ UNCHANGED <<jar, locks>>
      BY <1>1, <2>2 DEF RotateReads, Live
    <3>2. ~Claimable(tk)
      <4>1. tk[2] \in Nat /\ sessions[tk[1]].issued \in Nat
        BY <1>a, <3>1 DEF Refresh, Tokens, SessionsTypeOK, Session
      <4> QED BY <2>2, <4>1 DEF Claimable
    <3> QED BY <3>1, <3>2, RepeatsAreInOrder
  <2>3. CASE Live(tk) /\ ~(tk[2] < sessions[tk[1]].issued)
    <3>1. /\ refresh' = [refresh EXCEPT ![r].pc = "claiming"] /\ UNCHANGED <<sessions, jar, locks>>
          /\ refresh[r].pc = "asked"
      BY <1>1, <2>3 DEF RotateReads
    <3>2. /\ refresh'[r].cookie = tk /\ refresh'[r].pc = "claiming"
          /\ refresh'[r].answer = refresh[r].answer
          /\ \A q \in Refreshers \ {r} : refresh'[q] = refresh[q]
      BY <3>1, <1>a DEF SessionsTypeOK, Refresh, Refreshers
    <3>3. tk # None /\ tk[2] <= sessions[tk[1]].issued /\ refresh[r].answer = None
      BY <1>a, <2>3, <3>1 DEF Holding, Live
    <3>4. Holding(refresh[r])'
      BY <3>1, <3>2, <3>3 DEF Holding
    <3> QED BY <3>1, <3>2, <3>4, StayingGrows, OneGoesOn
  <2> QED BY <2>1, <2>2, <2>3
<1>2. ASSUME NEW r \in Refreshers, RotateClaims(r) PROVE Orderly'
  <2>1. refresh[r].pc = "claiming" /\ refresh[r].cookie # None /\ UNCHANGED <<jar, locks>>
    BY <1>2, <1>a DEF RotateClaims, Holding
  <2>2. CASE Claimable(refresh[r].cookie)
    BY <1>2, <2>1, <2>2, ClaimIssues DEF RotateClaims
  <2>3. CASE ~Claimable(refresh[r].cookie)
    BY <1>2, <2>1, <2>3, RepeatsAreInOrder DEF RotateClaims
  <2> QED BY <2>2, <2>3
<1>3. ASSUME NEW r \in Refreshers, ServerFails(r) PROVE Orderly'
  <2>1. refresh' = Answered(r, "failed") /\ UNCHANGED <<sessions, jar, locks>>
    BY <1>3 DEF ServerFails
  <2>2. /\ refresh'[r].cookie = refresh[r].cookie /\ refresh'[r].pc = "failed"
        /\ refresh'[r].answer = None
        /\ \A q \in Refreshers \ {r} : refresh'[q] = refresh[q]
    BY <2>1, <1>a DEF Answered, SessionsTypeOK, Refresh, Refreshers
  <2>3. Holding(refresh[r])'
    BY <1>a, <2>1, <2>2 DEF Holding
  <2> QED BY <2>1, <2>2, <2>3, StayingGrows, OneGoesOn
<1>4. ASSUME NEW s \in SessionIds, GraceEnds(s) \/ Expires(s) \/ EndedElsewhere(s) PROVE Orderly'
  <2>1. Grown /\ SameIssued
    <3>1. CASE EndedElsewhere(s)
      BY <3>1, RevokingGrows DEF EndedElsewhere
    <3>2. CASE GraceEnds(s) \/ Expires(s)
      <4>1. \A q \in SessionIds : /\ sessions'[q].issued = sessions[q].issued
                                  /\ sessions'[q].over = sessions[q].over
                                  /\ sessions[q].issued \in Nat
        BY <3>2 DEF GraceEnds, Expires, SessionsTypeOK, Session
      <4> QED BY <4>1 DEF Grown, SameIssued
    <3> QED BY <1>4, <3>1, <3>2
  <2>2. UNCHANGED <<jar, locks, refresh>>
    BY <1>4 DEF GraceEnds, Expires, EndedElsewhere
  <2> QED BY <2>1, <2>2, NoneGoesOn
<1>5. ASSUME NEW t \in Tabs, Ask(t) \/ AskAgain(t) PROVE Orderly'
  <2>1. /\ refresh'[t].cookie = jar /\ refresh'[t].answer = None /\ refresh'[t].pc = "asked"
        /\ \A r \in Refreshers \ {t} : refresh'[r] = refresh[r]
        /\ UNCHANGED <<sessions, jar, locks>>
    <3>1. UNCHANGED <<sessions, jar, locks>>
      BY <1>5 DEF Ask, AskAgain
    <3>2. ASSUME NEW f, refresh' = [refresh EXCEPT ![t] = f],
                 f.cookie = jar, f.answer = None, f.pc = "asked"
          PROVE  /\ refresh'[t].cookie = jar /\ refresh'[t].answer = None
                 /\ refresh'[t].pc = "asked"
                 /\ \A r \in Refreshers \ {t} : refresh'[r] = refresh[r]
      BY <1>0, <3>2 DEF SessionsTypeOK, Refreshers
    <3>3. CASE Ask(t)
      <4> DEFINE f == [Idle EXCEPT !.pc = "asked", !.cookie = jar]
      <4>1. f.cookie = jar /\ f.answer = None /\ f.pc = "asked"
        BY DEF Idle
      <4>2. refresh' = [refresh EXCEPT ![t] = f]
        BY <3>3 DEF Ask
      <4> HIDE DEF f
      <4> QED BY <3>1, <3>2, <4>1, <4>2
    <3>4. CASE AskAgain(t)
      <4> DEFINE f == [Idle EXCEPT !.pc = "asked", !.cookie = jar,
                                   !.attempt = refresh[t].attempt + 1]
      <4>1. f.cookie = jar /\ f.answer = None /\ f.pc = "asked"
        BY DEF Idle
      <4>2. refresh' = [refresh EXCEPT ![t] = f]
        BY <3>4 DEF AskAgain
      <4> HIDE DEF f
      <4> QED BY <3>1, <3>2, <4>1, <4>2
    <3> QED BY <1>5, <3>3, <3>4
  <2>2. ASSUME locks, NEW u \in Tabs, u # t PROVE refresh[u].cookie = None
    <3>1. CASE Ask(t)
      <4>1. lock = None /\ u # None
        BY <2>2, <3>1, TabsAreNotDropped DEF Ask, MayAsk
      <4>2. refresh[u].pc \in {"none", "lock"}
        BY <2>2, <4>1 DEF SessionsTypeOK
      <4> QED BY <1>0, <1>a, <4>2 DEF Holding
    <3>2. CASE AskAgain(t)
      BY <2>2, <3>2, OneAsks DEF AskAgain, Orderly
    <3> QED BY <1>5, <3>1, <3>2
  <2> QED BY <2>1, <2>2, AskingTakesCookie
<1>6. ASSUME NEW t \in Tabs, Renewed(t) PROVE Orderly'
  <2>1. /\ refresh[t].pc = "issued" /\ jar' = refresh[t].answer /\ refresh'[t] = Idle
        /\ UNCHANGED <<sessions, locks>> /\ \A r \in Refreshers \ {t} : refresh'[r] = refresh[r]
    BY <1>6, <1>0 DEF Renewed, SessionsTypeOK, Refreshers
  <2> QED BY <1>b, <2>1, AnswerSetsCookie
\* One given up, with the cookie left, deleted or set by its answer.
<1>c. ASSUME NEW t \in Tabs, refresh'[t] = Idle \/ refresh'[t] = [Idle EXCEPT !.pc = "lock"],
             \A r \in Refreshers \ {t} : refresh'[r] = refresh[r],
             jar' \in Brought(t) \cup {None}, UNCHANGED <<sessions, locks>>
      PROVE  Orderly'
  <2>1. Gone(refresh'[t])
    BY <1>c, UnaskedAreGone DEF Unasked
  <2>2. CASE jar' \in {jar, None}
    BY <1>0, <1>c, <2>1, <2>2, StayingGrows, OneGoesOn
  <2>3. CASE jar' \notin {jar, None}
    <3>1. jar' = refresh[t].answer /\ refresh[t].answer # None
      BY <1>c, <2>3 DEF Brought
    <3>2. refresh[t].pc = "issued"
      BY <1>0, <1>a, <3>1 DEF Holding
    <3> QED BY <1>c, <2>1, <3>1, <3>2, AnswerSetsCookie
  <2> QED BY <2>2, <2>3
<1>7. ASSUME NEW t \in Tabs, Refused(t) \/ Superseded(t) PROVE Orderly'
  <2>1. CASE Refused(t) \/ (EndSession(t) /\ Superseded(t))
    <3>1. /\ refresh'[t] = Idle /\ \A r \in Refreshers \ {t} : refresh'[r] = refresh[r]
          /\ jar' \in {jar, None} /\ UNCHANGED <<sessions, locks>>
      BY <1>0, <2>1 DEF Refused, Superseded, EndSession, SessionsTypeOK, Refreshers
    <3> QED BY <1>c, <3>1 DEF Brought
  <2>2. CASE Superseded(t) /\ refresh[t].attempt = 0
    <3>1. /\ refresh'[t] = [refresh[t] EXCEPT !.pc = "pause"] /\ refresh[t].pc = "superseded"
          /\ \A r \in Refreshers \ {t} : refresh'[r] = refresh[r]
          /\ UNCHANGED <<sessions, jar, locks>>
      BY <1>0, <2>2 DEF Superseded, SessionsTypeOK, Refreshers
    <3>2. /\ refresh'[t].cookie = refresh[t].cookie /\ refresh'[t].pc = "pause"
          /\ refresh'[t].answer = refresh[t].answer /\ refresh'[t].attempt = 0
      BY <1>0, <1>a, <2>2, <3>1 DEF Refresh
    <3>3. Holding(refresh[t])'
      BY <1>0, <1>a, <3>1, <3>2 DEF Holding
    <3> QED BY <1>0, <3>1, <3>2, <3>3, StayingGrows, OneGoesOn
  <2> QED BY <1>7, <2>1, <2>2 DEF Superseded
<1>8. ASSUME NEW t \in Tabs, LostAnswer(t) PROVE Orderly'
  <2>1. /\ refresh'[t] = Idle /\ \A r \in Refreshers \ {t} : refresh'[r] = refresh[r]
        /\ jar' \in Brought(t) /\ UNCHANGED <<sessions, locks>>
    BY <1>0, <1>8 DEF LostAnswer, SessionsTypeOK, Refreshers
  <2> QED BY <1>c, <2>1
<1>9. ASSUME Discarded PROVE Orderly'
  <2>1. /\ refresh'[Dropped] = Idle /\ \A r \in Refreshers \ {Dropped} : refresh'[r] = refresh[r]
        /\ UNCHANGED <<sessions, jar, locks>>
    BY <1>9 DEF Discarded, SessionsTypeOK, Refreshers
  <2> QED BY <1>b, <2>1, StayingGrows, OneGoesOn DEF Refreshers
<1>10. ASSUME NEW t \in Tabs, Reload(t) PROVE Orderly'
  <2>1. /\ refresh'[t] = Idle \/ refresh'[t] = [Idle EXCEPT !.pc = "lock"]
        /\ refresh'[Dropped] = IF InFlight(t) THEN refresh[t] ELSE refresh[Dropped]
        /\ \A u \in Tabs \ {t} : refresh'[u] = refresh[u]
        /\ jar' \in Brought(t) /\ UNCHANGED <<sessions, locks>>
    BY <1>0, <1>10 DEF Reload, SessionsTypeOK
  <2>2. CASE ~InFlight(t)
    BY <1>c, <2>1, <2>2 DEF Refreshers
  <2>3. CASE InFlight(t)
    <3>1. refresh[t].answer = None /\ jar' = jar
      BY <1>0, <1>a, <2>1, <2>3 DEF InFlight, Holding, Brought
    <3>2. locks
      BY <1>10, <2>3 DEF Reload
    <3>3. Gone(refresh'[t])
      BY <2>1, UnaskedAreGone DEF Unasked
    <3>4. \A u \in Tabs : refresh'[u].cookie = None
      BY <2>1, <2>3, <3>2, <3>3, OneAsks DEF Orderly, InFlight, Gone
    <3>5. \A u \in Tabs : refresh'[u] = refresh[u] \/ Gone(refresh'[u])
      BY <2>1, <3>3
    <3>6. AskedFor'
      <4>1. ASSUME NEW r \in Refreshers PROVE Holding(refresh[r])'
        <5>1. CASE r = Dropped
          <6>1. refresh'[r] = refresh[t] /\ Holding(refresh[t])
            BY <1>0, <1>a, <2>1, <2>3, <5>1
          <6> QED BY <2>1, <6>1 DEF Holding, Live
        <5>2. CASE r \in Tabs
          <6>1. CASE Gone(refresh'[r])
            BY <6>1 DEF Gone, Holding
          <6>2. CASE refresh'[r] = refresh[r]
            BY <5>2, <6>2, StayingGrows, KeptHolds, <2>1 DEF Orderly
          <6> QED BY <3>5, <5>2, <6>1, <6>2
        <5> QED BY <5>1, <5>2 DEF Refreshers
      <4> QED BY <4>1 DEF AskedFor
    <3>7. JarIssued'
      BY <2>1, <3>1 DEF Orderly, JarIssued
    <3>8. NoneBehind'
      BY <2>1, <3>1, <3>4, <3>5 DEF Orderly, NoneBehind, Near, Live, Gone
    <3>9. InTurn'
      <4>1. NotAfter(refresh[t].cookie, jar)
        BY <1>0, <3>2 DEF Orderly, InTurn
      <4> QED BY <2>1, <2>3, <3>1, <3>4, <4>1 DEF InTurn, NotAfter, Refreshers
    <3> QED BY <3>6, <3>7, <3>8, <3>9 DEF Orderly
  <2> QED BY <2>2, <2>3
<1>11. ASSUME NEW t \in Tabs, NEW u \in Users, LogIn(t, u) PROVE Orderly'
  <2>1. PICK s \in SessionIds :
          /\ sessions[s].issued = 0
          /\ sessions' = [Revoked(Named(jar)) EXCEPT ![s].user = u, ![s].issued = 1]
          /\ jar' = <<s, 1>>
    BY <1>11 DEF LogIn
  <2>a. sessions[s].issued = 0 /\ jar'[1] = s /\ jar'[2] = 1
    BY <2>1
  <2>2. UNCHANGED <<refresh, locks>>
    BY <1>11 DEF LogIn
  <2>3. ASSUME NEW q \in SessionIds
        PROVE  /\ sessions[q].issued \in Nat
               /\ sessions'[q].issued = (IF q = s THEN 1 ELSE sessions[q].issued)
               /\ sessions[q].over => sessions'[q].over
    BY <2>1, RevokedAreSessions DEF Revoked, Over, SessionsTypeOK, Session
  <2>4. Grown
    BY <2>a, <2>3 DEF Grown
  <2>5. \A r \in Refreshers : /\ refresh[r].cookie # None =>
                                   refresh[r].cookie[1] # s /\ refresh[r].cookie \in Tokens
                              /\ refresh'[r] = refresh[r]
    BY <1>a, <2>1, <2>2 DEF Holding, Refresh, Tokens
  <2>6. AskedFor'
    BY <2>4, <2>5, KeptHolds DEF Orderly, AskedFor
  <2>7. JarIssued'
    BY <2>a, <2>3 DEF JarIssued
  <2>8. NoneBehind'
    <3>1. Near(jar)'
      BY <2>a, <2>3 DEF Near
    <3>2. ASSUME NEW v \in Tabs, locks, refresh[v].cookie # None PROVE Near(refresh[v].cookie)'
      <4> DEFINE c == refresh[v].cookie
      <4>1. c[1] \in SessionIds /\ c[1] # s
        BY <1>0, <2>5, <3>2 DEF Tokens
      <4>2. Near(c)
        BY <3>2 DEF Orderly, NoneBehind
      <4> QED BY <2>2, <2>3, <3>2, <4>1, <4>2 DEF Near, Live
    <3> QED BY <2>2, <3>1, <3>2 DEF Orderly, NoneBehind
  <2>9. InTurn'
    BY <2>1, <2>2, <2>5 DEF Orderly, InTurn, NotAfter
  <2> QED BY <2>6, <2>7, <2>8, <2>9 DEF Orderly
<1>12. ASSUME NEW t \in Tabs, NEW heard \in BOOLEAN, LogOut(t, heard) PROVE Orderly'
  <2>1. Grown /\ SameIssued
    BY <1>12, RevokingGrows, StayingGrows DEF LogOut
  <2> QED BY <1>12, <2>1, NoneGoesOn DEF LogOut
<1>13. ASSUME NEW c \in Calls, Send(c) \/ Served(c) PROVE Orderly'
  BY <1>13, StayingGrows, NoneGoesOn DEF Send, Served
<1>14. ASSUME NEW c \in Calls, Renew(c) PROVE Orderly'
  <2> DEFINE t == c[1]
  <2>0. t \in Tabs /\ UNCHANGED <<sessions, jar, locks>>
    BY <1>14, SessionsAssumption DEF Renew
  <2>1. CASE UNCHANGED refresh
    BY <2>0, <2>1, StayingGrows, NoneGoesOn
  <2>2. CASE refresh' = Refreshing(t) /\ refresh[t].pc = "none"
    <3>1. /\ refresh'[t] = [Idle EXCEPT !.pc = "lock"]
          /\ \A r \in Refreshers \ {t} : refresh'[r] = refresh[r]
      BY <2>0, <2>2 DEF Refreshing, SessionsTypeOK, Refreshers
    <3> QED BY <1>c, <2>0, <3>1 DEF Brought
  <2> QED BY <1>14, <2>1, <2>2 DEF Renew, Refreshing
<1> QED BY <1>1, <1>2, <1>3, <1>4, <1>5, <1>6, <1>7, <1>8, <1>9, <1>10, <1>11, <1>12, <1>13,
           <1>14 DEF Next, Refreshers

-----------------------------------------------------------------------------
(* What the jar says of the tabs                                           *)

LEMMA EveryStepGrows ==
    ASSUME SessionsTypeOK, SessionsTypeOK', Orderly, Next PROVE Grown
<1>1. ASSUME NEW r \in Refreshers, RotateReads(r) \/ RotateClaims(r) \/ ServerFails(r) PROVE Grown
  <2>1. CASE RotateClaims(r) /\ Claimable(refresh[r].cookie)
    BY <2>1, ClaimIssues DEF RotateClaims
  <2>2. CASE \E tk : AnswerRepeat(r, tk)
    BY <2>2, RevokingGrows, StayingGrows DEF AnswerRepeat
  <2>3. CASE UNCHANGED sessions
    BY <2>3, StayingGrows
  <2> QED BY <1>1, <2>1, <2>2, <2>3 DEF RotateReads, RotateClaims, ServerFails
<1>2. ASSUME NEW s \in SessionIds, GraceEnds(s) \/ Expires(s) \/ EndedElsewhere(s) PROVE Grown
  <2>1. CASE EndedElsewhere(s)
    BY <2>1, RevokingGrows DEF EndedElsewhere
  <2>2. CASE GraceEnds(s) \/ Expires(s)
    BY <2>2 DEF GraceEnds, Expires, SessionsTypeOK, Session, Grown
  <2> QED BY <1>2, <2>1, <2>2
<1>3. ASSUME NEW t \in Tabs, NEW u \in Users, LogIn(t, u) PROVE Grown
  <2>1. PICK s \in SessionIds :
          /\ sessions[s].issued = 0
          /\ sessions' = [Revoked(Named(jar)) EXCEPT ![s].user = u, ![s].issued = 1]
    BY <1>3 DEF LogIn
  <2>2. \A q \in SessionIds :
          /\ sessions[q].issued \in Nat
          /\ sessions'[q].issued = (IF q = s THEN 1 ELSE sessions[q].issued)
          /\ sessions[q].over => sessions'[q].over
    BY <2>1, RevokedAreSessions DEF Revoked, Over, SessionsTypeOK, Session
  <2>3. sessions[s].issued = 0
    BY <2>1
  <2> QED BY <2>2, <2>3 DEF Grown
<1>4. ASSUME NEW t \in Tabs, NEW heard \in BOOLEAN, LogOut(t, heard) PROVE Grown
  BY <1>4, RevokingGrows, StayingGrows DEF LogOut
<1>5. ASSUME NEW t \in Tabs, Ask(t) \/ AskAgain(t) \/ Renewed(t) \/ Refused(t) \/ Superseded(t)
                             \/ LostAnswer(t) \/ Reload(t)
      PROVE  Grown
  BY <1>5, StayingGrows
     DEF Ask, AskAgain, Renewed, Refused, Superseded, LostAnswer, Reload
<1>6. ASSUME Discarded \/ \E c \in Calls : Send(c) \/ Served(c) \/ Renew(c) PROVE Grown
  BY <1>6, StayingGrows DEF Discarded, Send, Served, Renew
<1> QED BY <1>1, <1>2, <1>3, <1>4, <1>5, <1>6 DEF Next, Refreshers

\* What is live was live.
LEMMA LiveWasLive ==
    ASSUME SessionsTypeOK, Grown, NEW t \in Tabs, token'[t] \in {token[t], None},
           Live(token[t])'
    PROVE  Live(token[t]) /\ token'[t] = token[t]
<1>1. token[t] \in Tokens /\ token'[t] = token[t]
  BY DEF Live, SessionsTypeOK
<1> QED BY <1>1 DEF Live, Grown, Tokens

LEMMA SameJarIsTheirs ==
    ASSUME SessionsTypeOK, Grown, LiveIsJars, overtaken => overtaken', jar' = jar,
           \A t \in Tabs : token'[t] \in {token[t], None}
    PROVE  LiveIsJars'
BY LiveWasLive DEF LiveIsJars

\* An answer is of the session of the cookie it was asked with.
LEMMA AnswersStayInSession ==
    ASSUME SessionsTypeOK, AskedFor, NEW t \in Tabs, refresh[t].pc = "issued"
    PROVE  /\ refresh[t].answer \in Tokens /\ refresh[t].answer # None
           /\ refresh[t].answer[1] = refresh[t].cookie[1]
<1>1. refresh[t].cookie \in Tokens /\ refresh[t].answer = Successor(refresh[t].cookie)
  BY DEF AskedFor, Holding, SessionsTypeOK, Refresh, Refreshers
<1>2. None \notin Tokens
  BY SessionsAssumption DEF Tokens, SessionIds
<1> QED BY <1>1, <1>2, SuccessorsAreTokens DEF Successor

LEMMA AnswerIsTheirs ==
    ASSUME SessionsTypeOK, AskedFor, Grown, LiveIsJars, NEW t \in Tabs,
           refresh[t].pc = "issued", jar' = refresh[t].answer, overtaken' = Overtaken(t),
           \A u \in Tabs : token'[u] \in {token[u], None} \/ token'[u] = jar'
    PROVE  LiveIsJars'
<1> SUFFICES ASSUME ~overtaken', NEW u \in Tabs, Live(token[u])'
    PROVE  jar' # None /\ jar'[1] = token'[u][1]
  BY DEF LiveIsJars
<1>1. jar' # None /\ jar'[1] = refresh[t].cookie[1]
  BY AnswersStayInSession
<1>2. ~overtaken /\ jar \in {refresh[t].cookie, None}
  BY DEF Overtaken
<1>3. CASE token'[u] = jar'
  BY <1>1, <1>3
<1>4. CASE token'[u] \in {token[u], None}
  <2>1. Live(token[u]) /\ token'[u] = token[u]
    BY <1>4, LiveWasLive
  <2>2. jar # None /\ jar[1] = token[u][1]
    BY <1>2, <2>1 DEF LiveIsJars
  <2> QED BY <1>1, <1>2, <2>1, <2>2
<1> QED BY <1>3, <1>4

LEMMA JarsKept ==
    ASSUME SessionsTypeOK, SessionsTypeOK', Orderly, LiveIsJars, Next PROVE LiveIsJars'
<1>0. Grown /\ AskedFor
  BY EveryStepGrows DEF Orderly
<1>a. ASSUME NEW t \in Tabs, token' = [token EXCEPT ![t] = None]
      PROVE  \A u \in Tabs : token'[u] \in {token[u], None}
  BY <1>a DEF SessionsTypeOK
<1>1. ASSUME UNCHANGED <<jar, token, overtaken>> PROVE LiveIsJars'
  BY <1>0, <1>1, SameJarIsTheirs
<1>2. ASSUME NEW t \in Tabs, Renewed(t) PROVE LiveIsJars'
  <2>1. /\ refresh[t].pc = "issued" /\ jar' = refresh[t].answer /\ overtaken' = Overtaken(t)
        /\ \A u \in Tabs : token'[u] \in {token[u], None} \/ token'[u] = jar'
    BY <1>2 DEF Renewed, SessionsTypeOK
  <2> QED BY <1>0, <2>1, AnswerIsTheirs
<1>3. ASSUME NEW t \in Tabs, LostAnswer(t) \/ Reload(t) PROVE LiveIsJars'
  <2>1. /\ \A u \in Tabs : token'[u] \in {token[u], None}
        /\ jar' \in Brought(t)
        /\ overtaken' = (IF jar' = jar THEN overtaken ELSE Overtaken(t))
    BY <1>3, <1>a DEF LostAnswer, Reload
  <2>2. CASE jar' = jar
    BY <1>0, <2>1, <2>2, SameJarIsTheirs
  <2>3. CASE jar' # jar
    <3>1. jar' = refresh[t].answer /\ refresh[t].answer # None
      BY <2>1, <2>3 DEF Brought
    <3>2. refresh[t].pc = "issued"
      BY <1>0, <3>1 DEF AskedFor, Holding, Refreshers
    <3> QED BY <1>0, <2>1, <2>3, <3>1, <3>2, AnswerIsTheirs
  <2> QED BY <2>2, <2>3
<1>4. ASSUME NEW t \in Tabs, Refused(t) PROVE LiveIsJars'
  <2> SUFFICES ASSUME ~overtaken', NEW u \in Tabs, Live(token[u])' PROVE FALSE
    BY DEF LiveIsJars
  <2>1. ~overtaken /\ jar \in {refresh[t].cookie, None} /\ refresh[t].pc = "ended"
    BY <1>4 DEF Refused, Overtaken
  <2>2. Live(token[u])
    BY <1>0, <1>4, <1>a, LiveWasLive DEF Refused, EndSession
  <2>3. jar # None /\ jar[1] = token[u][1]
    BY <2>1, <2>2 DEF LiveIsJars
  <2>4. ~Live(jar)
    BY <1>0, <2>1, <2>3 DEF AskedFor, Holding, Refreshers
  <2> QED BY <2>2, <2>3, <2>4 DEF Live
<1>5. ASSUME NEW t \in Tabs, Superseded(t) PROVE LiveIsJars'
  BY <1>0, <1>1, <1>5, <1>a, SameJarIsTheirs DEF Superseded, EndSession
<1>b. ASSUME NEW u \in Tabs, \A s \in Named(jar) : sessions'[s].over,
             token'[u] \in {token[u], None}, Live(token[u])', ~overtaken
      PROVE  FALSE
  <2>1. Live(token[u]) /\ token'[u] = token[u]
    BY <1>0, <1>b, LiveWasLive
  <2>2. jar # None /\ jar[1] = token[u][1]
    BY <1>b, <2>1 DEF LiveIsJars
  <2> QED BY <1>b, <2>1, <2>2 DEF Named, Live
<1>6. ASSUME NEW t \in Tabs, NEW v \in Users, LogIn(t, v) PROVE LiveIsJars'
  <2>1. PICK s \in SessionIds :
          /\ sessions' = [Revoked(Named(jar)) EXCEPT ![s].user = v, ![s].issued = 1]
          /\ jar' = <<s, 1>> /\ token' = [token EXCEPT ![t] = <<s, 1>>]
    BY <1>6 DEF LogIn
  <2>2. ASSUME NEW q \in Named(jar) PROVE sessions'[q].over
    <3>1. q \in SessionIds
      BY DEF Named, SessionsTypeOK, Tokens
    <3>2. sessions[q] \in Session
      BY <3>1 DEF SessionsTypeOK
    <3>3. Revoked(Named(jar))[q].over
      BY <3>1, <3>2 DEF Revoked, Over, Session
    <3>4. Revoked(Named(jar)) \in [SessionIds -> Session]
      BY RevokedAreSessions DEF SessionsTypeOK
    <3> QED BY <2>1, <3>1, <3>3, <3>4 DEF Session
  <2>3. None \notin Tokens /\ jar' \in Tokens
    BY <2>1, SessionsAssumption DEF Tokens, SessionIds
  <2>4. \A u \in Tabs : token'[u] = token[u] \/ token'[u] = jar'
    BY <2>1 DEF SessionsTypeOK
  <2>5. overtaken' = overtaken
    BY <1>6 DEF LogIn
  <2> SUFFICES ASSUME ~overtaken', NEW u \in Tabs, Live(token[u])', token'[u] # jar' PROVE FALSE
    BY <2>3 DEF LiveIsJars
  <2> QED BY <1>b, <2>2, <2>4, <2>5
<1>7. ASSUME NEW t \in Tabs, NEW heard \in BOOLEAN, LogOut(t, heard) PROVE LiveIsJars'
  <2>1. \A u \in Tabs : token'[u] \in {token[u], None}
    BY <1>7, <1>a DEF LogOut
  <2>2. overtaken' = overtaken
    BY <1>7 DEF LogOut
  <2>3. CASE ~heard
    BY <1>0, <1>7, <2>1, <2>2, <2>3, SameJarIsTheirs DEF LogOut
  <2>4. CASE heard
    <3>1. \A s \in Named(jar) : s \in SessionIds
      BY DEF Named, SessionsTypeOK, Tokens
    <3>2. \A s \in Named(jar) : sessions'[s].over
      BY <1>7, <2>4, <3>1, RevokingGrows DEF LogOut
    <3> SUFFICES ASSUME ~overtaken', NEW u \in Tabs, Live(token[u])' PROVE FALSE
      BY DEF LiveIsJars
    <3> QED BY <1>b, <2>1, <2>2, <3>2
  <2> QED BY <2>3, <2>4
<1>8. ASSUME NEW r \in Refreshers, RotateReads(r) \/ RotateClaims(r) \/ ServerFails(r)
      PROVE  LiveIsJars'
  BY <1>1, <1>8 DEF RotateReads, RotateClaims, ServerFails
<1>9. ASSUME NEW s \in SessionIds, GraceEnds(s) \/ Expires(s) \/ EndedElsewhere(s)
      PROVE  LiveIsJars'
  BY <1>1, <1>9 DEF GraceEnds, Expires, EndedElsewhere
<1>10. ASSUME NEW t \in Tabs, Ask(t) \/ AskAgain(t) PROVE LiveIsJars'
  BY <1>1, <1>10 DEF Ask, AskAgain
<1>11. ASSUME Discarded \/ \E c \in Calls : Send(c) \/ Served(c) \/ Renew(c) PROVE LiveIsJars'
  BY <1>1, <1>11 DEF Discarded, Send, Served, Renew
<1> QED BY <1>2, <1>3, <1>4, <1>5, <1>6, <1>7, <1>8, <1>9, <1>10, <1>11 DEF Next, Refreshers

-----------------------------------------------------------------------------
(* The theorems                                                            *)

LEMMA ConsistentAtFirst == Init => Consistent
<1> SUFFICES ASSUME Init PROVE Consistent
  OBVIOUS
<1>1. SessionsTypeOK
  BY TypesAtFirst
<1>2. /\ \A r \in Refreshers : refresh[r] = Idle
      /\ jar = None /\ \A t \in Tabs : token[t] = None
  BY DEF Init, Refreshers
<1>3. \A t \in Tabs : t \in Refreshers
  BY DEF Refreshers
<1>4. AskedFor /\ JarIssued
  BY <1>2 DEF AskedFor, JarIssued, Holding, Idle
<1>5. NoneBehind /\ InTurn /\ LiveIsJars
  BY <1>2, <1>3 DEF NoneBehind, InTurn, LiveIsJars, NotAfter, Idle, Live
<1> QED BY <1>1, <1>4, <1>5 DEF Consistent

LEMMA ConsistentKept == Consistent /\ [Next]_vars => Consistent'
<1> SUFFICES ASSUME Consistent, [Next]_vars PROVE Consistent'
  OBVIOUS
<1>0. SessionsTypeOK /\ Orderly /\ LiveIsJars /\ AskedFor
  BY DEF Consistent, Orderly
<1>1. CASE Next
  <2>1. SessionsTypeOK'
    BY <1>0, <1>1, TypesKept
  <2>2. Orderly' /\ LiveIsJars'
    BY <1>0, <1>1, <2>1, OrderlyKept, JarsKept
  <2> QED BY <2>1, <2>2 DEF Consistent, Orderly
<1>2. CASE UNCHANGED vars
  <2>1. SessionsTypeOK'
    BY <1>0, <1>2 DEF vars, SessionsTypeOK
  <2>2. AskedFor' /\ JarIssued'
    BY <1>0, <1>2 DEF vars, Orderly, AskedFor, Holding, JarIssued, Live
  <2>3. NoneBehind' /\ InTurn' /\ LiveIsJars'
    BY <1>0, <1>2 DEF vars, Orderly, NoneBehind, InTurn, NotAfter, Near, Live, LiveIsJars
  <2> QED BY <2>1, <2>2, <2>3 DEF Consistent
<1> QED BY <1>1, <1>2

\* The inductive invariant: what the refreshes, the jar and the tabs hold
\* agrees with the sessions the server has, however the requests and answers
\* of rotate() and the tabs (api.ts) interleave, get lost or come late.
THEOREM AlwaysConsistent == Spec => []Consistent
<1> QED BY ConsistentAtFirst, ConsistentKept, PTL DEF Spec

\* The lock is held by the one tab at its exchange, and a refresh has the
\* tokens its state says.
THEOREM TypesHold == Spec => []SessionsTypeOK
<1>1. Consistent => SessionsTypeOK
  BY DEF Consistent
<1> QED BY <1>1, AlwaysConsistent, PTL

\* In a browser with Web Locks the cookie never falls more than one token
\* behind its live session (sessions.py rotate, api.ts withRefreshLock), so
\* that, while the grace lasts, the cookie's next refresh is answered.
THEOREM JarAlwaysKeepsUp == Spec => []JarKeepsUp
<1>1. Consistent => JarKeepsUp
  BY DEF Consistent, JarIssued, NoneBehind, Near, JarKeepsUp
<1> QED BY <1>1, AlwaysConsistent, PTL

\* In a browser with Web Locks a tab (api.ts endSession) gives up a session
\* only when it is over, unless a refusal deleted a newer session's cookie.
THEOREM SignOutsAreDeserved == Spec => SignOutIsDeserved
<1> DEFINE Deserved ==
             \A t \in Tabs :
                (Refused(t) \/ Superseded(t)) /\ user[t] # None /\ user'[t] = None =>
                    ~Live(token[t]) \/ overtaken' \/ ~locks
<1>1. Consistent /\ [Next]_vars => [Deserved]_vars
  <2> SUFFICES ASSUME Consistent, NEW t \in Tabs, Refused(t) \/ Superseded(t),
                      Live(token[t]), ~overtaken', locks
      PROVE  FALSE
    OBVIOUS
  <2>1. CASE Superseded(t)
    BY <2>1 DEF Consistent, NoneBehind, Superseded
  <2>2. CASE Refused(t)
    <3>1. ~overtaken /\ jar \in {refresh[t].cookie, None} /\ refresh[t].pc = "ended"
      BY <2>2 DEF Refused, Overtaken
    <3>2. jar # None /\ jar[1] = token[t][1]
      BY <3>1 DEF Consistent, LiveIsJars
    <3>3. ~Live(jar)
      BY <3>1, <3>2 DEF Consistent, AskedFor, Holding, Refreshers
    <3> QED BY <3>2, <3>3 DEF Live
  <2> QED BY <2>1, <2>2
<1> QED BY <1>1, AlwaysConsistent, PTL DEF Spec, SignOutIsDeserved
=============================================================================
