------------------------------- MODULE Sessions -------------------------------
(***************************************************************************)
(* The dashboard's sessions: the refresh tokens a server exchanges         *)
(* (backend/app/services/sessions.py, api/auth.py), the one cookie jar the *)
(* browser's tabs share, and each tab's access token, refresh and calls    *)
(* (frontend/src/lib/api.ts, providers/auth.tsx).                          *)
(*                                                                         *)
(* Token n of a session is the one its (n-1)th exchange issued; access     *)
(* token <<s, n>> came with it. Signing in and out are one step each, sent *)
(* and answered; a refresh is asked, read, claimed and answered in steps   *)
(* of its own, and goes on at the server after a reload dropped it. The    *)
(* statements of the database are taken one at a time.                     *)
(***************************************************************************)
EXTENDS Naturals, FiniteSets, Functions

CONSTANTS
    Tabs,
    Users,
    Calls,          \* API calls, each <<the tab that makes it, its name>>
    MaxSessions,    \* sessions opened (a bound of the model)
    MaxTokens,      \* tokens issued in all (a bound of the model)
    Me,             \* the name of the call for who is signed in
    Dropped,        \* a refresh whose tab was reloaded
    None

ASSUME SessionsAssumption ==
    /\ MaxSessions \in Nat /\ MaxTokens \in Nat
    /\ \A c \in Calls : c[1] \in Tabs
    /\ \A t \in Tabs : <<t, Me>> \in Calls
    /\ Dropped \notin Tabs /\ None \notin Tabs \cup Users \cup (Nat \X Nat)

VARIABLES
    sessions,   \* refresh_tokens, by session
    jar,        \* the lf_refresh cookie (lf_session comes and goes with it)
    locks,      \* whether this browser has Web Locks
    lock,       \* the Web Lock of the refresh
    token,      \* each tab's accessToken
    user,       \* each tab's user
    refresh,    \* each tab's `refreshing`, and one dropped by a reload
    call,       \* the calls
    overtaken   \* a refresh's answer replaced a newer cookie (history)

vars == <<sessions, jar, locks, lock, token, user, refresh, call, overtaken>>

SessionIds == 1..MaxSessions
Tokens == SessionIds \X (Nat \ {0})

\* A session: whose, the tokens issued (all but the last are spent), how many
\* of those are past the grace, how many of its access tokens have expired
\* (each lives as long as the others), and whether it was revoked.
Session == [user : Users \cup {None}, issued : Nat, late : Nat, expired : Nat,
            over : BOOLEAN]
Unopened == [user |-> None, issued |-> 0, late |-> 0, expired |-> 0, over |-> FALSE]

\* A refresh: waiting for the lock, asked with a cookie, answered at the server
\* (with a token, or one of the ways it may not be), or pausing before it asks
\* again.
Answers == {"issued", "superseded", "ended", "failed"}
Refresh == [pc : {"none", "lock", "asked", "claiming", "pause"} \cup Answers,
            attempt : 0..1, cookie : Tokens \cup {None}, answer : Tokens \cup {None}]
Idle == [pc |-> "none", attempt |-> 0, cookie |-> None, answer |-> None]

\* A call, with the token it was last sent with (sentWith).
Call == [pc : {"idle", "sent", "refused", "renewing", "again"}, with : Tokens \cup {None}]

SessionsTypeOK ==
    /\ sessions \in [SessionIds -> Session]
    /\ jar \in Tokens \cup {None}
    /\ locks \in BOOLEAN
    /\ lock \in Tabs \cup {None}
    /\ token \in [Tabs -> Tokens \cup {None}]
    /\ user \in [Tabs -> Users \cup {None}]
    /\ refresh \in [Tabs \cup {Dropped} -> Refresh]
    /\ call \in [Calls -> Call]
    /\ overtaken \in BOOLEAN
    /\ \A t \in Tabs : lock = t <=> locks /\ refresh[t].pc \notin {"none", "lock"}

NoCall == [pc |-> "idle", with |-> None]
Sent(tk) == [pc |-> "sent", with |-> tk]

Init ==
    /\ sessions = [s \in SessionIds |-> Unopened]
    /\ jar = None
    /\ locks \in BOOLEAN
    /\ lock = None
    /\ token = [t \in Tabs |-> None]
    /\ user = [t \in Tabs |-> None]
    /\ refresh = [t \in Tabs \cup {Dropped} |-> Idle]
    /\ call = [c \in Calls |-> NoCall]
    /\ overtaken = FALSE

Live(tk) == tk # None /\ ~sessions[tk[1]].over
Expired(tk) == tk[2] <= sessions[tk[1]].expired
Authorized(tk) == Live(tk) /\ ~Expired(tk)

-----------------------------------------------------------------------------
(* The server                                                              *)

\* What of a revoked session's tokens has run out makes no difference.
Over(session) == [session EXCEPT !.over = TRUE, !.late = 0, !.expired = 0]
Revoked(ids) == [s \in SessionIds |-> IF s \in ids THEN Over(sessions[s]) ELSE sessions[s]]

\* _spent_token_presented: in the grace, the same next token while that one
\* is unspent; later, the session is revoked.
InGrace(tk) == tk[2] > sessions[tk[1]].late
Successor(tk) == <<tk[1], tk[2] + 1>>
\* As it would be without a grace.
RefusedAnswer(tk) == "ended"
RepeatAnswer(tk) ==
    IF sessions[tk[1]].over \/ ~InGrace(tk) THEN "ended"
    ELSE IF tk[2] + 1 = sessions[tk[1]].issued THEN "issued"
    ELSE "superseded"

Answered(r, how) ==
    [refresh EXCEPT ![r].pc = how,
                    ![r].answer = IF how = "issued" THEN Successor(refresh[r].cookie) ELSE None]

AnswerRepeat(r, tk) ==
    /\ refresh' = Answered(r, RepeatAnswer(tk))
    /\ sessions' = IF InGrace(tk) THEN sessions ELSE Revoked({tk[1]})

\* rotate() finds the token's row.
RotateReads(r) ==
    /\ refresh[r].pc = "asked"
    /\ LET tk == refresh[r].cookie
       IN IF ~Live(tk)
          THEN /\ refresh' = Answered(r, "ended")
               /\ UNCHANGED sessions
          ELSE IF tk[2] < sessions[tk[1]].issued THEN AnswerRepeat(r, tk)
          ELSE /\ refresh' = [refresh EXCEPT ![r].pc = "claiming"]
               /\ UNCHANGED sessions
    /\ UNCHANGED <<jar, locks, lock, token, user, call, overtaken>>

\* The conditional write: of two requests with one token, one exchanges it.
MayIssue == FoldFunction(+, 0, [s \in SessionIds |-> sessions[s].issued]) < MaxTokens
\* As it would be if the write did not ask that the token is unspent.
ClaimableTwice(tk) == Live(tk)
Claimable(tk) == Live(tk) /\ tk[2] = sessions[tk[1]].issued
RotateClaims(r) ==
    /\ refresh[r].pc = "claiming"
    /\ LET tk == refresh[r].cookie
       IN IF Claimable(tk)
          THEN /\ MayIssue
               /\ sessions' = [sessions EXCEPT ![tk[1]].issued = @ + 1]
               /\ refresh' = Answered(r, "issued")
          ELSE AnswerRepeat(r, tk)
    /\ UNCHANGED <<jar, locks, lock, token, user, call, overtaken>>

\* Any answer but a 401 (the API restarting).
ServerFails(r) ==
    /\ refresh[r].pc = "claiming"
    /\ refresh' = Answered(r, "failed")
    /\ UNCHANGED <<sessions, jar, locks, lock, token, user, call, overtaken>>

\* Time passes: a grace ends; an access token, which lives longer than the
\* grace of the token exchanged for it, expires.
GraceEnds(s) ==
    /\ ~sessions[s].over /\ sessions[s].late + 1 < sessions[s].issued
    /\ sessions' = [sessions EXCEPT ![s].late = @ + 1]
    /\ UNCHANGED <<jar, locks, lock, token, user, refresh, call, overtaken>>

Expires(s) ==
    /\ ~sessions[s].over /\ sessions[s].expired < sessions[s].issued
    /\ sessions[s].expired <= sessions[s].late
    /\ sessions' = [sessions EXCEPT ![s].expired = @ + 1]
    /\ UNCHANGED <<jar, locks, lock, token, user, refresh, call, overtaken>>

\* Signed out everywhere from another browser, or a new password there.
EndedElsewhere(s) ==
    /\ sessions[s].issued > 0 /\ ~sessions[s].over
    /\ sessions' = Revoked({s})
    /\ UNCHANGED <<jar, locks, lock, token, user, refresh, call, overtaken>>

-----------------------------------------------------------------------------
(* A tab's refresh                                                         *)

\* withRefreshLock: a browser without Web Locks asks at once.
MayAsk(t) == ~locks \/ lock = None
\* As it would be if an answer did not release the lock.
NotReleased(t) == lock
Released(t) == IF lock = t THEN None ELSE lock

Ask(t) ==
    /\ refresh[t].pc = "lock" /\ MayAsk(t)
    /\ lock' = IF locks THEN t ELSE None
    /\ refresh' = [refresh EXCEPT ![t] = [Idle EXCEPT !.pc = "asked", !.cookie = jar]]
    /\ UNCHANGED <<sessions, jar, locks, token, user, call, overtaken>>

AskAgain(t) ==
    /\ refresh[t].pc = "pause"
    /\ refresh' = [refresh EXCEPT ![t] = [Idle EXCEPT !.pc = "asked", !.cookie = jar,
                                                      !.attempt = refresh[t].attempt + 1]]
    /\ UNCHANGED <<sessions, jar, locks, lock, token, user, call, overtaken>>

\* The calls of a tab that awaited its refresh go on.
Resent(t, tk) ==
    [c \in Calls |-> IF c[1] = t /\ call[c].pc = "renewing"
                     THEN [call[c] EXCEPT !.pc = "again", !.with = tk] ELSE call[c]]
\* As it would be if a refresh that fails did not wake its callers.
NotGivenUp(t) == call
GivenUp(t) ==
    [c \in Calls |-> IF c[1] = t /\ call[c].pc = "renewing"
                     THEN NoCall ELSE call[c]]

\* The answer to a refresh meets a cookie set since the refresh was asked.
Overtaken(t) == overtaken \/ jar \notin {refresh[t].cookie, None}

\* A new token. One that restored the tab at its load asks who is signed in.
Renewed(t) ==
    LET tk == refresh[t].answer
    IN /\ refresh[t].pc = "issued"
       /\ jar' = tk
       /\ token' = [token EXCEPT ![t] = tk]
       /\ refresh' = [refresh EXCEPT ![t] = Idle]
       /\ lock' = Released(t)
       /\ call' = IF user[t] = None
                  THEN [Resent(t, tk) EXCEPT ![<<t, Me>>] = Sent(tk)]
                  ELSE Resent(t, tk)
       /\ overtaken' = Overtaken(t)
       /\ UNCHANGED <<sessions, locks, user>>

\* endSession: the token forgotten, the user and the cache with it.
EndSession(t) ==
    /\ token' = [token EXCEPT ![t] = None]
    /\ user' = [user EXCEPT ![t] = None]
    /\ refresh' = [refresh EXCEPT ![t] = Idle]
    /\ lock' = Released(t)
    /\ call' = GivenUp(t)

\* A refusal, which deletes the cookies the browser has by now.
Refused(t) ==
    /\ refresh[t].pc = "ended"
    /\ EndSession(t)
    /\ jar' = None
    /\ overtaken' = Overtaken(t)
    /\ UNCHANGED <<sessions, locks>>

\* Superseded: once more with the cookie of now, then it is a refusal.
Superseded(t) ==
    /\ refresh[t].pc = "superseded"
    /\ IF refresh[t].attempt = 0
       THEN /\ refresh' = [refresh EXCEPT ![t].pc = "pause"]
            /\ UNCHANGED <<lock, token, user, call>>
       ELSE EndSession(t)
    /\ UNCHANGED <<sessions, jar, locks, overtaken>>

\* An answer that breaks off may have brought its cookie.
Brought(r) == {jar} \cup ({refresh[r].answer} \ {None})

\* Offline, or the answer lost, read by the server or not.
LostAnswer(t) ==
    /\ refresh[t].pc \in {"asked"} \cup Answers
    /\ jar' \in Brought(t)
    /\ refresh' = [refresh EXCEPT ![t] = Idle]
    /\ lock' = Released(t)
    /\ call' = GivenUp(t)
    /\ overtaken' = (IF jar' = jar THEN overtaken ELSE Overtaken(t))
    /\ UNCHANGED <<sessions, locks, token, user>>

\* The answer to a page that is gone is dropped, its cookie too.
Discarded ==
    /\ refresh[Dropped].pc \in Answers
    /\ refresh' = [refresh EXCEPT ![Dropped] = Idle]
    /\ UNCHANGED <<sessions, jar, locks, lock, token, user, call, overtaken>>

\* refreshSession: one for all the tab's callers.
Refreshing(t) ==
    IF refresh[t].pc = "none" THEN [refresh EXCEPT ![t] = [Idle EXCEPT !.pc = "lock"]]
    ELSE refresh

\* The tab loaded again: what it had in memory is gone, its lock with it, and
\* the session is restored if the browser says there is one. The server goes
\* on with a request it has: one at a time, and (a bound of the model) only in
\* a browser with locks, since without them the tabs' requests overlap anyway.
InFlight(t) == refresh[t].pc \in {"asked", "claiming"}
Reload(t) ==
    /\ InFlight(t) => locks /\ refresh[Dropped].pc = "none"
    /\ jar' \in Brought(t)
    /\ token' = [token EXCEPT ![t] = None]
    /\ user' = [user EXCEPT ![t] = None]
    /\ call' = [c \in Calls |-> IF c[1] = t THEN NoCall ELSE call[c]]
    /\ lock' = Released(t)
    /\ refresh' = [refresh EXCEPT
            ![t] = IF jar' = None THEN Idle ELSE [Idle EXCEPT !.pc = "lock"],
            ![Dropped] = IF InFlight(t) THEN refresh[t] ELSE @]
    /\ overtaken' = (IF jar' = jar THEN overtaken ELSE Overtaken(t))
    /\ UNCHANGED <<sessions, locks>>

-----------------------------------------------------------------------------
(* A tab's calls                                                           *)

Send(c) ==
    /\ c[2] # Me /\ user[c[1]] # None
    /\ call[c].pc = "idle"
    /\ call' = [call EXCEPT ![c] = Sent(token[c[1]])]
    /\ UNCHANGED <<sessions, jar, locks, lock, token, user, refresh, overtaken>>

TakenFor(c) == sessions[call[c].with[1]].user

\* The server takes the call for its token's user, or refuses it (401). The
\* answer to Me is the tab's user.
Served(c) ==
    /\ call[c].pc \in {"sent", "again"}
    /\ IF Authorized(call[c].with)
       THEN /\ call' = [call EXCEPT ![c] = NoCall]
            /\ user' = IF c[2] = Me THEN [user EXCEPT ![c[1]] = TakenFor(c)] ELSE user
       ELSE /\ call' = [call EXCEPT ![c] = IF @.pc = "sent" THEN [@ EXCEPT !.pc = "refused"]
                                            ELSE NoCall]
            /\ UNCHANGED user
    /\ UNCHANGED <<sessions, jar, locks, lock, token, refresh, overtaken>>

\* renewedAfter401: a token newer than the one refused is worth a retry;
\* otherwise one refresh.
Renew(c) ==
    LET t == c[1]
    IN /\ call[c].pc = "refused"
       /\ IF token[t] # None /\ token[t] # call[c].with
          THEN /\ call' = [call EXCEPT ![c].pc = "again", ![c].with = token[t]]
               /\ UNCHANGED refresh
          ELSE IF call[c].with = None
          THEN call' = [call EXCEPT ![c] = NoCall] /\ UNCHANGED refresh
          ELSE /\ call' = [call EXCEPT ![c].pc = "renewing"]
               /\ refresh' = Refreshing(t)
       /\ UNCHANGED <<sessions, jar, locks, lock, token, user, overtaken>>

-----------------------------------------------------------------------------
(* Signing in and out                                                      *)

Named(tk) == IF tk = None THEN {} ELSE {tk[1]}

\* login: the session the browser's cookie names gives way to a new one.
LogIn(t, u) ==
    /\ user[t] = None /\ refresh[t].pc = "none" /\ call[<<t, Me>>].pc # "sent"
    /\ \E s \in SessionIds :
        /\ sessions[s].issued = 0 /\ MayIssue
        /\ \A r \in SessionIds : r < s => sessions[r].issued > 0
        /\ sessions' = [Revoked(Named(jar)) EXCEPT ![s].user = u, ![s].issued = 1]
        /\ jar' = <<s, 1>>
        /\ token' = [token EXCEPT ![t] = <<s, 1>>]
        /\ call' = [call EXCEPT ![<<t, Me>>] = Sent(<<s, 1>>)]
    /\ UNCHANGED <<locks, lock, user, refresh, overtaken>>

\* logout: the cookie's session and the bearer's end; unheard by the server
\* (offline), the tab forgets all the same.
LogOut(t, heard) ==
    /\ user[t] # None
    /\ IF heard
       THEN /\ sessions' = Revoked(Named(jar) \cup {s \in Named(token[t]) : ~Expired(token[t])})
            /\ jar' = None
       ELSE UNCHANGED <<sessions, jar>>
    /\ token' = [token EXCEPT ![t] = None]
    /\ user' = [user EXCEPT ![t] = None]
    /\ UNCHANGED <<locks, lock, refresh, call, overtaken>>

Next ==
    \/ \E r \in Tabs \cup {Dropped} : RotateReads(r) \/ RotateClaims(r) \/ ServerFails(r)
    \/ \E s \in SessionIds : GraceEnds(s) \/ Expires(s) \/ EndedElsewhere(s)
    \/ \E t \in Tabs :
        \/ Ask(t) \/ AskAgain(t) \/ Renewed(t) \/ Refused(t) \/ Superseded(t)
        \/ LostAnswer(t) \/ Reload(t)
        \/ \E u \in Users : LogIn(t, u)
        \/ \E heard \in BOOLEAN : LogOut(t, heard)
    \/ Discarded
    \/ \E c \in Calls : Send(c) \/ Served(c) \/ Renew(c)

Spec == Init /\ [][Next]_vars

\* Requests are answered or lost, and what awaits them goes on.
Fairness ==
    /\ \A r \in Tabs \cup {Dropped} : WF_vars(RotateReads(r) \/ RotateClaims(r) \/ ServerFails(r))
    /\ \A t \in Tabs :
        /\ SF_vars(Ask(t))
        /\ WF_vars(AskAgain(t) \/ Renewed(t) \/ Refused(t) \/ Superseded(t) \/ LostAnswer(t))
    /\ \A c \in Calls : WF_vars(Served(c) \/ Renew(c))

FairSpec == Spec /\ Fairness

-----------------------------------------------------------------------------
(* Properties                                                              *)

\* A session never forks, and the browser keeps up with it: the cookie, while
\* its session is live, is the live token or the one just exchanged for it.
JarKeepsUp ==
    locks /\ jar # None =>
        /\ jar[2] <= sessions[jar[1]].issued
        /\ Live(jar) => sessions[jar[1]].issued <= jar[2] + 1

\* No tab is signed out of a session that is still open, whatever answers are
\* lost, repeated or late; unless a refusal has deleted the cookie of a
\* session opened after it was asked.
SignOutIsDeserved ==
    [][\A t \in Tabs :
        (Refused(t) \/ Superseded(t)) /\ user[t] # None /\ user'[t] = None =>
            ~Live(token[t]) \/ overtaken' \/ ~locks]_vars

\* A call always ends: no refresh or lock is waited on for ever.
CallEnds(c) == call[c].pc = "sent" ~> call[c].pc = "idle"

\* A tab acts as the user it shows.
TabActsAsItsUser ==
    [][\A c \in Calls :
        Served(c) /\ c[2] # Me /\ Authorized(call[c].with) /\ user[c[1]] # None =>
            TakenFor(c) = user[c[1]]]_vars
=============================================================================
