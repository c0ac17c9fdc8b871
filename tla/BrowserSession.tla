--------------------------- MODULE BrowserSession ---------------------------
(***************************************************************************)
(* The session of one browser: several tabs share one cookie jar, every    *)
(* tab runs lib/api.ts and lib/auth-context.tsx, and the server rotates    *)
(* the refresh token each time a tab presents it (auth/sessions.rs).       *)
(*                                                                         *)
(* A call that meets 401 refreshes once, together with the other calls of  *)
(* its tab; tabs do not know of each other.  The reuse of a consumed token *)
(* is refused while its rotation is recent and revokes every session of    *)
(* the account afterwards.                                                 *)
(***************************************************************************)
EXTENDS Naturals, FiniteSets

CONSTANTS
    Tabs,      \* the browser's open tabs
    Readers,   \* those whose page also reads data
    MaxTokens  \* bound: refresh tokens the account is ever given

ASSUME ReadersAssumption == Readers \subseteq Tabs
ASSUME MaxTokensAssumption == MaxTokens \in Nat \ {0}

VARIABLES
    jar,       \* the cookies: a valid access token or not, and the refresh token
    token,     \* the table refresh_tokens
    recent,    \* consumed tokens whose rotation is within the grace period
    call,      \* call[t][c]: how far tab t is with call c
    promise,   \* refreshPromise of each tab
    auth,      \* what each tab's AuthProvider knows: "out" after a 401, "failed" after
               \* another error; both show as signed out
    alarm,     \* history: reuse detection has revoked the account's sessions
    broken     \* history: how a refresh has failed or was late on its way

vars == <<jar, token, recent, call, promise, auth, alarm, broken>>

Token == 1..MaxTokens
None == 0
Calls == {"me", "data"}       \* loadUser, and any read of the page on display
Stages == {"idle", "sent", "await", "pause", "again"}

Idle == [stage |-> "idle", cookie |-> FALSE]
NoPromise == [state |-> "none", carries |-> None, brings |-> None]

TypeOK ==
    /\ jar \in [access: BOOLEAN, refresh: Token \cup {None}]
    /\ token \in [Token -> [state: {"unused", "live", "consumed", "revoked"},
                            login: Token \cup {None}]]
    /\ recent \subseteq Token
    /\ call \in [Tabs -> [Calls -> [stage: Stages, cookie: BOOLEAN]]]
    /\ promise \in [Tabs -> [state: {"none", "sent", "answered"},
                             carries: Token \cup {None}, brings: Token \cup {None}]]
    /\ auth \in [Tabs -> {"loading", "in", "out", "failed"}]
    /\ broken \subseteq {"request", "server", "answer", "slow"}
    /\ alarm \in BOOLEAN

Fresh == {k \in Token : token[k].state = "unused"}
NextToken == CHOOSE k \in Fresh : \A j \in Fresh : k <= j
Live(k) == k # None /\ token[k].state = "live"

\* A browser that was left signed in: the access cookie may have expired.
Init ==
    /\ jar \in [access: BOOLEAN, refresh: {1}]
    /\ token = [k \in Token |-> IF k = 1 THEN [state |-> "live", login |-> 1]
                                ELSE [state |-> "unused", login |-> None]]
    /\ recent = {}
    /\ call = [t \in Tabs |-> [c \in Calls |-> Idle]]
    /\ promise = [t \in Tabs |-> NoPromise]
    /\ auth = [t \in Tabs |-> "loading"]
    /\ alarm = FALSE /\ broken = {}

-----------------------------------------------------------------------------
(* The server *)

\* insert_refresh_token: a sign-in begins a chain of its own.
Issued(k, login) == [token EXCEPT ![k] = [state |-> "live", login |-> login]]

\* revoke every outstanding token of the account
AllRevoked == [k \in Token |->
    IF token[k].state \in {"live", "consumed"} THEN [token[k] EXCEPT !.state = "revoked"]
    ELSE token[k]]

\* Mutant: a second presentation is answered with a successor of its own
RotatesAgain(k) == k # None /\ token[k].state \in {"live", "consumed"} /\ Fresh # {}
\* rotate: the token row is locked until the successor is in place.  At the
\* bound MaxTokens the insertion fails and the transaction is rolled back.
Rotates(k) == Live(k) /\ Fresh # {}
\* Mutant: the grace period is for tokens without a successor (replaced_by NULL)
ForgivenUnreplaced(k) ==
    /\ token[k].state = "consumed" /\ k \in recent
    /\ \A j \in Token : token[j].login = token[k].login => j <= k
\* A consumed token within the grace period is refused without an alarm.
Forgiven(k) == token[k].state = "consumed" /\ k \in recent
Leaked(k) == k # None /\ token[k].state = "consumed" /\ ~Forgiven(k)

ServeRefresh(t) ==
    LET k == promise[t].carries IN
    /\ promise[t].state = "sent"
    /\ IF Rotates(k)
       THEN /\ token' = [Issued(NextToken, token[k].login) EXCEPT ![k].state = "consumed"]
            /\ recent' = recent \cup {k}
            /\ promise' = [promise EXCEPT ![t].state = "answered", ![t].brings = NextToken]
            /\ UNCHANGED <<alarm, broken>>
       ELSE /\ token' = IF Leaked(k) THEN AllRevoked ELSE token
            /\ alarm' = (alarm \/ Leaked(k))
            /\ promise' = [promise EXCEPT ![t].state = "answered", ![t].brings = None]
            /\ broken' = broken \cup (IF Live(k) THEN {"server"} ELSE {})
            /\ UNCHANGED recent
    /\ UNCHANGED <<jar, call, auth>>

\* Thirty seconds after a rotation, whatever is on its way: no request of lib/api.ts
\* has a time-out.  A refresh with the token that has not ended by then is late.
GraceEnds(k) ==
    /\ k \in recent
    /\ recent' = recent \ {k}
    /\ broken' = IF \E t \in Tabs : promise[t].carries = k THEN broken \cup {"slow"} ELSE broken
    /\ UNCHANGED <<jar, token, call, promise, auth, alarm>>

-----------------------------------------------------------------------------
(* lib/api.ts *)

\* request: the cookies of this moment go with it.  A tab loads its user once,
\* when it opens; its pages read whatever they like.
Begin(t, c) ==
    /\ call[t][c] = Idle
    /\ IF c = "me" THEN auth[t] = "loading" ELSE auth[t] = "in" /\ t \in Readers
    /\ call' = [call EXCEPT ![t][c] = [stage |-> "sent", cookie |-> jar.access]]
    /\ UNCHANGED <<jar, token, recent, promise, auth, alarm, broken>>

\* refreshAccessToken: one request for all the calls of the tab that met 401
StartRefresh(t) ==
    promise' = IF promise[t].state # "none" THEN promise
               ELSE [promise EXCEPT ![t] =
                        [state |-> "sent", carries |-> jar.refresh, brings |-> None]]

\* what the init effect and login make of the answer to loadUser
Settled(t, c, ok) ==
    IF c # "me" THEN auth ELSE [auth EXCEPT ![t] = IF ok THEN "in" ELSE "out"]

\* The answer to a call is an error that is no 401, or the connection breaks.  The
\* call is over without a refresh, and loadUser leaves the tab without a user.
CallFails(t, c) ==
    /\ call[t][c].stage \in {"sent", "pause", "again"}
    /\ call' = [call EXCEPT ![t][c] = Idle]
    /\ auth' = IF c # "me" THEN auth ELSE [auth EXCEPT ![t] = "failed"]
    /\ UNCHANGED <<jar, token, recent, promise, alarm, broken>>

\* The first answer: without a valid access cookie it is 401.
Answered(t, c) ==
    /\ call[t][c].stage = "sent"
    /\ IF call[t][c].cookie
       THEN /\ call' = [call EXCEPT ![t][c] = Idle]
            /\ auth' = Settled(t, c, TRUE)
            /\ UNCHANGED promise
       ELSE /\ StartRefresh(t)
            /\ call' = [call EXCEPT ![t][c].stage = "await"]
            /\ UNCHANGED auth
    /\ UNCHANGED <<jar, token, recent, alarm, broken>>

\* Mutant: the calls that waited for a refused refresh are dropped
ResumedOnSuccess(t, ok) == [c \in Calls |->
    IF ok /\ call[t][c].stage = "await" THEN [stage |-> "again", cookie |-> TRUE]
    ELSE call[t][c]]

\* The refresh succeeds: the calls that waited for it are sent again at once.
\* It fails: each waits 250 ms first, for another tab's rotation to land.
Resumed(t, ok) == [c \in Calls |->
    IF call[t][c].stage # "await" THEN call[t][c]
    ELSE IF ok THEN [stage |-> "again", cookie |-> TRUE]
    ELSE [stage |-> "pause", cookie |-> FALSE]]

RefreshArrives(t) ==
    /\ promise[t].state = "answered"
    /\ LET new == promise[t].brings IN
       /\ jar' = IF new = None THEN jar ELSE [access |-> TRUE, refresh |-> new]
       /\ call' = [call EXCEPT ![t] = Resumed(t, new # None)]
    /\ promise' = [promise EXCEPT ![t] = NoPromise]
    /\ UNCHANGED <<token, recent, auth, alarm, broken>>

\* The connection breaks before the request is read, or before the answer is, or the
\* server fails before it rotates.
Dropped(t) ==
    broken' = broken \cup (CASE promise[t].state = "none" -> {}
                             [] promise[t].brings # None -> {"answer"}
                             [] OTHER -> {"request"})

RefreshLost(t) ==
    /\ promise[t].state # "none"
    /\ Dropped(t)
    /\ call' = [call EXCEPT ![t] = Resumed(t, FALSE)]
    /\ promise' = [promise EXCEPT ![t] = NoPromise]
    /\ UNCHANGED <<jar, token, recent, auth, alarm>>

\* Mutant: no second try after the pause
GivesUp(t, c) ==
    /\ call[t][c].stage \in {"pause", "again"}
    /\ call' = [call EXCEPT ![t][c] = Idle]
    /\ auth' = Settled(t, c, call[t][c].cookie)
    /\ UNCHANGED <<jar, token, recent, promise, alarm, broken>>

\* The last try, with the cookies of its own moment; a 401 is the caller's.
RetryAnswered(t, c) ==
    /\ call[t][c].stage \in {"pause", "again"}
    /\ call' = [call EXCEPT ![t][c] = Idle]
    /\ auth' = Settled(t, c, call[t][c].cookie \/ jar.access)
    /\ UNCHANGED <<jar, token, recent, promise, alarm, broken>>

-----------------------------------------------------------------------------
(* lib/auth-context.tsx *)

\* login: the answer sets both cookies, then loadUser fetches the profile
Login(t) ==
    /\ auth[t] \in {"out", "failed"} /\ call[t]["me"] = Idle /\ Fresh # {}
    /\ token' = Issued(NextToken, NextToken)
    /\ jar' = [access |-> TRUE, refresh |-> NextToken]
    /\ call' = [call EXCEPT ![t]["me"] = [stage |-> "sent", cookie |-> TRUE]]
    /\ UNCHANGED <<recent, promise, auth, alarm, broken>>

\* logout: revoke_one of the token in the jar, then the answer clears the jar.
\* A request that fails changes nothing but what the tab shows.
Logout(t, reached) ==
    /\ auth[t] = "in"
    /\ IF reached
       THEN /\ token' = IF jar.refresh = None THEN token
                        ELSE [token EXCEPT ![jar.refresh].state = "revoked"]
            /\ jar' = [access |-> FALSE, refresh |-> None]
       ELSE UNCHANGED <<token, jar>>
    /\ auth' = [auth EXCEPT ![t] = "out"]
    /\ UNCHANGED <<recent, call, promise, alarm, broken>>

\* The tab is closed or reloaded: its calls are dropped, and its refresh too.
Reload(t) ==
    /\ Dropped(t)
    /\ auth' = [auth EXCEPT ![t] = "loading"]
    /\ call' = [call EXCEPT ![t] = [c \in Calls |-> Idle]]
    /\ promise' = [promise EXCEPT ![t] = NoPromise]
    /\ UNCHANGED <<jar, token, recent, alarm>>

\* The access cookie's fifteen minutes pass; a refresh and the pause of 250 ms
\* after it are over long before a cookie that was set meanwhile expires.
AccessExpires ==
    /\ jar.access
    /\ \A t \in Tabs, c \in Calls : call[t][c].stage \notin {"await", "pause"}
    /\ jar' = [jar EXCEPT !.access = FALSE]
    /\ UNCHANGED <<token, recent, call, promise, auth, alarm, broken>>

Next ==
    \/ \E t \in Tabs :
        \/ ServeRefresh(t) \/ RefreshArrives(t) \/ RefreshLost(t)
        \/ Login(t) \/ Reload(t) \/ \E reached \in BOOLEAN : Logout(t, reached)
        \/ \E c \in Calls :
             Begin(t, c) \/ Answered(t, c) \/ RetryAnswered(t, c) \/ CallFails(t, c)
    \/ \E k \in Token : GraceEnds(k)
    \/ AccessExpires

\* The server answers, and the browser's timers run.
Fairness == \A t \in Tabs :
    /\ WF_vars(ServeRefresh(t)) /\ WF_vars(RefreshArrives(t))
    /\ \A c \in Calls : WF_vars(Answered(t, c)) /\ WF_vars(RetryAnswered(t, c))

Spec == Init /\ [][Next]_vars /\ Fairness

-----------------------------------------------------------------------------
(* Properties *)

\* However many tabs present one token, a sign-in has one usable successor:
\* two tabs never hold a valid session each of the same chain.
OneLivePerLogin ==
    \A j, k \in Token : (Live(j) /\ Live(k) /\ token[j].login = token[k].login) => j = k

\* The tabs' own races never look like a theft: every session of the account
\* is revoked only after the answer to a rotation was lost, or when a refresh that
\* raced with it, or its answer, took more than the thirty seconds.
AlarmOnlyAfterLoss == alarm => broken \cap {"answer", "slow"} # {}

\* A tab that opens is told by a 401 that the browser is signed out only when its
\* session is over, when a refresh failed or was late, or while another tab still
\* waits for the rotation that would have saved it.  (An error that is no 401 shows as
\* signed out too, whatever the session: that is "failed".)
SignedOutForCause ==
    [][\A t \in Tabs : (auth[t] = "loading" /\ auth'[t] = "out") =>
         \/ ~Live(jar.refresh) /\ \A s \in Tabs : promise[s].brings = None
         \/ \E s \in Tabs \ {t} : promise[s].brings # None
         \/ broken # {}]_vars

\* No call of a tab waits for ever on a refresh that another call began.
CallsEnd == \A t \in Tabs, c \in Calls :
    (call[t][c].stage = "await") ~> (call[t][c].stage # "await")
=============================================================================
