------------------------- MODULE BrowserSessionProofs -------------------------
(***************************************************************************)
(* Theorems about the session of one browser, for any number of tabs and   *)
(* of refresh tokens.                                                      *)
(***************************************************************************)
EXTENDS BrowserSession, WellFoundedInduction, TLAPS

Used(k) == token[k].state # "unused"

\* A login is named by its first token, which is not given again, and the
\* tokens in the browser are given ones.
Given ==
  /\ \A k \in Token : Used(k) => token[k].login \in Token /\ Used(token[k].login)
  /\ jar.refresh # None => Used(jar.refresh)
  /\ \A t \in Tabs : promise[t].carries # None => Used(promise[t].carries)

\* The successor on its way to a tab is known to that answer alone.
OnItsWay ==
  \A t \in Tabs : LET b == promise[t].brings IN
    b # None => /\ promise[t].state = "answered"
                /\ token[b].state \in {"live", "revoked"}
                /\ jar.refresh # b
                /\ \A s \in Tabs : promise[s].carries # b /\ (s # t => promise[s].brings # b)

\* As long as no answer was lost and no refresh was late: a consumed token that the
\* jar still holds is about to be replaced, and one whose grace period is over is out
\* of use.
Replaced ==
  ("answer" \notin broken /\ "slow" \notin broken) =>
    \A k \in Token : token[k].state = "consumed" =>
      /\ jar.refresh = k => \E t \in Tabs : promise[t].carries = k /\ promise[t].brings # None
      /\ k \notin recent => jar.refresh # k /\ \A t \in Tabs : promise[t].carries # k

SessionInv == Given /\ OnItsWay /\ OneLivePerLogin /\ Replaced /\ AlarmOnlyAfterLoss

-----------------------------------------------------------------------------

\* A set of numbers that is not empty has a least member.
LEMMA LeastNumber ==
  ASSUME NEW T \in SUBSET Nat, T # {}
  PROVE  \E x \in T : \A y \in T : x <= y
<1>1. \E x \in T : \A y \in T : ~(<<y, x>> \in OpToRel(<, Nat))
  BY NatLessThanWellFounded, WFMin, Zenon
<1>2. PICK x \in T : \A y \in T : ~(<<y, x>> \in OpToRel(<, Nat))
  BY <1>1
<1>3. \A y \in T : ~(y < x)
  BY <1>2 DEF OpToRel
<1> QED BY <1>3

\* The token that is given next was never given.
LEMMA NextIsFresh ==
  ASSUME Fresh # {}
  PROVE  NextToken \in Token /\ ~Used(NextToken) /\ NextToken # None
<1>1. Fresh \in SUBSET Nat
  BY MaxTokensAssumption DEF Fresh, Token
<1>2. \E k \in Fresh : \A j \in Fresh : k <= j
  BY <1>1, LeastNumber
<1>3. NextToken \in Fresh
  BY <1>2 DEF NextToken
<1> QED BY <1>3, MaxTokensAssumption DEF Fresh, Used, Token, None

\* An answer leaves with the promise what it was asked with.
LEMMA AnswerRecord ==
  ASSUME TypeOK, NEW t \in Tabs, NEW n
  PROVE  [promise EXCEPT ![t].state = "answered", ![t].brings = n]
           = [promise EXCEPT ![t] = [state |-> "answered", carries |-> promise[t].carries, brings |-> n]]
<1> DEFINE k == promise[t].carries
           half == [promise EXCEPT ![t].state = "answered"]
<1>1. half = [promise EXCEPT ![t] = [state |-> "answered", carries |-> k, brings |-> promise[t].brings]]
  <2>1. [promise[t] EXCEPT !.state = "answered"]
          = [state |-> "answered", carries |-> k, brings |-> promise[t].brings]
    BY DEF TypeOK
  <2> QED BY <2>1
<1>2. half[t] = [state |-> "answered", carries |-> k, brings |-> promise[t].brings]
  BY <1>1 DEF TypeOK
<1>3. [half[t] EXCEPT !.brings = n] = [state |-> "answered", carries |-> k, brings |-> n]
  BY <1>2
<1> QED BY <1>1, <1>3 DEF TypeOK

\* What the actions do to the tables and the promises, row by row.
LEMMA Rotation ==
  ASSUME TypeOK, NEW t \in Tabs, ServeRefresh(t), Rotates(promise[t].carries)
  PROVE  \E n \in Token : LET k == promise[t].carries IN
           /\ k \in Token /\ token[k].state = "live" /\ ~Used(n)
           /\ token' = [token EXCEPT ![n] = [state |-> "live", login |-> token[k].login],
                                     ![k] = [state |-> "consumed", login |-> token[k].login]]
           /\ recent' = recent \cup {k}
           /\ promise' = [promise EXCEPT ![t] = [state |-> "answered", carries |-> k, brings |-> n]]
           /\ UNCHANGED <<jar, call, auth, alarm, broken>>
<1>1. NextToken \in Token /\ ~Used(NextToken)
  BY NextIsFresh DEF Rotates
<1>2. promise[t].carries \in Token /\ token[promise[t].carries].state = "live"
  BY DEF TypeOK, Rotates, Live
<1>3. NextToken # promise[t].carries
  BY <1>1, <1>2 DEF Used
<1> DEFINE n == NextToken
           k == promise[t].carries
<1>4. token' = [Issued(n, token[k].login) EXCEPT ![k].state = "consumed"]
      /\ recent' = recent \cup {k}
      /\ promise' = [promise EXCEPT ![t].state = "answered", ![t].brings = n]
      /\ UNCHANGED <<jar, call, auth, alarm, broken>>
  BY DEF ServeRefresh
<1> HIDE DEF n, k
<1>5. token' = [token EXCEPT ![n] = [state |-> "live", login |-> token[k].login],
                            ![k] = [state |-> "consumed", login |-> token[k].login]]
  <2>1. [token[k] EXCEPT !.state = "consumed"] = [state |-> "consumed", login |-> token[k].login]
    BY <1>2 DEF TypeOK, k
  <2>2. Issued(n, token[k].login)[k] = token[k]
    BY <1>1, <1>2, <1>3 DEF Issued, TypeOK, n, k
  <2> QED BY <1>4, <2>1, <2>2 DEF Issued
<1>6. promise' = [promise EXCEPT ![t] = [state |-> "answered", carries |-> k, brings |-> n]]
  BY <1>4, AnswerRecord DEF k
<1> QED BY <1>1, <1>2, <1>4, <1>5, <1>6 DEF n, k

LEMMA TypeInit == Init => TypeOK
<1> SUFFICES ASSUME Init PROVE TypeOK OBVIOUS
<1>1. 1 \in Token
  BY MaxTokensAssumption DEF Token
<1>2. jar \in [access: BOOLEAN, refresh: Token \cup {None}]
  BY <1>1 DEF Init
<1>3. token \in [Token -> [state: {"unused", "live", "consumed", "revoked"}, login: Token \cup {None}]]
  BY <1>1 DEF Init
<1>4. call \in [Tabs -> [Calls -> [stage: Stages, cookie: BOOLEAN]]]
  BY DEF Init, Idle, Stages
<1>5. promise \in [Tabs -> [state: {"none", "sent", "answered"}, carries: Token \cup {None}, brings: Token \cup {None}]]
  BY DEF Init, NoPromise
<1> QED BY <1>2, <1>3, <1>4, <1>5 DEF Init, TypeOK

LEMMA TypeStep == TypeOK /\ [Next]_vars => TypeOK'
<1> SUFFICES ASSUME TypeOK, [Next]_vars PROVE TypeOK' OBVIOUS
<1> USE DEF TypeOK
<1>a. NoPromise \in [state: {"none", "sent", "answered"}, carries: Token \cup {None}, brings: Token \cup {None}]
      /\ Idle \in [stage: Stages, cookie: BOOLEAN]
  BY DEF NoPromise, Idle, Stages
<1>1. ASSUME NEW t \in Tabs, ServeRefresh(t) PROVE TypeOK'
  <2>1. CASE Rotates(promise[t].carries)
    <3> DEFINE k == promise[t].carries
    <3>1. PICK n \in Token :
            /\ k \in Token
            /\ token' = [token EXCEPT ![n] = [state |-> "live", login |-> token[k].login],
                                      ![k] = [state |-> "consumed", login |-> token[k].login]]
            /\ recent' = recent \cup {k}
            /\ promise' = [promise EXCEPT ![t] = [state |-> "answered", carries |-> k, brings |-> n]]
            /\ UNCHANGED <<jar, call, auth, alarm, broken>>
      BY <1>1, <2>1, Rotation
    <3>2. token[k].login \in Token \cup {None}
      BY <3>1
    <3> QED BY <3>1, <3>2
  <2>2. CASE ~Rotates(promise[t].carries)
    <3>1. promise' = [promise EXCEPT ![t] = [state |-> "answered", carries |-> promise[t].carries, brings |-> None]]
      BY <1>1, <2>2, AnswerRecord DEF ServeRefresh
    <3>2. token' \in [Token -> [state: {"unused", "live", "consumed", "revoked"}, login: Token \cup {None}]]
      <4>1. AllRevoked \in [Token -> [state: {"unused", "live", "consumed", "revoked"}, login: Token \cup {None}]]
        BY DEF AllRevoked
      <4> QED BY <1>1, <2>2, <4>1 DEF ServeRefresh
    <3> QED BY <1>1, <2>2, <3>1, <3>2 DEF ServeRefresh, Leaked, Forgiven
  <2> QED BY <2>1, <2>2
<1>2. ASSUME NEW t \in Tabs, NEW ok \in BOOLEAN
      PROVE  Resumed(t, ok) \in [Calls -> [stage: Stages, cookie: BOOLEAN]]
  BY <1>2 DEF Resumed, Stages
<1>3. ASSUME NEW t \in Tabs, RefreshArrives(t) PROVE TypeOK'
  BY <1>3, <1>2, <1>a DEF RefreshArrives
<1>4. ASSUME NEW t \in Tabs, RefreshLost(t) \/ Reload(t) PROVE TypeOK'
  <2>1. broken' \subseteq {"request", "server", "answer", "slow"}
    BY <1>4 DEF RefreshLost, Reload, Dropped
  <2>2. CASE RefreshLost(t)
    BY <2>1, <2>2, <1>2, <1>a DEF RefreshLost
  <2>3. CASE Reload(t)
    BY <2>1, <2>3, <1>a DEF Reload
  <2> QED BY <1>4, <2>2, <2>3
<1>5. ASSUME NEW t \in Tabs, Login(t) PROVE TypeOK'
  BY <1>5, NextIsFresh DEF Login, Issued, Calls, Stages
<1>6. ASSUME NEW t \in Tabs, NEW reached \in BOOLEAN, Logout(t, reached) PROVE TypeOK'
  <2>1. CASE reached
    <3>1. [access |-> FALSE, refresh |-> None] \in [access: BOOLEAN, refresh: Token \cup {None}]
      OBVIOUS
    <3>2. \A k \in Token : [token[k] EXCEPT !.state = "revoked"]
                             \in [state: {"unused", "live", "consumed", "revoked"}, login: Token \cup {None}]
      <4>1. \A k \in Token : [token[k] EXCEPT !.state = "revoked"] = [state |-> "revoked", login |-> token[k].login]
        OBVIOUS
      <4> QED BY <4>1
    <3>3. token' \in [Token -> [state: {"unused", "live", "consumed", "revoked"}, login: Token \cup {None}]]
      BY <1>6, <2>1, <3>2 DEF Logout
    <3> QED BY <1>6, <2>1, <3>1, <3>3 DEF Logout
  <2>2. CASE ~reached
    BY <1>6, <2>2 DEF Logout
  <2> QED BY <2>1, <2>2
<1>7. ASSUME NEW t \in Tabs, NEW c \in Calls, Begin(t, c) \/ RetryAnswered(t, c) PROVE TypeOK'
  <2>1. CASE Begin(t, c)
    BY <2>1 DEF Begin, Stages
  <2>2. CASE RetryAnswered(t, c)
    BY <2>2, <1>a DEF RetryAnswered, Settled
  <2> QED BY <1>7, <2>1, <2>2
<1>8. ASSUME NEW t \in Tabs, NEW c \in Calls, Answered(t, c) PROVE TypeOK'
  <2>1. CASE call[t][c].cookie
    <3>1. /\ call' = [call EXCEPT ![t][c] = Idle] /\ auth' = Settled(t, c, TRUE)
          /\ UNCHANGED <<jar, token, recent, promise, alarm, broken>>
      BY <1>8, <2>1 DEF Answered
    <3> QED BY <3>1, <1>a DEF Settled
  <2>2. CASE ~call[t][c].cookie
    <3>1. call' \in [Tabs -> [Calls -> [stage: Stages, cookie: BOOLEAN]]]
      <4>1. [call[t][c] EXCEPT !.stage = "await"] \in [stage: Stages, cookie: BOOLEAN]
        <5>1. call[t][c] \in [stage: Stages, cookie: BOOLEAN]
          OBVIOUS
        <5>2. [call[t][c] EXCEPT !.stage = "await"] = [stage |-> "await", cookie |-> call[t][c].cookie]
          BY <5>1
        <5> QED BY <5>1, <5>2 DEF Stages
      <4>2. call' = [call EXCEPT ![t][c].stage = "await"]
        BY <1>8, <2>2 DEF Answered
      <4> QED BY <4>1, <4>2
    <3>2. promise' \in [Tabs -> [state: {"none", "sent", "answered"}, carries: Token \cup {None}, brings: Token \cup {None}]]
      <4>1. [state |-> "sent", carries |-> jar.refresh, brings |-> None]
              \in [state: {"none", "sent", "answered"}, carries: Token \cup {None}, brings: Token \cup {None}]
        OBVIOUS
      <4>2. StartRefresh(t)
        BY <1>8, <2>2 DEF Answered
      <4> QED BY <4>1, <4>2 DEF StartRefresh
    <3> QED BY <1>8, <2>2, <3>1, <3>2 DEF Answered
  <2> QED BY <2>1, <2>2
<1>9. CASE (\E k \in Token : GraceEnds(k)) \/ AccessExpires \/ UNCHANGED vars
  BY <1>9 DEF GraceEnds, AccessExpires, vars
<1>10. ASSUME NEW t \in Tabs, NEW c \in Calls, CallFails(t, c) PROVE TypeOK'
  BY <1>10, <1>a DEF CallFails
<1> QED BY <1>1, <1>3, <1>4, <1>5, <1>6, <1>7, <1>8, <1>9, <1>10 DEF Next

LEMMA SessionInit == Init => SessionInv
<1> SUFFICES ASSUME Init PROVE SessionInv OBVIOUS
<1>1. 1 \in Token /\ token[1] = [state |-> "live", login |-> 1] /\ jar.refresh = 1 /\ 1 # None
      /\ \A k \in Token : k # 1 => token[k] = [state |-> "unused", login |-> None]
  BY MaxTokensAssumption DEF Init, Token, None
<1>2. \A t \in Tabs : promise[t].carries = None /\ promise[t].brings = None
  BY DEF Init, NoPromise
<1>3. Given
  BY <1>1, <1>2 DEF Given, Used
<1>4. OnItsWay
  BY <1>2 DEF OnItsWay
<1>5. OneLivePerLogin
  BY <1>1 DEF OneLivePerLogin, Live
<1>6. Replaced
  BY <1>1 DEF Replaced
<1> QED BY <1>3, <1>4, <1>5, <1>6 DEF SessionInv, AlarmOnlyAfterLoss, Init

\* Steps that leave the tokens, the promises and the cookie that refreshes.
LEMMA SessionFrame ==
  ASSUME SessionInv, jar'.refresh = jar.refresh, UNCHANGED <<token, recent, promise, alarm, broken>>
  PROVE  SessionInv'
<1>1. Given'
  BY DEF SessionInv, Given, Used
<1>2. OnItsWay'
  BY DEF SessionInv, OnItsWay
<1>3. Replaced'
  BY DEF SessionInv, Replaced
<1> QED BY <1>1, <1>2, <1>3 DEF SessionInv, OneLivePerLogin, Live, AlarmOnlyAfterLoss

LEMMA SessionStep == TypeOK /\ SessionInv /\ [Next]_vars => SessionInv'
<1> SUFFICES ASSUME TypeOK, SessionInv, [Next]_vars PROVE SessionInv' OBVIOUS
<1>0. Given /\ OnItsWay /\ OneLivePerLogin /\ Replaced /\ AlarmOnlyAfterLoss
  BY DEF SessionInv
<1>a. None \notin Token
  BY DEF Token, None
\* A rotation.
<1>1. ASSUME NEW t \in Tabs, ServeRefresh(t), Rotates(promise[t].carries) PROVE SessionInv'
  <2> DEFINE k == promise[t].carries
  <2>1. PICK n \in Token :
          /\ k \in Token /\ token[k].state = "live" /\ ~Used(n)
          /\ token' = [token EXCEPT ![n] = [state |-> "live", login |-> token[k].login],
                                    ![k] = [state |-> "consumed", login |-> token[k].login]]
          /\ recent' = recent \cup {k}
          /\ promise' = [promise EXCEPT ![t] = [state |-> "answered", carries |-> k, brings |-> n]]
          /\ UNCHANGED <<jar, call, auth, alarm, broken>>
    BY <1>1, Rotation
  <2>2. /\ n # k
        /\ token'[n] = [state |-> "live", login |-> token[k].login]
        /\ token'[k] = [state |-> "consumed", login |-> token[k].login]
        /\ \A j \in Token \ {n, k} : token'[j] = token[j]
    BY <2>1 DEF TypeOK, Used
  <2>3. /\ promise'[t] = [state |-> "answered", carries |-> k, brings |-> n]
        /\ \A s \in Tabs \ {t} : promise'[s] = promise[s]
        /\ promise[t].state = "sent"
    BY <1>1, <2>1 DEF TypeOK, ServeRefresh
  <2> HIDE DEF k
  <2>4. k \in Token /\ token[k].state = "live" /\ token[n].state = "unused" /\ recent' = recent \cup {k}
        /\ UNCHANGED <<jar, alarm, broken>> /\ \A s \in Tabs : promise'[s].carries = promise[s].carries
    BY <2>1, <2>3 DEF Used, k
  <2>5. Given'
    <3>1. \A j \in Token : j # n => token'[j].login = token[j].login /\ (Used(j) => Used(j)')
      BY <2>2, <2>4 DEF Used
    <3>2. token[k].login \in Token /\ Used(token[k].login)
      BY <1>0, <2>4 DEF Given, Used
    <3>3. Used(n)'
      BY <2>2 DEF Used
    <3>4. \A j \in Token : Used(j)' => token'[j].login \in Token /\ token'[token'[j].login].state # "unused"
      <4>1. ASSUME NEW j \in Token, Used(j)', j # n PROVE Used(j)
        BY <2>2, <2>4, <4>1 DEF Used
      <4>2. \A j \in Token : Used(j) => Used(j)'
        BY <3>1, <3>3
      <4> QED BY <1>0, <2>2, <3>1, <3>2, <4>1, <4>2 DEF Given, Used
    <3>5. \A j \in Token : Used(j) => Used(j)'
      BY <3>1, <3>3
    <3> QED BY <1>0, <2>4, <3>4, <3>5 DEF Given, Used, TypeOK
  <2>6. OnItsWay'
    <3>1. jar.refresh # n /\ \A s \in Tabs : promise[s].carries # n /\ promise[s].brings # n
      BY <1>0, <1>a, <2>4, <2>1 DEF Given, Used, OnItsWay
    <3>2. \A s \in Tabs \ {t} : promise[s].brings # k
      BY <1>0, <1>a, <2>4 DEF OnItsWay, k
    <3>3. \A s \in Tabs \ {t} : promise[s].brings # None =>
            promise[s].brings \in Token /\ token'[promise[s].brings] = token[promise[s].brings]
      BY <2>2, <3>1, <3>2 DEF TypeOK
    <3> QED BY <1>0, <1>a, <2>2, <2>3, <2>4, <3>1, <3>2, <3>3 DEF OnItsWay
  <2>7. OneLivePerLogin'
    <3>1. \A j \in Token \ {n} : Live(j)' => j # k /\ Live(j) /\ token'[j].login = token[j].login
      BY <2>2 DEF Live
    <3>2. \A j \in Token \ {n} : Live(j)' => token'[j].login # token'[n].login
      BY <1>0, <1>a, <2>2, <2>4, <3>1 DEF OneLivePerLogin, Live
    <3> QED BY <1>0, <3>1, <3>2 DEF OneLivePerLogin
  <2>8. Replaced'
    <3>1. \A j \in Token : token'[j].state = "consumed" => j = k \/ (token[j].state = "consumed" /\ j # k)
      BY <2>2, <2>4
    <3>2. n # None
      BY <1>a
    <3>3. \A j \in Token : (\E s \in Tabs : promise[s].carries = j /\ promise[s].brings # None)
                            => \E s \in Tabs : promise'[s].carries = j /\ promise'[s].brings # None
      BY <2>3, <2>4, <3>2
    <3>4. promise'[t].carries = k /\ promise'[t].brings # None
      BY <2>3, <3>2
    <3> QED BY <1>0, <2>4, <3>1, <3>3, <3>4 DEF Replaced
  <2>9. AlarmOnlyAfterLoss'
    BY <1>0, <2>4 DEF AlarmOnlyAfterLoss
  <2> QED BY <2>5, <2>6, <2>7, <2>8, <2>9 DEF SessionInv
\* A refusal: the database may roll back, the token may be spent or revoked.
<1>2. ASSUME NEW t \in Tabs, ServeRefresh(t), ~Rotates(promise[t].carries) PROVE SessionInv'
  <2> DEFINE k == promise[t].carries
  <2>1. /\ promise[t].state = "sent"
        /\ token' = IF Leaked(k) THEN AllRevoked ELSE token
        /\ alarm' = (alarm \/ Leaked(k))
        /\ broken \subseteq broken'
        /\ ("answer" \in broken' => "answer" \in broken) /\ ("slow" \in broken' => "slow" \in broken)
        /\ UNCHANGED <<jar, recent>>
    BY <1>2 DEF ServeRefresh
  <2>2. promise' = [promise EXCEPT ![t] = [state |-> "answered", carries |-> k, brings |-> None]]
    BY <1>2, AnswerRecord DEF ServeRefresh
  <2>3. /\ promise'[t] = [state |-> "answered", carries |-> k, brings |-> None]
        /\ \A s \in Tabs \ {t} : promise'[s] = promise[s]
    BY <2>2 DEF TypeOK
  \* What a revocation leaves of a token.
  <2>4. \A j \in Token : /\ token'[j].login = token[j].login
                         /\ (Used(j)' <=> Used(j))
                         /\ token'[j].state \in {"live", "consumed"} => token'[j].state = token[j].state
                         /\ token[j].state \in {"live", "revoked"} => token'[j].state \in {"live", "revoked"}
    <3>1. CASE Leaked(k)
      <4>1. \A j \in Token : token'[j] = IF token[j].state \in {"live", "consumed"}
                                         THEN [state |-> "revoked", login |-> token[j].login] ELSE token[j]
        <5>1. \A j \in Token : [token[j] EXCEPT !.state = "revoked"] = [state |-> "revoked", login |-> token[j].login]
          BY DEF TypeOK
        <5> QED BY <2>1, <3>1, <5>1 DEF AllRevoked
      <4>2. ASSUME NEW j \in Token
            PROVE  /\ token'[j].login = token[j].login
                   /\ (Used(j)' <=> Used(j))
                   /\ token'[j].state \in {"live", "consumed"} => token'[j].state = token[j].state
                   /\ token[j].state \in {"live", "revoked"} => token'[j].state \in {"live", "revoked"}
        <5>1. CASE token[j].state \in {"live", "consumed"}
          <6>1. token'[j] = [state |-> "revoked", login |-> token[j].login]
            BY <4>1, <5>1
          <6> QED BY <5>1, <6>1 DEF Used
        <5>2. CASE token[j].state \notin {"live", "consumed"}
          <6>1. token'[j] = token[j]
            BY <4>1, <5>2
          <6> QED BY <6>1 DEF Used
        <5> QED BY <5>1, <5>2
      <4> QED BY <4>2
    <3>2. CASE ~Leaked(k)
      BY <2>1, <3>2 DEF Used
    <3> QED BY <3>1, <3>2
  <2>5. promise[t].brings = None
    BY <1>0, <2>1 DEF OnItsWay
  <2>6. \A s \in Tabs : promise'[s].carries = promise[s].carries /\ promise'[s].brings = promise[s].brings
                       /\ (promise[s].state = "answered" => promise'[s].state = "answered")
    BY <2>3, <2>5
  <2>7. Given'
    BY <1>0, <2>1, <2>4, <2>6 DEF Given, TypeOK
  <2>8. OnItsWay'
    BY <1>0, <2>1, <2>4, <2>6 DEF OnItsWay, TypeOK
  <2>9. OneLivePerLogin'
    BY <1>0, <2>4 DEF OneLivePerLogin, Live
  <2>10. Replaced'
    BY <1>0, <2>1, <2>4, <2>6 DEF Replaced
  <2>11. AlarmOnlyAfterLoss'
    <3>1. Leaked(k) => "answer" \in broken \/ "slow" \in broken
      <4>1. Leaked(k) => k \in Token /\ token[k].state = "consumed" /\ k \notin recent
        BY DEF Leaked, Forgiven, TypeOK
      <4> QED BY <1>0, <4>1 DEF Replaced
    <3> QED BY <1>0, <2>1, <3>1 DEF AlarmOnlyAfterLoss
  <2> QED BY <2>7, <2>8, <2>9, <2>10, <2>11 DEF SessionInv
\* The answer reaches the tab.
<1>3. ASSUME NEW t \in Tabs, RefreshArrives(t) PROVE SessionInv'
  <2>1. /\ UNCHANGED <<token, recent, alarm, broken>>
        /\ promise'[t] = NoPromise /\ \A s \in Tabs \ {t} : promise'[s] = promise[s]
        /\ jar'.refresh = IF promise[t].brings = None THEN jar.refresh ELSE promise[t].brings
    BY <1>3 DEF RefreshArrives, TypeOK
  <2>2. Given'
    <3>1. promise[t].brings # None => Used(promise[t].brings)
      BY <1>0 DEF OnItsWay, Used
    <3> QED BY <1>0, <2>1, <3>1 DEF Given, Used, NoPromise
  <2>3. OnItsWay'
    BY <1>0, <2>1 DEF OnItsWay, NoPromise
  <2>4. Replaced'
    <3>1. CASE promise[t].brings = None
      BY <1>0, <1>a, <2>1, <3>1 DEF Replaced, NoPromise
    <3>2. CASE promise[t].brings # None
      <4>1. token[jar'.refresh].state # "consumed"
        BY <1>0, <2>1, <3>2 DEF OnItsWay
      <4> QED BY <1>0, <1>a, <2>1, <4>1 DEF Replaced, NoPromise
    <3> QED BY <3>1, <3>2
  <2> QED BY <1>0, <2>1, <2>2, <2>3, <2>4 DEF SessionInv, OneLivePerLogin, Live, AlarmOnlyAfterLoss
\* The answer is lost, or the tab is not there to hear it.
<1>4. ASSUME NEW t \in Tabs, RefreshLost(t) \/ Reload(t) PROVE SessionInv'
  <2>1. /\ UNCHANGED <<jar, token, recent, alarm>> /\ Dropped(t)
        /\ promise'[t] = NoPromise /\ \A s \in Tabs \ {t} : promise'[s] = promise[s]
    BY <1>4 DEF RefreshLost, Reload, TypeOK
  <2>2. broken \subseteq broken'
    BY <2>1 DEF Dropped
  <2>3. promise[t].brings # None => "answer" \in broken'
    BY <1>0, <2>1 DEF Dropped, OnItsWay
  <2>4. Given'
    BY <1>0, <2>1 DEF Given, Used, NoPromise
  <2>5. OnItsWay'
    BY <1>0, <2>1 DEF OnItsWay, NoPromise
  <2>6. Replaced'
    BY <1>0, <1>a, <2>1, <2>2, <2>3 DEF Replaced, NoPromise
  <2>7. AlarmOnlyAfterLoss'
    BY <1>0, <2>1, <2>2 DEF AlarmOnlyAfterLoss
  <2>8. OneLivePerLogin'
    BY <1>0, <2>1 DEF OneLivePerLogin, Live
  <2> QED BY <2>4, <2>5, <2>6, <2>7, <2>8 DEF SessionInv
<1>5. ASSUME NEW t \in Tabs, Login(t) PROVE SessionInv'
  <2>1. PICK n \in Token : /\ ~Used(n) /\ n # None
                           /\ token' = [token EXCEPT ![n] = [state |-> "live", login |-> n]]
                           /\ jar'.refresh = n
                           /\ UNCHANGED <<recent, promise, alarm, broken>>
    BY <1>5, NextIsFresh DEF Login, Issued
  <2>2. /\ token'[n] = [state |-> "live", login |-> n] /\ token[n].state = "unused"
        /\ \A j \in Token \ {n} : token'[j] = token[j]
    BY <2>1 DEF TypeOK, Used
  <2>3. Given'
    <3>1. \A j \in Token : Used(j) => Used(j)'
      BY <2>2 DEF Used
    <3>2. Used(n)'
      BY <2>2 DEF Used
    <3>3. \A j \in Token : Used(j)' => token'[j].login \in Token /\ token'[token'[j].login].state # "unused"
      <4>1. \A j \in Token \ {n} : Used(j)' => Used(j) /\ token'[j].login = token[j].login
        BY <2>2 DEF Used
      <4> QED BY <1>0, <2>2, <3>1, <3>2, <4>1 DEF Given, Used
    <3> QED BY <1>0, <2>1, <3>1, <3>2, <3>3 DEF Given, Used, TypeOK
  <2>4. OnItsWay'
    <3>1. \A s \in Tabs : promise[s].brings # n
      BY <1>0, <2>1, <2>2 DEF OnItsWay
    <3>2. \A s \in Tabs : promise[s].brings # None =>
            promise[s].brings \in Token /\ token'[promise[s].brings] = token[promise[s].brings]
      BY <2>2, <3>1 DEF TypeOK
    <3> QED BY <1>0, <2>1, <3>1, <3>2 DEF OnItsWay
  <2>5. OneLivePerLogin'
    <3>1. \A j \in Token \ {n} : Live(j)' => Live(j) /\ token'[j].login = token[j].login
      BY <2>2 DEF Live
    <3>2. \A j \in Token \ {n} : Live(j)' => token'[j].login # n
      BY <1>0, <2>1, <3>1 DEF Given, Used, Live
    <3> QED BY <1>0, <2>2, <3>1, <3>2 DEF OneLivePerLogin
  <2>6. Replaced'
    <3>1. \A j \in Token : token'[j].state = "consumed" => token[j].state = "consumed" /\ j # n
      BY <2>2
    <3> QED BY <1>0, <2>1, <3>1 DEF Replaced
  <2>7. AlarmOnlyAfterLoss'
    BY <1>0, <2>1 DEF AlarmOnlyAfterLoss
  <2> QED BY <2>3, <2>4, <2>5, <2>6, <2>7 DEF SessionInv
<1>6. ASSUME NEW t \in Tabs, NEW reached \in BOOLEAN, Logout(t, reached) PROVE SessionInv'
  <2>1. CASE ~reached
    BY <1>6, <2>1, SessionFrame DEF Logout
  <2>2. CASE reached
    <3>1. /\ jar'.refresh = None /\ UNCHANGED <<recent, promise, alarm, broken>>
          /\ token' = IF jar.refresh = None THEN token ELSE [token EXCEPT ![jar.refresh].state = "revoked"]
      BY <1>6, <2>2 DEF Logout
    <3>2. \A j \in Token : [token[j] EXCEPT !.state = "revoked"] = [state |-> "revoked", login |-> token[j].login]
      BY DEF TypeOK
    <3>3. \A j \in Token : token'[j] = IF j = jar.refresh THEN [state |-> "revoked", login |-> token[j].login]
                                       ELSE token[j]
      BY <1>a, <3>1, <3>2 DEF TypeOK
    <3>4. \A j \in Token : /\ token'[j].login = token[j].login
                           /\ (Used(j)' <=> Used(j))
                           /\ token'[j].state \in {"live", "consumed"} => token'[j].state = token[j].state
                           /\ token[j].state \in {"live", "revoked"} => token'[j].state \in {"live", "revoked"}
      <4>1. jar.refresh \in Token => token[jar.refresh].state # "unused"
        BY <1>0, <1>a DEF Given, Used
      <4>2. ASSUME NEW j \in Token
            PROVE  /\ token'[j].login = token[j].login
                   /\ (Used(j)' <=> Used(j))
                   /\ token'[j].state \in {"live", "consumed"} => token'[j].state = token[j].state
                   /\ token[j].state \in {"live", "revoked"} => token'[j].state \in {"live", "revoked"}
        <5>1. CASE j = jar.refresh
          <6>1. token'[j] = [state |-> "revoked", login |-> token[j].login]
            BY <3>3, <5>1
          <6> QED BY <4>1, <5>1, <6>1 DEF Used
        <5>2. CASE j # jar.refresh
          <6>1. token'[j] = token[j]
            BY <3>3, <5>2
          <6> QED BY <6>1 DEF Used
        <5> QED BY <5>1, <5>2
      <4> QED BY <4>2
    <3>5. Given'
      BY <1>0, <3>1, <3>4 DEF Given, TypeOK
    <3>6. OnItsWay'
      BY <1>0, <3>1, <3>4 DEF OnItsWay, TypeOK
    <3>7. OneLivePerLogin'
      BY <1>0, <3>4 DEF OneLivePerLogin, Live
    <3>8. Replaced'
      BY <1>0, <1>a, <3>1, <3>4 DEF Replaced
    <3>9. AlarmOnlyAfterLoss'
      BY <1>0, <3>1 DEF AlarmOnlyAfterLoss
    <3> QED BY <3>5, <3>6, <3>7, <3>8, <3>9 DEF SessionInv
  <2> QED BY <2>1, <2>2
<1>7. ASSUME NEW t \in Tabs, NEW c \in Calls, Begin(t, c) \/ RetryAnswered(t, c) \/ CallFails(t, c)
      PROVE  SessionInv'
  BY <1>7, SessionFrame DEF Begin, RetryAnswered, CallFails
\* A refresh begins with the cookie of this moment.
<1>8. ASSUME NEW t \in Tabs, NEW c \in Calls, Answered(t, c) PROVE SessionInv'
  <2>1. CASE promise' = promise
    BY <1>8, <2>1, SessionFrame DEF Answered
  <2>2. CASE promise' # promise
    <3>1. /\ promise[t].state = "none"
          /\ promise' = [promise EXCEPT ![t] = [state |-> "sent", carries |-> jar.refresh, brings |-> None]]
          /\ UNCHANGED <<jar, token, recent, alarm, broken>>
      BY <1>8, <2>2 DEF Answered, StartRefresh
    <3>2. /\ promise'[t] = [state |-> "sent", carries |-> jar.refresh, brings |-> None]
          /\ \A s \in Tabs \ {t} : promise'[s] = promise[s]
      BY <3>1 DEF TypeOK
    <3>3. promise[t].brings = None
      BY <1>0, <3>1 DEF OnItsWay
    <3>4. Given'
      BY <1>0, <3>1, <3>2 DEF Given, Used
    <3>5. OnItsWay'
      BY <1>0, <3>1, <3>2 DEF OnItsWay
    <3>6. Replaced'
      BY <1>0, <3>1, <3>2, <3>3 DEF Replaced
    <3> QED BY <1>0, <3>1, <3>4, <3>5, <3>6 DEF SessionInv, OneLivePerLogin, Live, AlarmOnlyAfterLoss
  <2> QED BY <2>1, <2>2
\* Either a refresh with the token is late, or nobody carries it any more; then the jar
\* does not hold it either, for what would replace it would be on its way to a tab that
\* carries it.
<1>9. ASSUME NEW k \in Token, GraceEnds(k) PROVE SessionInv'
  <2>1. /\ recent' = recent \ {k} /\ broken \subseteq broken'
        /\ (\E t \in Tabs : promise[t].carries = k) => "slow" \in broken'
        /\ UNCHANGED <<jar, token, promise, alarm>>
    BY <1>9 DEF GraceEnds
  <2>2. Replaced'
    <3>1. CASE \E t \in Tabs : promise[t].carries = k
      BY <2>1, <3>1 DEF Replaced
    <3>2. CASE \A t \in Tabs : promise[t].carries # k
      BY <1>0, <2>1, <3>2 DEF Replaced
    <3> QED BY <3>1, <3>2
  <2>3. Given' /\ OnItsWay'
    BY <1>0, <2>1 DEF Given, Used, OnItsWay
  <2> QED BY <1>0, <2>1, <2>2, <2>3 DEF SessionInv, OneLivePerLogin, Live, AlarmOnlyAfterLoss
<1>10. CASE AccessExpires \/ UNCHANGED vars
  BY <1>10, SessionFrame DEF AccessExpires, vars, TypeOK
<1> QED BY <1>1, <1>2, <1>3, <1>4, <1>5, <1>6, <1>7, <1>8, <1>9, <1>10 DEF Next

-----------------------------------------------------------------------------

\* The variables keep their types.
THEOREM SessionTyped == Spec => []TypeOK
  BY TypeInit, TypeStep, PTL DEF Spec

LEMMA SessionHolds == Spec => []SessionInv
<1>1. Init => TypeOK /\ SessionInv
  BY TypeInit, SessionInit
<1>2. TypeOK /\ SessionInv /\ [Next]_vars => (TypeOK /\ SessionInv)'
  BY TypeStep, SessionStep
<1> QED BY <1>1, <1>2, PTL DEF Spec

\* However many tabs there are and whatever is lost, a sign-in never has two
\* usable refresh tokens at once: rotate leaves the one it issues.
THEOREM SessionIsSingle == Spec => []OneLivePerLogin
<1>1. SessionInv => OneLivePerLogin
  BY DEF SessionInv
<1> QED BY <1>1, SessionHolds, PTL

\* The races of any number of tabs never raise the alarm that revokes the account's
\* sessions: as long as no answer is lost and no refresh is on its way for longer than
\* the grace period, no tab presents a token whose rotation is longer ago than that.
THEOREM NoFalseAlarm == Spec => []AlarmOnlyAfterLoss
<1>1. SessionInv => AlarmOnlyAfterLoss
  BY DEF SessionInv
<1> QED BY <1>1, SessionHolds, PTL

-----------------------------------------------------------------------------
(* Why a tab that opens shows the browser as signed out. *)

\* Who waits for what: a refresh has a call that waits for it, a tab that
\* opens has no other call, and one that is sent again has the cookie.
Awaiting ==
  /\ \A t \in Tabs : promise[t].state # "none" => \E c \in Calls : call[t][c].stage = "await"
  /\ \A t \in Tabs : auth[t] = "loading" => call[t]["data"] = Idle
  /\ \A t \in Tabs, c \in Calls : call[t][c].stage = "again" => call[t][c].cookie

\* A refresh carries what is in the jar, unless somebody filled or emptied the
\* jar meanwhile; it is refused for cause; and whoever pauses after a refused
\* one is still to be told, may try again, or has nothing to try with.
Overtaken ==
  /\ \A t \in Tabs : promise[t].state # "none" => jar.access \/ jar.refresh \in {None, promise[t].carries}
  /\ \A t \in Tabs : promise[t].state = "answered" /\ promise[t].brings = None
                       => ~Live(promise[t].carries) \/ broken # {}
  /\ \A t \in Tabs, c \in Calls : call[t][c].stage = "pause" =>
        jar.access \/ ~Live(jar.refresh) \/ broken # {} \/ \E s \in Tabs : promise[s].brings # None

\* Which stages a call goes through, by action.
LEMMA Resumption ==
  ASSUME TypeOK, NEW t \in Tabs, NEW ok \in BOOLEAN, call' = [call EXCEPT ![t] = Resumed(t, ok)]
  PROVE  /\ \A s \in Tabs \ {t} : call'[s] = call[s]
         /\ \A c \in Calls : call'[t][c] = IF call[t][c].stage # "await" THEN call[t][c]
                                           ELSE IF ok THEN [stage |-> "again", cookie |-> TRUE]
                                           ELSE [stage |-> "pause", cookie |-> FALSE]
  BY DEF TypeOK, Resumed

LEMMA TabsInit == Init => Awaiting /\ Overtaken
<1> SUFFICES ASSUME Init PROVE Awaiting /\ Overtaken OBVIOUS
<1>1. \A t \in Tabs : /\ promise[t].state = "none"
                      /\ \A c \in Calls : call[t][c] = Idle /\ call[t][c].stage = "idle"
  BY DEF Init, NoPromise, Idle
<1> QED BY <1>1 DEF Awaiting, Overtaken, Calls

LEMMA AwaitingStep == TypeOK /\ Awaiting /\ [Next]_vars => Awaiting'
<1> SUFFICES ASSUME TypeOK, Awaiting, [Next]_vars PROVE Awaiting' OBVIOUS
<1>a. Idle.stage = "idle" /\ NoPromise.state = "none" /\ "data" \in Calls /\ "me" \in Calls
  BY DEF Idle, NoPromise, Calls
<1>1. ASSUME NEW t \in Tabs, ServeRefresh(t) PROVE Awaiting'
  <2>1. UNCHANGED <<call, auth>> /\ promise[t].state # "none"
        /\ \A s \in Tabs \ {t} : promise'[s] = promise[s]
    BY <1>1 DEF ServeRefresh, TypeOK
  <2> QED BY <2>1 DEF Awaiting
<1>2. ASSUME NEW t \in Tabs, NEW ok \in BOOLEAN, UNCHANGED auth,
             call' = [call EXCEPT ![t] = Resumed(t, ok)], promise' = [promise EXCEPT ![t] = NoPromise]
      PROVE  Awaiting'
  <2>1. promise'[t].state = "none" /\ \A s \in Tabs \ {t} : promise'[s] = promise[s]
    BY <1>2, <1>a DEF TypeOK
  <2>2. /\ \A s \in Tabs \ {t} : call'[s] = call[s]
        /\ \A c \in Calls : /\ call[t][c].stage # "await" => call'[t][c] = call[t][c]
                            /\ call'[t][c].stage = "again" => call'[t][c].cookie
    <3>1. /\ \A s \in Tabs \ {t} : call'[s] = call[s]
          /\ \A c \in Calls : call'[t][c] = IF call[t][c].stage # "await" THEN call[t][c]
                                            ELSE IF ok THEN [stage |-> "again", cookie |-> TRUE]
                                            ELSE [stage |-> "pause", cookie |-> FALSE]
      BY <1>2, Resumption
    <3> QED BY <3>1 DEF Awaiting
  <2> QED BY <1>2, <1>a, <2>1, <2>2 DEF Awaiting
<1>3. ASSUME NEW t \in Tabs, RefreshArrives(t) PROVE Awaiting'
  BY <1>3, <1>2 DEF RefreshArrives
<1>4. ASSUME NEW t \in Tabs, RefreshLost(t) PROVE Awaiting'
  BY <1>4, <1>2 DEF RefreshLost
<1>5. ASSUME NEW t \in Tabs, Reload(t) PROVE Awaiting'
  <2>1. /\ promise'[t].state = "none" /\ \A s \in Tabs \ {t} : promise'[s] = promise[s]
        /\ \A c \in Calls : call'[t][c] = Idle
        /\ \A s \in Tabs \ {t} : call'[s] = call[s] /\ auth'[s] = auth[s]
    BY <1>5, <1>a DEF Reload, TypeOK
  <2> QED BY <1>a, <2>1 DEF Awaiting
<1>6. ASSUME NEW t \in Tabs, Login(t) PROVE Awaiting'
  <2>1. /\ UNCHANGED <<promise, auth>> /\ auth[t] # "loading" /\ call[t]["me"] = Idle
        /\ call'[t]["me"].stage = "sent"
        /\ \A c \in Calls : c # "me" => call'[t][c] = call[t][c]
        /\ \A s \in Tabs \ {t} : call'[s] = call[s]
    BY <1>6, <1>a DEF Login, TypeOK
  <2>2. \A s \in Tabs, c \in Calls : call[s][c].stage = "await" => call'[s][c] = call[s][c]
    BY <1>a, <2>1
  <2> QED BY <1>a, <2>1, <2>2 DEF Awaiting
<1>7. ASSUME NEW t \in Tabs, NEW reached \in BOOLEAN, Logout(t, reached) PROVE Awaiting'
  BY <1>7 DEF Logout, Awaiting, TypeOK
<1>8. ASSUME NEW t \in Tabs, NEW c \in Calls, Begin(t, c) PROVE Awaiting'
  <2>1. /\ UNCHANGED <<promise, auth>> /\ call[t][c] = Idle /\ call'[t][c].stage = "sent"
        /\ c = "data" => auth[t] = "in"
        /\ \A d \in Calls \ {c} : call'[t][d] = call[t][d]
        /\ \A s \in Tabs \ {t} : call'[s] = call[s]
    BY <1>8 DEF Begin, TypeOK
  <2>2. \A s \in Tabs, d \in Calls : call[s][d].stage = "await" => call'[s][d] = call[s][d]
    BY <1>a, <2>1
  <2> QED BY <1>a, <2>1, <2>2 DEF Awaiting
<1>9. ASSUME NEW t \in Tabs, NEW c \in Calls, RetryAnswered(t, c) \/ CallFails(t, c) PROVE Awaiting'
  <2>1. /\ UNCHANGED promise /\ call[t][c].stage # "await" /\ call'[t][c] = Idle
        /\ auth'[t] = "loading" => auth[t] = "loading"
        /\ \A d \in Calls \ {c} : call'[t][d] = call[t][d]
        /\ \A s \in Tabs \ {t} : call'[s] = call[s] /\ auth'[s] = auth[s]
    BY <1>9 DEF RetryAnswered, CallFails, Settled, TypeOK
  <2>2. \A s \in Tabs, d \in Calls : call[s][d].stage = "await" => call'[s][d] = call[s][d]
    BY <2>1
  <2> QED BY <1>a, <2>1, <2>2 DEF Awaiting
<1>10. ASSUME NEW t \in Tabs, NEW c \in Calls, Answered(t, c) PROVE Awaiting'
  <2>0. /\ call[t][c].stage = "sent"
        /\ auth'[t] = "loading" => auth[t] = "loading"
        /\ \A s \in Tabs \ {t} : promise'[s] = promise[s] /\ auth'[s] = auth[s] /\ call'[s] = call[s]
        /\ \A d \in Calls \ {c} : call'[t][d] = call[t][d]
    BY <1>10 DEF Answered, StartRefresh, Settled, TypeOK
  <2>1. auth[t] = "loading" => c # "data"
    BY <1>a, <2>0 DEF Awaiting
  <2>2. CASE call[t][c].cookie
    <3>1. UNCHANGED promise /\ call'[t][c] = Idle
      BY <1>10, <2>2 DEF Answered, TypeOK
    <3>2. \A s \in Tabs, d \in Calls : call[s][d].stage = "await" => call'[s][d] = call[s][d]
      BY <2>0
    <3> QED BY <1>a, <2>0, <3>1, <3>2 DEF Awaiting
  <2>3. CASE ~call[t][c].cookie
    <3>1. call'[t][c].stage = "await"
      BY <1>10, <2>3 DEF Answered, TypeOK
    <3> QED BY <1>a, <2>0, <2>1, <3>1 DEF Awaiting
  <2> QED BY <2>2, <2>3
<1>11. CASE (\E k \in Token : GraceEnds(k)) \/ AccessExpires \/ UNCHANGED vars
  BY <1>11 DEF GraceEnds, AccessExpires, vars, Awaiting
<1> QED BY <1>1, <1>3, <1>4, <1>5, <1>6, <1>7, <1>8, <1>9, <1>10, <1>11 DEF Next

\* A token that is not live does not come to life again, unless it was never
\* given.
LEMMA DeadForGood ==
  ASSUME TypeOK, [Next]_vars, NEW j \in Token, Used(j), token[j].state # "live"
  PROVE  token'[j].state # "live"
<1>1. ASSUME NEW t \in Tabs, ServeRefresh(t) PROVE token'[j].state # "live"
  <2>1. CASE Rotates(promise[t].carries)
    <3>1. PICK n \in Token : LET k == promise[t].carries IN
            /\ k \in Token /\ ~Used(n)
            /\ token' = [token EXCEPT ![n] = [state |-> "live", login |-> token[k].login],
                                      ![k] = [state |-> "consumed", login |-> token[k].login]]
      BY <1>1, <2>1, Rotation
    <3>2. j # n
      BY <3>1
    <3> QED BY <3>1, <3>2 DEF TypeOK
  <2>2. CASE ~Rotates(promise[t].carries)
    <3>1. AllRevoked[j].state # "live"
      BY DEF AllRevoked, TypeOK
    <3> QED BY <1>1, <2>2, <3>1 DEF ServeRefresh
  <2> QED BY <2>1, <2>2
<1>2. ASSUME NEW t \in Tabs, Login(t) PROVE token'[j].state # "live"
  <2>1. NextToken # j
    BY <1>2, NextIsFresh DEF Login
  <2> QED BY <1>2, <2>1 DEF Login, Issued, TypeOK
<1>3. ASSUME NEW t \in Tabs, NEW reached \in BOOLEAN, Logout(t, reached) PROVE token'[j].state # "live"
  BY <1>3 DEF Logout, TypeOK
<1>4. CASE UNCHANGED token
  BY <1>4
<1> QED BY <1>1, <1>2, <1>3, <1>4 DEF Next, RefreshArrives, RefreshLost, Reload, Begin, Answered, RetryAnswered,
        CallFails, GraceEnds, AccessExpires, vars

LEMMA OvertakenStep == TypeOK /\ SessionInv /\ Awaiting /\ Overtaken /\ [Next]_vars => Overtaken'
<1> SUFFICES ASSUME TypeOK, SessionInv, Awaiting, Overtaken, [Next]_vars PROVE Overtaken' OBVIOUS
<1>0. Given /\ OnItsWay
  BY DEF SessionInv
<1>a. None \notin Token /\ NoPromise.state = "none" /\ NoPromise.brings = None /\ Idle.stage = "idle"
  BY DEF Token, None, NoPromise, Idle
\* What is presented, or held, and is over stays over.
<1>b. ASSUME NEW k \in Token \cup {None}, k # None => Used(k), ~Live(k) PROVE k = None \/ token'[k].state # "live"
  BY <1>b, DeadForGood DEF Live
<1>c. \A t \in Tabs : LET k == promise[t].carries IN ~Live(k) => k = None \/ token'[k].state # "live"
  BY <1>0, <1>b DEF Given, TypeOK
<1>d. ~Live(jar.refresh) => jar.refresh = None \/ token'[jar.refresh].state # "live"
  BY <1>0, <1>b DEF Given, TypeOK
<1>1. ASSUME NEW t \in Tabs, ServeRefresh(t), Rotates(promise[t].carries) PROVE Overtaken'
  <2>1. PICK n \in Token :
          /\ promise' = [promise EXCEPT ![t] = [state |-> "answered", carries |-> promise[t].carries, brings |-> n]]
          /\ UNCHANGED <<jar, call, broken>>
    BY <1>1, Rotation
  <2>2. /\ promise'[t] = [state |-> "answered", carries |-> promise[t].carries, brings |-> n] /\ n # None
        /\ \A s \in Tabs \ {t} : promise'[s] = promise[s]
        /\ promise[t].state = "sent"
    BY <1>1, <1>a, <2>1 DEF TypeOK, ServeRefresh
  <2>3. ASSUME NEW s \in Tabs, promise'[s].state = "answered", promise'[s].brings = None
        PROVE  ~Live(promise[s].carries)' \/ broken' # {}
    <3>1. s # t
      BY <2>2, <2>3
    <3>2. ~Live(promise[s].carries) \/ broken # {}
      BY <2>2, <2>3, <3>1 DEF Overtaken
    <3> QED BY <1>c, <2>1, <2>2, <3>1, <3>2 DEF Live
  <2>4. \A s \in Tabs : promise'[s].state # "none" => jar'.access \/ jar'.refresh \in {None, promise'[s].carries}
    BY <2>1, <2>2 DEF Overtaken
  <2> QED BY <2>2, <2>3, <2>4 DEF Overtaken
<1>2. ASSUME NEW t \in Tabs, ServeRefresh(t), ~Rotates(promise[t].carries) PROVE Overtaken'
  <2> DEFINE k == promise[t].carries
  <2>1. /\ promise[t].state = "sent" /\ UNCHANGED <<jar, call>>
        /\ broken' = broken \cup (IF Live(k) THEN {"server"} ELSE {})
    BY <1>2 DEF ServeRefresh
  <2>2. promise' = [promise EXCEPT ![t] = [state |-> "answered", carries |-> k, brings |-> None]]
    BY <1>2, AnswerRecord DEF ServeRefresh
  <2>3. /\ promise'[t] = [state |-> "answered", carries |-> k, brings |-> None]
        /\ \A s \in Tabs \ {t} : promise'[s] = promise[s]
    BY <2>2 DEF TypeOK
  <2>4. promise[t].brings = None
    BY <1>0, <2>1 DEF OnItsWay
  <2>5. \A s \in Tabs : promise'[s].carries = promise[s].carries /\ promise'[s].brings = promise[s].brings
    BY <2>3, <2>4
  <2>6. ASSUME NEW s \in Tabs, promise'[s].state = "answered", promise'[s].brings = None
        PROVE  ~Live(promise[s].carries)' \/ broken' # {}
    <3>1. ~Live(promise[s].carries) \/ broken' # {}
      <4>1. CASE s = t
        BY <2>1, <4>1
      <4>2. CASE s # t
        BY <2>1, <2>3, <2>6, <4>2 DEF Overtaken
      <4> QED BY <4>1, <4>2
    <3> QED BY <1>c, <2>5, <3>1 DEF Live
  <2>7. \A s \in Tabs : promise'[s].state # "none" => jar'.access \/ jar'.refresh \in {None, promise'[s].carries}
    BY <2>1, <2>3 DEF Overtaken
  <2>8. ASSUME NEW s \in Tabs, NEW c \in Calls, call'[s][c].stage = "pause"
        PROVE  jar'.access \/ ~Live(jar.refresh)' \/ broken' # {} \/ \E v \in Tabs : promise'[v].brings # None
    <3>1. jar.access \/ ~Live(jar.refresh) \/ broken # {} \/ \E v \in Tabs : promise[v].brings # None
      BY <2>1, <2>8 DEF Overtaken
    <3>2. ~Live(jar.refresh) => ~Live(jar.refresh)'
      BY <1>d, <2>1 DEF Live
    <3> QED BY <2>1, <2>5, <3>1, <3>2
  <2> QED BY <2>6, <2>7, <2>8 DEF Overtaken
<1>3. ASSUME NEW t \in Tabs, RefreshArrives(t) PROVE Overtaken'
  <2>1. /\ UNCHANGED <<token, broken>> /\ promise[t].state = "answered"
        /\ promise'[t] = NoPromise /\ \A s \in Tabs \ {t} : promise'[s] = promise[s]
        /\ \A s \in Tabs \ {t} : call'[s] = call[s]
    BY <1>3 DEF RefreshArrives, TypeOK
  <2>2. CASE promise[t].brings # None
    <3>1. jar'.access = TRUE
      BY <1>3, <2>2 DEF RefreshArrives
    <3> QED BY <1>a, <2>1, <3>1 DEF Overtaken, Live
  <2>3. CASE promise[t].brings = None
    <3>1. jar' = jar
      BY <1>3, <2>3 DEF RefreshArrives
    <3>2. jar.access \/ ~Live(jar.refresh) \/ broken # {}
      BY <1>a, <2>1, <2>3 DEF Overtaken, Live
    <3> QED BY <1>a, <2>1, <3>1, <3>2 DEF Overtaken, Live
  <2> QED BY <2>2, <2>3
<1>4. ASSUME NEW t \in Tabs, RefreshLost(t) \/ Reload(t), promise[t].state # "none" PROVE Overtaken'
  <2>1. /\ UNCHANGED <<jar, token>> /\ Dropped(t)
        /\ promise'[t] = NoPromise /\ \A s \in Tabs \ {t} : promise'[s] = promise[s]
    BY <1>4 DEF RefreshLost, Reload, TypeOK
  <2>2. broken' # {}
    BY <1>4, <2>1 DEF Dropped
  <2> QED BY <1>a, <2>1, <2>2 DEF Overtaken
<1>5. ASSUME NEW t \in Tabs, Reload(t), promise[t].state = "none" PROVE Overtaken'
  <2>1. promise[t].brings = None
    BY <1>0, <1>5 DEF OnItsWay
  <2>2. broken' = broken
    BY <1>5, <2>1 DEF Reload, Dropped
  <2>3. /\ UNCHANGED <<jar, token>> /\ broken' = broken
        /\ promise'[t] = NoPromise /\ \A s \in Tabs \ {t} : promise'[s] = promise[s] /\ call'[s] = call[s]
        /\ \A c \in Calls : call'[t][c] = Idle
    BY <1>5, <2>2 DEF Reload, TypeOK
  <2> QED BY <1>a, <2>3, <2>1 DEF Overtaken, Live
<1>6. ASSUME NEW t \in Tabs, Login(t) PROVE Overtaken'
  <2>1. jar'.access = TRUE /\ UNCHANGED <<promise, broken>>
    BY <1>6 DEF Login
  <2> QED BY <1>c, <2>1 DEF Overtaken, Live
<1>7. ASSUME NEW t \in Tabs, NEW reached \in BOOLEAN, Logout(t, reached) PROVE Overtaken'
  <2>1. UNCHANGED <<call, promise, broken>> /\ (jar' = jar \/ jar'.refresh = None)
    BY <1>7 DEF Logout
  <2> QED BY <1>c, <1>d, <2>1 DEF Overtaken, Live
<1>8. ASSUME NEW t \in Tabs, NEW c \in Calls, Begin(t, c) \/ RetryAnswered(t, c) \/ CallFails(t, c)
      PROVE  Overtaken'
  <2>1. /\ UNCHANGED <<jar, token, promise, broken>> /\ call'[t][c].stage \in {"sent", "idle"}
        /\ \A d \in Calls \ {c} : call'[t][d] = call[t][d]
        /\ \A s \in Tabs \ {t} : call'[s] = call[s]
    BY <1>8, <1>a DEF Begin, RetryAnswered, CallFails, TypeOK
  <2> QED BY <2>1 DEF Overtaken, Live
<1>9. ASSUME NEW t \in Tabs, NEW c \in Calls, Answered(t, c) PROVE Overtaken'
  <2>0. /\ call'[t][c].stage \in {"await", "idle"}
        /\ \A d \in Calls \ {c} : call'[t][d] = call[t][d]
        /\ \A s \in Tabs \ {t} : call'[s] = call[s]
    <3>1. CASE call[t][c].cookie
      BY <1>9, <1>a, <3>1 DEF Answered, TypeOK
    <3>2. CASE ~call[t][c].cookie
      BY <1>9, <3>2 DEF Answered, TypeOK
    <3> QED BY <3>1, <3>2
  <2>1. /\ UNCHANGED <<jar, token, broken>> /\ call'[t][c].stage \in {"await", "idle"}
        /\ \A d \in Calls \ {c} : call'[t][d] = call[t][d]
        /\ \A s \in Tabs \ {t} : call'[s] = call[s] /\ promise'[s] = promise[s]
    BY <1>9, <2>0 DEF Answered, StartRefresh, TypeOK
  <2>2. \/ promise' = promise
        \/ /\ promise[t].state = "none"
           /\ promise'[t] = [state |-> "sent", carries |-> jar.refresh, brings |-> None]
    BY <1>9 DEF Answered, StartRefresh, TypeOK
  <2>3. promise[t].state = "none" => promise[t].brings = None
    BY <1>0 DEF OnItsWay
  <2> QED BY <2>1, <2>2, <2>3 DEF Overtaken, Live
<1>10. CASE AccessExpires
  <2>1. /\ UNCHANGED <<token, call, promise, broken>>
        /\ \A t \in Tabs, c \in Calls : call[t][c].stage \notin {"await", "pause"}
    BY <1>10 DEF AccessExpires
  <2>2. \A t \in Tabs : promise[t].state = "none"
    BY <2>1 DEF Awaiting
  <2> QED BY <2>1, <2>2 DEF Overtaken
<1>11. CASE (\E k \in Token : GraceEnds(k)) \/ UNCHANGED vars
  <2>1. UNCHANGED <<jar, token, call, promise>> /\ broken \subseteq broken'
    BY <1>11 DEF GraceEnds, vars
  <2> QED BY <2>1 DEF Overtaken, Live
<1> QED BY <1>1, <1>2, <1>3, <1>4, <1>5, <1>6, <1>7, <1>8, <1>9, <1>10, <1>11 DEF Next, RefreshLost

\* A tab that opens is told that the browser is signed out by its second try.
LEMMA CauseStep ==
  TypeOK /\ SessionInv /\ Awaiting /\ Overtaken /\ [Next]_vars =>
    \A t \in Tabs : auth[t] = "loading" /\ auth'[t] = "out" =>
      \/ ~Live(jar.refresh) /\ \A s \in Tabs : promise[s].brings = None
      \/ \E s \in Tabs \ {t} : promise[s].brings # None
      \/ broken # {}
<1> SUFFICES ASSUME TypeOK, SessionInv, Awaiting, Overtaken, [Next]_vars,
                    NEW t \in Tabs, auth[t] = "loading", auth'[t] = "out"
             PROVE  \/ ~Live(jar.refresh) /\ \A s \in Tabs : promise[s].brings = None
                    \/ \E s \in Tabs \ {t} : promise[s].brings # None
                    \/ broken # {}
  OBVIOUS
<1>0. OnItsWay /\ Calls = {"me", "data"}
  BY DEF SessionInv, Calls
<1>1. RetryAnswered(t, "me") /\ ~(call[t]["me"].cookie \/ jar.access)
  <2>1. ASSUME NEW s \in Tabs, NEW c \in Calls, RetryAnswered(s, c)
        PROVE  s = t /\ c = "me" /\ ~(call[s][c].cookie \/ jar.access)
    BY <2>1 DEF RetryAnswered, Settled, TypeOK
  <2>2. ASSUME NEW s \in Tabs, NEW c \in Calls, Answered(s, c) PROVE FALSE
    <3>1. auth' = auth \/ auth' = [auth EXCEPT ![s] = "in"]
      BY <2>2 DEF Answered, Settled
    <3> QED BY <3>1 DEF TypeOK
  <2>3. ASSUME NEW s \in Tabs,
               \/ Reload(s) \/ (\E reached \in BOOLEAN : Logout(s, reached))
               \/ \E c \in Calls : CallFails(s, c)
        PROVE  FALSE
    BY <2>3 DEF Reload, Logout, CallFails, TypeOK
  <2>4. CASE UNCHANGED auth
    BY <2>4
  <2> QED BY <2>1, <2>2, <2>3, <2>4 DEF Next, ServeRefresh, RefreshArrives, RefreshLost, Login, Begin,
          GraceEnds, AccessExpires, vars
<1>2. call[t]["me"].stage = "pause" /\ ~jar.access
  BY <1>0, <1>1 DEF RetryAnswered, Awaiting
<1>3. promise[t].state = "none"
  BY <1>0, <1>2 DEF Awaiting, Idle
<1>4. promise[t].brings = None
  BY <1>0, <1>3 DEF OnItsWay
<1>5. ~Live(jar.refresh) \/ broken # {} \/ \E s \in Tabs : promise[s].brings # None
  BY <1>0, <1>2 DEF Overtaken
<1> QED BY <1>4, <1>5

\* A tab that opens is told by a 401 that the browser is signed out only when its
\* session is over, when a refresh failed or was late, or while another tab is about to
\* be given the successor, for any number of tabs.
THEOREM NobodySignedOutForNothing == Spec => SignedOutForCause
<1>1. Init => TypeOK /\ SessionInv /\ Awaiting /\ Overtaken
  BY TypeInit, SessionInit, TabsInit
<1>2. (TypeOK /\ SessionInv /\ Awaiting /\ Overtaken) /\ [Next]_vars
        => (TypeOK /\ SessionInv /\ Awaiting /\ Overtaken)'
  BY TypeStep, SessionStep, AwaitingStep, OvertakenStep
<1> QED BY <1>1, <1>2, CauseStep, PTL DEF Spec, SignedOutForCause
===============================================================================
