--------------------------- MODULE SessionsProofs ----------------------------
(* A random code is good for one token, for any clients, limits and bounds. *)
EXTENDS Sessions, TLAPS

\* The login has taken the client's last code and goes on to its token.
Past(c, s) == login[c][s].right /\ login[c][s].pc \in {"matched", "row", "token"}

\* A code that can still be taken has been good for nothing yet, and nobody is past it;
\* and of the sends of a client one at most is past the code, before there is a token.
CodesOnce ==
    \A c \in Clients :
        /\ nonce = c => used[c] = 0 /\ \A s \in Sends : ~Past(c, s)
        /\ \A s \in Sends : Past(c, s) => used[c] = 0 /\ \A t \in Sends : Past(c, t) => t = s

CodeInv == TypeOK /\ CodesOnce /\ OneLoginPerCode

\* A send's login is replaced and those of other clients and sends stay.
LEMMA Became ==
    ASSUME TypeOK, NEW c \in Clients, NEW s \in Sends, NEW l \in Login, Becomes(c, s, l)
    PROVE  /\ login' \in [Clients -> [Sends -> Login]]
           /\ \A d \in Clients, t \in Sends : login'[d][t] = IF d = c /\ t = s THEN l ELSE login[d][t]
  BY DEF TypeOK, Becomes

\* An idle login is a login, and is not past anything.
LEMMA IdleIsLogin == Idle \in Login /\ Idle.pc = "idle" /\ Idle.right = FALSE
  BY DEF Idle, Login

\* What a login becomes as it goes on, or as its client does.
LEMMA LoginGoesOn ==
    ASSUME NEW l \in Login, NEW b \in BOOLEAN
    PROVE  /\ [l EXCEPT !.pc = "matched"] \in Login /\ [l EXCEPT !.pc = "token"] \in Login
           /\ [l EXCEPT !.pc = "row", !.new = b] \in Login
           /\ [l EXCEPT !.right = FALSE] \in Login /\ [l EXCEPT !.old = TRUE] \in Login
  BY DEF Login

\* What is kept of it then.
LEMMA WhatIsKept ==
    ASSUME NEW l \in Login, NEW b \in BOOLEAN
    PROVE  /\ [l EXCEPT !.pc = "matched"].right = l.right
           /\ [l EXCEPT !.pc = "token"].right = l.right
           /\ [l EXCEPT !.pc = "row", !.new = b].right = l.right
           /\ [l EXCEPT !.right = FALSE].right = FALSE
           /\ [l EXCEPT !.old = TRUE].right = l.right /\ [l EXCEPT !.old = TRUE].pc = l.pc
  BY DEF Login

\* The limiter's counters stay within the limit.
LEMMA CountedInLimit ==
    ASSUME TypeOK, NEW key \in Limits, ~Limited(key)
    PROVE  Counted(key) \in [Limits -> 0..MaxPerMinute]
  <1>1. MaxPerMinute \in Nat /\ hits[key] \in 0..MaxPerMinute /\ hits[key] < MaxPerMinute
    BY SessionsAssumption DEF TypeOK, Limited
  <1>2. hits[key] + 1 \in 0..MaxPerMinute
    BY <1>1
  <1> QED BY <1>2 DEF Counted, TypeOK

\* Every step keeps the invariant.
LEMMA CodeStep == CodeInv /\ [Next]_vars => CodeInv'
  <1> SUFFICES ASSUME CodeInv, [Next]_vars PROVE CodeInv'
    OBVIOUS
  <1> USE SessionsAssumption DEF CodeInv
  <1>1. ASSUME NEW c \in Clients, RandomCode(c) PROVE CodeInv'
    <2> DEFINE turned == [s \in Sends |-> [login[c][s] EXCEPT !.right = FALSE]]
    <2>1. /\ nonce' = c /\ used' = [used EXCEPT ![c] = 0] /\ hits' = Counted("code")
          /\ UNCHANGED <<equipped, loggedIn>> /\ ~Limited("code")
          /\ login' = [login EXCEPT ![c] = turned]
      BY <1>1 DEF RandomCode
    <2>2. asked' \in 0..MaxCodes /\ mishaps' \in 0..MaxMishaps
      BY <1>1 DEF RandomCode, Mishap, TypeOK
    <2>3. held' \subseteq Clients
      BY <1>1 DEF RandomCode, TypeOK
    <2>4. hits' \in [Limits -> 0..MaxPerMinute]
      BY <2>1, CountedInLimit DEF Limits
    <2>5. \A s \in Sends : turned[s] \in Login /\ turned[s].right = FALSE
      <3>1. \A s \in Sends : login[c][s] \in Login
        BY DEF TypeOK
      <3> QED BY <3>1, LoginGoesOn, WhatIsKept
    <2>6. turned \in [Sends -> Login]
      BY <2>5
    <2> HIDE DEF turned
    <2>7. /\ login' \in [Clients -> [Sends -> Login]]
          /\ \A d \in Clients : login'[d] = IF d = c THEN turned ELSE login[d]
      BY <2>1, <2>6 DEF TypeOK
    <2>8. used' \in [Clients -> Nat] /\ \A d \in Clients : used'[d] = IF d = c THEN 0 ELSE used[d]
      BY <2>1 DEF TypeOK
    <2>9. TypeOK'
      BY <2>1, <2>2, <2>3, <2>4, <2>7, <2>8 DEF TypeOK
    <2>10. \A d \in Clients, s \in Sends : Past(d, s)' => d # c /\ Past(d, s)
      BY <2>5, <2>7 DEF Past
    <2>11. CodesOnce'
      BY <2>1, <2>8, <2>10 DEF CodesOnce
    <2>12. OneLoginPerCode'
      BY <2>8 DEF OneLoginPerCode
    <2> QED BY <2>9, <2>11, <2>12
  <1>2. ASSUME NEW c \in Clients, NEW s \in Sends, SendLogin(c, s) PROVE CodeInv'
    <2>1. PICK l \in Login : Becomes(c, s, l) /\ l.pc = "sent"
      <3>1. /\ [Idle EXCEPT !.pc = "sent", !.right = TRUE] \in Login
            /\ [Idle EXCEPT !.pc = "sent", !.right = TRUE].pc = "sent"
            /\ [Idle EXCEPT !.pc = "sent"] \in Login /\ [Idle EXCEPT !.pc = "sent"].pc = "sent"
        BY DEF Idle, Login
      <3> QED BY <1>2, <3>1 DEF SendLogin
    <2>2. UNCHANGED <<nonce, hits, equipped, held, loggedIn, used, asked>> /\ mishaps' \in 0..MaxMishaps
      BY <1>2 DEF SendLogin, Mishap, TypeOK
    <2>3. TypeOK'
      BY <2>1, <2>2, Became DEF TypeOK
    <2>4. \A d \in Clients, t \in Sends : Past(d, t)' => Past(d, t)
      BY <2>1, Became DEF Past
    <2>5. CodesOnce' /\ OneLoginPerCode'
      BY <2>2, <2>4 DEF CodesOnce, OneLoginPerCode
    <2> QED BY <2>3, <2>5
  <1>3. ASSUME NEW c \in Clients, NEW s \in Sends, CheckLogin(c, s) PROVE CodeInv'
    <2>1. UNCHANGED <<equipped, loggedIn, used, asked, mishaps>> /\ held' \subseteq Clients
      BY <1>3 DEF CheckLogin, Answered, TypeOK
    <2>2. hits' \in [Limits -> 0..MaxPerMinute]
      BY <1>3, CountedInLimit DEF CheckLogin, Limits, TypeOK
    <2>3. nonce' = nonce \/ nonce' = None
      BY <1>3 DEF CheckLogin
    <2>4. CASE Becomes(c, s, Idle)
      <3>1. TypeOK'
        BY <2>1, <2>2, <2>3, <2>4, Became, IdleIsLogin DEF TypeOK
      <3>2. \A d \in Clients, t \in Sends : Past(d, t)' => Past(d, t)
        BY <2>4, Became, IdleIsLogin DEF Past
      <3>3. CodesOnce' /\ OneLoginPerCode'
        BY <2>1, <2>3, <3>2 DEF CodesOnce, OneLoginPerCode
      <3> QED BY <3>1, <3>3
    <2>5. CASE nonce = c /\ nonce' = None /\ Becomes(c, s, [login[c][s] EXCEPT !.pc = "matched"])
      <3> DEFINE l == [login[c][s] EXCEPT !.pc = "matched"]
      <3>1. l \in Login
        <4>1. login[c][s] \in Login
          BY DEF TypeOK
        <4> QED BY <4>1, LoginGoesOn
      <3> HIDE DEF l
      <3>2. TypeOK'
        <4>1. Becomes(c, s, l)
          BY <2>5 DEF l
        <4>2. login' \in [Clients -> [Sends -> Login]]
          BY <3>1, <4>1, Became
        <4>3. nonce' \in Clients \cup {None}
          BY <2>5
        <4> QED BY <2>1, <2>2, <4>2, <4>3 DEF TypeOK
      <3>3. \A d \in Clients, t \in Sends : Past(d, t)' => Past(d, t) \/ (d = c /\ t = s)
        BY <2>5, <3>1, Became DEF Past, l
      <3>4. CodesOnce' /\ OneLoginPerCode'
        BY <2>1, <2>5, <3>3 DEF CodesOnce, OneLoginPerCode
      <3> QED BY <3>2, <3>4
    <2> QED BY <1>3, <2>4, <2>5 DEF CheckLogin, Answered
  <1>4. ASSUME NEW c \in Clients, NEW s \in Sends, FindEquipment(c, s) \/ SaveEquipment(c, s)
        PROVE  CodeInv'
    <2>1. PICK l \in Login : /\ Becomes(c, s, l)
                             /\ l.right /\ l.pc \in {"matched", "row", "token"} => Past(c, s)
      <3> DEFINE row == [login[c][s] EXCEPT !.pc = "row", !.new = (c \notin equipped)]
                 token == [login[c][s] EXCEPT !.pc = "token"]
      <3>1. login[c][s] \in Login /\ (c \notin equipped) \in BOOLEAN
        BY DEF TypeOK
      <3>2. /\ row \in Login /\ row.right = login[c][s].right
            /\ token \in Login /\ token.right = login[c][s].right
        BY <3>1, LoginGoesOn, WhatIsKept
      <3>3. login[c][s].pc \in {"matched", "row"} /\ \E l \in {row, token, Idle} : Becomes(c, s, l)
        BY <1>4 DEF FindEquipment, SaveEquipment, Answered
      <3> HIDE DEF row, token
      <3> QED BY <3>2, <3>3, IdleIsLogin DEF Past
    <2>2. /\ UNCHANGED <<nonce, hits, loggedIn, used, asked, mishaps>>
          /\ held' \subseteq Clients /\ equipped' \subseteq Clients
      BY <1>4 DEF FindEquipment, SaveEquipment, Answered, TypeOK
    <2>3. TypeOK'
      BY <2>1, <2>2, Became DEF TypeOK
    <2>4. \A d \in Clients, t \in Sends : Past(d, t)' => Past(d, t)
      BY <2>1, Became DEF Past
    <2>5. CodesOnce' /\ OneLoginPerCode'
      BY <2>2, <2>4 DEF CodesOnce, OneLoginPerCode
    <2> QED BY <2>3, <2>5
  <1>5. ASSUME NEW c \in Clients, NEW s \in Sends, IssueToken(c, s) PROVE CodeInv'
    <2>1. /\ UNCHANGED <<nonce, hits, equipped, asked>>
          /\ Becomes(c, s, Idle) /\ held' \subseteq Clients /\ loggedIn' \subseteq Clients
          /\ mishaps' \in 0..MaxMishaps
      BY <1>5 DEF IssueToken, Answered, Mishap, TypeOK
    <2>2. \A d \in Clients, t \in Sends : Past(d, t)' => Past(d, t) /\ ~(d = c /\ t = s)
      BY <2>1, Became, IdleIsLogin DEF Past
    <2>3. CASE ~login[c][s].right
      <3>1. used' = used
        BY <1>5, <2>3 DEF IssueToken
      <3>2. TypeOK'
        BY <2>1, <3>1, Became, IdleIsLogin DEF TypeOK
      <3>3. CodesOnce' /\ OneLoginPerCode'
        BY <2>1, <2>2, <3>1 DEF CodesOnce, OneLoginPerCode
      <3> QED BY <3>2, <3>3
    <2>4. CASE login[c][s].right
      <3>1. used' = [used EXCEPT ![c] = @ + 1]
        BY <1>5, <2>4 DEF IssueToken
      <3>2. Past(c, s) /\ used[c] = 0 /\ nonce # c /\ \A t \in Sends : Past(c, t) => t = s
        BY <1>5, <2>4 DEF IssueToken, Past, CodesOnce
      <3>3. \A d \in Clients : used'[d] = IF d = c THEN 1 ELSE used[d]
        BY <3>1, <3>2 DEF TypeOK
      <3>4. used' \in [Clients -> Nat]
        BY <3>1, <3>2 DEF TypeOK
      <3>5. TypeOK'
        BY <2>1, <3>4, Became, IdleIsLogin DEF TypeOK
      <3>6. CodesOnce'
        BY <2>1, <2>2, <3>2, <3>3 DEF CodesOnce
      <3>7. OneLoginPerCode'
        BY <3>3 DEF OneLoginPerCode
      <3> QED BY <3>5, <3>6, <3>7
    <2> QED BY <2>3, <2>4
  <1>6. CASE Restart
    <2>1. /\ nonce' = None /\ UNCHANGED <<equipped, loggedIn, used, asked>> /\ held' \subseteq Clients
          /\ hits' \in [Limits -> 0..MaxPerMinute] /\ mishaps' \in 0..MaxMishaps
      BY <1>6 DEF Restart, Mishap, TypeOK
    <2>2. login' = [c \in Clients |-> [s \in Sends |-> Idle]]
      BY <1>6 DEF Restart
    <2>3. TypeOK'
      BY <2>1, <2>2, IdleIsLogin DEF TypeOK
    <2>4. \A d \in Clients, t \in Sends : ~Past(d, t)'
      BY <2>2, IdleIsLogin DEF Past
    <2>5. CodesOnce' /\ OneLoginPerCode'
      BY <2>1, <2>4 DEF CodesOnce, OneLoginPerCode
    <2> QED BY <2>3, <2>5
  <1>7. ASSUME NEW key \in Limits, HitAges(key) PROVE CodeInv'
    <2>1. UNCHANGED <<nonce, equipped, login, held, loggedIn, used, asked, mishaps>>
      BY <1>7 DEF HitAges
    <2>2. hits[key] - 1 \in 0..MaxPerMinute /\ hits' = [hits EXCEPT ![key] = hits[key] - 1]
      BY <1>7 DEF HitAges, TypeOK
    <2>3. TypeOK'
      BY <2>1, <2>2 DEF TypeOK
    <2> QED BY <2>1, <2>3 DEF CodesOnce, OneLoginPerCode, Past
  <1>8. ASSUME CodeExpires \/ (\E c \in Clients : TokenEnds(c)) \/ UNCHANGED vars PROVE CodeInv'
    <2>1. /\ nonce' = nonce \/ nonce' = None
          /\ UNCHANGED <<hits, equipped, login, held, used, asked>>
          /\ loggedIn' \subseteq Clients /\ mishaps' \in 0..MaxMishaps
      BY <1>8 DEF CodeExpires, TokenEnds, Mishap, vars, TypeOK
    <2>2. nonce' \in Clients \cup {None}
      BY <2>1 DEF TypeOK
    <2>3. TypeOK'
      BY <2>1, <2>2 DEF TypeOK
    <2> QED BY <2>1, <2>3, SessionsAssumption DEF CodesOnce, OneLoginPerCode, Past
  <1>9. ASSUME NEW c \in Clients, GivesUp(c) PROVE CodeInv'
    <2> DEFINE left == [s \in Sends |-> IF login[c][s] = Idle THEN Idle
                                         ELSE [login[c][s] EXCEPT !.old = TRUE]]
    <2>1. /\ UNCHANGED <<nonce, hits, equipped, loggedIn, used, asked>>
          /\ held' \subseteq Clients /\ mishaps' \in 0..MaxMishaps
          /\ login' = [login EXCEPT ![c] = left]
      BY <1>9 DEF GivesUp, Mishap, TypeOK
    <2>2. \A s \in Sends : /\ left[s] \in Login /\ left[s].right = login[c][s].right
                            /\ left[s].pc = login[c][s].pc
      <3>1. \A s \in Sends : login[c][s] \in Login
        BY DEF TypeOK
      <3> QED BY <3>1, IdleIsLogin, LoginGoesOn, WhatIsKept
    <2>3. left \in [Sends -> Login]
      BY <2>2
    <2> HIDE DEF left
    <2>4. /\ login' \in [Clients -> [Sends -> Login]]
          /\ \A d \in Clients : login'[d] = IF d = c THEN left ELSE login[d]
      BY <2>1, <2>3 DEF TypeOK
    <2>5. TypeOK'
      BY <2>1, <2>4 DEF TypeOK
    <2>6. \A d \in Clients, s \in Sends : Past(d, s)' => Past(d, s)
      BY <2>2, <2>4 DEF Past
    <2>7. CodesOnce' /\ OneLoginPerCode'
      BY <2>1, <2>6 DEF CodesOnce, OneLoginPerCode
    <2> QED BY <2>5, <2>7
  <1> QED BY <1>1, <1>2, <1>3, <1>4, <1>5, <1>6, <1>7, <1>8, <1>9 DEF Next, Serves

\* The invariant holds from the start.
THEOREM CodeInvariant == Spec => []CodeInv
  <1>1. Init => CodeInv
    <2> SUFFICES ASSUME Init PROVE CodeInv
      OBVIOUS
    <2>1. \A c \in Clients, s \in Sends : login[c][s] = Idle /\ ~Past(c, s)
      BY IdleIsLogin DEF Init, Past
    <2>2. login \in [Clients -> [Sends -> Login]] /\ used \in [Clients -> Nat]
      BY IdleIsLogin DEF Init
    <2>3. hits \in [Limits -> 0..MaxPerMinute] /\ asked \in 0..MaxCodes /\ mishaps \in 0..MaxMishaps
      BY SessionsAssumption DEF Init
    <2>4. TypeOK
      BY <2>2, <2>3 DEF Init, TypeOK
    <2>5. CodesOnce
      <3>1. \A c \in Clients : nonce # c
        <4>1. nonce = None
          BY DEF Init
        <4> QED BY <4>1, SessionsAssumption
      <3> QED BY <2>1, <3>1 DEF CodesOnce
    <2>6. OneLoginPerCode
      <3>1. ASSUME NEW c \in Clients PROVE used[c] <= 1
        <4>1. used[c] = 0
          BY DEF Init
        <4> QED BY <4>1
      <3> QED BY <3>1 DEF OneLoginPerCode
    <2> QED BY <2>4, <2>5, <2>6 DEF CodeInv
  <1> QED BY <1>1, CodeStep, PTL DEF Spec

\* Every variable of the login keeps its type; the limiter never counts past its limit.
THEOREM SessionsTypeCorrect == Spec => []TypeOK
  <1>1. CodeInv => TypeOK
    BY DEF CodeInv
  <1> QED BY <1>1, CodeInvariant, PTL

\* No code gives two tokens, whatever is sent twice, overtaken, expired or restarted.
THEOREM CodesAreGoodOnce == Spec => []OneLoginPerCode
  <1>1. CodeInv => OneLoginPerCode
    BY DEF CodeInv
  <1> QED BY <1>1, CodeInvariant, PTL
==============================================================================
