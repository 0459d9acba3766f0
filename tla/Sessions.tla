------------------------------ MODULE Sessions -------------------------------
(* Logging in (auth/service.py, routers/auth.py, api_client.py login): a     *)
(* client asks for a random code, sends the password hashed with it and gets *)
(* an access token.  The code is kept in memory, one for the account whoever *)
(* asked for it, and goes with the first login that is tried, right or       *)
(* wrong.  Requests of several clients, a login that is sent twice and one    *)
(* its client no longer waits for are threads of the server, which may       *)
(* restart between any two steps.                                            *)
EXTENDS Naturals

CONSTANTS
    Clients,        \* each a device of the one account, with its equipment_no
    Diligent,       \* the client that tries again until it is logged in
    None,
    MaxPerMinute,   \* login_attempts_per_minute
    MaxCodes,       \* bound on the codes other clients ask for
    MaxMishaps      \* bound on mistypings, codes grown old, answers lost, restarts

ASSUME SessionsAssumption ==
    /\ Diligent \in Clients /\ None \notin Clients
    /\ MaxPerMinute \in Nat \ {0} /\ MaxCodes \in Nat /\ MaxMishaps \in Nat

Sends == 1..2       \* a login may reach the server twice
Limits == {"code", "login"}

VARIABLES
    nonce,      \* the account's item of the nonce store: whom the code was issued to
    hits,       \* per limit: the requests of the last minute
    equipped,   \* the clients whose equipment has its row
    login,      \* per client and send: where its login stands
    held,       \* the clients that have a code
    loggedIn,   \* the clients that have a token that is neither revoked nor expired
    used,       \* per client: the tokens its last code was good for
    asked, mishaps

vars == <<nonce, hits, equipped, login, held, loggedIn, used, asked, mishaps>>

\* right: made with the password and the client's last code; new: the equipment's row
\* was not found; old: the client has given it up.
Login == [pc : {"idle", "sent", "matched", "row", "token"},
          right : BOOLEAN, new : BOOLEAN, old : BOOLEAN]
Idle == [pc |-> "idle", right |-> FALSE, new |-> FALSE, old |-> FALSE]

\* The account's row is there: create_app sees to it.
Init ==
    /\ nonce = None /\ hits = [key \in Limits |-> 0] /\ equipped = {}
    /\ login = [c \in Clients |-> [s \in Sends |-> Idle]]
    /\ held = {} /\ loggedIn = {} /\ used = [c \in Clients |-> 0]
    /\ asked = 0 /\ mishaps = 0

Mishap == mishaps < MaxMishaps /\ mishaps' = mishaps + 1
Waits(c) == \E s \in Sends : login[c][s] # Idle /\ ~login[c][s].old
Becomes(c, s, l) == login' = [login EXCEPT ![c][s] = l]
\* A client that waits for the answer is done with its code, whatever the answer is.
Answered(c, s) == Becomes(c, s, Idle) /\ held' = IF login[c][s].old THEN held ELSE held \ {c}

------------------------------------------------------------------------------
(* The rate limiter *)

\* Mutant: one more than the limit.
Limited_Late(key) == hits[key] > MaxPerMinute
Limited(key) == hits[key] >= MaxPerMinute
Counted(key) == [hits EXCEPT ![key] = @ + 1]

\* The oldest hit is a minute old.
HitAges(key) ==
    /\ hits[key] > 0 /\ hits' = [hits EXCEPT ![key] = @ - 1]
    /\ UNCHANGED <<nonce, equipped, login, held, loggedIn, used, asked, mishaps>>

------------------------------------------------------------------------------
(* Random code and login *)

\* A new code takes the place of any other; the answer may be lost.
RandomCode(c) ==
    /\ c \notin loggedIn /\ c \notin held /\ ~Waits(c)
    /\ c = Diligent \/ asked < MaxCodes
    /\ asked' = IF c = Diligent THEN asked ELSE asked + 1
    /\ ~Limited("code") /\ hits' = Counted("code")
    /\ nonce' = c /\ used' = [used EXCEPT ![c] = 0]
    /\ login' = [login EXCEPT ![c] = [s \in Sends |-> [@[s] EXCEPT !.right = FALSE]]]
    /\ \/ held' = held \cup {c} /\ UNCHANGED mishaps
       \/ Mishap /\ UNCHANGED held
    /\ UNCHANGED <<equipped, loggedIn>>

SendLogin(c, s) ==
    /\ c \in held /\ login[c][s] = Idle
    /\ \/ Becomes(c, s, [Idle EXCEPT !.pc = "sent", !.right = TRUE]) /\ UNCHANGED mishaps
       \/ Becomes(c, s, [Idle EXCEPT !.pc = "sent"]) /\ Mishap
    /\ UNCHANGED <<nonce, hits, equipped, held, loggedIn, used, asked>>

\* Mutant: the code is looked up and kept.
CheckLogin_KeepsCode(c, s) ==
    LET l == login[c][s] IN
    /\ l.pc = "sent"
    /\ IF Limited("login") THEN Answered(c, s) /\ UNCHANGED <<hits, nonce>>
       ELSE /\ hits' = Counted("login") /\ UNCHANGED nonce
            /\ IF nonce = c /\ l.right
               THEN Becomes(c, s, [l EXCEPT !.pc = "matched"]) /\ UNCHANGED held
               ELSE Answered(c, s)
    /\ UNCHANGED <<equipped, loggedIn, used, asked, mishaps>>

\* RateLimited; no code; or the code is taken, and the hash is or is not made with it.
CheckLogin(c, s) ==
    LET l == login[c][s] IN
    /\ l.pc = "sent"
    /\ IF Limited("login") THEN Answered(c, s) /\ UNCHANGED <<hits, nonce>>
       ELSE /\ hits' = Counted("login") /\ nonce' = None
            /\ IF nonce = c /\ l.right
               THEN Becomes(c, s, [l EXCEPT !.pc = "matched"]) /\ UNCHANGED held
               ELSE Answered(c, s)
    /\ UNCHANGED <<equipped, loggedIn, used, asked, mishaps>>

FindEquipment(c, s) ==
    /\ login[c][s].pc = "matched"
    /\ Becomes(c, s, [login[c][s] EXCEPT !.pc = "row", !.new = (c \notin equipped)])
    /\ UNCHANGED <<nonce, hits, equipped, held, loggedIn, used, asked, mishaps>>

\* Mutant: the row is inserted though it is there.
SaveEquipment_Inserts(c, s) ==
    /\ login[c][s].pc = "row"
    /\ IF c \in equipped THEN Answered(c, s) /\ UNCHANGED equipped
       ELSE /\ equipped' = equipped \cup {c}
            /\ Becomes(c, s, [login[c][s] EXCEPT !.pc = "token"]) /\ UNCHANGED held
    /\ UNCHANGED <<nonce, hits, loggedIn, used, asked, mishaps>>

\* Two first logins of one equipment both insert it: the unique constraint fails the second.
SaveEquipment(c, s) ==
    /\ login[c][s].pc = "row"
    /\ IF login[c][s].new /\ c \in equipped THEN Answered(c, s) /\ UNCHANGED equipped
       ELSE /\ equipped' = equipped \cup {c}
            /\ Becomes(c, s, [login[c][s] EXCEPT !.pc = "token"]) /\ UNCHANGED held
    /\ UNCHANGED <<nonce, hits, loggedIn, used, asked, mishaps>>

\* The commit of the token; the answer may be lost.
IssueToken(c, s) ==
    LET l == login[c][s] IN
    /\ l.pc = "token" /\ Answered(c, s)
    /\ used' = IF l.right THEN [used EXCEPT ![c] = @ + 1] ELSE used
    /\ \/ loggedIn' = (IF l.old THEN loggedIn ELSE loggedIn \cup {c}) /\ UNCHANGED mishaps
       \/ ~l.old /\ Mishap /\ UNCHANGED loggedIn
    /\ UNCHANGED <<nonce, hits, equipped, asked>>

------------------------------------------------------------------------------
(* Time and mishaps *)

\* The client's request times out; the server goes on with it.
GivesUp(c) ==
    /\ Mishap /\ Waits(c) /\ held' = held \ {c}
    /\ login' = [login EXCEPT ![c] = [s \in Sends |->
                    IF @[s] = Idle THEN Idle ELSE [@[s] EXCEPT !.old = TRUE]]]
    /\ UNCHANGED <<nonce, hits, equipped, loggedIn, used, asked>>

\* _prune drops the code that has reached its ttl.
CodeExpires ==
    /\ nonce # None /\ Mishap /\ nonce' = None
    /\ UNCHANGED <<hits, equipped, login, held, loggedIn, used, asked>>

\* Revoked by logout, or past expires_at: validate_token refuses it.
TokenEnds(c) ==
    /\ c \in loggedIn /\ Mishap /\ loggedIn' = loggedIn \ {c}
    /\ UNCHANGED <<nonce, hits, equipped, login, held, used, asked>>

\* Nonces and hits are in memory; clients in the middle of a login start over.
Restart ==
    /\ Mishap /\ nonce' = None /\ hits' = [key \in Limits |-> 0]
    /\ login' = [c \in Clients |-> [s \in Sends |-> Idle]]
    /\ held' = {c \in held : ~Waits(c)}
    /\ UNCHANGED <<equipped, loggedIn, used, asked>>

Serves(c, s) ==
    CheckLogin(c, s) \/ FindEquipment(c, s) \/ SaveEquipment(c, s) \/ IssueToken(c, s)

Next ==
    \/ \E c \in Clients : \/ RandomCode(c) \/ GivesUp(c) \/ TokenEnds(c)
                          \/ \E s \in Sends : SendLogin(c, s) \/ Serves(c, s)
    \/ \E key \in Limits : HitAges(key)
    \/ CodeExpires \/ Restart

\* One client goes on asking and sending, the server answers, and minutes pass.
Spec ==
    /\ Init /\ [][Next]_vars
    /\ WF_vars(RandomCode(Diligent)) /\ WF_vars(SendLogin(Diligent, 1))
    /\ \A s \in Sends : WF_vars(Serves(Diligent, s))
    /\ \A key \in Limits : WF_vars(HitAges(key))

------------------------------------------------------------------------------
(* Properties *)

TypeOK ==
    /\ nonce \in Clients \cup {None}
    /\ hits \in [Limits -> 0..MaxPerMinute]
    /\ login \in [Clients -> [Sends -> Login]]
    /\ equipped \subseteq Clients /\ held \subseteq Clients /\ loggedIn \subseteq Clients
    /\ used \in [Clients -> Nat]
    /\ asked \in 0..MaxCodes /\ mishaps \in 0..MaxMishaps

\* A code is good for one token, though a login may reach the server twice.
OneLoginPerCode == \A c \in Clients : used[c] <= 1

\* A client that tries again gets in, though others take its code's place, spend it with
\* a wrong hash or use up the minute's attempts, and the server forgets it all.
EventuallyLoggedIn == Diligent \notin loggedIn ~> Diligent \in loggedIn
==============================================================================
