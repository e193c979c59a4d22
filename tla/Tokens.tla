-------------------------------- MODULE Tokens --------------------------------
(***************************************************************************)
(* Accounts and refresh tokens: signup, login, refresh and logout of       *)
(* app/api/auth_routes.py over app/services/auth_service.py.  A token is   *)
(* good while its jti is a row of refresh_tokens; a refresh verifies it,   *)
(* deletes the row and inserts another in three statements and two         *)
(* commits.  Passwords and signatures are taken as right.                  *)
(***************************************************************************)
EXTENDS Naturals

CONSTANTS
    Usernames,     \* names people sign up with
    AuthThreads,   \* threads that serve requests
    MaxAuthCalls   \* bound on requests and restarts

ASSUME TokensAssumption == Usernames # {} /\ MaxAuthCalls \in Nat

VARIABLES
    users,      \* the names in the table users
    rows,       \* the table refresh_tokens
    given,      \* tokens that were issued
    expired,    \* those past their thirty days
    authCall,   \* what each thread is doing
    authCalls,  \* requests and restarts so far
    forked,     \* history: logins with a token refreshed twice at once
    ended       \* history: logins logged out with no refresh at work

authVars == <<users, rows, given, expired, authCall, authCalls, forked, ended>>

\* A token: its number, and the login whose refreshes led to it.
Token == [n : Nat, user : Usernames, login : Nat]

AuthRequest == [at : {"idle", "create", "revoke", "issue"},
                user : Usernames,
                login : Nat,     \* the login it goes on with, or 0
                token : Nat]     \* the token it was given, or 0

NoRequest == [at |-> "idle", user |-> CHOOSE u \in Usernames : TRUE,
              login |-> 0, token |-> 0]

TokensTypeOK ==
    /\ users \subseteq Usernames
    /\ given \subseteq Token
    /\ rows \subseteq given
    /\ expired \subseteq given
    /\ authCall \in [AuthThreads -> AuthRequest]
    /\ authCalls \in 0..MaxAuthCalls
    /\ forked \subseteq Nat
    /\ ended \subseteq Nat

TokensInit ==
    /\ users = {}
    /\ rows = {}
    /\ given = {}
    /\ expired = {}
    /\ authCall = [h \in AuthThreads |-> NoRequest]
    /\ authCalls = 0
    /\ forked = {}
    /\ ended = {}

-----------------------------------------------------------------------------
\* The number of a new jti.
Fresh(n) == {t.n : t \in given} = 1..(n - 1)

Call(h, place, user, login, token) ==
    /\ authCall[h].at = "idle"
    /\ authCalls < MaxAuthCalls
    /\ authCalls' = authCalls + 1
    /\ authCall' = [authCall EXCEPT ![h] =
          [at |-> place, user |-> user, login |-> login, token |-> token]]

Proceed(h, place) == authCall' = [authCall EXCEPT ![h].at = place]
Answer(h) == authCall' = [authCall EXCEPT ![h] = NoRequest]

\* POST /auth/signup: the name is free ...
SignupCheck(h, u) ==
    /\ u \notin users
    /\ Call(h, "create", u, 0, 0)
    /\ UNCHANGED <<users, rows, given, expired, forked, ended>>

\* ... and its row is inserted, unless the index says another was faster.
SignupInsert(h) ==
    /\ authCall[h].at = "create"
    /\ users' = users \union {authCall[h].user}
    /\ IF authCall[h].user \in users THEN Answer(h) ELSE Proceed(h, "issue")
    /\ UNCHANGED <<rows, given, expired, authCalls, forked, ended>>

\* POST /auth/login with the right password.
LoginCheck(h, u) ==
    /\ u \in users
    /\ Call(h, "issue", u, 0, 0)
    /\ UNCHANGED <<users, rows, given, expired, forked, ended>>

\* POST /auth/refresh: verify_refresh_token finds the row ...
RefreshVerify(h, t) ==
    /\ t \in rows \ expired
    /\ Call(h, "revoke", t.user, t.login, t.n)
    /\ forked' = IF \E g \in AuthThreads :
                        authCall[g].at = "revoke" /\ authCall[g].token = t.n
                 THEN forked \union {t.login} ELSE forked
    /\ UNCHANGED <<users, rows, given, expired, ended>>

\* Seeded bug for OneTokenPerLogin: the rotation forgets the old row.
RefreshRevoke_Keeps(h) ==
    /\ authCall[h].at = "revoke"
    /\ Proceed(h, "issue")
    /\ UNCHANGED <<users, rows, given, expired, authCalls, forked, ended>>

\* ... deletes it, whether it is still there or not (a token that has expired
\* since is refused here) ...
RefreshRevoke(h) ==
    /\ authCall[h].at = "revoke"
    /\ IF \E t \in expired : t.n = authCall[h].token
       THEN Answer(h) /\ UNCHANGED rows
       ELSE Proceed(h, "issue") /\ rows' = {t \in rows : t.n # authCall[h].token}
    /\ UNCHANGED <<users, given, expired, authCalls, forked, ended>>

\* ... and create_refresh_token, for it and for login and signup, inserts the
\* new one.
IssueToken(h, n) ==
    LET c == authCall[h]
        t == [n |-> n, user |-> c.user,
              login |-> IF c.login = 0 THEN n ELSE c.login]
    IN  /\ c.at = "issue"
        /\ Fresh(n)
        /\ rows' = rows \union {t}
        /\ given' = given \union {t}
        /\ Answer(h)
        /\ UNCHANGED <<users, expired, authCalls, forked, ended>>

\* Seeded bug for LogoutIsFinal: the token that began the login is revoked.
Logout_First(t) ==
    /\ t \in given \ expired
    /\ authCalls < MaxAuthCalls
    /\ authCalls' = authCalls + 1
    /\ rows' = {r \in rows : r.n # t.login}
    /\ ended' = IF t \in rows /\ t.login \notin forked /\
                   \A h \in AuthThreads : authCall[h].login # t.login
                THEN ended \union {t.login} ELSE ended
    /\ UNCHANGED <<users, given, expired, authCall, forked>>

\* POST /auth/logout: the row goes, if it is there.
Logout(t) ==
    /\ t \in given \ expired
    /\ authCalls < MaxAuthCalls
    /\ authCalls' = authCalls + 1
    /\ rows' = rows \ {t}
    /\ ended' = IF t \in rows /\ t.login \notin forked /\
                   \A h \in AuthThreads : authCall[h].login # t.login
                THEN ended \union {t.login} ELSE ended
    /\ UNCHANGED <<users, given, expired, authCall, forked>>

\* Thirty days pass: the row stays, and no one looks at it again.
Expire(t) ==
    /\ t \in given \ expired
    /\ expired' = expired \union {t}
    /\ UNCHANGED <<users, rows, given, authCall, authCalls, forked, ended>>

\* The server dies and comes back: a refresh cut in two has lost its session.
AuthRestart ==
    /\ authCalls < MaxAuthCalls
    /\ authCalls' = authCalls + 1
    /\ authCall' = [h \in AuthThreads |-> NoRequest]
    /\ UNCHANGED <<users, rows, given, expired, forked, ended>>

TokensNext ==
    \/ \E h \in AuthThreads :
          \/ \E u \in Usernames : SignupCheck(h, u) \/ LoginCheck(h, u)
          \/ \E t \in given : RefreshVerify(h, t)
          \/ \E n \in 1..MaxAuthCalls : IssueToken(h, n)
          \/ SignupInsert(h) \/ RefreshRevoke(h)
    \/ \E t \in given : Logout(t) \/ Expire(t)
    \/ AuthRestart

TokensSpec == TokensInit /\ [][TokensNext]_authVars

-----------------------------------------------------------------------------
(* Properties *)

\* A login has at most one token that works, and none while a refresh is about
\* to issue its next, through any number of rotations, logouts and restarts;
\* except when one token was refreshed by two requests at once, since the
\* second deletes nothing and is issued a token all the same.
OneTokenPerLogin ==
    /\ \A t, s \in rows : t.login = s.login /\ t.login \notin forked => t = s
    /\ \A h \in AuthThreads :
          (authCall[h].at = "issue" /\ authCall[h].login \notin forked)
          => \A t \in rows : t.login # authCall[h].login

\* After a logout with the login's token, and no refresh of it at work, no
\* token of the login ever works again and none is on its way.
LogoutIsFinal ==
    /\ \A t \in rows : t.login \notin ended
    /\ \A h \in AuthThreads : authCall[h].login \notin ended

=============================================================================
