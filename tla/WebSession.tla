----------------------------- MODULE WebSession -----------------------------
(***************************************************************************)
(* The session of one browser tab (web/src/services/api.ts and             *)
(* web/src/auth/AuthContext.tsx).  The access token lives in memory, the   *)
(* refresh token in localStorage.  Requests that get a 401 share one       *)
(* refresh; a page that starts restores its session and then asks who the  *)
(* user is; the user logs out whenever he likes.  Every await is a point   *)
(* where another of these may run.  The server is abstracted to what it    *)
(* may answer; a pair of tokens is known by its number.                    *)
(***************************************************************************)
EXTENDS Integers, FiniteSets

CONSTANTS
    Request,      \* API requests of the page
    MaxPairs,     \* bound on the pairs of tokens the server hands out
    NoToken

ASSUME WebAssumption == MaxPairs \in Nat /\ NoToken \notin Nat

VARIABLES
    memory,      \* accessTokenMemory
    stored,      \* the refresh token in localStorage
    refreshing,  \* whether refreshPromise is pending
    pending,     \* where each request is
    boot,        \* where bootstrap of AuthProvider is, and what it remembers
    pairs,       \* how many pairs of tokens the server has handed out
    out          \* history: the user has logged out with nothing in flight,
                 \* and nobody has logged in since

webVars == <<memory, stored, refreshing, pending, boot, pairs, out>>

Pair == 1 .. MaxPairs

WebInit ==
    /\ memory = NoToken
    /\ stored = 1
    /\ pairs = 1
    /\ refreshing = FALSE
    /\ pending = [r \in Request |-> "idle"]
    /\ boot = [at |-> "start", session |-> NoToken]
    /\ out = FALSE

setStoredSession(pair) == memory' = pair /\ stored' = pair

\* Mutant of clearStoredSession: the refresh token stays in localStorage.
clearMemory == memory' = NoToken /\ UNCHANGED stored

clearStoredSession == memory' = NoToken /\ stored' = NoToken

\* getStoredSession: both halves, or no session.
HasSession == memory # NoToken /\ stored # NoToken

\* A request is sent with the access token there is.
Send(r) ==
    /\ pending[r] = "idle"
    /\ pending' = [pending EXCEPT ![r] = "sent"]
    /\ UNCHANGED <<memory, stored, refreshing, boot, pairs, out>>

Answered(r) ==
    /\ pending[r] \in {"sent", "resent"}
    /\ pending' = [pending EXCEPT ![r] = "done"]
    /\ UNCHANGED <<memory, stored, refreshing, boot, pairs, out>>

\* refreshAccessToken: joins the refresh under way or starts one; without a
\* refresh token it clears the session.
Refresh ==
    IF stored = NoToken THEN clearStoredSession /\ UNCHANGED refreshing
    ELSE refreshing' = TRUE /\ UNCHANGED <<memory, stored>>

\* The response interceptor: a 401 is retried once, after a refresh.
Unauthorized(r) ==
    /\ pending[r] = "sent"
    /\ Refresh
    /\ pending' = [pending EXCEPT
          ![r] = IF stored = NoToken THEN "done" ELSE "waiting"]
    /\ UNCHANGED <<boot, pairs, out>>

AfterRefresh(granted) ==
    /\ pending' = [r \in Request |->
          IF pending[r] # "waiting" THEN pending[r]
          ELSE IF granted THEN "resent" ELSE "done"]
    /\ boot' = IF boot.at # "restoring" THEN boot
               ELSE IF granted THEN [at |-> "asking", session |-> pairs + 1]
               ELSE [at |-> "done", session |-> NoToken]
    /\ refreshing' = FALSE

\* The pair is stored whether or not the user has logged out meanwhile.
RefreshGranted ==
    /\ refreshing
    /\ pairs < MaxPairs
    /\ pairs' = pairs + 1
    /\ setStoredSession(pairs + 1)
    /\ AfterRefresh(TRUE)
    /\ UNCHANGED out

RefreshRefused ==
    /\ refreshing
    /\ clearStoredSession
    /\ AfterRefresh(FALSE)
    /\ UNCHANGED <<pairs, out>>

\* bootstrap: getStoredSession, else restoreSession.
Bootstrap ==
    /\ boot.at = "start"
    /\ IF HasSession
       THEN /\ boot' = [at |-> "asking", session |-> memory]
            /\ UNCHANGED <<memory, stored, refreshing>>
       ELSE IF stored = NoToken
       THEN /\ boot' = [boot EXCEPT !.at = "done"]
            /\ UNCHANGED <<memory, stored, refreshing>>
       ELSE /\ boot' = [boot EXCEPT !.at = "restoring"]
            /\ refreshing' = TRUE
            /\ UNCHANGED <<memory, stored>>
    /\ UNCHANGED <<pending, pairs, out>>

\* getCurrentUser has answered: the session captured before the await is
\* stored again.
BootstrapStores ==
    /\ boot.at = "asking"
    /\ setStoredSession(boot.session)
    /\ boot' = [at |-> "done", session |-> NoToken]
    /\ UNCHANGED <<refreshing, pending, pairs, out>>

BootstrapFails ==
    /\ boot.at = "asking"
    /\ clearStoredSession
    /\ boot' = [at |-> "done", session |-> NoToken]
    /\ UNCHANGED <<refreshing, pending, pairs, out>>

Quiet == ~refreshing /\ boot.at \notin {"restoring", "asking"}

LogIn ==
    /\ ~HasSession
    /\ pairs < MaxPairs
    /\ pairs' = pairs + 1
    /\ setStoredSession(pairs + 1)
    /\ out' = FALSE
    /\ UNCHANGED <<refreshing, pending, boot>>

Logout ==
    /\ clearStoredSession
    /\ out' = Quiet
    /\ UNCHANGED <<refreshing, pending, boot, pairs>>

\* The page is loaded again: what is in memory is gone, localStorage stays.
Reload ==
    /\ boot.at = "done"
    /\ memory' = NoToken
    /\ refreshing' = FALSE
    /\ pending' = [r \in Request |-> "idle"]
    /\ boot' = [at |-> "start", session |-> NoToken]
    /\ UNCHANGED <<stored, pairs, out>>

WebNext ==
    \/ \E r \in Request : Send(r) \/ Answered(r) \/ Unauthorized(r)
    \/ RefreshGranted \/ RefreshRefused
    \/ Bootstrap \/ BootstrapStores \/ BootstrapFails
    \/ LogIn \/ Logout \/ Reload
=============================================================================
