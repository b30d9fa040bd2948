----------------------------- MODULE AlertsProofs -----------------------------
(***************************************************************************)
(* Theorems about AlertsSystem, for any number of users, processes,        *)
(* requests, rules and changes and any traffic: the browser session, users *)
(* and their tokens, then alert rules, notifications and unread marks, and *)
(* the start of a process.  DeliveryProofs continues with what a processor *)
(* announces.                                                              *)
(***************************************************************************)
EXTENDS AlertsSystem, TLAPS

(***************************************************************************)
(* The session of the browser.                                             *)
(***************************************************************************)
\* After a logout there is no session, and nothing under way that could
\* store one.
WebInv ==
    /\ "at" \in DOMAIN boot
    /\ out => memory = NoToken /\ stored = NoToken /\ Quiet

LEMMA WebStep == WebInv /\ WebNext => WebInv'
<1> SUFFICES ASSUME WebInv, WebNext PROVE WebInv'
    OBVIOUS
<1> USE DEF WebInv, Quiet, clearStoredSession, setStoredSession
<1>1. ASSUME NEW r \in Request, Send(r) \/ Answered(r) PROVE WebInv'
    BY <1>1 DEF Send, Answered
<1>2. ASSUME NEW r \in Request, Unauthorized(r) PROVE WebInv'
    BY <1>2 DEF Unauthorized, Refresh
<1>3. CASE RefreshGranted
    BY <1>3 DEF RefreshGranted, AfterRefresh
<1>4. CASE RefreshRefused
    BY <1>4 DEF RefreshRefused, AfterRefresh
<1>5. CASE Bootstrap
    BY <1>5 DEF Bootstrap, HasSession
<1>6. CASE BootstrapStores
    BY <1>6 DEF BootstrapStores
<1>7. CASE BootstrapFails
    BY <1>7 DEF BootstrapFails
<1>8. CASE LogIn
    BY <1>8 DEF LogIn
<1>9. CASE Logout
    BY <1>9 DEF Logout
<1>10. CASE Reload
    BY <1>10 DEF Reload
<1> QED
    BY <1>1, <1>2, <1>3, <1>4, <1>5, <1>6, <1>7, <1>8, <1>9, <1>10 DEF WebNext

\* After a logout with nothing in flight the browser has no session until the
\* next login.
THEOREM SessionEnds == Spec => []SessionEndsAtLogout
<1>1. Init => WebInv
    BY DEF Init, WebInit, WebInv
<1>2. WebInv /\ [Next]_vars => WebInv'
    <2> SUFFICES ASSUME WebInv, [Next]_vars PROVE WebInv'
        OBVIOUS
    <2>1. CASE UNCHANGED webVars
        BY <2>1 DEF webVars, WebInv, Quiet
    <2>2. CASE WebNext
        BY <2>2, WebStep
    <2> QED
        BY <2>1, <2>2 DEF Next, vars, StartUpNext
<1>3. WebInv => SessionEndsAtLogout
    BY DEF WebInv, SessionEndsAtLogout
<1> QED
    BY <1>1, <1>2, <1>3, PTL DEF Spec

(***************************************************************************)
(* Users and tokens.                                                       *)
(***************************************************************************)
AccountsType ==
    /\ clock \in Nat
    /\ DOMAIN calls = Client
    /\ \A c \in Client : calls[c].op = "register" =>
          calls[c].name \in UserName /\ calls[c].role \in Role
    /\ users \in [DOMAIN users -> UserRow]
    /\ DOMAIN users \subseteq User
    /\ \A h \in held : h.at \in Nat

\* The user had the role at some time from t on.
Had(us, hs, u, role, t) ==
    \/ u \in DOMAIN us /\ us[u].role = role
    \/ \E h \in hs : h.user = u /\ h.role = role /\ t <= h.at

\* A token is signed at most a tick after the role in it was read, and lives
\* AccessTTL from there.
TokenInv ==
    /\ \A tok \in tokens : tok.kind = "access" =>
          /\ tok.exp \in Nat
          /\ tok.exp <= clock + AccessTTL
          /\ Had(users, held, tok.user, tok.role, tok.exp - AccessTTL - 1)
    /\ \A c \in Client : calls[c].op = "sign" =>
          /\ calls[c].since \in Nat
          /\ calls[c].since <= clock /\ clock <= calls[c].since + 1
          /\ Had(users, held, calls[c].user, calls[c].role, calls[c].since)

NamesUniqueInv ==
    \A u, v \in DOMAIN users : users[u].name = users[v].name => u = v

AccountsInv == AccountsType /\ TokenInv /\ NamesUniqueInv

\* No request that signs or registers begins.
CallsKept ==
    /\ DOMAIN calls' = Client
    /\ \A c \in Client : calls'[c].op \in {"sign", "register"}
                             => calls'[c] = calls[c]

\* What a step that does not touch the users must keep.
AccountsKept == UNCHANGED <<users, tokens, clock, held>> /\ CallsKept

LEMMA KeptAccounts == AccountsInv /\ AccountsKept => AccountsInv'
<1> SUFFICES ASSUME AccountsInv, AccountsKept PROVE AccountsInv'
    OBVIOUS
<1> USE DEF AccountsKept, CallsKept, AccountsInv
<1>1. AccountsType' /\ NamesUniqueInv'
    BY DEF AccountsType, NamesUniqueInv
<1>2. TokenInv'
    BY DEF TokenInv
<1> QED
    BY <1>1, <1>2 DEF AccountsInv

LEMMA AlertsKeepAccounts == AccountsInv /\ AlertsNext => AccountsKept
<1> SUFFICES ASSUME AccountsInv, AlertsNext PROVE AccountsKept
    OBVIOUS
<1>0. DOMAIN calls = Client
    BY DEF AccountsInv, AccountsType
<1> USE <1>0 DEF AccountsKept, CallsKept, accountVars
<1>1. ASSUME NEW r \in AlertRule, NEW row \in mix.rows, CreateAlertRule(r, row)
      PROVE AccountsKept
    BY <1>1 DEF CreateAlertRule
<1>2. ASSUME NEW c \in Client, NEW r \in AlertRule, NEW row \in mix.rows,
             UpdateAlertRuleCheck(c, r, row)
      PROVE AccountsKept
    BY <1>2 DEF UpdateAlertRuleCheck
<1>3. ASSUME NEW r \in AlertRule, DeleteAlertRule(r) PROVE AccountsKept
    BY <1>3 DEF DeleteAlertRule
<1>4. ASSUME NEW c \in Client, UpdateAlertRuleWrite(c) PROVE AccountsKept
    BY <1>4 DEF UpdateAlertRuleWrite, Finish, Idle
<1>5. ASSUME NEW ch \in Change, NEW o \in Object, NEW kind \in Kind,
             DetectChange(ch, o, kind)
      PROVE AccountsKept
    BY <1>5 DEF DetectChange
<1>6. ASSUME NEW s \in Source,
             DeleteSourceObjects(s) \/ DeleteSourceChanges(s) \/ DeleteSource(s)
      PROVE AccountsKept
    BY <1>6 DEF DeleteSourceObjects, DeleteSourceChanges, DeleteSource
<1>7. ASSUME NEW ch \in DOMAIN jobs,
             \/ MatchRules(ch) \/ MatchFails(ch)
             \/ \E r \in jobs[ch].todo : NextRule(ch, r) \/ NextRuleFails(ch, r)
             \/ AllRulesDone(ch) \/ ListUsers(ch) \/ ListUsersFails(ch)
             \/ \E u \in User : NotifyUser(ch, u) \/ NotifyUserFails(ch, u)
             \/ AllUsersNotified(ch)
      PROVE AccountsKept
    BY <1>7 DEF MatchRules, MatchFails, NextRule, NextRuleFails, AllRulesDone,
                ListUsers, ListUsersFails, NotifyUser, NotifyUserFails,
                AllUsersNotified
<1>8. ASSUME NEW ch \in DOMAIN jobs,
             \/ NoWebhook(ch)
             \/ Taken(ch) \/ KnownDuplicate(ch) \/ TakenUnanswered(ch)
             \/ Unreached(ch) \/ Refused(ch) \/ UrlRefused(ch)
             \/ RecordStatus(ch) \/ RecordStatusFails(ch)
      PROVE AccountsKept
    BY <1>8 DEF NoWebhook, Taken, KnownDuplicate, TakenUnanswered, Unreached,
                Refused, UrlRefused, RecordStatus, RecordStatusFails
<1>9. CASE Crash
    BY <1>9 DEF Crash, Idle
<1>10. ASSUME NEW u \in User, NEW marks \in SUBSET DOMAIN inbox,
              MarkRead(u, marks)
       PROVE AccountsKept
    BY <1>10 DEF MarkRead
<1> QED
    BY <1>1, <1>2, <1>3, <1>4, <1>5, <1>6, <1>7, <1>8, <1>9, <1>10
    DEF AlertsNext

LEMMA StartUpKeepsAccounts == AccountsInv /\ StartUpNext => AccountsKept
<1> SUFFICES ASSUME AccountsInv, StartUpNext PROVE AccountsKept
    OBVIOUS
<1>1. PICK p \in Process :
        \/ \E from, to : Step(p, from, to)
        \/ Restart(p)
    BY DEF StartUpNext, OpenSQLite, ReadSchemaFile, CreateTables, CreateUnique,
           CreateBuiltinIndex, CreateLateTables, ReadDefinition, Rebuild,
           DeduplicateMarks, Deduplicate, AddTermFields, CreatePostIndex,
           CreatePostTables, OpenPostgres, SkipApplied, FindMissing, Migrate
<1> QED
    BY <1>1 DEF Step, Restart, AccountsKept, CallsKept, AccountsInv, AccountsType

\* A user who is there keeps the role or loses it now.
LEMMA HadLasts ==
    ASSUME AccountsType,
           NEW u, NEW role, NEW t \in Int, t <= clock,
           Had(users, held, u, role, t),
           held \subseteq held',
           \/ u \in DOMAIN users =>
                 u \in DOMAIN users' /\ users'[u].role = users[u].role
           \/ held' = Lost(u)
    PROVE  Had(users', held', u, role, t)
<1>1. CASE \E h \in held : h.user = u /\ h.role = role /\ t <= h.at
    BY <1>1 DEF Had
<1>2. CASE u \in DOMAIN users /\ users[u].role = role
    <2>1. CASE held' = Lost(u)
        <3>1. [user |-> u, role |-> users[u].role, at |-> clock] \in held'
            BY <2>1 DEF Lost
        <3> QED
            BY <3>1, <1>2 DEF Had
    <2>2. CASE held' # Lost(u)
        BY <1>2, <2>2 DEF Had
    <2> QED
        BY <2>1, <2>2
<1> QED
    BY <1>1, <1>2 DEF Had

\* A step after which every role is still there or was lost now.
LEMMA TokensKept ==
    ASSUME AccountsInv,
           UNCHANGED <<tokens, clock>>,
           CallsKept,
           \A u, role : \A t \in Int :
              Had(users, held, u, role, t) /\ t <= clock
                 => Had(users', held', u, role, t)
    PROVE  TokenInv'
<1>1. ASSUME NEW tok \in tokens, tok.kind = "access"
      PROVE  Had(users', held', tok.user, tok.role, tok.exp - AccessTTL - 1)
    <2>1. /\ tok.exp \in Nat /\ tok.exp <= clock + AccessTTL /\ clock \in Nat
          /\ Had(users, held, tok.user, tok.role, tok.exp - AccessTTL - 1)
        BY <1>1 DEF AccountsInv, TokenInv, AccountsType
    <2>2. /\ tok.exp - AccessTTL - 1 \in Int
          /\ tok.exp - AccessTTL - 1 <= clock
        BY <2>1, AccountsAssumption
    <2> QED
        BY <2>1, <2>2
<1>2. ASSUME NEW c \in Client, calls'[c].op = "sign"
      PROVE  /\ calls'[c] = calls[c]
             /\ Had(users', held', calls[c].user, calls[c].role, calls[c].since)
    <2>1. calls'[c] = calls[c]
        BY <1>2 DEF CallsKept
    <2>2. /\ calls[c].since \in Int /\ calls[c].since <= clock
          /\ Had(users, held, calls[c].user, calls[c].role, calls[c].since)
        BY <1>2, <2>1 DEF AccountsInv, TokenInv
    <2> QED
        BY <2>1, <2>2
<1> QED
    BY <1>1, <1>2 DEF AccountsInv, TokenInv

\* INSERT INTO users with a fresh identifier.
LEMMA InsertKeeps ==
    ASSUME AccountsInv, NEW u \in User, NEW n \in UserName, NEW role \in Role,
           FreshUser(u), CreateUser(u, n, role),
           UNCHANGED <<tokens, clock, held>>, CallsKept
    PROVE  AccountsInv'
<1>0. users' = users \/ (UserNameFree(n) /\
         users' = [v \in DOMAIN users \cup {u} |->
             IF v = u THEN [name |-> n, role |-> role] ELSE users[v]])
    <2>1. CASE ~UserNameFree(n)
        BY <2>1 DEF CreateUser
    <2>2. CASE UserNameFree(n)
        BY <2>2 DEF CreateUser, Put
    <2> QED
        BY <2>1, <2>2
<1>1. /\ DOMAIN users \subseteq DOMAIN users'
      /\ \A v \in DOMAIN users : users'[v] = users[v]
      /\ \A v \in DOMAIN users' \ DOMAIN users :
            /\ v = u /\ UserNameFree(n)
            /\ users'[v] = [name |-> n, role |-> role]
      /\ users' = [v \in DOMAIN users' |-> users'[v]]
    BY <1>0 DEF FreshUser, AccountsInv, AccountsType
<1>2. AccountsType'
    BY <1>1 DEF AccountsInv, AccountsType, CallsKept, UserRow
<1>3. NamesUniqueInv'
    BY <1>1 DEF AccountsInv, NamesUniqueInv, UserNameFree
<1>4. \A v, r : \A t \in Int :
         Had(users, held, v, r, t) => Had(users', held', v, r, t)
    BY <1>1 DEF Had
<1> QED
    BY <1>2, <1>3, <1>4, TokensKept DEF AccountsInv

LEMMA SignKeeps ==
    ASSUME AccountsInv, NEW c \in Client, SignTokens(c)
    PROVE  AccountsInv'
<1>1. AccountsType' /\ NamesUniqueInv'
    BY DEF SignTokens, Finish, Idle, AccountsInv, AccountsType, NamesUniqueInv
<1>2. ASSUME NEW tok \in tokens', tok.kind = "access"
      PROVE  /\ tok.exp \in Nat
             /\ tok.exp <= clock + AccessTTL
             /\ Had(users, held, tok.user, tok.role, tok.exp - AccessTTL - 1)
    <2>1. CASE tok \in tokens
        BY <2>1, <1>2 DEF AccountsInv, TokenInv
    <2>2. CASE tok = [user |-> calls[c].user, role |-> calls[c].role,
                      kind |-> "access", exp |-> clock + AccessTTL]
        <3>1. /\ calls[c].since \in Nat /\ clock \in Nat
              /\ clock <= calls[c].since + 1
              /\ Had(users, held, calls[c].user, calls[c].role, calls[c].since)
            BY DEF SignTokens, AccountsInv, AccountsType, TokenInv
        <3>2. Had(users, held, calls[c].user, calls[c].role, clock - 1)
            BY <3>1 DEF Had, AccountsInv, AccountsType
        <3>3. /\ tok.exp - AccessTTL - 1 = clock - 1 /\ tok.exp \in Nat
              /\ tok.exp <= clock + AccessTTL
            BY <2>2, <3>1, AccountsAssumption
        <3> QED
            BY <2>2, <3>2, <3>3
    <2> QED
        BY <1>2, <2>1, <2>2 DEF SignTokens, generateToken
<1>3. \A d \in Client : calls'[d].op = "sign" => calls'[d] = calls[d]
    BY DEF SignTokens, Finish, Idle, AccountsInv, AccountsType
<1>4. TokenInv'
    BY <1>2, <1>3 DEF TokenInv, AccountsInv, SignTokens
<1> QED
    BY <1>1, <1>4 DEF AccountsInv

\* Login and RefreshToken: the role is read now.
LEMMA ReadKeeps ==
    ASSUME AccountsInv, NEW c \in Client, NEW u \in DOMAIN users,
           ToSign(c, u, users[u].role), UNCHANGED <<users, tokens, clock, held>>
    PROVE  AccountsInv'
<1>1. AccountsType' /\ NamesUniqueInv'
    BY DEF ToSign, AccountsInv, AccountsType, NamesUniqueInv
<1>2. /\ calls'[c] = [op |-> "sign", user |-> u, role |-> users[u].role,
                      since |-> clock]
      /\ \A d \in Client \ {c} : calls'[d] = calls[d]
    BY DEF ToSign, AccountsInv, AccountsType
<1>3. Had(users, held, u, users[u].role, clock)
    BY DEF Had
<1>4. clock \in Nat /\ clock <= clock /\ clock <= clock + 1
    BY DEF AccountsInv, AccountsType
<1>5. ASSUME NEW d \in Client, calls'[d].op = "sign"
      PROVE  /\ calls'[d].since \in Nat
             /\ calls'[d].since <= clock /\ clock <= calls'[d].since + 1
             /\ Had(users, held, calls'[d].user, calls'[d].role,
                    calls'[d].since)
    BY <1>2, <1>3, <1>4, <1>5 DEF AccountsInv, TokenInv
<1>6. TokenInv'
    BY <1>5 DEF TokenInv, AccountsInv
<1> QED
    BY <1>1, <1>6 DEF AccountsInv

LEMMA UpdateKeeps ==
    ASSUME AccountsInv, NEW tok, NEW u \in DOMAIN users, NEW role \in Role,
           UpdateUser(tok, u, role)
    PROVE  AccountsInv'
<1>1. /\ DOMAIN users' = DOMAIN users
      /\ users' = [v \in DOMAIN users |->
            IF v = u THEN [users[v] EXCEPT !.role = role] ELSE users[v]]
      /\ UNCHANGED <<tokens, clock, calls>>
      /\ held' = Lost(u)
    BY DEF UpdateUser, SetRole
<1>2. \A v \in DOMAIN users : users[v] \in UserRow
    BY DEF AccountsInv, AccountsType
<1>3. \A v \in DOMAIN users :
         /\ users'[v] \in UserRow
         /\ users'[v].name = users[v].name
         /\ v # u => users'[v] = users[v]
    BY <1>1, <1>2 DEF UserRow
<1>4. AccountsType'
    BY <1>1, <1>3 DEF AccountsInv, AccountsType, Lost
<1>5. NamesUniqueInv'
    BY <1>1, <1>3 DEF AccountsInv, NamesUniqueInv
<1>6. \A v, r : \A t \in Int :
         Had(users, held, v, r, t) /\ t <= clock => Had(users', held', v, r, t)
    <2> SUFFICES ASSUME NEW v, NEW r, NEW t \in Int,
                        Had(users, held, v, r, t), t <= clock
                 PROVE  Had(users', held', v, r, t)
        OBVIOUS
    <2>1. held \subseteq held'
        BY <1>1 DEF Lost
    <2>2. \/ v \in DOMAIN users =>
               v \in DOMAIN users' /\ users'[v].role = users[v].role
          \/ held' = Lost(v)
        BY <1>1, <1>3
    <2> QED
        BY <2>1, <2>2, HadLasts DEF AccountsInv
<1> QED
    BY <1>1, <1>4, <1>5, <1>6, TokensKept
    DEF AccountsInv, AccountsType, CallsKept

LEMMA DeleteKeeps ==
    ASSUME AccountsInv, NEW tok, NEW u \in DOMAIN users, DeleteUser(tok, u)
    PROVE  AccountsInv'
<1>1. /\ users' = [v \in DOMAIN users \ {u} |-> users[v]]
      /\ UNCHANGED <<tokens, clock, calls>>
      /\ held' = Lost(u)
    BY DEF DeleteUser, Restrict
<1>2. AccountsType' /\ NamesUniqueInv'
    BY <1>1 DEF AccountsInv, AccountsType, NamesUniqueInv, Lost
<1>3. \A v, r : \A t \in Int :
         Had(users, held, v, r, t) /\ t <= clock => Had(users', held', v, r, t)
    <2> SUFFICES ASSUME NEW v, NEW r, NEW t \in Int,
                        Had(users, held, v, r, t), t <= clock
                 PROVE  Had(users', held', v, r, t)
        OBVIOUS
    <2>1. held \subseteq held'
        BY <1>1 DEF Lost
    <2>2. \/ v \in DOMAIN users =>
               v \in DOMAIN users' /\ users'[v].role = users[v].role
          \/ held' = Lost(v)
        BY <1>1
    <2> QED
        BY <2>1, <2>2, HadLasts DEF AccountsInv
<1> QED
    BY <1>1, <1>2, <1>3, TokensKept DEF AccountsInv, AccountsType, CallsKept

\* A tick finds no request that was there at the tick before.
LEMMA TickKeeps == AccountsInv /\ Tick => AccountsInv'
<1> SUFFICES ASSUME AccountsInv, Tick PROVE AccountsInv'
    OBVIOUS
<1>1. AccountsType' /\ NamesUniqueInv'
    BY DEF Tick, AccountsInv, AccountsType, NamesUniqueInv
<1>2. ASSUME NEW tok \in tokens, tok.kind = "access"
      PROVE  tok.exp <= clock + 1 + AccessTTL
    BY <1>2, AccountsAssumption DEF AccountsInv, AccountsType, TokenInv
<1>3. ASSUME NEW c \in Client, calls[c].op = "sign"
      PROVE  calls[c].since = clock
    BY <1>3 DEF Tick, Idle
<1>4. TokenInv'
    BY <1>2, <1>3 DEF Tick, AccountsInv, AccountsType, TokenInv
<1> QED
    BY <1>1, <1>4 DEF AccountsInv

LEMMA AccountsStep == AccountsInv /\ AccountsNext => AccountsInv'
<1> SUFFICES ASSUME AccountsInv, AccountsNext PROVE AccountsInv'
    OBVIOUS
<1>0. DOMAIN calls = Client
    BY DEF AccountsInv, AccountsType
<1>1. ASSUME NEW c \in Client, NEW u \in User, Login(c, u)
      PROVE  AccountsInv'
    BY <1>1, ReadKeeps DEF Login
<1>2. ASSUME NEW c \in Client, NEW u \in User, RegisterInsert(c, u)
      PROVE  AccountsInv'
    <2>1. calls[c].name \in UserName /\ calls[c].role \in Role
        BY <1>2 DEF RegisterInsert, AccountsInv, AccountsType
    <2>2. CallsKept
        BY <1>0, <1>2 DEF RegisterInsert, CallsKept, Finish, Idle
    <2> QED
        BY <1>2, <2>1, <2>2, InsertKeeps DEF RegisterInsert
<1>3. ASSUME NEW c \in Client, NEW tok \in tokens, RefreshToken(c, tok)
      PROVE  AccountsInv'
    BY <1>3, ReadKeeps DEF RefreshToken
<1>4. ASSUME NEW c \in Client, NEW tok \in tokens, NEW n \in UserName,
             NEW role \in Role, Register(c, tok, n, role)
      PROVE  AccountsInv'
    <2>1. /\ calls'[c] = [op |-> "register", name |-> n, role |-> role,
                         since |-> clock]
          /\ \A d \in Client \ {c} : calls'[d] = calls[d]
          /\ DOMAIN calls' = Client
          /\ UNCHANGED <<users, tokens, clock, held>>
        BY <1>0, <1>4 DEF Register
    <2>2. AccountsType' /\ NamesUniqueInv'
        BY <2>1 DEF AccountsInv, AccountsType, NamesUniqueInv
    <2>3. TokenInv'
        BY <2>1 DEF AccountsInv, TokenInv
    <2> QED
        BY <2>2, <2>3 DEF AccountsInv
<1>5. ASSUME NEW c \in Client, SignTokens(c) PROVE AccountsInv'
    BY <1>5, SignKeeps
<1>6. ASSUME NEW tok \in tokens, NEW u \in User, NEW role \in Role,
             UpdateUser(tok, u, role)
      PROVE  AccountsInv'
    BY <1>6, UpdateKeeps DEF UpdateUser
<1>7. ASSUME NEW tok \in tokens, NEW u \in User, DeleteUser(tok, u)
      PROVE  AccountsInv'
    BY <1>7, DeleteKeeps DEF DeleteUser
<1>8. ASSUME NEW p \in Process,
             BootstrapList(p) \/ BootstrapCheck(p) \/ BootstrapGivesUp(p)
      PROVE  AccountsInv'
    BY <1>0, <1>8, KeptAccounts
    DEF BootstrapList, BootstrapCheck, BootstrapGivesUp, AccountsKept, CallsKept
<1>9. ASSUME NEW p \in Process, NEW u \in User, BootstrapInsert(p, u)
      PROVE  AccountsInv'
    <2>1. CallsKept
        BY <1>0, <1>9 DEF BootstrapInsert, CallsKept
    <2>2. admin \in UserName /\ "admin" \in Role
        BY AccountsAssumption DEF Role
    <2> QED
        BY <1>9, <2>1, <2>2, InsertKeeps DEF BootstrapInsert
<1>10. CASE Tick
    BY <1>10, TickKeeps
<1> QED
    BY <1>1, <1>2, <1>3, <1>4, <1>5, <1>6, <1>7, <1>8, <1>9, <1>10
    DEF AccountsNext

LEMMA AccountsInductive ==
    /\ Init => AccountsInv
    /\ AccountsInv /\ [Next]_vars => AccountsInv'
<1>1. Init => AccountsInv
    BY TrafficAssumption
    DEF Init, AccountsInit, AccountsInv, AccountsType, TokenInv, NamesUniqueInv,
        Idle
<1>2. AccountsInv /\ [Next]_vars => AccountsInv'
    <2> SUFFICES ASSUME AccountsInv, [Next]_vars PROVE AccountsInv'
        OBVIOUS
    <2>1. CASE AccountsNext
        BY <2>1, AccountsStep
    <2>2. CASE AlertsNext
        BY <2>2, AlertsKeepAccounts, KeptAccounts
    <2>3. CASE StartUpNext
        BY <2>3, StartUpKeepsAccounts, KeptAccounts
    <2>4. CASE UNCHANGED accountVars
        <3>1. AccountsKept
            BY <2>4 DEF accountVars, AccountsKept, CallsKept, AccountsInv,
                        AccountsType
        <3> QED
            BY <3>1, KeptAccounts
    <2> QED
        BY <2>1, <2>2, <2>3, <2>4 DEF Next, vars
<1> QED
    BY <1>1, <1>2

\* Nobody acts in a role longer than an access token lives, and a request
\* lasts, after losing it.
THEOREM RightsEnd == Spec => []RightsExpire
<1>1. AccountsInv => RightsExpire
    BY AccountsAssumption
    DEF AccountsInv, AccountsType, TokenInv, Had, RightsExpire, Authenticated,
        Valid
<1> QED
    BY <1>1, AccountsInductive, PTL DEF Spec

(***************************************************************************)
(* What becomes of alert rules, notifications, unread marks and webhooks.  *)
(***************************************************************************)
Entry == [id: AlertRule, row: RuleRow]

Place == {"match", "next", "users", "notify", "webhook", "sent", "failed",
          "done", "dead"}

\* The places where a goroutine is busy with one rule.
AtRule == {"users", "notify", "webhook", "sent", "failed"}

JobRow == [change: ChangeRow, at: Place, todo: SUBSET Entry,
           rule: Entry \cup {None}, users: SUBSET User, tries: Nat]

AlertsType ==
    /\ mix \in Traffic
    /\ sources \subseteq Source /\ objects \subseteq Object
    /\ DOMAIN rules \subseteq AlertRule /\ rules \in [DOMAIN rules -> RuleRow]
    /\ DOMAIN changes \subseteq Change /\ changes \in [DOMAIN changes -> ChangeRow]
    /\ notes \in [DOMAIN notes -> NoteRow]
    /\ DOMAIN jobs \subseteq Change /\ jobs \in [DOMAIN jobs -> JobRow]
    /\ \A ch \in DOMAIN jobs : jobs[ch].at \in AtRule => jobs[ch].rule \in Entry
    /\ sentTo \in [NoteId -> Nat] /\ unanswered \in [NoteId -> Nat]
    /\ DOMAIN matched \subseteq DOMAIN jobs
    /\ \A ch \in DOMAIN matched : matched[ch] \subseteq Entry
    /\ \A c \in Client : calls[c].op = "rescope" =>
          /\ calls[c].rule \in AlertRule /\ calls[c].row \in RuleForm
          /\ calls[c].seen \in RuleRow

\* The variables of AlertsType but for the calls.
typedVars == <<mix, sources, objects, rules, changes, notes, jobs, sentTo,
               unanswered, matched>>

NoRescope ==
    \A c \in Client : calls'[c].op = "rescope" => calls'[c] = calls[c]

LEMMA TypeKept == AlertsType /\ UNCHANGED typedVars /\ NoRescope => AlertsType'
BY DEF AlertsType, typedVars, NoRescope

LEMMA NormalizedRow ==
    ASSUME NEW row \in RuleForm
    PROVE  /\ Normalized(row) \in RuleRow
           /\ Normalized(row).source = row.source
           /\ Normalized(row).object = row.object
BY DEF Normalized, normalizeAlertChangeTypes, RuleForm, RuleRow, Kind

\* The steps on rules, sources and changes.
RuleStep ==
    \/ \E r \in AlertRule :
          \/ \E row \in mix.rows : CreateAlertRule(r, row)
          \/ \E c \in Client, row \in mix.rows : UpdateAlertRuleCheck(c, r, row)
          \/ DeleteAlertRule(r)
    \/ \E c \in Client : UpdateAlertRuleWrite(c)
    \/ \E ch \in Change, o \in Object, kind \in Kind : DetectChange(ch, o, kind)
    \/ \E s \in Source :
          DeleteSourceObjects(s) \/ DeleteSourceChanges(s) \/ DeleteSource(s)

LEMMA RuleStepsType ==
    ASSUME AccountsInv, AlertsType, RuleStep PROVE AlertsType'
<1>0. DOMAIN calls = Client
    BY DEF AccountsInv, AccountsType
<1>a. mix.rows \subseteq RuleForm
    BY AlertTrafficAssumption DEF AlertsType
<1>1. ASSUME NEW r \in AlertRule, NEW row \in mix.rows, CreateAlertRule(r, row)
      PROVE  AlertsType'
    <2>1. Normalized(row) \in RuleRow
        BY <1>a, NormalizedRow
    <2> QED
        BY <1>1, <2>1 DEF CreateAlertRule, InsertAlertRule, Put, AlertsType,
                          historyVars
<1>2. ASSUME NEW c \in Client, NEW r \in AlertRule, NEW row \in mix.rows,
             UpdateAlertRuleCheck(c, r, row)
      PROVE  AlertsType'
    <2>1. /\ calls'[c].rule = r /\ calls'[c].row = row /\ calls'[c].seen = rules[r]
          /\ \A d \in Client \ {c} : calls'[d] = calls[d]
          /\ r \in DOMAIN rules
          /\ UNCHANGED typedVars
        BY <1>0, <1>2 DEF UpdateAlertRuleCheck, typedVars, alertVars, tableVars,
                          historyVars
    <2> QED
        BY <1>a, <2>1 DEF AlertsType, typedVars
<1>3. ASSUME NEW r \in AlertRule, DeleteAlertRule(r) PROVE AlertsType'
    BY <1>3 DEF DeleteAlertRule, CascadeNotes, Keep, Restrict, AlertsType,
                historyVars
<1>4. ASSUME NEW c \in Client, UpdateAlertRuleWrite(c) PROVE AlertsType'
    <2> DEFINE new == Normalized(calls[c].row)
               row == [new EXCEPT !.source = Given(@, rules[calls[c].rule].source),
                                  !.object = Given(@, rules[calls[c].rule].object)]
    <2>1. calls[c].row \in RuleForm
        BY <1>4 DEF UpdateAlertRuleWrite, AlertsType
    <2>2. new \in RuleRow
        BY <2>1, NormalizedRow
    <2>3. ASSUME calls[c].rule \in DOMAIN rules PROVE row \in RuleRow
        BY <2>2, <2>3 DEF Given, RuleRow, AlertsType
    <2>4. rules' = rules \/ (/\ calls[c].rule \in DOMAIN rules
                             /\ rules' = [rules EXCEPT ![calls[c].rule] = row])
        BY <1>4 DEF UpdateAlertRuleWrite
    <2>5. DOMAIN rules' \subseteq AlertRule /\ rules' \in [DOMAIN rules' -> RuleRow]
        BY <2>3, <2>4 DEF AlertsType
    <2>6. \A d \in Client : calls'[d].op = "rescope" => calls'[d] = calls[d]
        BY <1>0, <1>4 DEF UpdateAlertRuleWrite, Finish, Idle
    <2> QED
        BY <1>4, <2>5, <2>6 DEF UpdateAlertRuleWrite, AlertsType
<1>5. ASSUME NEW ch \in Change, NEW o \in Object, NEW kind \in Kind,
             DetectChange(ch, o, kind)
      PROVE  AlertsType'
    <2> DEFINE change == [source |-> SourceOf[o], object |-> o, kind |-> kind]
    <2>1. change \in ChangeRow
        BY AlertsAssumption DEF ChangeRow
    <2>2. Job(change) \in JobRow /\ Job(change).at = "match"
        BY <2>1 DEF Job, JobRow, Place
    <2>3. /\ jobs' = Put(jobs, ch, Job(change))
          /\ changes' = Put(changes, ch, change)
          /\ objects' \subseteq objects
          /\ UNCHANGED <<mix, sources, rules, notes, calls, sentTo, unanswered,
                         matched>>
        BY <1>5 DEF DetectChange, historyVars
    <2>4. /\ DOMAIN jobs' \subseteq Change /\ jobs' \in [DOMAIN jobs' -> JobRow]
          /\ DOMAIN jobs \subseteq DOMAIN jobs'
          /\ \A x \in DOMAIN jobs' : jobs'[x].at \in AtRule => jobs'[x].rule \in Entry
        BY <2>2, <2>3 DEF Put, AlertsType, AtRule
    <2>5. DOMAIN changes' \subseteq Change /\ changes' \in [DOMAIN changes' -> ChangeRow]
        BY <2>1, <2>3 DEF Put, AlertsType
    <2> QED
        BY <2>3, <2>4, <2>5 DEF AlertsType
<1>6. ASSUME NEW s \in Source, DeleteSourceObjects(s) PROVE AlertsType'
    BY <1>6 DEF DeleteSourceObjects, AlertsType, historyVars
<1>7. ASSUME NEW s \in Source, DeleteSourceChanges(s) PROVE AlertsType'
    BY <1>7 DEF DeleteSourceChanges, CascadeNotes, Keep, Restrict, AlertsType,
                historyVars, accountVars
<1>8. ASSUME NEW s \in Source, DeleteSource(s) PROVE AlertsType'
    BY <1>8 DEF DeleteSource, CascadeNotes, Keep, Restrict, AlertsType,
                historyVars, accountVars
<1> QED
    BY <1>1, <1>2, <1>3, <1>4, <1>5, <1>6, <1>7, <1>8 DEF RuleStep

\* A goroutine goes from one place to another; nobody else moves.
Moves(ch, from, to) ==
    /\ jobs[ch].at = from /\ jobs'[ch].at = to
    /\ jobs' = [x \in DOMAIN jobs |-> jobs'[x]]
    /\ \A x \in DOMAIN jobs \ {ch} : jobs'[x] = jobs[x]
    /\ jobs'[ch] \in JobRow
    /\ jobs'[ch].change = jobs[ch].change

\* It does so within the rule it is busy with.
SameRule(ch) ==
    /\ jobs'[ch].todo = jobs[ch].todo /\ jobs'[ch].rule = jobs[ch].rule

SameUsers(ch) == jobs'[ch].users = jobs[ch].users

LEMMA MovesType ==
    ASSUME AlertsType, NEW ch \in DOMAIN jobs, NEW from, NEW to,
           Moves(ch, from, to), to \in AtRule => jobs'[ch].rule \in Entry
    PROVE  /\ DOMAIN jobs' = DOMAIN jobs /\ jobs' \in [DOMAIN jobs -> JobRow]
           /\ \A x \in DOMAIN jobs : jobs'[x].at \in AtRule => jobs'[x].rule \in Entry
<1>1. DOMAIN jobs' = DOMAIN jobs
    BY DEF Moves
<1>2. \A x \in DOMAIN jobs :
         jobs'[x] \in JobRow /\ (jobs'[x].at \in AtRule => jobs'[x].rule \in Entry)
    BY DEF Moves, AlertsType
<1> QED
    BY <1>1, <1>2 DEF Moves

LEMMA GotoMoves ==
    ASSUME AlertsType, NEW ch \in DOMAIN jobs, NEW from, NEW place \in Place,
           At(ch, from), Goto(ch, place)
    PROVE  Moves(ch, from, place) /\ SameRule(ch) /\ SameUsers(ch)
BY DEF At, Goto, Moves, SameRule, SameUsers, AlertsType, JobRow

LEMMA SettleMoves ==
    ASSUME AlertsType, NEW ch \in DOMAIN jobs, NEW place \in Place,
           Attempt(ch), Settle(ch, place)
    PROVE  Moves(ch, "webhook", place) /\ SameRule(ch) /\ SameUsers(ch)
BY DEF At, Attempt, Settle, Moves, SameRule, SameUsers, AlertsType, JobRow

LEMMA RetryMoves ==
    ASSUME AlertsType, NEW ch \in DOMAIN jobs, Attempt(ch), Retry(ch)
    PROVE  /\ Moves(ch, "webhook", "webhook") \/ Moves(ch, "webhook", "failed")
           /\ SameRule(ch) /\ SameUsers(ch)
<1>1. CASE jobs[ch].tries + 1 < MaxAttempts
    BY <1>1 DEF At, Attempt, Retry, Moves, SameRule, SameUsers, AlertsType, JobRow
<1>2. CASE ~(jobs[ch].tries + 1 < MaxAttempts)
    BY <1>2, SettleMoves DEF Retry, Place
<1> QED
    BY <1>1, <1>2

\* The rules of a change are found with their rows.
LEMMA FoundEntries ==
    ASSUME AlertsType, NEW change
    PROVE  \A e \in Matches(change) :
              e \in Entry /\ e.id \in DOMAIN rules /\ e.row = rules[e.id]
<1> SUFFICES ASSUME NEW e \in Matches(change)
             PROVE  e \in Entry /\ e.id \in DOMAIN rules /\ e.row = rules[e.id]
    OBVIOUS
<1>1. PICK r \in DOMAIN rules : e = [id |-> r, row |-> rules[r]]
    BY DEF Matches, ListMatchingAlertRules
<1> QED
    BY <1>1 DEF AlertsType, Entry

LEMMA MatchMoves ==
    ASSUME AlertsType, NEW ch \in DOMAIN jobs, MatchRules(ch)
    PROVE  /\ matched' = Put(matched, ch, Matches(jobs[ch].change))
           /\ jobs'[ch].rule = jobs[ch].rule
           /\ \/ /\ Moves(ch, "match", "next")
                 /\ jobs'[ch].todo = Matches(jobs[ch].change)
              \/ /\ Moves(ch, "match", "done")
                 /\ jobs'[ch].todo = jobs[ch].todo
                 /\ jobs[ch].change.source \notin sources
<1> DEFINE todo == Matches(jobs[ch].change)
<1>0. todo \in SUBSET Entry
    BY FoundEntries
<1>1. CASE jobs[ch].change.source \in sources
    <2>1. /\ jobs' = [jobs EXCEPT ![ch].at = "next", ![ch].todo = todo]
          /\ matched' = Put(matched, ch, todo)
          /\ jobs[ch].at = "match"
        BY <1>1 DEF MatchRules, At
    <2> HIDE DEF todo
    <2>2. Moves(ch, "match", "next") /\ jobs'[ch].todo = todo
          /\ jobs'[ch].rule = jobs[ch].rule
        BY <1>0, <2>1 DEF Moves, AlertsType, JobRow, Place
    <2> QED
        BY <2>1, <2>2 DEF todo
<1>2. CASE jobs[ch].change.source \notin sources
    <2>1. /\ At(ch, "match") /\ Goto(ch, "done")
          /\ matched' = Put(matched, ch, todo)
        BY <1>2 DEF MatchRules, Goto
    <2> QED
        BY <1>2, <2>1, GotoMoves DEF SameRule, Place
<1> QED
    BY <1>1, <1>2

\* A notification is stored and the goroutine busy with its rule, or the rule
\* is skipped.
Stored(ch, r, place) ==
    /\ r.id \in DOMAIN rules /\ ch \in DOMAIN changes
    /\ notes' = Put(notes, <<r.id, ch>>, [sent |-> FALSE, error |-> FALSE])
    /\ jobs'[ch].rule = r
    /\ Moves(ch, "next", place)

Skipped(ch) ==
    /\ notes' = notes
    /\ jobs'[ch].rule = jobs[ch].rule
    /\ Moves(ch, "next", "next")

LEMMA StoreMoves ==
    ASSUME AlertsType, NEW ch \in DOMAIN jobs, NEW r \in jobs[ch].todo, At(ch, "next"),
           Storable(ch, r), NEW place \in {"users", "webhook", "next"},
           StoreNote(ch, r, place)
    PROVE  jobs'[ch].todo = jobs[ch].todo \ {r} /\ Stored(ch, r, place)
<1>0. r \in Entry
    BY DEF AlertsType, JobRow
<1>1. /\ jobs' = [jobs EXCEPT ![ch] = [jobs[ch] EXCEPT
                    !.todo = jobs[ch].todo \ {r}, !.rule = r, !.at = place]]
      /\ notes' = Put(notes, <<r.id, ch>>, [sent |-> FALSE, error |-> FALSE])
      /\ jobs[ch].at = "next"
    BY DEF StoreNote, At
<1>2. /\ Moves(ch, "next", place)
      /\ jobs'[ch].todo = jobs[ch].todo \ {r} /\ jobs'[ch].rule = r
    BY <1>0, <1>1 DEF Moves, AlertsType, JobRow, Place
<1> QED
    BY <1>1, <1>2 DEF Stored, Storable

LEMMA SkipMoves ==
    ASSUME AlertsType, NEW ch \in DOMAIN jobs, NEW r \in jobs[ch].todo, At(ch, "next"),
           SkipRule(ch, r)
    PROVE  jobs'[ch].todo = jobs[ch].todo \ {r} /\ Skipped(ch)
<1>1. /\ jobs' = [jobs EXCEPT ![ch] = [jobs[ch] EXCEPT !.todo = jobs[ch].todo \ {r}]]
      /\ notes' = notes /\ jobs[ch].at = "next"
    BY DEF SkipRule, At
<1> QED
    BY <1>1 DEF Skipped, Moves, AlertsType, JobRow, Place

LEMMA NextMoves ==
    ASSUME AlertsType, NEW ch \in DOMAIN jobs, NEW r \in jobs[ch].todo,
           NextRule(ch, r)
    PROVE  /\ r \in Entry
           /\ jobs'[ch].todo = jobs[ch].todo \ {r}
           /\ \/ Stored(ch, r, IF r.row.inApp THEN "users" ELSE "webhook")
              \/ /\ r.id \notin DOMAIN rules \/ ch \notin DOMAIN changes
                 /\ Skipped(ch)
<1>1. r \in Entry
    BY DEF AlertsType, JobRow
<1>2. CASE Storable(ch, r)
    BY <1>1, <1>2, StoreMoves DEF NextRule
<1>3. CASE ~Storable(ch, r)
    BY <1>1, <1>3, SkipMoves DEF NextRule, Storable
<1> QED
    BY <1>2, <1>3

LEMMA NextFailsMoves ==
    ASSUME AlertsType, NEW ch \in DOMAIN jobs, NEW r \in jobs[ch].todo,
           NextRuleFails(ch, r)
    PROVE  /\ r \in Entry
           /\ jobs'[ch].todo = jobs[ch].todo \ {r}
           /\ \/ Stored(ch, r, "webhook") \/ Stored(ch, r, "next")
              \/ Skipped(ch)
           /\ failed' = failed \cup {<<r.id, ch>>}
<1>1. r \in Entry
    BY DEF AlertsType, JobRow
<1>2. At(ch, "next") /\ failed' = failed \cup {<<r.id, ch>>}
    BY DEF NextRuleFails
<1>3. CASE SkipRule(ch, r)
    BY <1>1, <1>2, <1>3, SkipMoves
<1>4. ASSUME NEW place \in {"webhook", "next"}, Storable(ch, r), StoreNote(ch, r, place)
      PROVE  jobs'[ch].todo = jobs[ch].todo \ {r} /\ Stored(ch, r, place)
    BY <1>2, <1>4, StoreMoves
<1> QED
    BY <1>1, <1>2, <1>3, <1>4 DEF NextRuleFails

LEMMA ListMoves ==
    ASSUME AccountsInv, AlertsType, NEW ch \in DOMAIN jobs, ListUsers(ch)
    PROVE  /\ Moves(ch, "users", "notify") /\ SameRule(ch)
           /\ jobs'[ch].users = DOMAIN users
BY DEF ListUsers, At, Moves, SameRule, AlertsType, JobRow, Place, AccountsInv,
       AccountsType

\* An error of CreateNotification sends the goroutine on.
LEMMA ErrorMoves ==
    ASSUME AlertsType, NEW ch \in DOMAIN jobs, NEW from, At(ch, from), NEW n,
           \E place \in AfterError(n) : Goto(ch, place)
    PROVE  /\ Moves(ch, from, "webhook") \/ Moves(ch, from, "next")
           /\ SameRule(ch) /\ SameUsers(ch)
BY GotoMoves DEF AfterError, Place

LEMMA NotifyMoves ==
    ASSUME AlertsType, NEW ch \in DOMAIN jobs, NEW u \in User, NotifyUser(ch, u)
    PROVE  /\ SameRule(ch)
           /\ \/ /\ u \in DOMAIN users /\ Note(ch) \in DOMAIN notes
                 /\ inbox' = PutNew(inbox, Mark(u, Note(ch)), FALSE)
                 /\ jobs'[ch].users = jobs[ch].users \ {u}
                 /\ Moves(ch, "notify", "notify")
                 /\ UNCHANGED cut
              \/ /\ ~(u \in DOMAIN users /\ Note(ch) \in DOMAIN notes)
                 /\ Moves(ch, "notify", "webhook") \/ Moves(ch, "notify", "next")
                 /\ SameUsers(ch)
                 /\ cut' = cut \cup {Note(ch)}
                 /\ UNCHANGED inbox
<1>1. CASE Markable(ch, u)
    <2>1. /\ jobs' = [jobs EXCEPT ![ch] =
                       [jobs[ch] EXCEPT !.users = jobs[ch].users \ {u}]]
          /\ inbox' = PutNew(inbox, Mark(u, Note(ch)), FALSE)
          /\ jobs[ch].at = "notify"
          /\ UNCHANGED cut
        BY <1>1 DEF NotifyUser, At
    <2>2. /\ Moves(ch, "notify", "notify") /\ SameRule(ch)
          /\ jobs'[ch].users = jobs[ch].users \ {u}
        BY <2>1 DEF Moves, SameRule, AlertsType, JobRow, Place
    <2> QED
        BY <1>1, <2>1, <2>2 DEF Markable
<1>2. CASE ~Markable(ch, u)
    <2>1. /\ At(ch, "notify") /\ cut' = cut \cup {Note(ch)} /\ UNCHANGED inbox
          /\ \E place \in AfterError(Note(ch)) : Goto(ch, place)
        BY <1>2 DEF NotifyUser
    <2> QED
        BY <1>2, <2>1, ErrorMoves DEF Markable
<1> QED
    BY <1>1, <1>2

\* The failing statements of the goroutines but for the one of NextRuleFails.
LEMMA FailingMoves ==
    ASSUME AlertsType, NEW ch \in DOMAIN jobs
    PROVE  /\ MatchFails(ch) =>
                 /\ matched' = Put(matched, ch, Matches(jobs[ch].change))
                 /\ failed' = failed \cup {ch}
                 /\ Moves(ch, "match", "done") /\ SameRule(ch) /\ SameUsers(ch)
           /\ ListUsersFails(ch) =>
                 /\ Moves(ch, "users", "webhook") \/ Moves(ch, "users", "next")
                 /\ SameRule(ch) /\ SameUsers(ch)
                 /\ failed' = failed \cup {Note(ch)}
           /\ \A u \in User : NotifyUserFails(ch, u) =>
                 /\ Moves(ch, "notify", "webhook") \/ Moves(ch, "notify", "next")
                 /\ SameRule(ch) /\ SameUsers(ch)
                 /\ failed' = failed \cup {Note(ch)}
           /\ RecordStatusFails(ch) =>
                 /\ Moves(ch, "sent", "next") \/ Moves(ch, "failed", "next")
                 /\ SameRule(ch) /\ SameUsers(ch)
<1>1. ASSUME MatchFails(ch)
      PROVE  /\ matched' = Put(matched, ch, Matches(jobs[ch].change))
             /\ failed' = failed \cup {ch}
             /\ Moves(ch, "match", "done") /\ SameRule(ch) /\ SameUsers(ch)
    BY <1>1, GotoMoves DEF MatchFails, Place
<1>2. ASSUME ListUsersFails(ch)
      PROVE  /\ Moves(ch, "users", "webhook") \/ Moves(ch, "users", "next")
             /\ SameRule(ch) /\ SameUsers(ch)
             /\ failed' = failed \cup {Note(ch)}
    BY <1>2, ErrorMoves DEF ListUsersFails
<1>3. ASSUME NEW u \in User, NotifyUserFails(ch, u)
      PROVE  /\ Moves(ch, "notify", "webhook") \/ Moves(ch, "notify", "next")
             /\ SameRule(ch) /\ SameUsers(ch)
             /\ failed' = failed \cup {Note(ch)}
    BY <1>3, ErrorMoves DEF NotifyUserFails
<1>4. ASSUME RecordStatusFails(ch)
      PROVE  /\ Moves(ch, "sent", "next") \/ Moves(ch, "failed", "next")
             /\ SameRule(ch) /\ SameUsers(ch)
    BY <1>4, GotoMoves DEF RecordStatusFails, Place
<1> QED
    BY <1>1, <1>2, <1>3, <1>4

\* The process dies: goroutines that are not done never move again.
LEMMA CrashMoves ==
    ASSUME AlertsType, Crash
    PROVE  /\ DOMAIN jobs' = DOMAIN jobs /\ jobs' \in [DOMAIN jobs -> JobRow]
           /\ \A ch \in DOMAIN jobs :
                 /\ jobs'[ch] = jobs[ch] \/ jobs'[ch].at = "dead"
                 /\ jobs[ch].at = "done" => jobs'[ch] = jobs[ch]
                 /\ SameRule(ch) /\ jobs'[ch].change = jobs[ch].change
BY DEF Crash, AlertsType, JobRow, Place, SameRule

\* The calls of a webhook.
LEMMA WebhookMoves ==
    ASSUME AlertsType, NEW ch \in DOMAIN jobs,
           \/ NoWebhook(ch) \/ Taken(ch) \/ KnownDuplicate(ch) \/ TakenUnanswered(ch)
           \/ Unreached(ch) \/ Refused(ch) \/ UrlRefused(ch)
    PROVE  /\ SameRule(ch) /\ SameUsers(ch)
           /\ \/ Moves(ch, "webhook", "next") /\ UNCHANGED <<sentTo, unanswered>>
              \/ /\ Moves(ch, "webhook", "sent")
                 /\ \/ /\ sentTo' = [sentTo EXCEPT ![Note(ch)] = @ + 1]
                       /\ UNCHANGED unanswered
                    \/ sentTo[Note(ch)] > 0 /\ UNCHANGED <<sentTo, unanswered>>
              \/ /\ Moves(ch, "webhook", "webhook") \/ Moves(ch, "webhook", "failed")
                 /\ \/ /\ sentTo' = [sentTo EXCEPT ![Note(ch)] = @ + 1]
                       /\ unanswered' = [unanswered EXCEPT ![Note(ch)] = @ + 1]
                    \/ UNCHANGED <<sentTo, unanswered>>
           /\ UNCHANGED <<accountVars, tableVars, matched, audience, cut, failed, torn>>
<1>1. CASE NoWebhook(ch)
    BY <1>1, GotoMoves DEF NoWebhook, historyVars, Place
<1>2. CASE Taken(ch)
    BY <1>2, SettleMoves DEF Taken, Place
<1>3. CASE KnownDuplicate(ch)
    BY <1>3, SettleMoves DEF KnownDuplicate, historyVars, Place
<1>4. CASE TakenUnanswered(ch)
    BY <1>4, RetryMoves DEF TakenUnanswered
<1>5. CASE Unreached(ch)
    BY <1>5, RetryMoves DEF Unreached, historyVars
<1>6. CASE Refused(ch)
    BY <1>6, SettleMoves DEF Refused, historyVars, Place
<1>7. CASE UrlRefused(ch)
    BY <1>7, SettleMoves DEF UrlRefused, historyVars, Place
<1> QED
    BY <1>1, <1>2, <1>3, <1>4, <1>5, <1>6, <1>7

LEMMA RecordMoves ==
    ASSUME AlertsType, NEW ch \in DOMAIN jobs, RecordStatus(ch)
    PROVE  /\ Moves(ch, "sent", "next") \/ Moves(ch, "failed", "next")
           /\ SameRule(ch) /\ SameUsers(ch)
           /\ DOMAIN notes' = DOMAIN notes /\ notes' \in [DOMAIN notes -> NoteRow]
           /\ \A n \in DOMAIN notes :
                 notes'[n].sent => notes[n].sent \/ (n = Note(ch) /\ At(ch, "sent"))
<1>1. /\ At(ch, "sent") \/ At(ch, "failed")
      /\ Goto(ch, "next")
    BY DEF RecordStatus
<1>2. DOMAIN notes' = DOMAIN notes /\ notes' \in [DOMAIN notes -> NoteRow]
    BY DEF RecordStatus, AlertsType, NoteRow, At
<1>3. \A n \in DOMAIN notes :
         notes'[n].sent => notes[n].sent \/ (n = Note(ch) /\ At(ch, "sent"))
    BY DEF RecordStatus, AlertsType, NoteRow, At
<1> QED
    BY <1>1, <1>2, <1>3, GotoMoves DEF Place

\* The steps of the goroutines, one after the other.
JobStep(ch) ==
    \/ MatchRules(ch) \/ MatchFails(ch)
    \/ \E r \in jobs[ch].todo : NextRule(ch, r) \/ NextRuleFails(ch, r)
    \/ AllRulesDone(ch)
    \/ ListUsers(ch) \/ ListUsersFails(ch)
    \/ \E u \in User : NotifyUser(ch, u) \/ NotifyUserFails(ch, u)
    \/ AllUsersNotified(ch)
    \/ NoWebhook(ch)
    \/ Taken(ch) \/ KnownDuplicate(ch) \/ TakenUnanswered(ch)
    \/ Unreached(ch) \/ Refused(ch) \/ UrlRefused(ch)
    \/ RecordStatus(ch) \/ RecordStatusFails(ch)

\* AllRulesDone and AllUsersNotified.
LEMMA DoneMoves ==
    ASSUME AlertsType, NEW ch \in DOMAIN jobs
    PROVE  /\ AllRulesDone(ch) => /\ Moves(ch, "next", "done")
                                  /\ SameRule(ch) /\ SameUsers(ch)
                                  /\ jobs[ch].todo = {}
           /\ AllUsersNotified(ch) => /\ Moves(ch, "notify", "webhook")
                                      /\ SameRule(ch) /\ SameUsers(ch)
                                      /\ jobs[ch].users = {}
BY GotoMoves DEF AllRulesDone, AllUsersNotified, Place

LEMMA JobStepsType ==
    ASSUME AccountsInv, AlertsType, NEW ch \in DOMAIN jobs, JobStep(ch)
    PROVE  AlertsType'
<1> DEFINE JobsTyped ==
              /\ DOMAIN jobs' = DOMAIN jobs /\ jobs' \in [DOMAIN jobs -> JobRow]
              /\ \A x \in DOMAIN jobs :
                    jobs'[x].at \in AtRule => jobs'[x].rule \in Entry
           MatchedTyped ==
              /\ DOMAIN matched' \subseteq DOMAIN jobs
              /\ \A x \in DOMAIN matched' : matched'[x] \subseteq Entry
<1>0. jobs[ch].at \in AtRule => jobs[ch].rule \in Entry
    BY DEF AlertsType
<1>a. matched' = Put(matched, ch, Matches(jobs[ch].change)) => MatchedTyped
    <2>1. Matches(jobs[ch].change) \subseteq Entry
        BY FoundEntries
    <2> QED
        BY <2>1 DEF Put, AlertsType
<1>1. CASE MatchRules(ch)
    <2>1. JobsTyped
        BY <1>1, MatchMoves, MovesType DEF AtRule
    <2>2. MatchedTyped
        BY <1>1, <1>a, MatchMoves
    <2> QED
        BY <1>1, <2>1, <2>2 DEF MatchRules, AlertsType, accountVars, tableVars
<1>1a. CASE MatchFails(ch)
    <2>1. JobsTyped
        BY <1>1a, FailingMoves, MovesType DEF AtRule
    <2>2. MatchedTyped
        BY <1>1a, <1>a, FailingMoves
    <2> QED
        BY <1>1a, <2>1, <2>2 DEF MatchFails, AlertsType, accountVars, tableVars
<1>2. ASSUME NEW r \in jobs[ch].todo, NextRule(ch, r) \/ NextRuleFails(ch, r)
      PROVE  AlertsType'
    <2>1. /\ r \in Entry
          /\ \/ /\ notes' = Put(notes, <<r.id, ch>>, [sent |-> FALSE, error |-> FALSE])
                /\ jobs'[ch].rule = r
                /\ \/ Moves(ch, "next", "users") \/ Moves(ch, "next", "webhook")
                   \/ Moves(ch, "next", "next")
             \/ notes' = notes /\ Moves(ch, "next", "next")
        BY <1>2, NextMoves, NextFailsMoves DEF Stored, Skipped
    <2>2. JobsTyped
        BY <2>1, MovesType DEF AtRule
    <2>3. [sent |-> FALSE, error |-> FALSE] \in NoteRow
        BY DEF NoteRow
    <2>4. notes' \in [DOMAIN notes' -> NoteRow]
        BY <2>1, <2>3 DEF Put, AlertsType
    <2> QED
        BY <1>2, <2>2, <2>4 DEF NextRule, NextRuleFails, AlertsType, accountVars,
                                historyVars
<1>3. CASE AllRulesDone(ch)
    <2>1. JobsTyped
        BY <1>3, DoneMoves, MovesType DEF AtRule
    <2> QED
        BY <1>3, <2>1
        DEF AllRulesDone, AlertsType, accountVars, historyVars, tableVars
<1>4. CASE ListUsers(ch)
    <2>1. JobsTyped
        BY <1>0, <1>4, ListMoves, MovesType DEF AtRule, Moves, SameRule
    <2> QED
        BY <1>4, <2>1 DEF ListUsers, AlertsType, accountVars, tableVars
<1>4a. CASE ListUsersFails(ch)
    <2>1. JobsTyped
        BY <1>0, <1>4a, FailingMoves, MovesType DEF AtRule, Moves, SameRule
    <2> QED
        BY <1>4a, <2>1 DEF ListUsersFails, AlertsType, accountVars, tableVars
<1>5. ASSUME NEW u \in User, NotifyUser(ch, u) PROVE AlertsType'
    <2>1. JobsTyped
        BY <1>0, <1>5, NotifyMoves, MovesType DEF AtRule, Moves, SameRule
    <2> QED
        BY <1>5, <2>1 DEF NotifyUser, AlertsType, accountVars
<1>5a. ASSUME NEW u \in User, NotifyUserFails(ch, u) PROVE AlertsType'
    <2>1. JobsTyped
        BY <1>0, <1>5a, FailingMoves, MovesType DEF AtRule, Moves, SameRule
    <2> QED
        BY <1>5a, <2>1 DEF NotifyUserFails, AlertsType, accountVars
<1>6. CASE AllUsersNotified(ch)
    <2>1. JobsTyped
        BY <1>0, <1>6, DoneMoves, MovesType DEF AtRule, Moves, SameRule
    <2> QED
        BY <1>6, <2>1
        DEF AllUsersNotified, AlertsType, accountVars, historyVars, tableVars
<1>7. ASSUME \/ NoWebhook(ch) \/ Taken(ch) \/ KnownDuplicate(ch) \/ TakenUnanswered(ch)
             \/ Unreached(ch) \/ Refused(ch) \/ UrlRefused(ch)
      PROVE  AlertsType'
    <2>1. JobsTyped
        BY <1>0, <1>7, WebhookMoves, MovesType DEF AtRule, Moves, SameRule
    <2>2. sentTo' \in [NoteId -> Nat] /\ unanswered' \in [NoteId -> Nat]
        BY <1>7, WebhookMoves DEF AlertsType
    <2>3. UNCHANGED <<accountVars, tableVars, matched>>
        BY <1>7, WebhookMoves
    <2> QED
        BY <2>1, <2>2, <2>3 DEF AlertsType, accountVars, tableVars
<1>8. CASE RecordStatus(ch)
    <2>1. JobsTyped
        BY <1>8, RecordMoves, MovesType DEF AtRule
    <2>2. notes' \in [DOMAIN notes' -> NoteRow]
        BY <1>8, RecordMoves
    <2> QED
        BY <1>8, <2>1, <2>2 DEF RecordStatus, AlertsType, accountVars, historyVars
<1>9. CASE RecordStatusFails(ch)
    <2>1. JobsTyped
        BY <1>9, FailingMoves, MovesType DEF AtRule
    <2> QED
        BY <1>9, <2>1
        DEF RecordStatusFails, AlertsType, accountVars, tableVars, historyVars
<1> QED
    BY <1>1, <1>1a, <1>2, <1>3, <1>4, <1>4a, <1>5, <1>5a, <1>6, <1>7, <1>8, <1>9
    DEF JobStep

\* A user who is not there any more never comes back.
UsersFlow ==
    /\ held \subseteq held'
    /\ \A u \in DOMAIN users' \ DOMAIN users : \A h \in held : h.user # u
    /\ \A u \in DOMAIN users \ DOMAIN users' : \E h \in held' : h.user = u

LEMMA AccountsFlow == AccountsNext => UsersFlow
<1> SUFFICES ASSUME AccountsNext PROVE UsersFlow
    OBVIOUS
<1>1. CASE UNCHANGED <<users, held>>
    BY <1>1 DEF UsersFlow
<1>2. ASSUME NEW u, NEW n, NEW role, FreshUser(u), CreateUser(u, n, role),
             UNCHANGED held
      PROVE  UsersFlow
    BY <1>2 DEF UsersFlow, FreshUser, CreateUser, Put
<1>3. ASSUME NEW tok, NEW u, NEW role, UpdateUser(tok, u, role) PROVE UsersFlow
    BY <1>3 DEF UsersFlow, UpdateUser, SetRole, Lost
<1>4. ASSUME NEW tok, NEW u, DeleteUser(tok, u) PROVE UsersFlow
    <2>1. /\ DOMAIN users' = DOMAIN users \ {u}
          /\ held' = held \cup {[user |-> u, role |-> users[u].role, at |-> clock]}
        BY <1>4 DEF DeleteUser, Lost, Restrict
    <2> DEFINE h == [user |-> u, role |-> users[u].role, at |-> clock]
    <2>2. h \in held' /\ h.user = u
        BY <2>1
    <2> QED
        BY <2>1, <2>2 DEF UsersFlow
<1>5. ASSUME NEW c \in Client, NEW u \in User, RegisterInsert(c, u) PROVE UsersFlow
    BY <1>2, <1>5 DEF RegisterInsert
<1>6. ASSUME NEW p \in Process, NEW u \in User, BootstrapInsert(p, u) PROVE UsersFlow
    <2>1. FreshUser(u) /\ CreateUser(u, admin, "admin") /\ UNCHANGED held
        BY <1>6 DEF BootstrapInsert
    <2> QED
        BY <1>2, <2>1
<1>7. ASSUME NEW c \in Client, NEW u \in User, Login(c, u) PROVE UsersFlow
    BY <1>1, <1>7 DEF Login
<1>8. ASSUME NEW c \in Client, NEW tok \in tokens, RefreshToken(c, tok) PROVE UsersFlow
    BY <1>1, <1>8 DEF RefreshToken
<1>9. ASSUME NEW c \in Client, NEW tok \in tokens, NEW n, NEW role,
             Register(c, tok, n, role)
      PROVE  UsersFlow
    BY <1>1, <1>9 DEF Register
<1>10. ASSUME NEW c \in Client, SignTokens(c) PROVE UsersFlow
    BY <1>1, <1>10 DEF SignTokens
<1>11. ASSUME NEW p \in Process,
              BootstrapList(p) \/ BootstrapCheck(p) \/ BootstrapGivesUp(p)
       PROVE  UsersFlow
    BY <1>1, <1>11 DEF BootstrapList, BootstrapCheck, BootstrapGivesUp
<1>12. CASE Tick
    BY <1>1, <1>12 DEF Tick
<1> QED
    BY <1>3, <1>4, <1>5, <1>6, <1>7, <1>8, <1>9, <1>10, <1>11, <1>12
    DEF AccountsNext

\* Every other step leaves the rules, the notifications and the goroutines
\* alone: those of the accounts, of the browser and of the processes that start.
OtherStep ==
    /\ NoRescope /\ UsersFlow
    /\ UNCHANGED <<mix, sources, objects, rules, changes, notes, jobs, historyVars>>
    /\ \/ UNCHANGED <<users, inbox>>
       \/ inbox' = Keep(inbox, {x \in DOMAIN inbox : x[1] \in DOMAIN users'})

LEMMA AccountsNoRescope ==
    ASSUME AccountsInv, AccountsNext PROVE NoRescope /\ UNCHANGED mix
<1>0. DOMAIN calls = Client
    BY DEF AccountsInv, AccountsType
<1>1. ASSUME NEW c \in Client, NEW u \in User, Login(c, u) \/ RegisterInsert(c, u)
      PROVE  NoRescope /\ UNCHANGED mix
    BY <1>0, <1>1 DEF Login, RegisterInsert, ToSign, Finish, Idle, NoRescope
<1>2. ASSUME NEW c \in Client, NEW tok \in tokens, NEW n, NEW role,
             RefreshToken(c, tok) \/ Register(c, tok, n, role)
      PROVE  NoRescope /\ UNCHANGED mix
    BY <1>0, <1>2 DEF RefreshToken, Register, ToSign, NoRescope
<1>2a. ASSUME NEW c \in Client, NEW tok \in tokens, RefreshToken(c, tok)
       PROVE  NoRescope /\ UNCHANGED mix
    BY <1>2, <1>2a
<1>3. ASSUME NEW c \in Client, SignTokens(c) PROVE NoRescope /\ UNCHANGED mix
    BY <1>0, <1>3 DEF SignTokens, Finish, Idle, NoRescope
<1>4. ASSUME NEW tok \in tokens, NEW u \in User, NEW role,
             UpdateUser(tok, u, role) \/ DeleteUser(tok, u)
      PROVE  NoRescope /\ UNCHANGED mix
    BY <1>4 DEF UpdateUser, DeleteUser, NoRescope
<1>4a. ASSUME NEW tok \in tokens, NEW u \in User, DeleteUser(tok, u)
       PROVE  NoRescope /\ UNCHANGED mix
    BY <1>4, <1>4a
<1>5. ASSUME NEW p \in Process,
             \/ BootstrapList(p) \/ BootstrapCheck(p) \/ BootstrapGivesUp(p)
             \/ \E u \in User : BootstrapInsert(p, u)
      PROVE  NoRescope /\ UNCHANGED mix
    BY <1>5 DEF BootstrapList, BootstrapCheck, BootstrapGivesUp, BootstrapInsert,
                NoRescope
<1>6. CASE Tick
    BY <1>6 DEF Tick, NoRescope
<1> QED
    BY <1>1, <1>2, <1>2a, <1>3, <1>4, <1>4a, <1>5, <1>6 DEF AccountsNext

LEMMA StartUpNoRescope ==
    StartUpNext => NoRescope /\ UNCHANGED <<mix, users, held>>
BY DEF StartUpNext, OpenSQLite, ReadSchemaFile, CreateTables, CreateBuiltinIndex,
       CreateLateTables, ReadDefinition, Rebuild, DeduplicateMarks, Deduplicate,
       AddTermFields, CreatePostIndex, CreatePostTables, OpenPostgres, SkipApplied,
       FindMissing, Migrate, Restart, Step, CreateUnique, NoRescope

\* What a step of the system is to the alerts.
LEMMA AlertsSteps ==
    ASSUME AccountsInv, [Next]_vars
    PROVE  \/ RuleStep
           \/ \E ch \in DOMAIN jobs : JobStep(ch)
           \/ Crash
           \/ \E u \in User, marks \in SUBSET DOMAIN inbox : MarkRead(u, marks)
           \/ OtherStep
<1>1. CASE AccountsNext /\ AlertsFollow
    <2>1. NoRescope /\ UNCHANGED mix
        BY <1>1, AccountsNoRescope
    <2> QED
        BY <1>1, <2>1, AccountsFlow DEF AlertsFollow, OtherStep
<1>2. CASE AlertsNext
    BY <1>2 DEF AlertsNext, RuleStep, JobStep
<1>3. CASE UNCHANGED <<accountVars, alertVars>>
    BY <1>3 DEF accountVars, alertVars, tableVars, historyVars, OtherStep, NoRescope,
                UsersFlow
<1>4. CASE StartUpNext /\ UNCHANGED alertVars
    BY <1>4, StartUpNoRescope DEF alertVars, tableVars, historyVars, OtherStep,
                                  UsersFlow
<1> QED
    BY <1>1, <1>2, <1>3, <1>4 DEF Next, vars

LEMMA AlertsTyped ==
    /\ Init => AlertsType
    /\ AccountsInv /\ AlertsType /\ [Next]_vars => AlertsType'
<1>1. Init => AlertsType
    BY AlertTrafficAssumption
    DEF Init, AccountsInit, AlertsInit, AlertsType, Empty, Idle
<1>2. ASSUME AccountsInv, AlertsType, [Next]_vars PROVE AlertsType'
    <2>1. CASE RuleStep
        BY <1>2, <2>1, RuleStepsType
    <2>2. ASSUME NEW ch \in DOMAIN jobs, JobStep(ch) PROVE AlertsType'
        BY <1>2, <2>2, JobStepsType
    <2>3. CASE Crash
        <3>1. /\ DOMAIN jobs' = DOMAIN jobs /\ jobs' \in [DOMAIN jobs -> JobRow]
              /\ \A ch \in DOMAIN jobs : jobs'[ch].at \in AtRule => jobs'[ch].rule \in Entry
            BY <1>2, <2>3, CrashMoves DEF AtRule, AlertsType
        <3> QED
            BY <1>2, <2>3, <3>1 DEF Crash, AlertsType, tableVars, Idle
    <2>4. ASSUME NEW u \in User, NEW marks, MarkRead(u, marks) PROVE AlertsType'
        BY <1>2, <2>4 DEF MarkRead, AlertsType, historyVars
    <2>5. CASE OtherStep
        BY <1>2, <2>5, TypeKept DEF OtherStep, typedVars, historyVars
    <2> QED
        BY <1>2, <2>1, <2>2, <2>3, <2>4, <2>5, AlertsSteps
<1> QED
    BY <1>1, <1>2

(***************************************************************************)
(* The scope of a rule.                                                    *)
(***************************************************************************)
Agree(source, object) ==
    source # None /\ object # None => SourceOf[object] = source

\* What a request and the rule it has seen make together was validated.
ScopeInv ==
    /\ \A c \in Client : calls[c].op = "rescope" =>
          Agree(Given(calls[c].row.source, calls[c].seen.source),
                Given(calls[c].row.object, calls[c].seen.object))
    /\ \A r \in DOMAIN rules \ torn : Agree(rules[r].source, rules[r].object)

LEMMA ScopeKept ==
    ASSUME ScopeInv, NoRescope, torn \subseteq torn', DOMAIN rules' \subseteq DOMAIN rules,
           \A r \in DOMAIN rules' : rules'[r] = rules[r]
    PROVE  ScopeInv'
BY DEF ScopeInv, NoRescope, Agree, Given

LEMMA RuleStepsScope ==
    ASSUME AccountsInv, AlertsType, ScopeInv, RuleStep PROVE ScopeInv'
<1>0. DOMAIN calls = Client
    BY DEF AccountsInv, AccountsType
<1>a. mix.rows \subseteq RuleForm
    BY AlertTrafficAssumption DEF AlertsType
<1>1. ASSUME NEW r \in AlertRule, NEW row \in mix.rows, CreateAlertRule(r, row)
      PROVE  ScopeInv'
    <2>1. Agree(row.source, row.object)
        BY <1>1 DEF CreateAlertRule, ScopeValid, Agree
    <2>2. Agree(Normalized(row).source, Normalized(row).object)
        BY <1>a, <2>1, NormalizedRow
    <2>3. rules' = Put(rules, r, Normalized(row)) /\ UNCHANGED <<calls, torn>>
        BY <1>1 DEF CreateAlertRule, InsertAlertRule, historyVars
    <2>4. \A x \in DOMAIN rules' \ torn' : Agree(rules'[x].source, rules'[x].object)
        BY <2>2, <2>3 DEF Put, ScopeInv
    <2> QED
        BY <2>3, <2>4 DEF ScopeInv, Agree, Given
<1>2. ASSUME NEW c \in Client, NEW r \in AlertRule, NEW row \in mix.rows,
             UpdateAlertRuleCheck(c, r, row)
      PROVE  ScopeInv'
    <2>1. Agree(Given(row.source, rules[r].source), Given(row.object, rules[r].object))
        BY <1>2 DEF UpdateAlertRuleCheck, Agree
    <2>2. /\ calls'[c].row = row /\ calls'[c].seen = rules[r]
          /\ \A d \in Client \ {c} : calls'[d] = calls[d]
          /\ UNCHANGED <<rules, torn>>
        BY <1>0, <1>2 DEF UpdateAlertRuleCheck, alertVars, tableVars, historyVars
    <2> QED
        BY <2>1, <2>2 DEF ScopeInv, Agree, Given
<1>3. ASSUME NEW r \in AlertRule, DeleteAlertRule(r) PROVE ScopeInv'
    BY <1>3, ScopeKept DEF DeleteAlertRule, Keep, Restrict, historyVars, NoRescope
<1>4. ASSUME NEW c \in Client, UpdateAlertRuleWrite(c) PROVE ScopeInv'
    <2> DEFINE r == calls[c].rule
               new == Normalized(calls[c].row)
               row == [new EXCEPT !.source = Given(@, rules[r].source),
                                  !.object = Given(@, rules[r].object)]
    <2>1. /\ calls[c].row \in RuleForm /\ calls[c].op = "rescope"
          /\ new \in RuleRow /\ new.source = calls[c].row.source
          /\ new.object = calls[c].row.object
        BY <1>4, NormalizedRow DEF UpdateAlertRuleWrite, AlertsType
    <2>2. NoRescope
        BY <1>0, <1>4 DEF UpdateAlertRuleWrite, Finish, Idle, NoRescope
    <2>3. CASE /\ r \in DOMAIN rules
               /\ rules' = [rules EXCEPT ![r] = row]
               /\ torn' = IF rules[r] = calls[c].seen THEN torn ELSE torn \cup {r}
        <3>1. /\ row.source = Given(calls[c].row.source, rules[r].source)
              /\ row.object = Given(calls[c].row.object, rules[r].object)
            BY <2>1 DEF RuleRow
        <3>2. rules[r] = calls[c].seen => Agree(row.source, row.object)
            BY <2>1, <3>1 DEF ScopeInv
        <3> HIDE DEF row
        <3>3. \A x \in DOMAIN rules' \ torn' : Agree(rules'[x].source, rules'[x].object)
            BY <2>3, <3>2 DEF ScopeInv
        <3> QED
            BY <2>2, <3>3 DEF ScopeInv, NoRescope, Agree, Given
    <2>4. CASE UNCHANGED <<rules, torn>>
        BY <2>2, <2>4, ScopeKept
    <2> QED
        BY <1>4, <2>3, <2>4 DEF UpdateAlertRuleWrite
<1>5. ASSUME NEW ch \in Change, NEW o \in Object, NEW kind \in Kind,
             DetectChange(ch, o, kind)
      PROVE  ScopeInv'
    BY <1>5, ScopeKept DEF DetectChange, historyVars, NoRescope
<1>6. ASSUME NEW s \in Source,
             DeleteSourceObjects(s) \/ DeleteSourceChanges(s) \/ DeleteSource(s)
      PROVE  ScopeInv'
    BY <1>6, ScopeKept
    DEF DeleteSourceObjects, DeleteSourceChanges, DeleteSource, Keep, Restrict,
        historyVars, accountVars, NoRescope
<1> QED
    BY <1>1, <1>2, <1>3, <1>4, <1>5, <1>6 DEF RuleStep

\* The goroutines leave rules, requests, sources and changes alone.
LEMMA JobsLeave ==
    ASSUME NEW ch \in DOMAIN jobs, JobStep(ch)
    PROVE  UNCHANGED <<accountVars, sources, objects, rules, changes, torn>>
BY DEF JobStep, MatchRules, MatchFails, NextRule, NextRuleFails, AllRulesDone,
       ListUsers, ListUsersFails, NotifyUser, NotifyUserFails, AllUsersNotified,
       NoWebhook, Taken, KnownDuplicate, TakenUnanswered, Unreached, Refused,
       UrlRefused, RecordStatus, RecordStatusFails, tableVars, historyVars

\* A rule with a source and an object never pairs an object with a source it
\* does not belong to, unless two updates of the rule overlapped.
THEOREM ScopesAgree == Spec => []ScopeAgrees
<1>1. Init => ScopeInv
    BY DEF Init, AccountsInit, AlertsInit, ScopeInv, Empty, Idle
<1>2. AccountsInv /\ AlertsType /\ ScopeInv /\ [Next]_vars => ScopeInv'
    <2> SUFFICES ASSUME AccountsInv, AlertsType, ScopeInv, [Next]_vars
                 PROVE  ScopeInv'
        OBVIOUS
    <2>1. CASE RuleStep
        BY <2>1, RuleStepsScope
    <2>2. ASSUME NEW ch \in DOMAIN jobs, JobStep(ch) PROVE ScopeInv'
        BY <2>2, JobsLeave, ScopeKept DEF accountVars, NoRescope
    <2>3. CASE Crash
        BY <2>3, ScopeKept DEF Crash, tableVars, Idle, NoRescope
    <2>4. ASSUME NEW u \in User, NEW marks, MarkRead(u, marks) PROVE ScopeInv'
        BY <2>4, ScopeKept DEF MarkRead, historyVars, NoRescope
    <2>5. CASE OtherStep
        BY <2>5, ScopeKept DEF OtherStep, historyVars
    <2> QED
        BY <2>1, <2>2, <2>3, <2>4, <2>5, AlertsSteps
<1>3. ScopeInv => ScopeAgrees
    BY DEF ScopeInv, ScopeAgrees, Agree
<1> QED
    BY <1>1, <1>2, <1>3, AccountsInductive, AlertsTyped, PTL DEF Spec

(***************************************************************************)
(* What refers to what.                                                    *)
(***************************************************************************)
ReferenceInv ==
    /\ \A r \in DOMAIN rules : rules[r].source \in sources \cup {None}
    /\ DOMAIN notes \subseteq (DOMAIN rules) \X (DOMAIN changes)
    /\ \A x \in DOMAIN inbox :
          x[1] \in DOMAIN users /\ <<x[2], x[3]>> \in DOMAIN notes

LEMMA RuleStepsRefer ==
    ASSUME AccountsInv, AlertsType, ReferenceInv, RuleStep PROVE ReferenceInv'
<1>a. mix.rows \subseteq RuleForm
    BY AlertTrafficAssumption DEF AlertsType
<1>1. ASSUME NEW r \in AlertRule, NEW row \in mix.rows, CreateAlertRule(r, row)
      PROVE  ReferenceInv'
    <2>1. Normalized(row).source \in sources \cup {None}
        BY <1>1, <1>a, NormalizedRow DEF CreateAlertRule, ScopeValid
    <2>2. /\ rules' = Put(rules, r, Normalized(row))
          /\ UNCHANGED <<users, sources, changes, notes, inbox>>
        BY <1>1 DEF CreateAlertRule, InsertAlertRule
    <2> QED
        BY <2>1, <2>2 DEF ReferenceInv, Put
<1>2. ASSUME NEW c \in Client, NEW r \in AlertRule, NEW row \in mix.rows,
             UpdateAlertRuleCheck(c, r, row)
      PROVE  ReferenceInv'
    BY <1>2 DEF UpdateAlertRuleCheck, alertVars, tableVars, ReferenceInv
<1>3. ASSUME NEW r \in AlertRule, DeleteAlertRule(r) PROVE ReferenceInv'
    BY <1>3 DEF DeleteAlertRule, CascadeNotes, Keep, Restrict, ReferenceInv
<1>4. ASSUME NEW c \in Client, UpdateAlertRuleWrite(c) PROVE ReferenceInv'
    <2> DEFINE r == calls[c].rule
               new == Normalized(calls[c].row)
               row == [new EXCEPT !.source = Given(@, rules[r].source),
                                  !.object = Given(@, rules[r].object)]
    <2>0. new \in RuleRow
        BY <1>4, NormalizedRow DEF UpdateAlertRuleWrite, AlertsType
    <2>1. UNCHANGED <<users, sources, changes, notes, inbox>>
        BY <1>4 DEF UpdateAlertRuleWrite
    <2>2. CASE /\ r \in DOMAIN rules /\ new.source \in sources \cup {None}
               /\ rules' = [rules EXCEPT ![r] = row]
        <3>1. row.source = Given(new.source, rules[r].source)
            BY <2>0 DEF RuleRow
        <3>2. row.source \in sources \cup {None}
            BY <2>2, <3>1 DEF Given, ReferenceInv
        <3> HIDE DEF row
        <3> QED
            BY <2>1, <2>2, <3>2 DEF ReferenceInv
    <2>3. CASE UNCHANGED rules
        BY <2>1, <2>3 DEF ReferenceInv
    <2> QED
        BY <1>4, <2>2, <2>3 DEF UpdateAlertRuleWrite
<1>5. ASSUME NEW ch \in Change, NEW o \in Object, NEW kind \in Kind,
             DetectChange(ch, o, kind)
      PROVE  ReferenceInv'
    BY <1>5 DEF DetectChange, Put, ReferenceInv
<1>6. ASSUME NEW s \in Source,
             DeleteSourceObjects(s) \/ DeleteSourceChanges(s) \/ DeleteSource(s)
      PROVE  ReferenceInv'
    BY <1>6 DEF DeleteSourceObjects, DeleteSourceChanges, DeleteSource, CascadeNotes,
                Keep, Restrict, accountVars, ReferenceInv
<1> QED
    BY <1>1, <1>2, <1>3, <1>4, <1>5, <1>6 DEF RuleStep

\* User names are unique, and no rule, notification or unread mark outlives
\* what it refers to.
THEOREM PeopleIntact == Spec => []PeopleIntegrity
<1>1. Init => ReferenceInv
    BY DEF Init, AlertsInit, ReferenceInv, Empty
<1>2. AccountsInv /\ AlertsType /\ ReferenceInv /\ [Next]_vars => ReferenceInv'
    <2> SUFFICES ASSUME AccountsInv, AlertsType, ReferenceInv, [Next]_vars
                 PROVE  ReferenceInv'
        OBVIOUS
    <2>1. CASE RuleStep
        BY <2>1, RuleStepsRefer
    <2>2. ASSUME NEW ch \in DOMAIN jobs, JobStep(ch) PROVE ReferenceInv'
        <3>0. UNCHANGED <<users, sources, rules, changes>>
            BY <2>2, JobsLeave DEF accountVars
        <3>1. ASSUME NEW r \in jobs[ch].todo, NextRule(ch, r) \/ NextRuleFails(ch, r)
              PROVE  ReferenceInv'
            <4>1. UNCHANGED inbox
                BY <3>1 DEF NextRule, NextRuleFails
            <4>2. \/ /\ r.id \in DOMAIN rules /\ ch \in DOMAIN changes
                     /\ DOMAIN notes' = DOMAIN notes \cup {<<r.id, ch>>}
                  \/ notes' = notes
                BY <3>1, NextMoves, NextFailsMoves DEF Put, Stored, Skipped
            <4>3. DOMAIN notes \subseteq DOMAIN notes'
                BY <4>2
            <4>4. DOMAIN notes' \subseteq (DOMAIN rules') \X (DOMAIN changes')
                BY <3>0, <4>2 DEF ReferenceInv
            <4> QED
                BY <3>0, <4>1, <4>3, <4>4 DEF ReferenceInv
        <3>2. ASSUME NEW u \in User, NotifyUser(ch, u) \/ NotifyUserFails(ch, u)
              PROVE  ReferenceInv'
            <4> DEFINE x == Mark(u, Note(ch))
            <4>1. UNCHANGED notes
                BY <3>2 DEF NotifyUser, NotifyUserFails
            <4>2. \/ /\ u \in DOMAIN users /\ Note(ch) \in DOMAIN notes
                     /\ DOMAIN inbox' \subseteq DOMAIN inbox \cup {x}
                  \/ inbox' = inbox
                BY <3>2, NotifyMoves DEF NotifyUserFails, Markable, PutNew, Put
            <4>3. x[1] = u /\ <<x[2], x[3]>> = Note(ch)
                BY DEF Mark, Note
            <4> HIDE DEF x
            <4> QED
                BY <3>0, <4>1, <4>2, <4>3 DEF ReferenceInv
        <3>3. CASE RecordStatus(ch)
            <4>1. DOMAIN notes' = DOMAIN notes /\ UNCHANGED inbox
                BY <3>3, RecordMoves DEF RecordStatus
            <4> QED
                BY <3>0, <4>1 DEF ReferenceInv
        <3>4. CASE UNCHANGED <<notes, inbox>>
            BY <3>0, <3>4 DEF ReferenceInv
        <3> QED
            BY <2>2, <3>1, <3>2, <3>3, <3>4, WebhookMoves
            DEF JobStep, MatchRules, MatchFails, AllRulesDone, ListUsers,
                ListUsersFails, AllUsersNotified, RecordStatusFails, tableVars
    <2>3. CASE Crash
        BY <2>3 DEF Crash, tableVars, ReferenceInv
    <2>4. ASSUME NEW u \in User, NEW marks, MarkRead(u, marks) PROVE ReferenceInv'
        BY <2>4 DEF MarkRead, ReferenceInv
    <2>5. CASE OtherStep
        BY <2>5 DEF OtherStep, Keep, Restrict, ReferenceInv
    <2> QED
        BY <2>1, <2>2, <2>3, <2>4, <2>5, AlertsSteps
<1>3. AccountsInv /\ ReferenceInv => PeopleIntegrity
    BY DEF AccountsInv, NamesUniqueInv, ReferenceInv, PeopleIntegrity
<1> QED
    BY <1>1, <1>2, <1>3, AccountsInductive, AlertsTyped, PTL DEF Spec

(***************************************************************************)
(* The start of a process.                                                 *)
(***************************************************************************)
\* How far a process has come on SQLite, from behind.
PastIndex  == {"post tables"} \cup Serving
PastFields == {"index"} \cup PastIndex
PastNotes  == {"fields"} \cup PastFields
PastRules  == {"marks", "notes"} \cup PastNotes
PastChanges == {"alert_rules", "rebuild alert_rules"} \cup PastRules
PastSchema == {"schema_changes", "rebuild schema_changes"} \cup PastChanges
PastTables == {"unique", "late tables"} \cup PastSchema

\* What a process that has come to a place finds in the database.
SQLitePlace(at, d) ==
    /\ at \in {"open", "file", "tables", "failed"} \cup PastTables
    /\ at \in {"tables", "unique", "late tables"} => ~mix.file
    /\ at = "file" => mix.file
    /\ at = "failed" => ~mix.file /\ DuplicatesIn(mix.disk) # {}
    /\ at \in PastTables => "tables" \in d.has
    /\ at \in PastSchema /\ ~mix.file => "schedules" \in d.has
    /\ at \in PastChanges => "schema_changes" \notin d.cascades
    /\ at \in PastRules => "alert_rules" \notin d.cascades
    /\ at \in PastNotes => DuplicatesIn(d) = {}
    /\ at \in PastFields => "term fields" \in d.has
    /\ at \in PastIndex => "unique" \in d.has
    /\ at \in Serving => CompleteBut(NotBrought, d)

PostgresPlace(at, d) ==
    /\ \/ at \in {"open", "failed"} \cup Serving
       \/ \E v \in DOMAIN Version : at \in {Finding[v], Applying[v]}
    /\ at = "failed" => Range(d.versions) # Range(mix.disk.versions)
    /\ \A v \in DOMAIN Version :
          /\ at \in {Finding[v], Applying[v]} =>
                \A w \in 1 .. v - 1 : Version[w] \in Range(d.versions)
          /\ at = Applying[v] => Version[v] \notin Range(mix.disk.versions)
    /\ at \in Serving => CompleteBut(NotBrought, d)

PlaceOK(at, d) ==
    /\ mix.db = "sqlite" => SQLitePlace(at, d)
    /\ mix.db = "postgres" => PostgresPlace(at, d)

\* The notifications are what is left of those at the beginning.
NotesLeft(d) ==
    /\ DOMAIN d.notes \subseteq DOMAIN mix.disk.notes
    /\ \A n \in DOMAIN d.notes : d.notes[n] = mix.disk.notes[n]

OldestKept(d) ==
    mix.idle => \A n \in DOMAIN mix.disk.notes \ DuplicatesIn(mix.disk) :
        /\ n \in DOMAIN d.notes
        /\ {m \in mix.disk.marks : m[2] = n} \subseteq d.marks

DiskOK(d) ==
    /\ IsDisk(d) /\ NotesLeft(d) /\ OldestKept(d)
    /\ mix.db = "postgres" => Recorded(d)
    /\ Range(mix.disk.versions) \subseteq Range(d.versions)

StartInv ==
    /\ mix \in Traffic /\ DOMAIN starting = Process
    /\ DiskOK(disk)
    /\ \A p \in Process : PlaceOK(starting[p], disk)

\* A database only goes forward.
Forward(d, e) ==
    /\ d.has \subseteq e.has
    /\ "tables" \in d.has => e.cascades \subseteq d.cascades
    /\ d.cascades = {} /\ mix.db = "postgres" => e.cascades = {}
    /\ DuplicatesIn(d) = {} => DuplicatesIn(e) = {}
    /\ Range(d.versions) \subseteq Range(e.versions)

LEMMA PlaceStays ==
    ASSUME NEW at, NEW d, NEW e, DiskOK(d), PlaceOK(at, d), Forward(d, e),
           mix.db \in {"sqlite", "postgres"}
    PROVE  PlaceOK(at, e)
<1>1. CompleteBut(NotBrought, d) => CompleteBut(NotBrought, e)
    <2>1. "tables" \in Artifact \ NotBrought
        BY DEF Artifact, NotBrought
    <2> QED
        BY <2>1 DEF CompleteBut, Forward
<1>2. Range(d.versions) # Range(mix.disk.versions)
         => Range(e.versions) # Range(mix.disk.versions)
    BY DEF DiskOK, Forward
<1>3. mix.db = "sqlite" => SQLitePlace(at, e)
    <2>1. at \in PastChanges \cup PastRules => at \in PastTables
        BY DEF PastTables, PastSchema, PastChanges
    <2> QED
        BY <1>1, <2>1 DEF PlaceOK, SQLitePlace, Forward
<1>4. mix.db = "postgres" => PostgresPlace(at, e)
    BY <1>1, <1>2 DEF PlaceOK, PostgresPlace, Forward
<1> QED
    BY <1>3, <1>4 DEF PlaceOK

\* Fewer notifications have fewer duplicates.
LEMMA FewerDuplicates ==
    ASSUME NEW d, NEW e, DOMAIN e.notes \subseteq DOMAIN d.notes,
           \A n \in DOMAIN e.notes : e.notes[n] = d.notes[n]
    PROVE  DuplicatesIn(e) \subseteq DuplicatesIn(d)
BY DEF DuplicatesIn

LEMMA StartMoves ==
    ASSUME StartInv, NEW p \in Process, NEW from, NEW to, Step(p, from, to),
           Forward(disk, disk'), DiskOK(disk'), PlaceOK(to, disk')
    PROVE  StartInv'
<1>1. /\ starting' = [starting EXCEPT ![p] = to] /\ mix' = mix
      /\ mix.db \in {"sqlite", "postgres"}
    BY DiskAssumption DEF Step, StartInv
<1>2. \A q \in Process : PlaceOK(starting'[q], disk')
    BY <1>1, PlaceStays DEF StartInv
<1>3. DiskOK(disk)'
    BY <1>1 DEF DiskOK, NotesLeft, OldestKept
<1>4. \A q \in Process : PlaceOK(starting[q], disk)'
    BY <1>1, <1>2 DEF PlaceOK, SQLitePlace, PostgresPlace, NotBrought
<1> QED
    BY <1>1, <1>3, <1>4 DEF StartInv

LEMMA SameGoesOn == ASSUME NEW d PROVE Forward(d, d)
BY DEF Forward

\* Tables, columns and indexes are added.
More(d, e) ==
    /\ d.has \subseteq e.has /\ e.cascades = d.cascades
    /\ e.versions = d.versions /\ e.notes = d.notes /\ e.marks = d.marks
    /\ e = [has |-> e.has, cascades |-> e.cascades, versions |-> e.versions,
            notes |-> e.notes, marks |-> e.marks]

LEMMA CreateIsMore ==
    ASSUME DiskOK(disk), NEW things, Create(things)
    PROVE  More(disk, disk') /\ things \subseteq disk'.has
BY DEF Create, More, DiskOK, IsDisk

LEMMA Created ==
    ASSUME NEW d, DiskOK(d), NEW e, More(d, e)
    PROVE  DiskOK(e) /\ Forward(d, e) /\ DuplicatesIn(e) = DuplicatesIn(d)
<1>2. DuplicatesIn(e) = DuplicatesIn(d)
    BY DEF More, DuplicatesIn
<1>3. DiskOK(e)
    BY <1>2 DEF More, DiskOK, IsDisk, NotesLeft, OldestKept, Recorded
<1>4. Forward(d, e)
    BY <1>2 DEF More, Forward
<1> QED
    BY <1>2, <1>3, <1>4

\* Only duplicates, or without an idle connection all, are removed.
LEMMA Removed ==
    ASSUME NEW d, DiskOK(d), NEW N, N \subseteq DuplicatesIn(d) \/ ~mix.idle, NEW e,
           e = WithoutNotes(d, N)
    PROVE  /\ DiskOK(e) /\ Forward(d, e)
           /\ e.has = d.has /\ e.cascades = d.cascades /\ e.versions = d.versions
           /\ DuplicatesIn(d) \subseteq N => DuplicatesIn(e) = {}
<1>1. /\ e.has = d.has /\ e.cascades = d.cascades /\ e.versions = d.versions
      /\ e.notes = Restrict(d.notes, DOMAIN d.notes \ N)
      /\ e.marks = {m \in d.marks : m[2] \notin N}
      /\ e = [has |-> e.has, cascades |-> e.cascades, versions |-> e.versions,
              notes |-> e.notes, marks |-> e.marks]
    BY DEF WithoutNotes, DiskOK, IsDisk
<1>2. /\ DOMAIN e.notes = DOMAIN d.notes \ N
      /\ \A n \in DOMAIN e.notes : e.notes[n] = d.notes[n]
    BY <1>1 DEF Restrict
<1>3. DuplicatesIn(e) \subseteq DuplicatesIn(d) \ N
    <2>1. DuplicatesIn(e) \subseteq DOMAIN e.notes
        BY DEF DuplicatesIn
    <2> QED
        BY <1>2, <2>1, FewerDuplicates
<1>4. DuplicatesIn(d) \subseteq DuplicatesIn(mix.disk)
    BY FewerDuplicates DEF DiskOK, NotesLeft
<1>5. NotesLeft(e)
    BY <1>2 DEF DiskOK, NotesLeft
<1>6. OldestKept(e)
    BY <1>1, <1>2, <1>4 DEF DiskOK, OldestKept
<1>7. DiskOK(e)
    BY <1>1, <1>3, <1>5, <1>6 DEF DiskOK, IsDisk, Recorded
<1>8. Forward(d, e)
    BY <1>1, <1>3 DEF Forward
<1> QED
    BY <1>1, <1>3, <1>7, <1>8

LEMMA PlaceNames ==
    /\ DOMAIN Version = {1, 2, 3, 4}
    /\ Finding[1] = "find 001" /\ Applying[1] = "apply 001"
    /\ Finding[2] = "find 002" /\ Applying[2] = "apply 002"
    /\ Finding[3] = "find 003" /\ Applying[3] = "apply 003"
    /\ Finding[4] = "find 004" /\ Applying[4] = "apply 004"
    /\ Version[1] = "001" /\ Version[2] = "002" /\ Version[3] = "003" /\ Version[4] = "004"
BY DEF Version, Finding, Applying

\* Where only SQLite leads.
SQLiteOnly == {"file", "tables"} \cup (PastTables \ Serving)

LEMMA OnSQLite ==
    ASSUME StartInv, NEW p \in Process, starting[p] \in SQLiteOnly
    PROVE  mix.db = "sqlite" /\ SQLitePlace(starting[p], disk)
<1> USE DEF SQLiteOnly, PastTables, PastSchema, PastChanges, PastRules, PastNotes, PastFields,
            PastIndex, Serving
<1>1. mix.db \in {"sqlite", "postgres"}
    BY DiskAssumption DEF StartInv
<1>2. ~PostgresPlace(starting[p], disk)
    BY PlaceNames DEF PostgresPlace
<1> QED
    BY <1>1, <1>2 DEF StartInv, PlaceOK

LEMMA UniqueCreated ==
    ASSUME DiskOK(disk), NEW p \in Process, NEW from, NEW to, CreateUnique(p, from, to)
    PROVE  /\ More(disk, disk') /\ starting[p] = from
           /\ \/ Step(p, from, to) /\ "unique" \in disk'.has
              \/ Step(p, from, "failed") /\ DuplicatesIn(disk) # {}
<1> DEFINE fails == Duplicates # {} /\ "unique" \notin disk.has
<1>1. /\ Step(p, from, IF fails THEN "failed" ELSE to)
      /\ Create(IF fails THEN {} ELSE {"unique"})
    BY DEF CreateUnique
<1>2. fails => DuplicatesIn(disk) # {}
    BY DEF Duplicates
<1>3. starting[p] = from
    BY <1>1 DEF Step
<1> HIDE DEF fails
<1>4. More(disk, disk') /\ (~fails => "unique" \in disk'.has)
    BY <1>1, CreateIsMore
<1> QED
    BY <1>1, <1>2, <1>3, <1>4

LEMMA SQLiteOpens ==
    ASSUME StartInv, NEW p \in Process,
           \/ OpenSQLite(p) \/ ReadSchemaFile(p) \/ CreateTables(p) \/ CreateLateTables(p)
           \/ CreateBuiltinIndex(p)
    PROVE  StartInv'
<1> USE DEF SQLiteOnly, PastTables, PastSchema, PastChanges, PastRules, PastNotes, PastFields,
            PastIndex, Serving
<1>a. DiskOK(disk) /\ PlaceOK(starting[p], disk)
    BY DEF StartInv
<1>b. mix.db \in {"sqlite", "postgres"}
    BY DiskAssumption DEF StartInv
<1>1. CASE OpenSQLite(p)
    <2>1. PICK to : Step(p, "open", to) /\ to = (IF mix.file THEN "file" ELSE "tables")
        BY <1>1 DEF OpenSQLite
    <2>2. PlaceOK(to, disk)
        BY <2>1, <1>1 DEF OpenSQLite, PlaceOK, SQLitePlace
    <2> QED
        BY <2>1, <2>2, <1>1, <1>a, SameGoesOn, StartMoves DEF OpenSQLite
<1>2. CASE ReadSchemaFile(p)
    <2>1. Step(p, "file", "schema_changes") /\ starting[p] = "file"
        BY <1>2 DEF ReadSchemaFile, Step
    <2>2. mix.db = "sqlite" /\ mix.file
        BY <2>1, OnSQLite DEF SQLitePlace
    <2>3. /\ disk'.has = disk.has \cup {"tables"} /\ disk'.versions = disk.versions
          /\ disk'.notes = disk.notes /\ disk'.marks = disk.marks
          /\ disk'.cascades \subseteq DOMAIN AfterRebuild
          /\ "tables" \in disk.has => disk'.cascades = disk.cascades
          /\ disk' = [has |-> disk'.has, cascades |-> disk'.cascades,
                      versions |-> disk'.versions, notes |-> disk'.notes,
                      marks |-> disk'.marks]
        BY <1>2, <1>a DEF ReadSchemaFile, DiskOK, IsDisk
    <2>4. DuplicatesIn(disk') = DuplicatesIn(disk)
        BY <2>3 DEF DuplicatesIn
    <2>5. DiskOK(disk')
        BY <2>2, <2>3, <1>a DEF DiskOK, IsDisk, NotesLeft, OldestKept
    <2>6. Forward(disk, disk')
        BY <2>2, <2>3, <2>4 DEF Forward
    <2>7. PlaceOK("schema_changes", disk')
        BY <2>2, <2>3 DEF PlaceOK, SQLitePlace
    <2> QED
        BY <2>1, <2>5, <2>6, <2>7, StartMoves
<1>3. CASE CreateTables(p) \/ CreateLateTables(p)
    <2>1. PICK from, to :
             /\ Step(p, from, to) /\ starting[p] = from
             /\ More(disk, disk')
             /\ \/ from = "tables" /\ to = "unique" /\ "tables" \in disk'.has
                \/ /\ from = "late tables" /\ to = "schema_changes"
                   /\ "schedules" \in disk'.has
        BY <1>3, <1>a, CreateIsMore DEF CreateTables, CreateLateTables, Step
    <2>2. mix.db = "sqlite" /\ SQLitePlace(from, disk)
        BY <2>1, OnSQLite
    <2>3. PlaceOK(to, disk')
        BY <2>1, <2>2 DEF PlaceOK, SQLitePlace, More
    <2> QED
        BY <2>1, <2>3, <1>a, Created, StartMoves
<1>4. CASE CreateBuiltinIndex(p)
    <2>1. /\ More(disk, disk') /\ starting[p] = "unique"
          /\ \/ Step(p, "unique", "late tables")
             \/ Step(p, "unique", "failed") /\ DuplicatesIn(disk) # {}
        BY <1>4, <1>a, UniqueCreated DEF CreateBuiltinIndex
    <2>2. mix.db = "sqlite" /\ "tables" \in disk.has /\ ~mix.file
        BY <2>1, OnSQLite DEF SQLitePlace
    <2>3. DuplicatesIn(disk) \subseteq DuplicatesIn(mix.disk)
        BY <1>a, FewerDuplicates DEF DiskOK, NotesLeft
    <2>4. "tables" \in disk'.has /\ DiskOK(disk') /\ Forward(disk, disk')
        BY <2>1, <2>2, <1>a, Created DEF More
    <2>5. PlaceOK("late tables", disk')
        BY <2>2, <2>4 DEF PlaceOK, SQLitePlace
    <2>6. DuplicatesIn(disk) # {} => PlaceOK("failed", disk')
        BY <2>2, <2>3, <2>4 DEF PlaceOK, SQLitePlace
    <2> QED
        BY <2>1, <2>4, <2>5, <2>6, StartMoves
<1> QED
    BY <1>1, <1>2, <1>3, <1>4

\* A table is rebuilt without the reference that cascades.
LEMMA Rebuilt ==
    ASSUME StartInv, NEW p \in Process, NEW t, Rebuild(p, t), mix.db = "sqlite"
    PROVE  /\ DiskOK(disk') /\ Forward(disk, disk') /\ disk'.has = disk.has
           /\ disk'.cascades = disk.cascades \ {t}
<1>1. PICK e : /\ e = disk \/ (e = WithoutNotes(disk, DOMAIN disk.notes) /\ ~mix.idle)
               /\ disk' = [e EXCEPT !.cascades = @ \ {t}]
    BY DEF Rebuild
<1>2. /\ DiskOK(e) /\ Forward(disk, e)
      /\ e.has = disk.has /\ e.cascades = disk.cascades
    BY <1>1, SameGoesOn, Removed DEF StartInv
<1>3. /\ disk'.has = e.has /\ disk'.cascades = e.cascades \ {t}
      /\ disk'.versions = e.versions /\ disk'.notes = e.notes /\ disk'.marks = e.marks
      /\ disk' = [has |-> disk'.has, cascades |-> disk'.cascades,
                  versions |-> disk'.versions, notes |-> disk'.notes,
                  marks |-> disk'.marks]
    BY <1>1, <1>2 DEF DiskOK, IsDisk
<1>4. DuplicatesIn(disk') = DuplicatesIn(e)
    BY <1>3 DEF DuplicatesIn
<1>5. DiskOK(disk')
    BY <1>2, <1>3 DEF DiskOK, IsDisk, NotesLeft, OldestKept
<1>6. Forward(disk, disk')
    BY <1>2, <1>3, <1>4 DEF Forward
<1> QED
    BY <1>2, <1>3, <1>5, <1>6

LEMMA SQLiteRebuilds ==
    ASSUME StartInv, NEW p \in Process, NEW t \in DOMAIN AfterRebuild,
           ReadDefinition(p, t) \/ Rebuild(p, t)
    PROVE  StartInv'
<1> USE DEF SQLiteOnly, PastTables, PastSchema, PastChanges, PastRules, PastNotes, PastFields,
            PastIndex, Serving
<1>a. DiskOK(disk)
    BY DEF StartInv
<1>1. \/ t = "schema_changes" /\ AfterRebuild[t] = "alert_rules"
         /\ Rebuilding[t] = "rebuild schema_changes"
      \/ t = "alert_rules" /\ AfterRebuild[t] = "marks"
         /\ Rebuilding[t] = "rebuild alert_rules"
    <2>1. t = "schema_changes" \/ t = "alert_rules"
        BY DEF AfterRebuild
    <2>2. /\ AfterRebuild["schema_changes"] = "alert_rules"
          /\ AfterRebuild["alert_rules"] = "marks"
          /\ Rebuilding["schema_changes"] = "rebuild schema_changes"
          /\ Rebuilding["alert_rules"] = "rebuild alert_rules"
        BY DEF AfterRebuild, Rebuilding
    <2> QED
        BY <2>1, <2>2
<1>2. CASE ReadDefinition(p, t)
    <2>1. /\ starting[p] = t /\ disk' = disk
          /\ \/ Step(p, t, Rebuilding[t])
             \/ Step(p, t, AfterRebuild[t]) /\ t \notin disk.cascades
        BY <1>2 DEF ReadDefinition, Step
    <2>2. mix.db = "sqlite" /\ SQLitePlace(t, disk)
        BY <1>1, <2>1, OnSQLite
    <2>3. PlaceOK(Rebuilding[t], disk)
        BY <1>1, <2>2 DEF PlaceOK, SQLitePlace
    <2>4. t \notin disk.cascades => PlaceOK(AfterRebuild[t], disk)
        BY <1>1, <2>2 DEF PlaceOK, SQLitePlace
    <2> QED
        BY <1>a, <2>1, <2>3, <2>4, SameGoesOn, StartMoves
<1>3. CASE Rebuild(p, t)
    <2>1. Step(p, Rebuilding[t], AfterRebuild[t]) /\ starting[p] = Rebuilding[t]
        BY <1>3 DEF Rebuild, Step
    <2>2. mix.db = "sqlite" /\ SQLitePlace(Rebuilding[t], disk)
        BY <1>1, <2>1, OnSQLite
    <2>3. /\ DiskOK(disk') /\ Forward(disk, disk') /\ disk'.has = disk.has
          /\ disk'.cascades = disk.cascades \ {t}
        BY <1>3, <2>2, Rebuilt
    <2>4. PlaceOK(AfterRebuild[t], disk')
        BY <1>1, <2>2, <2>3 DEF PlaceOK, SQLitePlace
    <2> QED
        BY <2>1, <2>3, <2>4, StartMoves
<1> QED
    BY <1>2, <1>3

LEMMA SQLiteMigrates ==
    ASSUME StartInv, NEW p \in Process,
           \/ DeduplicateMarks(p) \/ Deduplicate(p) \/ AddTermFields(p)
           \/ CreatePostIndex(p) \/ CreatePostTables(p)
    PROVE  StartInv'
<1> USE DEF SQLiteOnly, PastTables, PastSchema, PastChanges, PastRules, PastNotes, PastFields,
            PastIndex, Serving
<1>a. DiskOK(disk)
    BY DEF StartInv
<1>1. CASE DeduplicateMarks(p)
    <2>1. /\ Step(p, "marks", "notes") /\ starting[p] = "marks"
          /\ disk' = [disk EXCEPT !.marks = {m \in @ : m[2] \notin Duplicates}]
        BY <1>1 DEF DeduplicateMarks, Step
    <2>2. mix.db = "sqlite" /\ SQLitePlace("marks", disk)
        BY <2>1, OnSQLite
    <2>3. /\ disk'.has = disk.has /\ disk'.cascades = disk.cascades
          /\ disk'.versions = disk.versions /\ disk'.notes = disk.notes
          /\ disk'.marks = {m \in disk.marks : m[2] \notin DuplicatesIn(disk)}
          /\ disk' = [has |-> disk'.has, cascades |-> disk'.cascades,
                      versions |-> disk'.versions, notes |-> disk'.notes,
                      marks |-> disk'.marks]
        BY <2>1, <1>a DEF DiskOK, IsDisk, Duplicates
    <2>4. DuplicatesIn(disk') = DuplicatesIn(disk)
        BY <2>3 DEF DuplicatesIn
    <2>5. OldestKept(disk')
        <3>1. DuplicatesIn(disk) \subseteq DuplicatesIn(mix.disk)
            BY <1>a, FewerDuplicates DEF DiskOK, NotesLeft
        <3> QED
            BY <1>a, <2>3, <3>1 DEF DiskOK, OldestKept
    <2>6. DiskOK(disk') /\ Forward(disk, disk')
        BY <1>a, <2>3, <2>4, <2>5 DEF DiskOK, IsDisk, NotesLeft, Recorded, Forward
    <2>7. PlaceOK("notes", disk')
        BY <2>2, <2>3 DEF PlaceOK, SQLitePlace
    <2> QED
        BY <2>1, <2>6, <2>7, StartMoves
<1>2. CASE Deduplicate(p)
    <2>1. /\ Step(p, "notes", "fields") /\ starting[p] = "notes"
          /\ disk' = WithoutNotes(disk, DuplicatesIn(disk))
        BY <1>2 DEF Deduplicate, Step, Duplicates
    <2>2. mix.db = "sqlite" /\ SQLitePlace("notes", disk)
        BY <2>1, OnSQLite
    <2>3. /\ DiskOK(disk') /\ Forward(disk, disk') /\ DuplicatesIn(disk') = {}
          /\ disk'.has = disk.has /\ disk'.cascades = disk.cascades
        BY <1>a, <2>1, Removed
    <2>4. PlaceOK("fields", disk')
        BY <2>2, <2>3 DEF PlaceOK, SQLitePlace
    <2> QED
        BY <2>1, <2>3, <2>4, StartMoves
<1>3. CASE AddTermFields(p)
    <2>1. /\ Step(p, "fields", "index") /\ starting[p] = "fields"
          /\ More(disk, disk') /\ "term fields" \in disk'.has
        BY <1>3, <1>a, CreateIsMore DEF AddTermFields, Step
    <2>2. mix.db = "sqlite" /\ SQLitePlace("fields", disk)
        BY <2>1, OnSQLite
    <2>3. DiskOK(disk') /\ Forward(disk, disk') /\ DuplicatesIn(disk') = DuplicatesIn(disk)
        BY <1>a, <2>1, Created
    <2>4. PlaceOK("index", disk')
        BY <2>1, <2>2, <2>3 DEF PlaceOK, SQLitePlace, More
    <2> QED
        BY <2>1, <2>3, <2>4, StartMoves
<1>4. CASE CreatePostIndex(p)
    <2>1. /\ More(disk, disk') /\ starting[p] = "index"
          /\ \/ Step(p, "index", "post tables") /\ "unique" \in disk'.has
             \/ DuplicatesIn(disk) # {}
        BY <1>4, <1>a, UniqueCreated DEF CreatePostIndex
    <2>2. mix.db = "sqlite" /\ SQLitePlace("index", disk)
        BY <2>1, OnSQLite
    <2>3. DiskOK(disk') /\ Forward(disk, disk') /\ DuplicatesIn(disk') = DuplicatesIn(disk)
        BY <1>a, <2>1, Created
    <2>4. DuplicatesIn(disk) = {}
        BY <2>2 DEF SQLitePlace
    <2>5. PlaceOK("post tables", disk')
        BY <2>1, <2>2, <2>3, <2>4 DEF PlaceOK, SQLitePlace, More
    <2> QED
        BY <2>1, <2>3, <2>4, <2>5, StartMoves
<1>5. CASE CreatePostTables(p)
    <2>1. /\ Step(p, "post tables", "list") /\ starting[p] = "post tables"
          /\ More(disk, disk') /\ "leases" \in disk'.has
        BY <1>5, <1>a, CreateIsMore DEF CreatePostTables, Step
    <2>2. mix.db = "sqlite" /\ SQLitePlace("post tables", disk)
        BY <2>1, OnSQLite
    <2>3. DiskOK(disk') /\ Forward(disk, disk') /\ DuplicatesIn(disk') = DuplicatesIn(disk)
        BY <1>a, <2>1, Created
    <2>4. CompleteBut(NotBrought, disk')
        <3>1. disk'.cascades = {}
            BY <1>a, <2>1, <2>2 DEF SQLitePlace, More, DiskOK, IsDisk, AfterRebuild
        <3>2. /\ {"tables", "leases", "unique", "term fields"} \subseteq disk'.has
              /\ ~mix.file => "schedules" \in disk'.has
              /\ DuplicatesIn(disk') = {}
            BY <2>1, <2>2, <2>3 DEF SQLitePlace, More
        <3> QED
            BY <2>2, <3>1, <3>2 DEF CompleteBut, Artifact, NotBrought
    <2>5. PlaceOK("list", disk')
        BY <2>1, <2>2, <2>3, <2>4 DEF PlaceOK, SQLitePlace, More
    <2> QED
        BY <2>1, <2>3, <2>5, StartMoves
<1> QED
    BY <1>1, <1>2, <1>3, <1>4, <1>5

LEMMA UpTo ==
    ASSUME NEW v \in DOMAIN Version
    PROVE  \A w \in 1 .. v : w = v \/ w \in 1 .. v - 1
<1>1. v \in 1 .. 4
    BY DEF Version
<1> QED
    BY <1>1

\* A place tells which migration it is about.
LEMMA PlacesDiffer ==
    ASSUME NEW u \in DOMAIN Version, NEW v \in DOMAIN Version
    PROVE  /\ Finding[u] = Finding[v] => u = v
           /\ Applying[u] = Applying[v] => u = v
           /\ Finding[u] # Applying[v]
           /\ {Finding[u], Applying[u]} \cap ({"failed"} \cup Serving) = {}
<1>1. u \in {1, 2, 3, 4} /\ v \in {1, 2, 3, 4}
    BY PlaceNames
<1>2. Finding[u] = Finding[v] => u = v
    <2>1. /\ u = 1 <=> Finding[u] = Finding[1]
          /\ u = 2 <=> Finding[u] = Finding[2]
          /\ u = 3 <=> Finding[u] = Finding[3]
        BY <1>1, PlaceNames
    <2>2. /\ v = 1 <=> Finding[v] = Finding[1]
          /\ v = 2 <=> Finding[v] = Finding[2]
          /\ v = 3 <=> Finding[v] = Finding[3]
        BY <1>1, PlaceNames
    <2> QED
        BY <1>1, <2>1, <2>2
<1>3. Applying[u] = Applying[v] => u = v
    <2>1. /\ u = 1 <=> Applying[u] = Applying[1]
          /\ u = 2 <=> Applying[u] = Applying[2]
          /\ u = 3 <=> Applying[u] = Applying[3]
        BY <1>1, PlaceNames
    <2>2. /\ v = 1 <=> Applying[v] = Applying[1]
          /\ v = 2 <=> Applying[v] = Applying[2]
          /\ v = 3 <=> Applying[v] = Applying[3]
        BY <1>1, PlaceNames
    <2> QED
        BY <1>1, <2>1, <2>2
<1>4. Finding[u] # Applying[v]
    BY <1>1, PlaceNames
<1>5. Finding[u] \notin {"failed"} \cup Serving /\ Applying[u] \notin {"failed"} \cup Serving
    BY <1>1, PlaceNames DEF Serving
<1> QED
    BY <1>2, <1>3, <1>4, <1>5

LEMMA Appended ==
    ASSUME NEW S, NEW s \in Seq(S), NEW x \in S
    PROVE  Range(Append(s, x)) = Range(s) \cup {x}
<1> DEFINE t == Append(s, x)
<1>1. /\ DOMAIN s = 1 .. Len(s) /\ Len(s) \in Nat
      /\ DOMAIN t = 1 .. Len(s) + 1
      /\ t[Len(s) + 1] = x /\ \A i \in 1 .. Len(s) : t[i] = s[i]
    OBVIOUS
<1> HIDE DEF t
<1>2. DOMAIN t = DOMAIN s \cup {Len(s) + 1}
    BY <1>1
<1>3. Range(t) \subseteq Range(s) \cup {x}
    BY <1>1, <1>2 DEF Range
<1>4. Range(s) \cup {x} \subseteq Range(t)
    BY <1>1, <1>2 DEF Range
<1> QED
    BY <1>3, <1>4 DEF t

LEMMA OnPostgres ==
    ASSUME StartInv, NEW p \in Process, NEW v \in DOMAIN Version,
           starting[p] \in {Finding[v], Applying[v]}
    PROVE  /\ mix.db = "postgres" /\ PostgresPlace(starting[p], disk)
           /\ DiskOK(disk) /\ Recorded(disk)
<1>1. mix.db \in {"sqlite", "postgres"}
    BY DiskAssumption DEF StartInv
<1>2. ~SQLitePlace(starting[p], disk)
    BY PlaceNames DEF SQLitePlace, PastTables, PastSchema, PastChanges, PastRules, PastNotes,
                      PastFields, PastIndex, Serving
<1> QED
    BY <1>1, <1>2 DEF StartInv, PlaceOK, DiskOK

\* Migrations are looked for one after the other.
LEMMA NextPlace ==
    ASSUME NEW d, mix.db = "postgres", Recorded(d), NEW v \in DOMAIN Version,
           \A w \in 1 .. v : Version[w] \in Range(d.versions)
    PROVE  PlaceOK(Find(v + 1), d)
<1>0. DOMAIN Version = 1 .. 4
    BY DEF Version
<1>1. CASE v = 4
    <2>1. Find(v + 1) = "list"
        <3>1. v + 1 \notin DOMAIN Version
            BY <1>0, <1>1
        <3> QED
            BY <3>1 DEF Find
    <2>2. \A w \in DOMAIN Version :
             Brings[w] \subseteq d.has /\ (w = 3 => DuplicatesIn(d) = {})
        BY <1>0, <1>1 DEF Recorded
    <2>3. /\ Brings[1] = {"tables"} /\ Brings[2] = {"term fields"}
          /\ Brings[3] = {"unique", "leases"} /\ Brings[4] = {"schedules"}
        BY DEF Brings
    <2>4. /\ Brings[1] \subseteq d.has /\ Brings[2] \subseteq d.has
          /\ Brings[3] \subseteq d.has /\ Brings[4] \subseteq d.has
          /\ DuplicatesIn(d) = {}
        BY <1>0, <2>2
    <2>5. CompleteBut(NotBrought, d)
        BY <2>3, <2>4 DEF Recorded, CompleteBut, Artifact
    <2>6. \A u \in DOMAIN Version : "list" \notin {Finding[u], Applying[u]}
        BY PlacesDiffer DEF Serving
    <2>7. PostgresPlace("list", d)
        BY <2>5, <2>6 DEF PostgresPlace, Serving
    <2> QED
        BY <2>1, <2>7 DEF PlaceOK
<1>2. CASE v \in 1 .. 3
    <2> DEFINE n == v + 1
    <2>1. n \in DOMAIN Version /\ \A w \in 1 .. n - 1 : w \in 1 .. v
        BY <1>0, <1>2
    <2> HIDE DEF n
    <2>2. Find(n) = Finding[n]
        BY <2>1 DEF Find
    <2>3. \A u \in DOMAIN Version :
             /\ Finding[n] \in {Finding[u], Applying[u]} => u = n
             /\ Finding[n] # Applying[u]
        BY <2>1, PlacesDiffer
    <2>4. Finding[n] \notin {"failed"} \cup Serving
        BY <2>1, PlacesDiffer
    <2>5. \A u \in DOMAIN Version : Finding[n] \in {Finding[u], Applying[u]} =>
             \A w \in 1 .. u - 1 : Version[w] \in Range(d.versions)
        BY <2>1, <2>3
    <2>6. PostgresPlace(Finding[n], d)
        BY <2>1, <2>3, <2>4, <2>5 DEF PostgresPlace
    <2>7. PlaceOK(Find(n), d)
        BY <2>2, <2>6 DEF PlaceOK
    <2> QED
        BY <2>7 DEF n
<1> QED
    BY <1>0, <1>1, <1>2

LEMMA FindVersion == ASSUME NEW v \in DOMAIN Version PROVE Find(v) = Finding[v]
BY DEF Find

LEMMA PostgresFinds ==
    ASSUME StartInv, NEW p \in Process,
           \/ OpenPostgres(p)
           \/ \E v \in DOMAIN Version : SkipApplied(p, v) \/ FindMissing(p, v)
    PROVE  StartInv'
<1>a. DiskOK(disk)
    BY DEF StartInv
<1>1. CASE OpenPostgres(p)
    <2>1. mix.db = "postgres" /\ Step(p, "open", Finding[1]) /\ disk' = disk
        BY <1>1, FindVersion, PlaceNames DEF OpenPostgres
    <2>2. /\ 1 \in DOMAIN Version /\ Finding[1] \notin {"failed"} \cup Serving
          /\ \A u \in DOMAIN Version :
                /\ Finding[1] \in {Finding[u], Applying[u]} => u = 1
                /\ Finding[1] # Applying[u]
        BY PlaceNames, PlacesDiffer
    <2>3. PlaceOK(Finding[1], disk)
        <3>1. \A w \in 1 .. 1 - 1 : FALSE
            OBVIOUS
        <3> QED
            BY <2>1, <2>2, <3>1 DEF PlaceOK, PostgresPlace
    <2> QED
        BY <1>a, <2>1, <2>3, SameGoesOn, StartMoves
<1>2. ASSUME NEW v \in DOMAIN Version, SkipApplied(p, v) PROVE StartInv'
    <2>1. /\ Step(p, Finding[v], Find(v + 1)) /\ starting[p] = Finding[v]
          /\ disk' = disk /\ Version[v] \in Range(disk.versions)
        BY <1>2, FindVersion DEF SkipApplied, Applied, Step
    <2>2. mix.db = "postgres" /\ Recorded(disk) /\ PostgresPlace(Finding[v], disk)
        BY <2>1, OnPostgres
    <2>3. \A w \in 1 .. v : Version[w] \in Range(disk.versions)
        <3>1. \A w \in 1 .. v - 1 : Version[w] \in Range(disk.versions)
            BY <2>2 DEF PostgresPlace
        <3> QED
            BY <2>1, <3>1, UpTo
    <2>4. PlaceOK(Find(v + 1), disk)
        BY <2>2, <2>3, NextPlace
    <2> QED
        BY <1>a, <2>1, <2>4, SameGoesOn, StartMoves
<1>3. ASSUME NEW v \in DOMAIN Version, FindMissing(p, v) PROVE StartInv'
    <2>1. /\ Step(p, Finding[v], Applying[v]) /\ starting[p] = Finding[v]
          /\ disk' = disk /\ Version[v] \notin Range(disk.versions)
        BY <1>3, FindVersion DEF FindMissing, Applied, Step
    <2>2. mix.db = "postgres" /\ PostgresPlace(Finding[v], disk)
        BY <2>1, OnPostgres
    <2>3. \A u \in DOMAIN Version :
             Applying[v] \in {Finding[u], Applying[u]} => u = v
        BY PlacesDiffer
    <2>4. Applying[v] \notin {"failed"} \cup Serving
        BY PlacesDiffer
    <2>5. Version[v] \notin Range(mix.disk.versions)
        BY <1>a, <2>1 DEF DiskOK
    <2>6. \A w \in 1 .. v - 1 : Version[w] \in Range(disk.versions)
        BY <2>2 DEF PostgresPlace
    <2>7. PlaceOK(Applying[v], disk)
        BY <2>2, <2>3, <2>4, <2>5, <2>6 DEF PlaceOK, PostgresPlace
    <2> QED
        BY <1>a, <2>1, <2>7, SameGoesOn, StartMoves
<1> QED
    BY <1>1, <1>2, <1>3

\* What a migration brings is there when its version is recorded.
LEMMA MigratedOK ==
    ASSUME DiskOK(disk), mix.db = "postgres", NEW v \in DOMAIN Version, ~Applied(v)
    PROVE  /\ DiskOK(Migrated(v)) /\ Forward(disk, Migrated(v))
           /\ Range(Migrated(v).versions) = Range(disk.versions) \cup {Version[v]}
<1> DEFINE d == IF v = 3 THEN WithoutNotes(disk, Duplicates) ELSE disk
           e == Migrated(v)
<1>1. /\ DiskOK(d) /\ Forward(disk, d) /\ d.has = disk.has
      /\ d.cascades = disk.cascades /\ d.versions = disk.versions
      /\ v = 3 => DuplicatesIn(d) = {}
    <2>1. CASE v = 3
        <3>1. d = WithoutNotes(disk, DuplicatesIn(disk))
            BY <2>1 DEF Duplicates
        <3> HIDE DEF d
        <3> QED
            BY <3>1, Removed
    <2>2. CASE v # 3
        BY <2>2, SameGoesOn
    <2> QED
        BY <2>1, <2>2
<1>2. e = [d EXCEPT !.has = @ \cup Brings[v], !.versions = Append(@, Version[v])]
    BY DEF Migrated
<1> HIDE DEF d, e
<1>3. /\ e.has = d.has \cup Brings[v] /\ e.cascades = d.cascades
      /\ e.versions = Append(d.versions, Version[v])
      /\ e.notes = d.notes /\ e.marks = d.marks
      /\ e = [has |-> e.has, cascades |-> e.cascades, versions |-> e.versions,
              notes |-> e.notes, marks |-> e.marks]
    BY <1>1, <1>2 DEF DiskOK, IsDisk
<1>4. DuplicatesIn(e) = DuplicatesIn(d)
    BY <1>3 DEF DuplicatesIn
<1>5. /\ Range(e.versions) = Range(disk.versions) \cup {Version[v]}
      /\ e.versions \in Seq(Range(Version)) /\ IsInjective(e.versions)
    <2>0. d.versions \in Seq(Range(Version)) /\ IsInjective(d.versions)
        BY <1>1 DEF DiskOK, IsDisk
    <2>1. Version[v] \in Range(Version) /\ Version[v] \notin Range(d.versions)
        BY <1>1 DEF Applied, Range
    <2>2. Range(Append(d.versions, Version[v])) = Range(d.versions) \cup {Version[v]}
        BY <2>0, <2>1, Appended
    <2>3. IsInjective(Append(d.versions, Version[v]))
        BY <2>0, <2>1 DEF Range, IsInjective
    <2> QED
        BY <1>1, <1>3, <2>0, <2>1, <2>2, <2>3
<1>6. Recorded(e)
    <2>1. Recorded(d)
        BY <1>1 DEF DiskOK
    <2>2. ASSUME NEW w \in DOMAIN Version, Version[w] \in Range(e.versions)
          PROVE  Brings[w] \subseteq e.has /\ (w = 3 => DuplicatesIn(e) = {})
        <3>1. CASE Version[w] \in Range(disk.versions)
            BY <1>1, <1>3, <1>4, <2>1, <3>1 DEF Recorded
        <3>2. CASE Version[w] = Version[v]
            <4>1. w = v
                BY <3>2 DEF Version
            <4> QED
                BY <4>1, <1>1, <1>3, <1>4
        <3> QED
            BY <1>5, <2>2, <3>1, <3>2
    <2> QED
        BY <1>3, <2>1, <2>2 DEF Recorded
<1>7. DiskOK(e)
    <2>1. NotesLeft(e) /\ OldestKept(e)
        BY <1>1, <1>3 DEF DiskOK, NotesLeft, OldestKept
    <2>2. IsDisk(e)
        BY <1>1, <1>3, <1>5 DEF DiskOK, IsDisk
    <2> QED
        BY <1>5, <1>6, <2>1, <2>2 DEF DiskOK
<1>8. Forward(disk, e)
    BY <1>1, <1>3, <1>4, <1>5 DEF Forward
<1> QED
    BY <1>5, <1>7, <1>8 DEF e

LEMMA PostgresMigrates ==
    ASSUME StartInv, NEW p \in Process, NEW v \in DOMAIN Version, Migrate(p, v)
    PROVE  StartInv'
<1>a. DiskOK(disk)
    BY DEF StartInv
<1>b. starting[p] = Applying[v]
    BY DEF Migrate, Step
<1>c. /\ mix.db = "postgres" /\ PostgresPlace(Applying[v], disk)
    BY <1>b, OnPostgres
<1>1. CASE ~Applied(v) /\ Step(p, Applying[v], Find(v + 1)) /\ disk' = Migrated(v)
    <2>1. /\ DiskOK(disk') /\ Forward(disk, disk')
          /\ Range(disk'.versions) = Range(disk.versions) \cup {Version[v]}
        BY <1>1, <1>a, <1>c, MigratedOK
    <2>2. \A w \in 1 .. v : Version[w] \in Range(disk'.versions)
        <3>1. \A w \in 1 .. v - 1 : Version[w] \in Range(disk.versions)
            BY <1>c DEF PostgresPlace
        <3> QED
            BY <2>1, <3>1, UpTo
    <2>3. Recorded(disk')
        BY <1>c, <2>1 DEF DiskOK
    <2>4. PlaceOK(Find(v + 1), disk')
        BY <1>c, <2>2, <2>3, NextPlace
    <2> QED
        BY <1>1, <2>1, <2>4, StartMoves
<1>2. CASE Applied(v) /\ Step(p, Applying[v], "failed") /\ disk' = disk
    <2>1. Range(disk.versions) # Range(mix.disk.versions)
        BY <1>2, <1>c DEF PostgresPlace, Applied
    <2>2. PlaceOK("failed", disk)
        BY <1>c, <2>1, PlaceNames DEF PlaceOK, PostgresPlace, Serving
    <2> QED
        BY <1>a, <1>2, <2>2, SameGoesOn, StartMoves
<1> QED
    BY <1>1, <1>2 DEF Migrate

\* Until a process serves, nothing but its start moves it.
Bootstraps == \E p \in Process, to \in Serving :
    starting[p] \in Serving /\ starting' = [starting EXCEPT ![p] = to]

Still == UNCHANGED <<starting, mix>>

LEMMA OthersLeaveStart ==
    ASSUME [Next]_vars, ~StartUpNext
    PROVE  UNCHANGED <<mix, disk>> /\ (UNCHANGED starting \/ Bootstraps)
<1>1. CASE AccountsNext /\ UNCHANGED disk
    <2>1. ASSUME NEW c \in Client, NEW u \in User, Login(c, u) \/ RegisterInsert(c, u)
          PROVE  Still
        BY <2>1 DEF Still, Login, RegisterInsert
    <2>2. ASSUME NEW c \in Client, NEW tok \in tokens, RefreshToken(c, tok)
          PROVE  Still
        BY <2>2 DEF Still, RefreshToken
    <2>3. ASSUME NEW c \in Client, NEW tok \in tokens, NEW n \in UserName,
                 NEW role \in Role, Register(c, tok, n, role)
          PROVE  Still
        BY <2>3 DEF Still, Register
    <2>4. ASSUME NEW c \in Client, SignTokens(c) PROVE Still
        BY <2>4 DEF Still, SignTokens
    <2>5. ASSUME NEW tok \in tokens, NEW u \in User, NEW role \in Role,
                 UpdateUser(tok, u, role)
          PROVE  Still
        BY <2>5 DEF Still, UpdateUser
    <2>6. ASSUME NEW tok \in tokens, NEW u \in User, DeleteUser(tok, u)
          PROVE  Still
        BY <2>6 DEF Still, DeleteUser
    <2>7. ASSUME NEW p \in Process,
                 \/ BootstrapList(p) \/ BootstrapCheck(p) \/ BootstrapGivesUp(p)
                 \/ \E u \in User : BootstrapInsert(p, u)
          PROVE  UNCHANGED mix /\ Bootstraps
        <3>1. /\ UNCHANGED mix /\ starting[p] \in Serving
              /\ \/ starting' = [starting EXCEPT ![p] = "up"]
                 \/ starting' = [starting EXCEPT ![p] = "check"]
                 \/ starting' = [starting EXCEPT ![p] = "insert"]
            BY <2>7 DEF BootstrapList, BootstrapCheck, BootstrapGivesUp, BootstrapInsert,
                        Serving
        <3> QED
            BY <3>1 DEF Serving, Bootstraps
    <2>8. ASSUME Tick PROVE Still
        BY <2>8 DEF Still, Tick
    <2>9. Still \/ (UNCHANGED mix /\ Bootstraps)
        BY <1>1, <2>1, <2>2, <2>3, <2>4, <2>5, <2>6, <2>7, <2>8 DEF AccountsNext
    <2> QED
        BY <1>1, <2>9 DEF Still
<1>2. CASE AlertsNext /\ UNCHANGED disk
    <2>1. ASSUME NEW ch \in DOMAIN jobs, JobStep(ch) PROVE Still
        BY <2>1, JobsLeave DEF Still, accountVars
    <2>2. ASSUME RuleStep PROVE Still
        <3>1. ASSUME NEW r \in AlertRule, NEW row \in mix.rows, CreateAlertRule(r, row)
              PROVE  Still
            BY <3>1 DEF Still, CreateAlertRule
        <3>2. ASSUME NEW c \in Client, NEW r \in AlertRule, NEW row \in mix.rows,
                     UpdateAlertRuleCheck(c, r, row)
              PROVE  Still
            BY <3>2 DEF Still, UpdateAlertRuleCheck
        <3>3. ASSUME NEW r \in AlertRule, DeleteAlertRule(r)
              PROVE  Still
            BY <3>3 DEF Still, DeleteAlertRule
        <3>4. ASSUME NEW c \in Client, UpdateAlertRuleWrite(c)
              PROVE  Still
            BY <3>4 DEF Still, UpdateAlertRuleWrite
        <3>5. ASSUME NEW ch \in Change, NEW o \in Object, NEW kind \in Kind,
                     DetectChange(ch, o, kind)
              PROVE  Still
            BY <3>5 DEF Still, DetectChange
        <3>6. ASSUME NEW s \in Source,
                     DeleteSourceObjects(s) \/ DeleteSourceChanges(s) \/ DeleteSource(s)
              PROVE  Still
            BY <3>6 DEF Still, DeleteSourceObjects, DeleteSourceChanges, DeleteSource,
                        accountVars
        <3> QED
            BY <2>2, <3>1, <3>2, <3>3, <3>4, <3>5, <3>6 DEF RuleStep
    <2>3. ASSUME Crash PROVE Still
        BY <2>3 DEF Still, Crash
    <2>4. ASSUME NEW u \in User, NEW marks, MarkRead(u, marks)
          PROVE  Still
        BY <2>4 DEF Still, MarkRead
    <2>5. AlertsNext => \/ RuleStep
                        \/ \E ch \in DOMAIN jobs : JobStep(ch)
                        \/ Crash
                        \/ \E u \in User, marks \in SUBSET DOMAIN inbox : MarkRead(u, marks)
        BY DEF AlertsNext, JobStep, RuleStep
    <2>6. Still
        BY <1>2, <2>1, <2>2, <2>3, <2>4, <2>5
    <2> QED
        BY <1>2, <2>6 DEF Still
<1>3. CASE UNCHANGED <<accountVars, disk>>
    BY <1>3 DEF accountVars
<1> QED
    BY <1>1, <1>2, <1>3 DEF Next, vars

LEMMA ServingStays ==
    ASSUME NEW d, NEW at \in Serving, NEW to \in Serving, PlaceOK(at, d)
    PROVE  PlaceOK(to, d)
<1>1. mix.db = "sqlite" => SQLitePlace(to, d)
    <2>1. to \notin {"file", "tables", "unique", "late tables", "failed"}
        BY DEF Serving
    <2>2. /\ Serving \subseteq PastIndex /\ PastIndex \subseteq PastFields
          /\ PastFields \subseteq PastNotes /\ PastNotes \subseteq PastRules
          /\ PastRules \subseteq PastChanges /\ PastChanges \subseteq PastTables
        BY DEF PastIndex, PastFields, PastNotes, PastRules, PastChanges, PastSchema,
               PastTables
    <2>3. mix.db = "sqlite" => SQLitePlace(at, d)
        BY DEF PlaceOK
    <2>4. /\ {at, to} \subseteq PastSchema /\ {at, to} \subseteq PastIndex
          /\ {at, to} \subseteq PastFields /\ {at, to} \subseteq PastNotes
          /\ {at, to} \subseteq PastRules /\ {at, to} \subseteq PastChanges
          /\ {at, to} \subseteq PastTables
        BY <2>2 DEF PastSchema
    <2> QED
        BY <2>1, <2>3, <2>4 DEF SQLitePlace
<1>2. mix.db = "postgres" => PostgresPlace(to, d)
    <2>1. \A v \in DOMAIN Version : to \notin {Finding[v], Applying[v]}
        BY PlacesDiffer
    <2>2. to # "failed"
        BY DEF Serving
    <2> QED
        BY <2>1, <2>2 DEF PlaceOK, PostgresPlace
<1> QED
    BY <1>1, <1>2 DEF PlaceOK

LEMMA Restarts ==
    ASSUME StartInv, NEW p \in Process, Restart(p) PROVE StartInv'
<1>1. starting' = [starting EXCEPT ![p] = "open"] /\ UNCHANGED <<mix, disk>>
    BY DEF Restart
<1>2. SQLitePlace("open", disk)
    BY DEF SQLitePlace, PastTables, PastSchema, PastChanges, PastRules, PastNotes, PastFields,
           PastIndex, Serving
<1>3. PostgresPlace("open", disk)
    <2>1. \A v \in DOMAIN Version : "open" # Finding[v] /\ "open" # Applying[v]
        BY PlaceNames
    <2> QED
        BY <2>1 DEF PostgresPlace, Serving
<1>4. \A q \in Process : PlaceOK(starting'[q], disk)
    BY <1>1, <1>2, <1>3 DEF StartInv, PlaceOK
<1>5. DiskOK(disk)'
    BY <1>1 DEF StartInv, DiskOK, NotesLeft, OldestKept
<1>6. \A q \in Process : PlaceOK(starting[q], disk)'
    BY <1>1, <1>4 DEF PlaceOK, SQLitePlace, PostgresPlace, NotBrought
<1> QED
    BY <1>1, <1>5, <1>6 DEF StartInv

LEMMA StartUpKeeps == StartInv /\ StartUpNext => StartInv'
BY SQLiteOpens, SQLiteRebuilds, SQLiteMigrates, PostgresFinds, PostgresMigrates, Restarts
DEF StartUpNext

LEMMA StartKept == StartInv /\ [Next]_vars => StartInv'
<1> SUFFICES ASSUME StartInv, [Next]_vars, ~StartUpNext PROVE StartInv'
    BY StartUpKeeps
<1>1. UNCHANGED <<mix, disk>>
    BY OthersLeaveStart
<1>2. DOMAIN starting' = Process /\ \A q \in Process : PlaceOK(starting'[q], disk)
    <2>1. CASE UNCHANGED starting
        BY <2>1 DEF StartInv
    <2>2. ASSUME NEW p \in Process, NEW to \in Serving, starting[p] \in Serving,
                 starting' = [starting EXCEPT ![p] = to]
          PROVE  DOMAIN starting' = Process /\ \A q \in Process : PlaceOK(starting'[q], disk)
        <3>1. PlaceOK(to, disk)
            BY <2>2, ServingStays DEF StartInv
        <3> QED
            BY <2>2, <3>1 DEF StartInv
    <2> QED
        BY <2>1, <2>2, OthersLeaveStart DEF Bootstraps
<1>3. DiskOK(disk)'
    BY <1>1 DEF StartInv, DiskOK, NotesLeft, OldestKept
<1>4. \A q \in Process : PlaceOK(starting[q], disk)'
    BY <1>1, <1>2 DEF PlaceOK, SQLitePlace, PostgresPlace, NotBrought
<1> QED
    BY <1>1, <1>2, <1>3, <1>4 DEF StartInv

\* At the beginning nobody has come further than the database allows.
LEMMA StartBegins == Init => StartInv
<1> SUFFICES ASSUME Init PROVE StartInv
    OBVIOUS
<1>1. /\ mix \in Traffic /\ disk = mix.disk
      /\ starting = [p \in Process |-> IF "start" \in mix.kinds THEN "open" ELSE "up"]
    BY DEF Init, AccountsInit, StartUpInit
<1>2. /\ IsDisk(disk) /\ (mix.db = "postgres" => Recorded(disk))
      /\ "start" \notin mix.kinds => CompleteBut({}, disk)
    BY <1>1, DiskAssumption
<1>3. DiskOK(disk)
    BY <1>1, <1>2 DEF DiskOK, NotesLeft, OldestKept
<1>4. PlaceOK("open", disk)
    <2>1. \A v \in DOMAIN Version : "open" # Finding[v] /\ "open" # Applying[v]
        BY PlaceNames
    <2> QED
        BY <2>1 DEF PlaceOK, SQLitePlace, PostgresPlace, PastTables, PastSchema, PastChanges,
                    PastRules, PastNotes, PastFields, PastIndex, Serving
<1>5. CompleteBut({}, disk) => PlaceOK("up", disk)
    <2>1. \A v \in DOMAIN Version : "up" # Finding[v] /\ "up" # Applying[v]
        BY PlaceNames
    <2> QED
        BY <2>1 DEF PlaceOK, SQLitePlace, PostgresPlace, PastTables, PastSchema, PastChanges,
                    PastRules, PastNotes, PastFields, PastIndex, Serving, CompleteBut, Artifact
<1> QED
    BY <1>1, <1>2, <1>3, <1>4, <1>5 DEF StartInv

\* A process that serves finds every migration applied, each of them once,
\* however many start at a time and wherever one dies, but for sync_schedules
\* when the schema comes from a file; and on SQLite with an idle connection
\* nothing but duplicates is lost.
THEOREM ProcessesMigrated == Spec => []StartsMigrated
<1>1. StartInv => StartsMigrated
    <2> SUFFICES ASSUME StartInv PROVE StartsMigrated
        OBVIOUS
    <2>1. mix.db \in {"sqlite", "postgres"}
        BY DiskAssumption DEF StartInv
    <2>2. ASSUME NEW p \in Process, starting[p] \in Serving
          PROVE  CompleteBut(NotBrought, disk)
        BY <2>1, <2>2 DEF StartInv, PlaceOK, SQLitePlace, PostgresPlace
    <2>3. ASSUME NEW p \in Process, starting[p] = "failed"
          PROVE  \/ mix.db = "sqlite" /\ ~mix.file /\ DuplicatesIn(mix.disk) # {}
                 \/ mix.db = "postgres" /\ disk.versions # mix.disk.versions
        BY <2>1, <2>3 DEF StartInv, PlaceOK, SQLitePlace, PostgresPlace
    <2>4. IsInjective(disk.versions)
        BY DEF StartInv, DiskOK, IsDisk
    <2>5. OldestKept(disk)
        BY DEF StartInv, DiskOK
    <2> QED
        BY <2>2, <2>3, <2>4, <2>5 DEF StartsMigrated, OldestKept
<1> QED
    BY <1>1, StartBegins, StartKept, PTL DEF Spec
===============================================================================
