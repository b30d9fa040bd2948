------------------------------ MODULE Accounts ------------------------------
(***************************************************************************)
(* Users, roles and tokens: AuthService (internal/service/auth.go), the    *)
(* middleware and the handlers in front of it (internal/api/middleware.go  *)
(* and auth_handler.go), and the first administrator that every process    *)
(* tries to create when it starts (cmd/datamap/main.go).                   *)
(*                                                                         *)
(* Authentication is enabled.  A token carries the role its user had when  *)
(* it was made; requests are admitted on the token alone, and only a       *)
(* refresh looks the user up again.  A login or a refresh reads the user   *)
(* and signs the tokens later; a registration asks whether the name is     *)
(* free and inserts later.                                                 *)
(***************************************************************************)
EXTENDS Integers, FiniteSets, Functions, TLC

CONSTANTS
    User,         \* identifiers of users
    UserName,     \* their names
    admin,        \* the name bootstrapAdmin uses
    Process,      \* processes that share the database
    Client,       \* requests of several statements served at once
    AccessTTL,    \* life of an access token, in ticks
    RefreshTTL,   \* life of a refresh token
    MaxTime,      \* bound on the clock
    Traffic,      \* the loads considered: the kinds of request that meet in
                  \* one behaviour, and the state they start from
    None

Role == {"user", "admin"}

ASSUME AccountsAssumption ==
    /\ AccessTTL \in Nat \ {0} /\ RefreshTTL \in Nat \ {0} /\ MaxTime \in Nat
    /\ admin \in UserName
    /\ None \notin User
    /\ \A load \in Traffic : load.requests \in Nat

VARIABLES
    users,     \* the users table: identifier to name and role
    tokens,    \* the tokens signed so far
    clock,
    calls,     \* the request each client is in the middle of
    starting,  \* how far each process is with its start
    sent,      \* how many requests have been sent
    mix,       \* the load of this behaviour
    held       \* history: when a user last had a role

accountVars == <<users, tokens, clock, calls, starting, sent, mix, held>>

UserRow == [name: UserName, role: Role]
Token   == [user: User, role: Role, kind: {"access", "refresh"}, exp: Nat]

\* The users a behaviour starts with have names of their own.
ASSUME TrafficAssumption ==
    \A load \in Traffic :
        /\ load.users \in [DOMAIN load.users -> UserRow]
        /\ DOMAIN load.users \subseteq User
        /\ \A u, v \in DOMAIN load.users :
              load.users[u].name = load.users[v].name => u = v

\* f with v at x.
Put(f, x, v) == [y \in DOMAIN f \cup {x} |-> IF y = x THEN v ELSE f[y]]

Idle == [op |-> "idle"]

AccountsInit ==
    /\ mix \in Traffic
    /\ users = mix.users
    /\ tokens = {} /\ clock = 0 /\ sent = 0
    /\ calls = [c \in Client |-> Idle]
    /\ starting = [p \in Process |->
                      IF "start" \in mix.kinds THEN "open" ELSE "up"]
    /\ held = {}

Serve(kind) ==
    /\ kind \in mix.kinds
    /\ sent < mix.requests
    /\ sent' = sent + 1

Accept(kind, c) == Serve(kind) /\ calls[c] = Idle

Finish(c) == calls' = [calls EXCEPT ![c] = Idle]

(***************************************************************************)
(* Tokens.                                                                 *)
(***************************************************************************)
\* parseToken: signed here and not expired.
Valid(tok) == tok \in tokens /\ clock < tok.exp

\* authenticateRequest: a valid access token; the user is not looked up.
Authenticated(tok) == Valid(tok) /\ tok.kind = "access"

\* AdminMiddleware: the role in the token.
AdminCall(tok) == Authenticated(tok) /\ tok.role = "admin"

ToSign(c, u, role) ==
    calls' = [calls EXCEPT ![c] = [op |-> "sign", user |-> u, role |-> role,
                                   since |-> clock]]

\* Login: the name and the password fit.
Login(c, u) ==
    /\ Accept("token", c)
    /\ u \in DOMAIN users
    /\ ToSign(c, u, users[u].role)
    /\ UNCHANGED <<users, tokens, clock, starting, mix, held>>

\* Mutant of RefreshToken: the role is taken from the token.
RefreshClaims(c, tok) ==
    /\ Accept("token", c)
    /\ Valid(tok) /\ tok.kind = "refresh"
    /\ tok.user \in DOMAIN users
    /\ ToSign(c, tok.user, tok.role)
    /\ UNCHANGED <<users, tokens, clock, starting, mix, held>>

RefreshToken(c, tok) ==
    /\ Accept("token", c)
    /\ Valid(tok) /\ tok.kind = "refresh"
    /\ tok.user \in DOMAIN users
    /\ ToSign(c, tok.user, users[tok.user].role)
    /\ UNCHANGED <<users, tokens, clock, starting, mix, held>>

\* generateToken, for the access and for the refresh token.  Old tokens stay
\* valid.
generateToken(u, role, kind) ==
    [user |-> u, role |-> role, kind |-> kind,
     exp |-> clock + (IF kind = "access" THEN AccessTTL ELSE RefreshTTL)]

SignTokens(c) ==
    /\ calls[c].op = "sign"
    /\ tokens' = tokens \cup {generateToken(calls[c].user, calls[c].role, kind) :
                                 kind \in {"access", "refresh"}}
    /\ Finish(c)
    /\ UNCHANGED <<users, clock, starting, sent, mix, held>>

(***************************************************************************)
(* Administration of users.                                                *)
(***************************************************************************)
UserNameFree(n) == \A u \in DOMAIN users : users[u].name # n

\* Identifiers are UUIDs: one is never given twice.
FreshUser(u) == u \notin DOMAIN users /\ \A h \in held : h.user # u

Register(c, tok, n, role) ==
    /\ Accept("account", c)
    /\ AdminCall(tok)
    /\ UserNameFree(n)
    /\ calls' = [calls EXCEPT ![c] = [op |-> "register", name |-> n,
                                      role |-> role, since |-> clock]]
    /\ UNCHANGED <<users, tokens, clock, starting, mix, held>>

\* Mutant of CreateUser: users.username without UNIQUE.
InsertUser(u, n, role) == users' = Put(users, u, [name |-> n, role |-> role])

\* INSERT INTO users, which fails when the name has been taken meanwhile.
CreateUser(u, n, role) ==
    users' = IF UserNameFree(n) THEN Put(users, u, [name |-> n, role |-> role])
             ELSE users

RegisterInsert(c, u) ==
    /\ calls[c].op = "register"
    /\ FreshUser(u)
    /\ CreateUser(u, calls[c].name, calls[c].role)
    /\ Finish(c)
    /\ UNCHANGED <<tokens, clock, starting, sent, mix, held>>

\* The last time a user had a role is written down when the role goes.
Lost(u) == held \cup {[user |-> u, role |-> users[u].role, at |-> clock]}

\* UPDATE users
SetRole(u, role) == users' = [users EXCEPT ![u].role = role]

UpdateUser(tok, u, role) ==
    /\ Serve("account")
    /\ AdminCall(tok)
    /\ u \in DOMAIN users /\ users[u].role # role
    /\ SetRole(u, role)
    /\ held' = Lost(u)
    /\ UNCHANGED <<tokens, clock, calls, starting, mix>>

\* Nobody deletes the own account.
DeleteUser(tok, u) ==
    /\ Serve("account")
    /\ AdminCall(tok)
    /\ u \in DOMAIN users /\ tok.user # u
    /\ users' = Restrict(users, DOMAIN users \ {u})
    /\ held' = Lost(u)
    /\ UNCHANGED <<tokens, clock, calls, starting, mix>>

(***************************************************************************)
(* bootstrapAdmin: every process that finds no user registers one.         *)
(***************************************************************************)
BootstrapList(p) ==
    /\ starting[p] = "list"
    /\ starting' = [starting EXCEPT
          ![p] = IF DOMAIN users = {} THEN "check" ELSE "up"]
    /\ UNCHANGED <<users, tokens, clock, calls, sent, mix, held>>

BootstrapCheck(p) ==
    /\ starting[p] = "check"
    /\ starting' = [starting EXCEPT
          ![p] = IF UserNameFree(admin) THEN "insert" ELSE "up"]
    /\ UNCHANGED <<users, tokens, clock, calls, sent, mix, held>>

BootstrapInsert(p, u) ==
    /\ starting[p] = "insert"
    /\ FreshUser(u)
    /\ CreateUser(u, admin, "admin")
    /\ starting' = [starting EXCEPT ![p] = "up"]
    /\ UNCHANGED <<tokens, clock, calls, sent, mix, held>>

\* The database is away, or the password is not set: the process starts
\* without an administrator.
BootstrapGivesUp(p) ==
    /\ starting[p] \in {"list", "check", "insert"}
    /\ starting' = [starting EXCEPT ![p] = "up"]
    /\ UNCHANGED <<users, tokens, clock, calls, sent, mix, held>>

\* A tick is longer than a request: none is in flight for two of them.
Tick ==
    /\ {"token", "account"} \cap mix.kinds # {}
    /\ clock < MaxTime
    /\ \A c \in Client : calls[c] # Idle => calls[c].since = clock
    /\ clock' = clock + 1
    /\ UNCHANGED <<users, tokens, calls, starting, sent, mix, held>>

AccountsNext ==
    \/ \E c \in Client :
          \/ \E u \in User : Login(c, u) \/ RegisterInsert(c, u)
          \/ \E tok \in tokens :
                \/ RefreshToken(c, tok)
                \/ \E n \in UserName, role \in Role : Register(c, tok, n, role)
          \/ SignTokens(c)
    \/ \E tok \in tokens, u \in User :
          \/ \E role \in Role : UpdateUser(tok, u, role)
          \/ DeleteUser(tok, u)
    \/ \E p \in Process :
          \/ BootstrapList(p)
          \/ BootstrapCheck(p)
          \/ \E u \in User : BootstrapInsert(p, u)
          \/ BootstrapGivesUp(p)
    \/ Tick
=============================================================================
