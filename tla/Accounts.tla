-------------------------------- MODULE Accounts --------------------------------
(***************************************************************************)
(* Users: registration, approval, login and password reset (authService,   *)
(* userService, passwordResetService and their controllers).  Each caller  *)
(* is a browser with its session and one request under way; a request that *)
(* awaits the database between a check and a write is split there.         *)
(*                                                                         *)
(* Through the routes, registration and reset never get to the services:   *)
(* the schema of /register keeps neither the e-mail address nor the        *)
(* confirmation of the password, and nobody resolves the container entry   *)
(* that gives the reset controller its service.  Where routed is FALSE     *)
(* the services are called as their own code would have it.                *)
(***************************************************************************)
EXTENDS Integers, FiniteSets

CONSTANTS
  Callers,
  Names,          \* usernames; a unique column, here the key of the table
  Root,           \* config.seed.username
  Emails,
  Passwords,
  Expiry,         \* TOKEN_EXPIRY_MS
  MaxTokens,      \* bound: reset tokens
  MaxTime,        \* bound: the clock
  MaxRestarts,    \* bound: restarts
  None

ASSUME AccountsAssumption ==
  /\ Root \in Names
  /\ Expiry \in Nat /\ MaxTokens \in Nat /\ MaxTime \in Nat /\ MaxRestarts \in Nat
  /\ None \notin Names \cup Emails \cup Passwords

\* The rows of the tables, a session, and what a request knows between two awaits.
Roles == {"user", "admin"}
Users == [email : Emails \cup {None}, pw : Passwords, role : Roles,
          status : {"pending", "active", "revoked"}]
Tokens == [id : Nat, email : Emails, at : Nat]
Sessions == [user : Names, role : Roles]
Calls == [op : {"register"}, name : Names, email : Emails, pw : Passwords]
  \cup [op : {"create"}, name : Names, pw : Passwords, role : Roles]
  \cup [op : {"login"}, name : Names, role : Roles]
  \cup [op : {"forgot"}, step : {"delete", "insert"}, email : Emails]
  \cup [op : {"reset"}, step : {"valid", "expired", "used"}, email : Emails,
         token : Tokens, pw : Passwords, read : Nat]

\* null is nothing that is stored.
ASSUME NoneAssumption ==
  None \notin Users \cup Tokens \cup Sessions \cup Calls

VARIABLES
  users,     \* the table, by username
  tokens,    \* password_reset_tokens, whose key is the address
  issued,    \* the tokens ever stored, each mailed to its address
  session,   \* of each caller: who is logged in, and the role then
  call,      \* the request under way, or None
  answer,    \* what the last one was told, if it asked for an account or a token
  seed,      \* ensureDefaultAdmin
  now, restarts,
  routed     \* requests come through the routes

vars == <<users, tokens, issued, session, call, answer, seed, now, restarts, routed>>

User(email, pw, role, status) == [email |-> email, pw |-> pw, role |-> role, status |-> status]

Taken(e) == e # None /\ \E n \in Names : users[n] # None /\ users[n].email = e

Owner(e) == CHOOSE n \in Names : users[n] # None /\ users[n].email = e

\* The request of c ends.
Answers(c, op, ok, what) ==
  /\ answer' = IF op \in {"register", "forgot"} THEN [op |-> op, ok |-> ok, what |-> what] ELSE None
  /\ call' = [call EXCEPT ![c] = None]

\* It goes on after an await.
Goes(c, rec) ==
  /\ call' = [call EXCEPT ![c] = rec]
  /\ answer' = None

-----------------------------------------------------------------------------
(* authService *)

\* The two uniqueness checks are one step: names and addresses are never given up.
Register(c, n, e, p) ==
  /\ call[c] = None
  /\ IF routed \/ users[n] # None \/ Taken(e)
     THEN Answers(c, "register", FALSE, <<n, e>>)
     ELSE Goes(c, [op |-> "register", name |-> n, email |-> e, pw |-> p])
  /\ UNCHANGED <<users, tokens, issued, session, seed, now, restarts, routed>>

\* The columns are unique: the later of two inserts fails.
RegisterInsert(c) ==
  LET r == call[c]
      free == users[r.name] = None /\ ~ Taken(r.email)
  IN  /\ r # None /\ r.op = "register"
      /\ users' = IF free THEN [users EXCEPT ![r.name] = User(r.email, r.pw, "user", "pending")]
                  ELSE users
      /\ Answers(c, "register", free, <<r.name, r.email>>)
      /\ UNCHANGED <<tokens, issued, session, seed, now, restarts, routed>>

\* isLoggedIn and isSuperAdmin believe the session.
IsSuperAdmin(c) == session[c] # None /\ session[c].role = "admin"

\* adminCreateUser: the name is looked up, and the password hashed.
AdminCreateUser(c, n, p, role) ==
  /\ call[c] = None /\ IsSuperAdmin(c)
  /\ IF users[n] # None
     THEN Answers(c, "create", FALSE, n)
     ELSE Goes(c, [op |-> "create", name |-> n, pw |-> p, role |-> role])
  /\ UNCHANGED <<users, tokens, issued, session, seed, now, restarts, routed>>

\* The insert is refused if the name was taken meanwhile.
AdminCreateInsert(c) ==
  LET r == call[c] IN
  /\ r # None /\ r.op = "create"
  /\ users' = IF users[r.name] = None THEN [users EXCEPT ![r.name] = User(None, r.pw, r.role, "active")]
              ELSE users
  /\ Answers(c, "create", users[r.name] = None, r.name)
  /\ UNCHANGED <<tokens, issued, session, seed, now, restarts, routed>>

MayLogIn(row, p) == row # None /\ row.pw = p /\ row.status \notin {"pending", "revoked"}

\* The row is read once; bcrypt and the update of last_login_at follow.
Login(c, n, p) ==
  /\ call[c] = None /\ session[c] = None
  /\ IF MayLogIn(users[n], p)
     THEN Goes(c, [op |-> "login", name |-> n, role |-> users[n].role])
     ELSE Answers(c, "login", FALSE, n)
  /\ UNCHANGED <<users, tokens, issued, session, seed, now, restarts, routed>>

EstablishSession(c) ==
  /\ call[c] # None /\ call[c].op = "login"
  /\ session' = [session EXCEPT ![c] = [user |-> call[c].name, role |-> call[c].role]]
  /\ Answers(c, "login", TRUE, call[c].name)
  /\ UNCHANGED <<users, tokens, issued, seed, now, restarts, routed>>

Logout(c) ==
  /\ call[c] = None /\ session[c] # None
  /\ session' = [session EXCEPT ![c] = None]
  /\ Answers(c, "logout", TRUE, None)
  /\ UNCHANGED <<users, tokens, issued, seed, now, restarts, routed>>

\* ensureDefaultAdmin, while the server is already listening.
SeedCount ==
  /\ seed = "start"
  /\ seed' = IF \A n \in Names : users[n] = None THEN "create" ELSE "done"
  /\ UNCHANGED <<users, tokens, issued, session, call, answer, now, restarts, routed>>

SeedCreate(p) ==
  /\ seed = "create"
  /\ seed' = IF users[Root] = None THEN "done" ELSE "failed"
  /\ users' = IF users[Root] = None THEN [users EXCEPT ![Root] = User(None, p, "admin", "active")]
              ELSE users
  /\ UNCHANGED <<tokens, issued, session, call, answer, now, restarts, routed>>

\* An error is logged and forgotten.
SeedFails ==
  /\ seed \in {"start", "create"} /\ seed' = "failed"
  /\ UNCHANGED <<users, tokens, issued, session, call, answer, now, restarts, routed>>

-----------------------------------------------------------------------------
(* userService *)

\* approveUser, revokeUser and promoteToAdmin: an existing user, and not oneself to
\* revoke; users are never deleted, so that the check and the update are one step.
ManageUser(c, n, op) ==
  /\ call[c] = None /\ IsSuperAdmin(c)
  /\ LET ok == users[n] # None /\ (op = "revoke" => session[c].user # n) IN
     /\ users' = IF ~ ok THEN users
                 ELSE CASE op = "approve" -> [users EXCEPT ![n].status = "active"]
                        [] op = "revoke" -> [users EXCEPT ![n].status = "revoked"]
                        [] OTHER -> [users EXCEPT ![n].role = "admin"]
     /\ Answers(c, op, ok, n)
  /\ UNCHANGED <<tokens, issued, session, seed, now, restarts, routed>>

-----------------------------------------------------------------------------
(* passwordResetService *)

\* sendResetLink: the answer is the same whatever happens.
Forgot(c, e) ==
  /\ call[c] = None
  /\ IF routed \/ ~ Taken(e)
     THEN Answers(c, "forgot", TRUE, e)
     ELSE /\ Cardinality(issued) < MaxTokens
          /\ Goes(c, [op |-> "forgot", step |-> "delete", email |-> e])
  /\ UNCHANGED <<users, tokens, issued, session, seed, now, restarts, routed>>

ForgotDelete(c) ==
  /\ call[c] # None /\ call[c].op = "forgot" /\ call[c].step = "delete"
  /\ tokens' = [tokens EXCEPT ![call[c].email] = None]
  /\ call' = [call EXCEPT ![c].step = "insert"]
  /\ UNCHANGED <<users, issued, session, answer, seed, now, restarts, routed>>

\* The address is the key: of two requests that have both deleted, the later
\* fails.  The mail goes out after the insert, and may get lost.
ForgotInsert(c) ==
  LET e == call[c].email
      t == [id |-> Cardinality(issued) + 1, email |-> e, at |-> now]
  IN  /\ call[c] # None /\ call[c].op = "forgot" /\ call[c].step = "insert"
      /\ IF tokens[e] = None
         THEN tokens' = [tokens EXCEPT ![e] = t] /\ issued' = issued \cup {t}
         ELSE UNCHANGED <<tokens, issued, routed>>
      /\ Answers(c, "forgot", TRUE, e)
      /\ UNCHANGED <<users, session, seed, now, restarts, routed>>

\* Mutant: the token is looked up without its address.
MutMatches(e, t) == \E f \in Emails : tokens[f] # None /\ tokens[f].id = t.id

Matches(e, t) == tokens[e] # None /\ tokens[e].id = t.id

Expired(t) == now > t.at + Expiry

\* validateToken; the form repeats what the mail said, or any address.
Reset(c, e, t, p) ==
  /\ call[c] = None
  /\ IF routed \/ ~ Matches(e, t)
     THEN Answers(c, "reset", FALSE, e)
     ELSE Goes(c, [op |-> "reset", step |-> IF Expired(t) THEN "expired" ELSE "valid",
                   email |-> e, token |-> t, pw |-> p, read |-> now])
  /\ UNCHANGED <<users, tokens, issued, session, seed, now, restarts, routed>>

\* The user is looked up, the new password hashed and stored.
ResetUpdate(c) ==
  LET r == call[c] IN
  /\ r # None /\ r.op = "reset" /\ r.step = "valid"
  /\ IF Taken(r.email)
     THEN /\ users' = [users EXCEPT ![Owner(r.email)].pw = r.pw]
          /\ call' = [call EXCEPT ![c].step = "used"] /\ UNCHANGED answer
     ELSE Answers(c, "reset", FALSE, r.email) /\ UNCHANGED users
  /\ UNCHANGED <<tokens, issued, session, seed, now, restarts, routed>>

\* deleteToken takes whatever token the address has by now.
DeleteToken(c) ==
  LET r == call[c] IN
  /\ r # None /\ r.op = "reset" /\ r.step \in {"used", "expired"}
  /\ tokens' = [tokens EXCEPT ![r.email] = None]
  /\ Answers(c, "reset", r.step = "used", r.email)
  /\ UNCHANGED <<users, issued, session, seed, now, restarts, routed>>

-----------------------------------------------------------------------------
(* Time and restarts *)

Tick ==
  /\ now < MaxTime /\ now' = now + 1
  /\ UNCHANGED <<users, tokens, issued, session, call, answer, seed, restarts, routed>>

\* Sessions are kept in a file; the requests under way are lost.
Restart ==
  /\ restarts < MaxRestarts /\ restarts' = restarts + 1
  /\ call' = [c \in Callers |-> None]
  /\ answer' = None
  /\ seed' = "start"
  /\ UNCHANGED <<users, tokens, issued, session, now, routed>>

\* The first start, or one with the administrator and perhaps another user.
Init ==
  /\ \E p \in Passwords, e \in Emails, another \in Names, first \in BOOLEAN :
       users = [n \in Names |->
         IF first THEN None
         ELSE IF n = Root THEN User(None, p, "admin", "active")
         ELSE IF n = another THEN User(e, p, "user", "active") ELSE None]
  /\ tokens = [e \in Emails |-> None] /\ issued = {}
  /\ session = [c \in Callers |-> None]
  /\ call = [c \in Callers |-> None]
  /\ answer = None
  /\ seed = "start" /\ now = 0 /\ restarts = 0
  /\ routed \in BOOLEAN

Next ==
  \/ \E c \in Callers :
       \/ \E n \in Names, p \in Passwords :
            \/ \E e \in Emails : Register(c, n, e, p)
            \/ \E role \in {"user", "admin"} : AdminCreateUser(c, n, p, role)
            \/ Login(c, n, p)
       \/ \E n \in Names, op \in {"approve", "revoke", "promote"} : ManageUser(c, n, op)
       \/ \E e \in Emails : Forgot(c, e)
       \/ \E e \in Emails, t \in issued, p \in Passwords : Reset(c, e, t, p)
       \/ RegisterInsert(c) \/ AdminCreateInsert(c) \/ EstablishSession(c) \/ Logout(c)
       \/ ForgotDelete(c) \/ ForgotInsert(c) \/ ResetUpdate(c) \/ DeleteToken(c)
  \/ SeedCount \/ SeedFails \/ \E p \in Passwords : SeedCreate(p)
  \/ Tick \/ Restart

Spec == Init /\ [][Next]_vars

-----------------------------------------------------------------------------
(* Properties *)

\* Every variable has its type.
TypeOK ==
  /\ users \in [Names -> Users \cup {None}]
  /\ tokens \in [Emails -> Tokens \cup {None}]
  /\ issued \subseteq Tokens
  /\ session \in [Callers -> Sessions \cup {None}]
  /\ call \in [Callers -> Calls \cup {None}]
  /\ seed \in {"start", "create", "done", "failed"}
  /\ now \in Nat /\ routed \in BOOLEAN

\* Two users never have one address, although it is checked before the insert.
EmailsAreUnique ==
  \A m, n \in Names :
    users[m] # None /\ users[n] # None /\ users[m].email = users[n].email /\ users[m].email # None
    => m = n

\* Nobody is logged in who was not approved yet.
PendingNeverLogsIn ==
  \A c \in Callers : session[c] # None => users[session[c].user].status # "pending"

\* A password changes only for a token that was mailed to that user, and that was
\* not too old when it was looked up.
PasswordByMailedToken ==
  [][\A n \in Names :
       users[n] # None /\ users'[n].pw # users[n].pw =>
         \E c \in Callers :
           /\ call[c] # None /\ call[c].op = "reset"
           /\ call[c].token.email = users[n].email
           /\ call[c].read <= call[c].token.at + Expiry]_vars

\* Nobody becomes an administrator but by the seed, or while somebody has an
\* administrator's session: nothing else writes a role.
AdminByAdmin ==
  [][\A n \in Names :
       /\ users'[n] # None /\ users'[n].role = "admin"
       /\ users[n] = None \/ users[n].role # "admin"
       => seed # seed' \/ \E c \in Callers : IsSuperAdmin(c)]_vars

\* Through the routes: once the seed is done there is an administrator.
AdminIsSeeded ==
  routed /\ seed = "done" => \E n \in Names : users[n] # None /\ users[n].role = "admin"

\* Nobody has a session, or is about to, whose account is not there.
SessionsHaveUsers ==
  /\ \A c \in Callers : session[c] # None => users[session[c].user] # None
  /\ \A c \in Callers : call[c] # None /\ call[c].op = "login" =>
       users[call[c].name] # None /\ users[call[c].name].status # "pending"

\* The number of a token is its own, and the token of an address was mailed to it.
TokensAreApart ==
  /\ IsFiniteSet(issued)
  /\ \A t \in issued : t.id \in 1 .. Cardinality(issued)
  /\ \A s, t \in issued : s.id = t.id => s = t
  /\ \A e \in Emails : tokens[e] # None => tokens[e] \in issued /\ tokens[e].email = e

\* Who is about to set a password has shown a token that was mailed to the address of
\* the user, and that was not too old then.
ResetsAreByRight ==
  \A c \in Callers : call[c] # None /\ call[c].op = "reset" =>
    /\ call[c].token \in issued /\ call[c].token.email = call[c].email
    /\ call[c].step = "valid" => call[c].read <= call[c].token.at + Expiry

\* Through the routes nobody registers, so that the first user is the seed's and the
\* others are by somebody with an administrator's session, which lasts until the insert.
FirstIsAdmin ==
  /\ seed = "done" => \E n \in Names : users[n] # None
  /\ \A c \in Callers : call[c] # None /\ call[c].op = "create" => IsSuperAdmin(c)
  /\ routed =>
       /\ \A c \in Callers : call[c] # None => call[c].op # "register"
       /\ (\E n \in Names : users[n] # None) =>
            \E n \in Names : users[n] # None /\ users[n].role = "admin"

\* The inductive invariant.
AccountsInv ==
  /\ TypeOK /\ EmailsAreUnique /\ PendingNeverLogsIn /\ AdminIsSeeded
  /\ SessionsHaveUsers /\ TokensAreApart /\ ResetsAreByRight /\ FirstIsAdmin

\* readme.md:9 "Full authentication system supporting user registration": who asks
\* for a name and an address that nobody has is registered.
RegistrationIsAccepted ==
  answer # None /\ answer.op = "register" /\ ~ answer.ok =>
    users[answer.what[1]] # None \/ Taken(answer.what[2])

\* readme.md:11 "Complete email-based password reset workflow": whoever is told that
\* instructions have been sent, and has an account, was sent a token.
ForgotSendsToken ==
  answer # None /\ answer.op = "forgot" /\ Taken(answer.what) =>
    \E t \in issued : t.email = answer.what

\* userService.js:35 "Revokes a user's access (Ban)": a revoked user has no session.
RevokedHasNoAccess ==
  \A c \in Callers : session[c] # None => users[session[c].user].status # "revoked"

\* passwordResetService.js:118 "Delete the used token", and the schema's
\* 168 "New reset requests automatically invalidate old tokens": a password is set
\* only by the token that is in the table.
StoredTokenResets ==
  [][\A c \in Callers :
       /\ call[c] # None /\ call'[c] # None /\ call[c].op = "reset"
       /\ call[c].step = "valid" /\ call'[c].step = "used"
       => Matches(call[c].email, call[c].token)]_vars

\* passwordResetService.js:5 "Tokens expire after 1 hour": until then, a token goes
\* only when it is used, or when another one is asked for.
TokenLives ==
  [][\A e \in Emails :
       LET t == tokens[e] IN
       t # None /\ tokens'[e] = None /\ ~ Expired(t) =>
         \E c \in Callers :
           /\ call[c] # None /\ call[c].op \in {"forgot", "reset"}
           /\ call[c].email = e
           /\ call[c].op = "forgot" \/ call[c].token = t]_vars
=============================================================================
