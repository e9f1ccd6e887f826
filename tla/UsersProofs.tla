----------------------------- MODULE UsersProofs -----------------------------
(***************************************************************************)
(* Proofs about Accounts and Preferences, as MCUsers puts them side by     *)
(* side: UsersInv is an invariant, and a password or a role changes only   *)
(* by right, for every set of users, addresses, browsers, pages and forms. *)
(*                                                                         *)
(* What the invariants say of Accounts is put into operators of the values *)
(* they are about (LogsIn, CallsFit, HasAdmin), so that an action can be   *)
(* proved about with the values it leaves behind.  Users only ever grow    *)
(* (Grows): nobody is deleted, demoted or made to wait once more.          *)
(***************************************************************************)
EXTENDS MCUsers, FiniteSetTheorems, TLAPS

\* Nothing that is stored is None.
LEMMA Stored ==
  /\ \A e \in Emails : e # None
  /\ \A u \in Users : u # None
  /\ \A t \in Tokens : t # None
  /\ \A s \in Sessions : s # None
  /\ \A x \in Calls : x # None
BY AccountsAssumption, NoneAssumption

-----------------------------------------------------------------------------
(* What the invariant says of the values of the variables *)

\* The sessions s are of users of the table u that are not pending.
LogsIn(s, u) ==
  \A c \in Callers : s[c] # None => u[s[c].user] # None /\ u[s[c].user].status # "pending"

\* A request under way is what the table u, the tokens i that were issued and the
\* way r that requests take allow.
Fits(x, u, i, r) ==
  /\ x.op = "login" => u[x.name] # None /\ u[x.name].status # "pending"
  /\ x.op = "reset" =>
       /\ x.token \in i /\ x.token.email = x.email
       /\ x.step = "valid" => x.read <= x.token.at + Expiry
  /\ r => x.op # "register"

CallsFit(cl, u, i, r) == \A c \in Callers : cl[c] # None => Fits(cl[c], u, i, r)

\* Who creates an account has the session of an administrator.
ByAdmins(cl, s) ==
  \A c \in Callers : cl[c] # None /\ cl[c].op = "create" => s[c] # None /\ s[c].role = "admin"

HasAdmin(u, sd, r) ==
  /\ sd = "done" => \E n \in Names : u[n] # None
  /\ r => ((\E n \in Names : u[n] # None) => \E n \in Names : u[n] # None /\ u[n].role = "admin")

UniqueIn(u) ==
  \A m, n \in Names :
    u[m] # None /\ u[n] # None /\ u[m].email = u[n].email /\ u[m].email # None => m = n

\* A later table v has everybody of u, as much approved and with no less rights.
Grows(u, v) ==
  \A n \in Names : u[n] # None =>
    /\ v[n] # None
    /\ u[n].status # "pending" => v[n].status # "pending"
    /\ u[n].role = "admin" => v[n].role = "admin"

\* The invariant in these terms, now and after a step.
LEMMA AccountsMeans ==
  AccountsInv <=>
    /\ TypeOK /\ TokensAreApart /\ UniqueIn(users) /\ LogsIn(session, users)
    /\ CallsFit(call, users, issued, routed) /\ HasAdmin(users, seed, routed)
    /\ ByAdmins(call, session)
<1>1. EmailsAreUnique <=> UniqueIn(users)
  BY DEF EmailsAreUnique, UniqueIn
<1>2. TypeOK => (PendingNeverLogsIn /\ SessionsHaveUsers /\ ResetsAreByRight /\ FirstIsAdmin <=>
        /\ LogsIn(session, users) /\ CallsFit(call, users, issued, routed)
        /\ HasAdmin(users, seed, routed) /\ ByAdmins(call, session))
  BY DEF PendingNeverLogsIn, SessionsHaveUsers, ResetsAreByRight, FirstIsAdmin, LogsIn,
         CallsFit, Fits, HasAdmin, ByAdmins, IsSuperAdmin
<1>3. FirstIsAdmin => AdminIsSeeded
  BY DEF FirstIsAdmin, AdminIsSeeded
<1>4. QED
  BY <1>1, <1>2, <1>3 DEF AccountsInv

LEMMA AccountsMeansNext ==
  AccountsInv' <=>
    /\ TypeOK' /\ TokensAreApart' /\ UniqueIn(users') /\ LogsIn(session', users')
    /\ CallsFit(call', users', issued', routed') /\ HasAdmin(users', seed', routed')
    /\ ByAdmins(call', session')
<1>1. EmailsAreUnique' <=> UniqueIn(users')
  BY DEF EmailsAreUnique, UniqueIn
<1>2. TypeOK' => (PendingNeverLogsIn' /\ SessionsHaveUsers' /\ ResetsAreByRight' /\ FirstIsAdmin' <=>
        /\ LogsIn(session', users') /\ CallsFit(call', users', issued', routed')
        /\ HasAdmin(users', seed', routed') /\ ByAdmins(call', session'))
  BY DEF PendingNeverLogsIn, SessionsHaveUsers, ResetsAreByRight, FirstIsAdmin, LogsIn,
         CallsFit, Fits, HasAdmin, ByAdmins, IsSuperAdmin
<1>3. FirstIsAdmin' => AdminIsSeeded'
  BY DEF FirstIsAdmin, AdminIsSeeded
<1>4. QED
  BY <1>1, <1>2, <1>3 DEF AccountsInv

\* Sessions and requests stay in order when users and tokens are added.
LEMMA GrowthKeeps ==
  ASSUME NEW u, NEW v, Grows(u, v), NEW i, NEW j, i \subseteq j, NEW r,
         NEW s \in [Callers -> Sessions \cup {None}], NEW cl \in [Callers -> Calls \cup {None}],
         LogsIn(s, u), CallsFit(cl, u, i, r)
  PROVE  LogsIn(s, v) /\ CallsFit(cl, v, j, r)
<1>1. LogsIn(s, v)
  <2>1. \A c \in Callers : s[c] # None => s[c].user \in Names
    BY DEF Sessions
  <2>2. QED
    BY <2>1 DEF Grows, LogsIn
<1>2. \A c \in Callers : cl[c] # None /\ cl[c].op = "login" => cl[c].name \in Names
  BY DEF Calls
<1>3. CallsFit(cl, v, j, r)
  BY <1>2 DEF Grows, CallsFit, Fits
<1>4. QED
  BY <1>1, <1>3

\* One request is replaced by another one that fits, or by none.
LEMMA OneCallFits ==
  ASSUME NEW cl \in [Callers -> Calls \cup {None}], NEW c \in Callers, NEW x, NEW u, NEW i, NEW r,
         CallsFit(cl, u, i, r), x # None => Fits(x, u, i, r)
  PROVE  CallsFit([cl EXCEPT ![c] = x], u, i, r)
BY DEF CallsFit

LEMMA OneCallByAdmin ==
  ASSUME NEW cl \in [Callers -> Calls \cup {None}], NEW c \in Callers, NEW x, NEW s,
         ByAdmins(cl, s), x # None /\ x.op = "create" => s[c] # None /\ s[c].role = "admin"
  PROVE  ByAdmins([cl EXCEPT ![c] = x], s)
BY DEF ByAdmins

\* A step that only replaces a request.
LEMMA CallChanges ==
  ASSUME AccountsInv, NEW c \in Callers, NEW x \in Calls \cup {None},
         x # None => Fits(x, users, issued, routed),
         x # None /\ x.op = "create" => IsSuperAdmin(c),
         call' = [call EXCEPT ![c] = x],
         UNCHANGED <<users, tokens, issued, session, seed, now, routed>>
  PROVE  AccountsInv'
<1>1. TypeOK' /\ TokensAreApart'
  BY DEF AccountsInv, TypeOK, TokensAreApart
<1>2. CallsFit(call', users', issued', routed')
  BY AccountsMeans, OneCallFits DEF TypeOK
<1>3. ByAdmins(call', session')
  BY AccountsMeans, OneCallByAdmin DEF TypeOK, IsSuperAdmin
<1>4. QED
  BY <1>1, <1>2, <1>3, AccountsMeans, AccountsMeansNext

\* A step that adds to the users, and ends at most a request.
LEMMA UsersChange ==
  ASSUME AccountsInv, users' \in [Names -> Users \cup {None}], Grows(users, users'),
         UniqueIn(users'), HasAdmin(users', seed', routed), seed' \in {"start", "create", "done", "failed"},
         call' = call \/ \E c \in Callers : call' = [call EXCEPT ![c] = None],
         UNCHANGED <<tokens, issued, session, now, routed>>
  PROVE  AccountsInv'
<1>1. TypeOK' /\ TokensAreApart'
  BY DEF AccountsInv, TypeOK, TokensAreApart
<1>2. CallsFit(call', users, issued, routed)
  BY AccountsMeans, OneCallFits DEF TypeOK
<1>3. LogsIn(session', users') /\ CallsFit(call', users', issued', routed')
  BY <1>1, <1>2, AccountsMeans, GrowthKeeps DEF TypeOK
<1>4. ByAdmins(call', session')
  BY AccountsMeans, OneCallByAdmin DEF TypeOK
<1>5. QED
  BY <1>1, <1>3, <1>4, AccountsMeansNext

-----------------------------------------------------------------------------
(* The steps of authService *)

LEMMA AccountsInit == Init => AccountsInv
<1> SUFFICES ASSUME Init PROVE AccountsInv
  OBVIOUS
<1>1. PICK p \in Passwords, e \in Emails, another \in Names, first \in BOOLEAN :
        users = [n \in Names |->
          IF first THEN None
          ELSE IF n = Root THEN User(None, p, "admin", "active")
          ELSE IF n = another THEN User(e, p, "user", "active") ELSE None]
  BY DEF Init
<1>2. User(None, p, "admin", "active") \in Users /\ User(e, p, "user", "active") \in Users
  BY DEF User, Users, Roles
<1>3. users \in [Names -> Users \cup {None}]
  BY <1>1, <1>2
<1>4. TypeOK
  BY <1>3 DEF Init, TypeOK
<1>5. TokensAreApart
  BY FS_EmptySet DEF Init, TokensAreApart
<1>6. UniqueIn(users)
  BY <1>1 DEF UniqueIn, User
<1>7. LogsIn(session, users) /\ CallsFit(call, users, issued, routed)
  BY DEF Init, LogsIn, CallsFit
<1>8. HasAdmin(users, seed, routed)
  <2>1. CASE first
    BY <1>1, <2>1 DEF Init, HasAdmin
  <2>2. CASE ~ first
    <3>1. users[Root] = User(None, p, "admin", "active")
      BY <1>1, <2>2, AccountsAssumption
    <3>2. users[Root] # None /\ users[Root].role = "admin" /\ seed # "done"
      BY <1>2, <3>1, Stored DEF Init, User
    <3>3. QED
      BY <3>2, AccountsAssumption DEF HasAdmin
  <2>3. QED
    BY <2>1, <2>2
<1>9. ByAdmins(call, session)
  BY DEF Init, ByAdmins
<1>10. QED
  BY <1>4, <1>5, <1>6, <1>7, <1>8, <1>9, AccountsMeans

LEMMA RegisterKeeps ==
  ASSUME AccountsInv, NEW c \in Callers, NEW n \in Names, NEW e \in Emails, NEW p \in Passwords,
         Register(c, n, e, p)
  PROVE  AccountsInv'
<1> DEFINE x == [op |-> "register", name |-> n, email |-> e, pw |-> p]
<1>1. x \in Calls
  BY DEF Calls
<1>2. CASE routed \/ users[n] # None \/ Taken(e)
  <2>1. call' = [call EXCEPT ![c] = None]
    BY <1>2 DEF Register, Answers
  <2>2. QED
    BY <2>1, CallChanges DEF Register
<1>3. CASE ~ (routed \/ users[n] # None \/ Taken(e))
  <2>1. x.op = "register" /\ ~ routed
    BY <1>3
  <2>2. Fits(x, users, issued, routed)
    BY <2>1, Zenon DEF Fits
  <2>3. call' = [call EXCEPT ![c] = x]
    BY <1>3 DEF Register, Goes
  <2> HIDE DEF x
  <2>4. QED
    BY <1>1, <2>1, <2>2, <2>3, CallChanges DEF Register
<1>4. QED
  BY <1>2, <1>3

LEMMA RegisterInsertKeeps ==
  ASSUME AccountsInv, NEW c \in Callers, RegisterInsert(c)
  PROVE  AccountsInv'
<1> DEFINE r == call[c]
           u == User(r.email, r.pw, "user", "pending")
           free == users[r.name] = None /\ ~ Taken(r.email)
<1>1. r \in Calls /\ r.op = "register"
  BY DEF AccountsInv, TypeOK, RegisterInsert
<1>2. r.name \in Names /\ r.email \in Emails /\ r.pw \in Passwords
  BY <1>1 DEF Calls
<1>3. u \in Users
  BY <1>2 DEF User, Users, Roles
<1>4. /\ users' = IF free THEN [users EXCEPT ![r.name] = u] ELSE users
      /\ call' = [call EXCEPT ![c] = None]
      /\ UNCHANGED <<tokens, issued, session, seed, now, routed>>
  BY DEF RegisterInsert, Answers
<1>5. ~ routed
  BY <1>1, Stored, AccountsMeans DEF CallsFit, Fits
<1>6. u.email = r.email /\ u # None
  BY <1>3, Stored DEF User
<1>7. users \in [Names -> Users \cup {None}] /\ seed \in {"start", "create", "done", "failed"}
  BY DEF AccountsInv, TypeOK
<1> HIDE DEF u
<1>8. users' \in [Names -> Users \cup {None}] /\ Grows(users, users')
  BY <1>2, <1>3, <1>4, <1>7 DEF Grows
<1>9. UniqueIn(users')
  <2>1. free => \A m \in Names : users[m] # None => users[m].email # r.email
    BY <1>2, Stored DEF Taken
  <2>2. UniqueIn(users)
    BY AccountsMeans
  <2> HIDE DEF free, r
  <2>3. QED
    BY <1>2, <1>4, <1>6, <1>7, <2>1, <2>2 DEF UniqueIn
<1>10. HasAdmin(users', seed', routed')
  <2>1. HasAdmin(users, seed, routed)
    BY AccountsMeans
  <2>2. QED
    BY <1>4, <1>5, <1>8, <2>1 DEF HasAdmin, Grows
<1>11. QED
  BY <1>4, <1>7, <1>8, <1>9, <1>10, UsersChange

LEMMA AdminCreateUserKeeps ==
  ASSUME AccountsInv, NEW c \in Callers, NEW n \in Names, NEW p \in Passwords, NEW role \in Roles,
         AdminCreateUser(c, n, p, role)
  PROVE  AccountsInv'
<1> DEFINE x == [op |-> "create", name |-> n, pw |-> p, role |-> role]
<1>1. x \in Calls /\ x.op = "create"
  BY DEF Calls
<1>2. /\ call' = [call EXCEPT ![c] = None] \/ call' = [call EXCEPT ![c] = x]
      /\ UNCHANGED <<users, tokens, issued, session, seed, now, routed>>
      /\ IsSuperAdmin(c)
  BY DEF AdminCreateUser, Answers, Goes
<1> HIDE DEF x
<1>3. Fits(x, users, issued, routed)
  BY <1>1, Zenon DEF Fits
<1>4. QED
  BY <1>1, <1>2, <1>3, CallChanges

LEMMA AdminCreateInsertKeeps ==
  ASSUME AccountsInv, NEW c \in Callers, AdminCreateInsert(c)
  PROVE  AccountsInv'
<1> DEFINE n == call[c].name
           u == User(None, call[c].pw, call[c].role, "active")
<1>1. call[c] \in Calls /\ call[c].op = "create" /\ call[c] # None
  BY DEF AccountsInv, TypeOK, AdminCreateInsert
<1>2. n \in Names /\ call[c].pw \in Passwords /\ call[c].role \in Roles
  BY <1>1 DEF Calls
<1>3. u \in Users /\ u # None /\ u.email = None
  BY <1>2, Stored DEF User, Users
<1>4. /\ users' = IF users[n] = None THEN [users EXCEPT ![n] = u] ELSE users
      /\ call' = [call EXCEPT ![c] = None]
      /\ UNCHANGED <<tokens, issued, session, seed, now, routed>>
  BY DEF AdminCreateInsert, Answers
<1> HIDE DEF u, n
<1>5. users \in [Names -> Users \cup {None}] /\ seed \in {"start", "create", "done", "failed"}
      /\ session \in [Callers -> Sessions \cup {None}]
  BY DEF AccountsInv, TypeOK
<1>6. users' \in [Names -> Users \cup {None}] /\ Grows(users, users')
  BY <1>2, <1>3, <1>4, <1>5 DEF Grows
<1>7. UniqueIn(users')
  BY <1>2, <1>3, <1>4, <1>5, AccountsMeans DEF UniqueIn
<1>8. HasAdmin(users', seed', routed')
  <2>1. HasAdmin(users, seed, routed) /\ LogsIn(session, users) /\ ByAdmins(call, session)
    BY AccountsMeans
  <2>2. session[c] # None /\ session[c].user \in Names
    BY <1>1, <1>5, <2>1 DEF ByAdmins, Sessions
  <2>3. \E m \in Names : users[m] # None
    BY <2>1, <2>2 DEF LogsIn
  <2>4. QED
    BY <1>4, <1>6, <2>1, <2>3 DEF HasAdmin, Grows
<1>9. QED
  BY <1>4, <1>5, <1>6, <1>7, <1>8, UsersChange

LEMMA LoginKeeps ==
  ASSUME AccountsInv, NEW c \in Callers, NEW n \in Names, NEW p \in Passwords, Login(c, n, p)
  PROVE  AccountsInv'
<1> DEFINE x == [op |-> "login", name |-> n, role |-> users[n].role]
<1>1. CASE MayLogIn(users[n], p)
  <2>1. users[n] # None /\ users[n].status # "pending"
    BY <1>1 DEF MayLogIn
  <2>2. x \in Calls
    BY <2>1 DEF AccountsInv, TypeOK, Users, Calls
  <2>3. x.op = "login" /\ x.name = n
    OBVIOUS
  <2>4. call' = [call EXCEPT ![c] = x]
    BY <1>1 DEF Login, Goes
  <2> HIDE DEF x
  <2>5. Fits(x, users, issued, routed)
    BY <2>1, <2>3 DEF Fits
  <2>6. QED
    BY <2>2, <2>3, <2>4, <2>5, CallChanges DEF Login
<1>2. CASE ~ MayLogIn(users[n], p)
  <2>1. call' = [call EXCEPT ![c] = None]
    BY <1>2 DEF Login, Answers
  <2>2. QED
    BY <2>1, CallChanges DEF Login
<1>3. QED
  BY <1>1, <1>2

LEMMA SessionsKeep ==
  ASSUME AccountsInv, NEW c \in Callers, EstablishSession(c) \/ Logout(c)
  PROVE  AccountsInv'
<1> DEFINE s == [user |-> call[c].name, role |-> call[c].role]
<1>1. /\ TypeOK /\ LogsIn(session, users) /\ CallsFit(call, users, issued, routed)
      /\ ByAdmins(call, session)
  BY AccountsMeans
<1>2. /\ call' = [call EXCEPT ![c] = None]
      /\ UNCHANGED <<users, tokens, issued, seed, now, routed>>
  BY DEF EstablishSession, Logout, Answers
<1>3. TokensAreApart' /\ UniqueIn(users') /\ HasAdmin(users', seed', routed')
  BY <1>2, AccountsMeans DEF TokensAreApart
<1>4. CallsFit(call', users', issued', routed')
  BY <1>1, <1>2, OneCallFits DEF TypeOK
<1>0. ByAdmins(call', session')
  <2>1. call'[c] = None /\ \A d \in Callers \ {c} : call'[d] = call[d] /\ session'[d] = session[d]
    BY <1>1, <1>2 DEF TypeOK, EstablishSession, Logout
  <2>2. QED
    BY <1>1, <2>1 DEF ByAdmins
<1>5. CASE EstablishSession(c)
  <2>1. call[c] \in Calls /\ call[c].op = "login" /\ session' = [session EXCEPT ![c] = s]
    BY <1>1, <1>5 DEF TypeOK, EstablishSession
  <2>2. s \in Sessions /\ s.user = call[c].name
    BY <2>1 DEF Calls, Sessions
  <2>3. users[s.user] # None /\ users[s.user].status # "pending"
    BY <1>1, <2>1, <2>2, Stored DEF CallsFit, Fits
  <2> HIDE DEF s
  <2>4. TypeOK'
    BY <1>1, <1>2, <2>1, <2>2 DEF TypeOK
  <2>5. LogsIn(session', users')
    BY <1>1, <1>2, <2>1, <2>3 DEF TypeOK, LogsIn
  <2>6. QED
    BY <1>0, <1>3, <1>4, <2>4, <2>5, AccountsMeansNext
<1>6. CASE Logout(c)
  <2>1. session' = [session EXCEPT ![c] = None]
    BY <1>6 DEF Logout
  <2>2. TypeOK'
    BY <1>1, <1>2, <2>1 DEF TypeOK
  <2>3. LogsIn(session', users')
    BY <1>1, <1>2, <2>1 DEF TypeOK, LogsIn
  <2>4. QED
    BY <1>0, <1>3, <1>4, <2>2, <2>3, AccountsMeansNext
<1>7. QED
  BY <1>5, <1>6

\* The seed counts users and creates the first one, or gives up.
LEMMA SeedKeeps ==
  ASSUME AccountsInv, SeedCount \/ SeedFails \/ \E p \in Passwords : SeedCreate(p)
  PROVE  AccountsInv'
<1>1. /\ users \in [Names -> Users \cup {None}] /\ UniqueIn(users)
      /\ HasAdmin(users, seed, routed)
  BY AccountsMeans DEF TypeOK
<1>2. Grows(users, users)
  BY DEF Grows
<1>3. UNCHANGED <<tokens, issued, session, call, now, routed>>
  BY DEF SeedCount, SeedFails, SeedCreate
<1>4. CASE SeedCount
  <2>1. UNCHANGED users /\ seed' = IF \A n \in Names : users[n] = None THEN "create" ELSE "done"
    BY <1>4 DEF SeedCount
  <2>2. HasAdmin(users', seed', routed')
    BY <1>1, <1>3, <2>1 DEF HasAdmin
  <2>3. QED
    BY <1>1, <1>2, <1>3, <2>1, <2>2, UsersChange
<1>5. CASE SeedFails
  <2>1. UNCHANGED users /\ seed' = "failed"
    BY <1>5 DEF SeedFails
  <2>2. HasAdmin(users', seed', routed')
    BY <1>1, <1>3, <2>1 DEF HasAdmin
  <2>3. QED
    BY <1>1, <1>2, <1>3, <2>1, <2>2, UsersChange
<1>6. ASSUME NEW p \in Passwords, SeedCreate(p)
      PROVE  AccountsInv'
  <2> DEFINE u == User(None, p, "admin", "active")
  <2>1. u \in Users /\ u # None /\ u.email = None /\ u.role = "admin"
    BY Stored DEF User, Users, Roles
  <2>2. /\ seed' = IF users[Root] = None THEN "done" ELSE "failed"
        /\ users' = IF users[Root] = None THEN [users EXCEPT ![Root] = u] ELSE users
    BY <1>6 DEF SeedCreate
  <2> HIDE DEF u
  <2>3. users' \in [Names -> Users \cup {None}] /\ Grows(users, users')
    BY <1>1, <2>1, <2>2, AccountsAssumption DEF Grows
  <2>4. UniqueIn(users')
    BY <1>1, <2>1, <2>2, AccountsAssumption DEF UniqueIn
  <2>5. HasAdmin(users', seed', routed')
    BY <1>1, <1>3, <2>1, <2>2, AccountsAssumption DEF HasAdmin
  <2>6. QED
    BY <1>3, <2>2, <2>3, <2>4, <2>5, UsersChange
<1>7. QED
  BY <1>4, <1>5, <1>6

-----------------------------------------------------------------------------
(* The steps of userService *)

LEMMA ManageUserKeeps ==
  ASSUME AccountsInv, NEW c \in Callers, NEW n \in Names,
         NEW op \in {"approve", "revoke", "promote"}, ManageUser(c, n, op)
  PROVE  AccountsInv'
<1>1. /\ users \in [Names -> Users \cup {None}] /\ UniqueIn(users)
      /\ HasAdmin(users, seed, routed) /\ seed \in {"start", "create", "done", "failed"}
  BY AccountsMeans DEF TypeOK
<1>2. call' = [call EXCEPT ![c] = None] /\ UNCHANGED <<tokens, issued, session, seed, now, routed>>
  BY DEF ManageUser, Answers
<1>3. \/ users' = users
      \/ users[n] # None /\ \E st \in {"active", "revoked"} : users' = [users EXCEPT ![n].status = st]
      \/ users[n] # None /\ users' = [users EXCEPT ![n].role = "admin"]
  BY DEF ManageUser
<1>4. users[n] # None => users[n] \in Users
  BY <1>1
<1>5. \A u \in Users, st \in {"active", "revoked"} :
        /\ [u EXCEPT !.status = st] \in Users /\ [u EXCEPT !.role = "admin"] \in Users
        /\ [u EXCEPT !.status = st].email = u.email /\ [u EXCEPT !.role = "admin"].email = u.email
        /\ [u EXCEPT !.status = st].role = u.role /\ [u EXCEPT !.role = "admin"].role = "admin"
        /\ [u EXCEPT !.status = st].status = st /\ [u EXCEPT !.role = "admin"].status = u.status
  BY DEF Users, Roles
<1>6. \/ users' = users
      \/ \E v \in Users :
           /\ users[n] # None /\ users' = [users EXCEPT ![n] = v] /\ v # None
           /\ v.email = users[n].email
           /\ v.status # "pending" \/ v.status = users[n].status
           /\ v.role = "admin" \/ v.role = users[n].role
  <2>1. CASE users' = users
    BY <2>1
  <2>2. ASSUME users[n] # None, NEW st \in {"active", "revoked"}, users' = [users EXCEPT ![n].status = st]
        PROVE  \E v \in Users :
           /\ users[n] # None /\ users' = [users EXCEPT ![n] = v] /\ v # None
           /\ v.email = users[n].email
           /\ v.status # "pending" \/ v.status = users[n].status
           /\ v.role = "admin" \/ v.role = users[n].role
    <3> DEFINE v == [users[n] EXCEPT !.status = st]
    <3>1. v \in Users /\ v.email = users[n].email /\ v.status # "pending" /\ v.role = users[n].role
      BY <1>4, <1>5, <2>2
    <3>2. users' = [users EXCEPT ![n] = v]
      BY <2>2
    <3> HIDE DEF v
    <3>3. QED
      BY <2>2, <3>1, <3>2, Stored
  <2>3. ASSUME users[n] # None, users' = [users EXCEPT ![n].role = "admin"]
        PROVE  \E v \in Users :
           /\ users[n] # None /\ users' = [users EXCEPT ![n] = v] /\ v # None
           /\ v.email = users[n].email
           /\ v.status # "pending" \/ v.status = users[n].status
           /\ v.role = "admin" \/ v.role = users[n].role
    <3> DEFINE v == [users[n] EXCEPT !.role = "admin"]
    <3>1. v \in Users /\ v.email = users[n].email /\ v.status = users[n].status /\ v.role = "admin"
      BY <1>4, <1>5, <2>3
    <3>2. users' = [users EXCEPT ![n] = v]
      BY <2>3
    <3> HIDE DEF v
    <3>3. QED
      BY <2>3, <3>1, <3>2, Stored
  <2>4. QED
    BY <1>3, <2>1, <2>2, <2>3
<1>7. users' \in [Names -> Users \cup {None}] /\ Grows(users, users')
  BY <1>1, <1>6 DEF Grows
<1>8. UniqueIn(users')
  BY <1>1, <1>6 DEF UniqueIn
<1>9. HasAdmin(users', seed', routed')
  BY <1>1, <1>2, <1>6, <1>7 DEF HasAdmin, Grows
<1>10. QED
  BY <1>1, <1>2, <1>7, <1>8, <1>9, UsersChange

-----------------------------------------------------------------------------
(* The steps of passwordResetService *)

LEMMA ForgotKeeps ==
  ASSUME AccountsInv, NEW c \in Callers, NEW e \in Emails, Forgot(c, e)
  PROVE  AccountsInv'
<1> DEFINE x == [op |-> "forgot", step |-> "delete", email |-> e]
<1>1. x \in Calls /\ x.op = "forgot"
  BY DEF Calls
<1> HIDE DEF x
<1>2. Fits(x, users, issued, routed)
  BY <1>1 DEF Fits
<1>3. call' = [call EXCEPT ![c] = x] \/ call' = [call EXCEPT ![c] = None]
  BY DEF Forgot, Answers, Goes, x
<1>4. QED
  BY <1>1, <1>2, <1>3, CallChanges DEF Forgot

\* The row of an address goes, and its request goes on or ends.
LEMMA TokenGoes ==
  ASSUME AccountsInv, NEW c \in Callers, NEW e \in Emails, NEW x \in Calls \cup {None},
         x # None => Fits(x, users, issued, routed) /\ x.op # "create",
         call' = [call EXCEPT ![c] = x], tokens' = [tokens EXCEPT ![e] = None],
         UNCHANGED <<users, issued, session, seed, now, routed>>
  PROVE  AccountsInv'
<1>1. TypeOK'
  BY DEF AccountsInv, TypeOK
<1>2. TokensAreApart'
  <2>1. \A f \in Emails : tokens'[f] # None => tokens'[f] = tokens[f] /\ tokens[f] # None
    BY DEF AccountsInv, TypeOK
  <2>2. QED
    BY <2>1 DEF AccountsInv, TokensAreApart
<1>3. CallsFit(call', users', issued', routed')
  BY AccountsMeans, OneCallFits DEF TypeOK
<1>4. ByAdmins(call', session')
  BY AccountsMeans, OneCallByAdmin DEF TypeOK
<1>5. QED
  BY <1>1, <1>2, <1>3, <1>4, AccountsMeans, AccountsMeansNext

LEMMA ForgotDeleteKeeps ==
  ASSUME AccountsInv, NEW c \in Callers, ForgotDelete(c)
  PROVE  AccountsInv'
<1> DEFINE x == [call[c] EXCEPT !.step = "insert"]
<1>1. call[c] \in Calls /\ call[c].op = "forgot"
  BY DEF AccountsInv, TypeOK, ForgotDelete
<1>2. x \in Calls /\ x.op = "forgot" /\ call[c].email \in Emails
  BY <1>1 DEF Calls
<1>3. call' = [call EXCEPT ![c] = x] /\ tokens' = [tokens EXCEPT ![call[c].email] = None]
      /\ UNCHANGED <<users, issued, session, seed, now, routed>>
  BY DEF ForgotDelete
<1> HIDE DEF x
<1>4. Fits(x, users, issued, routed)
  BY <1>2 DEF Fits
<1>5. QED
  BY <1>2, <1>3, <1>4, TokenGoes

\* A new token has a number above all others.
LEMMA ForgotInsertKeeps ==
  ASSUME AccountsInv, NEW c \in Callers, ForgotInsert(c)
  PROVE  AccountsInv'
<1> DEFINE e == call[c].email
           t == [id |-> Cardinality(issued) + 1, email |-> e, at |-> now]
<1>1. call[c] \in Calls /\ call[c].op = "forgot"
  BY DEF AccountsInv, TypeOK, ForgotInsert
<1>2. e \in Emails
  BY <1>1 DEF Calls
<1>3. call' = [call EXCEPT ![c] = None] /\ UNCHANGED <<users, session, seed, now, routed>>
  BY DEF ForgotInsert, Answers
<1>4. CASE tokens[e] # None
  <2>1. UNCHANGED <<tokens, issued>>
    BY <1>4 DEF ForgotInsert
  <2>2. QED
    BY <1>3, <2>1, CallChanges
<1>5. CASE tokens[e] = None
  <2>1. tokens' = [tokens EXCEPT ![e] = t] /\ issued' = issued \cup {t}
    BY <1>5 DEF ForgotInsert
  <2>2. IsFiniteSet(issued) /\ Cardinality(issued) \in Nat
    BY FS_CardinalityType DEF AccountsInv, TokensAreApart
  <2>3. /\ t \in Tokens /\ t.id = Cardinality(issued) + 1 /\ t.email = e /\ t \notin issued
    BY <1>2, <2>2 DEF AccountsInv, TypeOK, TokensAreApart, Tokens
  <2>4. IsFiniteSet(issued') /\ Cardinality(issued') = Cardinality(issued) + 1
    BY <2>1, <2>2, <2>3, FS_AddElement
  <2> HIDE DEF t, e
  <2>5. TypeOK'
    BY <1>2, <1>3, <2>1, <2>3 DEF AccountsInv, TypeOK
  <2>6. TokensAreApart'
    <3>1. /\ \A s \in issued : s.id \in 1 .. Cardinality(issued)
          /\ \A s, r \in issued : s.id = r.id => s = r
          /\ \A f \in Emails : tokens[f] # None => tokens[f] \in issued /\ tokens[f].email = f
          /\ tokens \in [Emails -> Tokens \cup {None}]
      BY DEF AccountsInv, TypeOK, TokensAreApart
    <3>2. \A s \in issued' : s.id \in 1 .. Cardinality(issued')
      BY <2>1, <2>2, <2>3, <2>4, <3>1
    <3>3. \A s, r \in issued' : s.id = r.id => s = r
      BY <2>1, <2>2, <2>3, <3>1
    <3>4. \A f \in Emails : tokens'[f] # None => tokens'[f] \in issued' /\ tokens'[f].email = f
      BY <1>2, <2>1, <2>3, <3>1
    <3>5. QED
      BY <2>4, <3>2, <3>3, <3>4 DEF TokensAreApart
  <2>7. CallsFit(call', users, issued, routed)
    BY AccountsMeans, OneCallFits, <1>3 DEF TypeOK
  <2>8. Grows(users, users)
    BY DEF Grows
  <2>9. CallsFit(call', users', issued', routed')
    BY <1>3, <2>1, <2>5, <2>7, <2>8, AccountsMeans, GrowthKeeps DEF TypeOK
  <2>10. ByAdmins(call', session')
    BY <1>3, AccountsMeans, OneCallByAdmin DEF TypeOK
  <2>11. QED
    BY <1>3, <2>5, <2>6, <2>9, <2>10, AccountsMeans, AccountsMeansNext
<1>6. QED
  BY <1>4, <1>5

\* The token that was shown is the one that the address has.
LEMMA MatchIsOwn ==
  ASSUME AccountsInv, NEW e \in Emails, NEW t \in issued, Matches(e, t)
  PROVE  t.email = e
BY DEF AccountsInv, TokensAreApart, Matches

LEMMA ResetKeeps ==
  ASSUME AccountsInv, NEW c \in Callers, NEW e \in Emails, NEW t \in issued,
         NEW p \in Passwords, Reset(c, e, t, p)
  PROVE  AccountsInv'
<1> DEFINE step == IF Expired(t) THEN "expired" ELSE "valid"
           x == [op |-> "reset", step |-> step, email |-> e, token |-> t, pw |-> p, read |-> now]
<1>1. TypeOK
  BY DEF AccountsInv
<1>2. CASE routed \/ ~ Matches(e, t)
  <2>1. call' = [call EXCEPT ![c] = None]
    BY <1>2 DEF Reset, Answers
  <2>2. QED
    BY <2>1, CallChanges DEF Reset
<1>3. CASE ~ routed /\ Matches(e, t)
  <2>1. call' = [call EXCEPT ![c] = x]
    BY <1>3 DEF Reset, Goes
  <2>2. x \in Calls
    BY <1>1 DEF TypeOK, Calls
  <2>3. x.op = "reset" /\ x.token = t /\ x.email = e /\ x.read = now /\ x.step = step
    OBVIOUS
  <2>4. x.step = "valid" => now <= t.at + Expiry
    BY <1>1, <2>3, AccountsAssumption DEF TypeOK, Tokens, Expired
  <2> HIDE DEF x
  <2>5. Fits(x, users, issued, routed)
    BY <1>3, <2>3, <2>4, MatchIsOwn DEF Fits
  <2>6. QED
    BY <2>1, <2>2, <2>3, <2>5, CallChanges DEF Reset
<1>4. QED
  BY <1>2, <1>3

\* Owner finds a user with the address.
LEMMA OwnerHasIt ==
  ASSUME NEW e, Taken(e)
  PROVE  Owner(e) \in Names /\ users[Owner(e)] # None /\ users[Owner(e)].email = e
BY DEF Taken, Owner

LEMMA ResetUpdateKeeps ==
  ASSUME AccountsInv, NEW c \in Callers, ResetUpdate(c)
  PROVE  AccountsInv'
<1> DEFINE r == call[c]
           n == Owner(r.email)
           v == [users[n] EXCEPT !.pw = r.pw]
           x == [r EXCEPT !.step = "used"]
<1>1. /\ TypeOK /\ UniqueIn(users) /\ HasAdmin(users, seed, routed)
      /\ CallsFit(call, users, issued, routed) /\ LogsIn(session, users) /\ TokensAreApart
      /\ ByAdmins(call, session)
  BY AccountsMeans
<1>2. r \in Calls /\ r.op = "reset" /\ r.step = "valid"
  BY <1>1 DEF TypeOK, ResetUpdate
<1>3. UNCHANGED <<tokens, issued, session, seed, now, routed>>
  BY DEF ResetUpdate
<1>4. CASE ~ Taken(r.email)
  <2>1. call' = [call EXCEPT ![c] = None] /\ UNCHANGED users
    BY <1>4 DEF ResetUpdate, Answers
  <2>2. QED
    BY <1>3, <2>1, CallChanges
<1>5. CASE Taken(r.email)
  <2>1. n \in Names /\ users[n] \in Users /\ r.pw \in Passwords
    BY <1>1, <1>2, <1>5, OwnerHasIt DEF TypeOK, Calls
  <2>2. /\ v \in Users /\ v # None /\ v.email = users[n].email
        /\ v.status = users[n].status /\ v.role = users[n].role
    BY <2>1, Stored DEF Users
  <2>3. users' = [users EXCEPT ![n] = v] /\ call' = [call EXCEPT ![c] = x]
    BY <1>5 DEF ResetUpdate
  <2>4. x \in Calls /\ x.op = "reset" /\ x.step = "used" /\ x.token = r.token /\ x.email = r.email
    BY <1>2 DEF Calls
  <2>5. Fits(r, users, issued, routed)
    BY <1>1, <1>2, Stored DEF CallsFit
  <2>6. Fits(x, users, issued, routed)
    BY <1>2, <2>4, <2>5, Zenon DEF Fits
  <2> HIDE DEF v, x, n
  <2>7. CallsFit(call', users, issued, routed)
    BY <1>1, <2>3, <2>6, OneCallFits DEF TypeOK
  <2>8. /\ users' \in [Names -> Users \cup {None}] /\ Grows(users, users')
    BY <1>1, <2>1, <2>2, <2>3 DEF TypeOK, Grows
  <2>9. UniqueIn(users')
    BY <1>1, <2>1, <2>2, <2>3, Stored DEF TypeOK, UniqueIn
  <2>10. HasAdmin(users', seed', routed')
    BY <1>1, <1>3, <2>1, <2>2, <2>3, <2>8, Stored DEF TypeOK, HasAdmin, Grows
  <2>11. TypeOK'
    BY <1>1, <1>3, <2>3, <2>4, <2>8 DEF TypeOK
  <2>12. TokensAreApart'
    BY <1>1, <1>3 DEF TokensAreApart
  <2>13. LogsIn(session', users') /\ CallsFit(call', users', issued', routed')
    BY <1>1, <1>3, <2>7, <2>8, <2>11, GrowthKeeps DEF TypeOK
  <2>14. ByAdmins(call', session')
    BY <1>1, <1>3, <2>3, <2>4, OneCallByAdmin DEF TypeOK
  <2>15. QED
    BY <2>9, <2>10, <2>11, <2>12, <2>13, <2>14, AccountsMeansNext
<1>6. QED
  BY <1>4, <1>5

LEMMA DeleteTokenKeeps ==
  ASSUME AccountsInv, NEW c \in Callers, DeleteToken(c)
  PROVE  AccountsInv'
<1>1. call[c] \in Calls /\ call[c].op = "reset"
  BY DEF AccountsInv, TypeOK, DeleteToken
<1>2. call[c].email \in Emails
  BY <1>1 DEF Calls
<1>3. call' = [call EXCEPT ![c] = None] /\ tokens' = [tokens EXCEPT ![call[c].email] = None]
      /\ UNCHANGED <<users, issued, session, seed, now, routed>>
  BY DEF DeleteToken, Answers
<1>4. QED
  BY <1>2, <1>3, TokenGoes

\* The clock and a restart, after which no request is under way.
LEMMA RestKeeps ==
  ASSUME AccountsInv, Tick \/ Restart \/ UNCHANGED vars
  PROVE  AccountsInv'
<1>1. /\ TypeOK /\ UniqueIn(users) /\ HasAdmin(users, seed, routed)
      /\ CallsFit(call, users, issued, routed) /\ LogsIn(session, users) /\ TokensAreApart
      /\ ByAdmins(call, session)
  BY AccountsMeans
<1>2. UNCHANGED <<users, tokens, issued, session, routed>>
  BY DEF Tick, Restart, vars
<1>3. TypeOK' /\ TokensAreApart'
  BY <1>1, <1>2 DEF TypeOK, TokensAreApart, Tick, Restart, vars
<1>4. CallsFit(call', users', issued', routed')
  BY <1>1, <1>2 DEF CallsFit, Tick, Restart, vars
<1>5. HasAdmin(users', seed', routed')
  BY <1>1, <1>2 DEF HasAdmin, Tick, Restart, vars
<1>6. ByAdmins(call', session')
  BY <1>1, <1>2 DEF ByAdmins, Tick, Restart, vars
<1>7. QED
  BY <1>1, <1>2, <1>3, <1>4, <1>5, <1>6, AccountsMeansNext

LEMMA AccountsStep == AccountsInv /\ [Next]_vars => AccountsInv'
<1> SUFFICES ASSUME AccountsInv, [Next]_vars PROVE AccountsInv'
  OBVIOUS
<1>1. ASSUME NEW c \in Callers, NEW n \in Names, NEW p \in Passwords,
             \/ \E e \in Emails : Register(c, n, e, p)
             \/ \E role \in {"user", "admin"} : AdminCreateUser(c, n, p, role)
             \/ Login(c, n, p)
      PROVE  AccountsInv'
  BY <1>1, RegisterKeeps, AdminCreateUserKeeps, LoginKeeps DEF Roles
<1>2. ASSUME NEW c \in Callers,
             \/ \E n \in Names, op \in {"approve", "revoke", "promote"} : ManageUser(c, n, op)
             \/ \E e \in Emails : Forgot(c, e)
             \/ \E e \in Emails, t \in issued, p \in Passwords : Reset(c, e, t, p)
      PROVE  AccountsInv'
  BY <1>2, ManageUserKeeps, ForgotKeeps, ResetKeeps
<1>3. ASSUME NEW c \in Callers,
             \/ RegisterInsert(c) \/ AdminCreateInsert(c) \/ EstablishSession(c) \/ Logout(c)
             \/ ForgotDelete(c) \/ ForgotInsert(c) \/ ResetUpdate(c) \/ DeleteToken(c)
      PROVE  AccountsInv'
  BY <1>3, RegisterInsertKeeps, AdminCreateInsertKeeps, SessionsKeep, ForgotDeleteKeeps, ForgotInsertKeeps,
     ResetUpdateKeeps, DeleteTokenKeeps
<1>4. QED
  BY <1>1, <1>2, <1>3, SeedKeeps, RestKeeps DEF Next

-----------------------------------------------------------------------------
(* Preferences *)

PrefKeys == Prefs!Keys
BusyStages == {"next", "found", "missing"}

\* The request of a page that is not idle.
PrefRequests ==
  [stage : BusyStages \cup {"saved", "refused"}, form : Forms, pos : 1 .. (Len(Fields) + 1),
   alone : BOOLEAN]

\* The value that the form of request x gives to its field i, and whether it is valid.
GivenAt(x, i) == Prefs!Given(Fields[i], x.form[Fields[i]])
ValidAt(x) == Prefs!IsValid(Fields[x.pos], GivenAt(x, x.pos))

\* What a table r would show for a key.
ShownIn(r, key) == IF r[key] = None THEN Prefs!Default(key) ELSE r[key].value

\* A request by itself.
PageInv(x) ==
  /\ x = Prefs!Idle \/ x \in PrefRequests
  /\ x.stage \in {"found", "missing", "refused"} => x.pos <= Len(Fields)
  /\ x.stage \in {"found", "missing"} => ValidAt(x)
  /\ x.stage = "refused" /\ x.alone => ~ ValidAt(x)

\* What a save that nobody has overlapped knows of the rows.
AloneInv(x, r) ==
  x.stage \in BusyStages /\ x.alone =>
    /\ x.stage = "found" => r[Fields[x.pos]] # None
    /\ x.stage = "missing" => r[Fields[x.pos]] = None
    /\ \A i \in 1 .. (x.pos - 1) : ShownIn(r, Fields[i]) = GivenAt(x, i)

RowInv(key, r) ==
  r = None \/ /\ Prefs!IsValid(key, r.value)
              /\ \E form \in Forms : r = Prefs!Row(Prefs!Given(key, form[key]))

RowsInv(r) ==
  /\ r = [key \in PrefKeys |-> r[key]]
  /\ \A key \in PrefKeys : RowInv(key, r[key])

\* A save that nobody has overlapped is the only one.
OnlyOne(cl) ==
  \A p, q \in Pages :
    cl[p].stage \in BusyStages /\ cl[p].alone /\ cl[q].stage \in BusyStages => q = p

CallsInv(cl, r) ==
  /\ cl = [p \in Pages |-> cl[p]]
  /\ \A p \in Pages : PageInv(cl[p]) /\ AloneInv(cl[p], r)
  /\ OnlyOne(cl)

\* Every place of the form has a field of its own.
LEMMA FieldsAreKeys ==
  /\ Len(Fields) \in Nat
  /\ \A i \in 1 .. Len(Fields) : Fields[i] \in PrefKeys
  /\ \A i, j \in 1 .. Len(Fields) : Fields[i] = Fields[j] => i = j
<1>1. Fields \in Seq({"expiry", "landing", "items", "email", "theme"})
  BY PrefsAssumption DEF Prefs!PreferencesAssumption
<1>2. Len(Fields) \in Nat /\ DOMAIN Fields = 1 .. Len(Fields)
  BY <1>1
<1>3. QED
  BY <1>2, PrefsAssumption DEF Prefs!PreferencesAssumption, PrefKeys, Prefs!Keys

\* The invariant in these terms, now and after a step.
LEMMA PreferencesMeans == Prefs!PreferencesInv <=> RowsInv(rows) /\ CallsInv(request, rows)
<1>1. Prefs!TypeOK /\ Prefs!RowsAreValid /\ Prefs!RefusedForAReason <=>
        RowsInv(rows) /\ request = [p \in Pages |-> request[p]] /\ \A p \in Pages : PageInv(request[p])
  BY DEF Prefs!TypeOK, Prefs!RowsAreValid, Prefs!RefusedForAReason, RowsInv, RowInv, PrefKeys,
         PageInv, PrefRequests, BusyStages, ValidAt, GivenAt, Prefs!Field, Prefs!Value
<1>2. Prefs!AloneIsAlone <=>
        /\ OnlyOne(request)
        /\ \A p \in Pages : request[p].stage \in BusyStages /\ request[p].alone =>
             /\ request[p].stage = "found" => rows[Fields[request[p].pos]] # None
             /\ request[p].stage = "missing" => rows[Fields[request[p].pos]] = None
  BY Zenon DEF Prefs!AloneIsAlone, Prefs!Busy, Prefs!Field, OnlyOne, BusyStages
<1>3. Prefs!PrefixIsShown <=>
        \A p \in Pages : request[p].stage \in BusyStages /\ request[p].alone =>
          \A i \in 1 .. (request[p].pos - 1) :
            ShownIn(rows, Fields[i]) = GivenAt(request[p], i)
  BY Zenon DEF Prefs!PrefixIsShown, Prefs!Busy, Prefs!Shown, ShownIn, GivenAt, BusyStages
<1>4. Prefs!PrefixIsShown /\ Prefs!AloneIsAlone <=>
        OnlyOne(request) /\ \A p \in Pages : AloneInv(request[p], rows)
  BY <1>2, <1>3, Zenon DEF AloneInv
<1>5. QED
  BY <1>1, <1>4 DEF Prefs!PreferencesInv, CallsInv

LEMMA PreferencesMeansNext ==
  Prefs!PreferencesInv' <=> RowsInv(rows') /\ CallsInv(request', rows')
<1>1. Prefs!TypeOK' /\ Prefs!RowsAreValid' /\ Prefs!RefusedForAReason' <=>
        /\ RowsInv(rows') /\ request' = [p \in Pages |-> request'[p]]
        /\ \A p \in Pages : PageInv(request'[p])
  BY DEF Prefs!TypeOK, Prefs!RowsAreValid, Prefs!RefusedForAReason, RowsInv, RowInv, PrefKeys,
         PageInv, PrefRequests, BusyStages, ValidAt, GivenAt, Prefs!Field, Prefs!Value
<1>2. Prefs!AloneIsAlone' <=>
        /\ OnlyOne(request')
        /\ \A p \in Pages : request'[p].stage \in BusyStages /\ request'[p].alone =>
             /\ request'[p].stage = "found" => rows'[Fields[request'[p].pos]] # None
             /\ request'[p].stage = "missing" => rows'[Fields[request'[p].pos]] = None
  BY Zenon DEF Prefs!AloneIsAlone, Prefs!Busy, Prefs!Field, OnlyOne, BusyStages
<1>3. Prefs!PrefixIsShown' <=>
        \A p \in Pages : request'[p].stage \in BusyStages /\ request'[p].alone =>
          \A i \in 1 .. (request'[p].pos - 1) :
            ShownIn(rows', Fields[i]) = GivenAt(request'[p], i)
  BY Zenon DEF Prefs!PrefixIsShown, Prefs!Busy, Prefs!Shown, ShownIn, GivenAt, BusyStages
<1>4. Prefs!PrefixIsShown' /\ Prefs!AloneIsAlone' <=>
        OnlyOne(request') /\ \A p \in Pages : AloneInv(request'[p], rows')
  BY <1>2, <1>3, Zenon DEF AloneInv
<1>5. QED
  BY <1>1, <1>4 DEF Prefs!PreferencesInv, CallsInv

\* A request under way goes on: a save that thinks it is alone is this one.
LEMMA BusyGoesOn ==
  ASSUME NEW r, CallsInv(request, r), NEW p \in Pages, request[p].stage \in BusyStages,
         NEW x, PageInv(x), NEW s, AloneInv(x, s), x.alone = request[p].alone,
         request' = [request EXCEPT ![p] = x]
  PROVE  CallsInv(request', s)
<1>1. request' = [q \in Pages |-> IF q = p THEN x ELSE request[q]]
  BY DEF CallsInv
<1>2. \A q \in Pages : q # p => ~ (request[q].stage \in BusyStages /\ request[q].alone)
  BY DEF CallsInv, OnlyOne
<1>3. \A q \in Pages : PageInv(request'[q]) /\ AloneInv(request'[q], s)
  <2>1. ASSUME NEW q \in Pages, q # p
        PROVE  AloneInv(request[q], s)
    BY <1>2, <2>1 DEF AloneInv
  <2>2. QED
    BY <1>1, <2>1 DEF CallsInv
<1>4. OnlyOne(request')
  <2> SUFFICES ASSUME NEW q \in Pages, NEW o \in Pages, request'[q].stage \in BusyStages,
                      request'[q].alone, request'[o].stage \in BusyStages
               PROVE  o = q
    BY DEF OnlyOne
  <2>1. q = p /\ request[p].alone
    BY <1>1, <1>2
  <2>2. request[o].stage \in BusyStages
    BY <1>1
  <2>3. QED
    BY <2>1, <2>2 DEF CallsInv, OnlyOne
<1>5. QED
  BY <1>1, <1>3, <1>4 DEF CallsInv

\* A request begins, and those under way are no longer alone.
LEMMA OthersAreOverlapped ==
  ASSUME NEW r, CallsInv(request, r), NEW p \in Pages, ~ Prefs!Busy(p), NEW x, PageInv(x), NEW s,
         AloneInv(x, s), x.stage \in BusyStages /\ x.alone => \A q \in Pages : ~ Prefs!Busy(q),
         request' = [Prefs!Overlap(p) EXCEPT ![p] = x]
  PROVE  CallsInv(request', s)
<1> DEFINE over(q) == [request[q] EXCEPT !.alone = FALSE]
<1>1. \A q \in Pages : Prefs!Busy(q) <=> request[q].stage \in BusyStages
  BY DEF Prefs!Busy, BusyStages
<1>2. \A q \in Pages : Prefs!Busy(q) <=> request[q].stage \notin {"idle", "saved", "refused"}
  BY DEF CallsInv, PageInv, PrefRequests, Prefs!Busy, BusyStages, Prefs!Idle
<1>3. request' = [q \in Pages |-> IF q = p THEN x ELSE IF Prefs!Busy(q) THEN over(q) ELSE request[q]]
  BY <1>2 DEF Prefs!Overlap
<1>4. ASSUME NEW q \in Pages, Prefs!Busy(q)
      PROVE  PageInv(over(q)) /\ over(q).stage = request[q].stage /\ ~ over(q).alone
  <2>1. request[q] \in PrefRequests /\ request[q].stage # "refused" /\ PageInv(request[q])
    BY <1>4 DEF CallsInv, PageInv, Prefs!Busy, Prefs!Idle
  <2>2. /\ over(q) \in PrefRequests /\ over(q).stage = request[q].stage /\ over(q).pos = request[q].pos
        /\ over(q).form = request[q].form /\ over(q).alone = FALSE
    BY <2>1 DEF PrefRequests
  <2> HIDE DEF over
  <2>3. QED
    BY <2>1, <2>2 DEF PageInv, ValidAt, GivenAt
<1> HIDE DEF over
<1>5. ASSUME NEW q \in Pages
      PROVE  /\ PageInv(request'[q]) /\ AloneInv(request'[q], s)
             /\ q # p => /\ request'[q].stage = request[q].stage
                         /\ ~ (request'[q].stage \in BusyStages /\ request'[q].alone)
  <2>1. CASE q = p
    BY <1>3, <2>1
  <2>2. CASE q # p /\ Prefs!Busy(q)
    BY <1>3, <1>4, <2>2 DEF AloneInv
  <2>3. CASE q # p /\ ~ Prefs!Busy(q)
    BY <1>1, <1>3, <2>3 DEF AloneInv, CallsInv
  <2>4. QED
    BY <2>1, <2>2, <2>3
<1>6. OnlyOne(request')
  <2> SUFFICES ASSUME NEW q \in Pages, NEW o \in Pages, request'[q].stage \in BusyStages,
                      request'[q].alone, request'[o].stage \in BusyStages
               PROVE  o = q
    BY DEF OnlyOne
  <2>1. q = p
    BY <1>5
  <2>2. \A a \in Pages : ~ Prefs!Busy(a)
    BY <1>3, <2>1
  <2>3. QED
    BY <1>1, <1>5, <2>1, <2>2
<1>7. QED
  BY <1>3, <1>5, <1>6 DEF CallsInv

LEMMA SaveKeeps ==
  ASSUME Prefs!PreferencesInv, NEW p \in Pages, NEW form \in Forms, Prefs!Save(p, form)
  PROVE  Prefs!PreferencesInv'
<1> DEFINE alone == \A q \in Pages : ~ Prefs!Busy(q)
           x == [stage |-> "next", form |-> form, pos |-> 1, alone |-> alone]
<1>1. RowsInv(rows) /\ CallsInv(request, rows)
  BY PreferencesMeans
<1>2. /\ ~ Prefs!Busy(p) /\ UNCHANGED rows
      /\ request' = [Prefs!Overlap(p) EXCEPT ![p] = x]
  BY DEF Prefs!Save
<1>3. x \in PrefRequests /\ x.stage = "next" /\ x.pos = 1 /\ x.alone = alone
  BY FieldsAreKeys DEF PrefRequests, BusyStages
<1> HIDE DEF x
<1>4. PageInv(x) /\ AloneInv(x, rows)
  BY <1>3 DEF PageInv, AloneInv
<1>5. CallsInv(request', rows')
  BY <1>1, <1>2, <1>3, <1>4, OthersAreOverlapped
<1>6. QED
  BY <1>1, <1>2, <1>5, PreferencesMeansNext

LEMMA ResetAllKeeps ==
  ASSUME Prefs!PreferencesInv, NEW p \in Pages, Prefs!ResetAll(p)
  PROVE  Prefs!PreferencesInv'
<1> DEFINE x == Prefs!Idle
<1>1. RowsInv(rows) /\ CallsInv(request, rows)
  BY PreferencesMeans
<1>2. /\ ~ Prefs!Busy(p) /\ rows' = [key \in PrefKeys |-> None]
      /\ request' = [Prefs!Overlap(p) EXCEPT ![p] = x]
  BY DEF Prefs!ResetAll, PrefKeys
<1>3. x.stage = "idle"
  BY DEF Prefs!Idle
<1>4. PageInv(x) /\ AloneInv(x, rows') /\ x.stage \notin BusyStages
  BY <1>3 DEF PageInv, AloneInv, BusyStages
<1>5. CallsInv(request', rows')
  BY <1>1, <1>2, <1>4, OthersAreOverlapped
<1>6. RowsInv(rows')
  BY <1>2 DEF RowsInv, RowInv
<1>7. QED
  BY <1>5, <1>6, PreferencesMeansNext

\* A request under way is at a field of the form, or past the last one.
LEMMA RequestHas ==
  ASSUME NEW r, CallsInv(request, r), NEW p \in Pages, request[p].stage \in BusyStages
  PROVE  /\ request[p] \in PrefRequests /\ PageInv(request[p]) /\ AloneInv(request[p], r)
         /\ request[p].pos \in 1 .. (Len(Fields) + 1) /\ request[p].form \in Forms
         /\ request = [request EXCEPT ![p] = request[p]]
BY DEF CallsInv, PageInv, PrefRequests, BusyStages, Prefs!Idle

LEMMA FindFieldKeeps ==
  ASSUME Prefs!PreferencesInv, NEW p \in Pages, Prefs!FindField(p)
  PROVE  Prefs!PreferencesInv'
<1> DEFINE y == request[p]
           stage == IF ~ ValidAt(y) THEN "refused"
                    ELSE IF rows[Fields[y.pos]] # None THEN "found" ELSE "missing"
           x == [y EXCEPT !.stage = stage]
<1>1. RowsInv(rows) /\ CallsInv(request, rows)
  BY PreferencesMeans
<1>2. y.stage = "next" /\ y.pos <= Len(Fields) /\ UNCHANGED rows
  BY DEF Prefs!FindField
<1>3. request' = [request EXCEPT ![p] = x]
  BY DEF Prefs!FindField, ValidAt, GivenAt, Prefs!Field, Prefs!Value
<1>4. y \in PrefRequests /\ AloneInv(y, rows)
  BY <1>1, <1>2, RequestHas DEF BusyStages
<1>5. /\ x \in PrefRequests /\ x.stage = stage /\ x.pos = y.pos /\ x.form = y.form
      /\ x.alone = y.alone
  BY <1>4 DEF PrefRequests, BusyStages
<1>6. ValidAt(x) <=> ValidAt(y)
  BY <1>5 DEF ValidAt, GivenAt
<1> HIDE DEF x
<1>7. PageInv(x)
  BY <1>2, <1>5, <1>6 DEF PageInv
<1>8. AloneInv(x, rows)
  BY <1>2, <1>4, <1>5 DEF AloneInv, GivenAt, BusyStages
<1>9. CallsInv(request', rows')
  BY <1>1, <1>2, <1>3, <1>5, <1>7, <1>8, BusyGoesOn DEF BusyStages
<1>10. QED
  BY <1>1, <1>2, <1>9, PreferencesMeansNext

LEMMA RequestMovesOn ==
  ASSUME NEW y \in PrefRequests, y.pos \in 1 .. Len(Fields),
         NEW x, x = [y EXCEPT !.stage = "next", !.pos = @ + 1]
  PROVE  /\ x \in PrefRequests /\ x.stage = "next" /\ x.pos = y.pos + 1 /\ x.form = y.form
         /\ x.alone = y.alone
<1>1. y.pos + 1 \in 1 .. (Len(Fields) + 1)
  BY FieldsAreKeys
<1>2. "next" \in BusyStages \cup {"saved", "refused"}
  BY DEF BusyStages
<1>3. x.stage = "next" /\ x.pos = y.pos + 1 /\ x.form = y.form /\ x.alone = y.alone
  BY DEF PrefRequests
<1>4. x = [stage |-> "next", form |-> y.form, pos |-> y.pos + 1, alone |-> y.alone]
  BY DEF PrefRequests
<1>5. QED
  BY <1>1, <1>2, <1>3, <1>4 DEF PrefRequests

\* The value of a field is stored, and the request goes on to the next field.
LEMMA StoredField ==
  ASSUME Prefs!PreferencesInv, NEW p \in Pages, request[p].stage \in {"found", "missing"},
         rows' = [rows EXCEPT ![Fields[request[p].pos]] =
                    Prefs!Row(GivenAt(request[p], request[p].pos))],
         request' = [request EXCEPT ![p] = [request[p] EXCEPT !.stage = "next", !.pos = @ + 1]]
  PROVE  Prefs!PreferencesInv'
<1> DEFINE y == request[p]
           x == [y EXCEPT !.stage = "next", !.pos = @ + 1]
           f == Fields[y.pos]
           v == GivenAt(y, y.pos)
<1>1. RowsInv(rows) /\ CallsInv(request, rows)
  BY PreferencesMeans
<1>2. /\ y \in PrefRequests /\ AloneInv(y, rows) /\ ValidAt(y)
      /\ y.pos \in 1 .. Len(Fields) /\ y.form \in Forms
  BY <1>1, RequestHas, FieldsAreKeys DEF BusyStages, PageInv, Prefs!Idle
<1>3. f \in PrefKeys
  BY <1>2, FieldsAreKeys
<1>4. rows' = [key \in PrefKeys |-> IF key = f THEN Prefs!Row(v) ELSE rows[key]]
  BY <1>1 DEF RowsInv
<1>5. Prefs!Row(v) # None /\ Prefs!Row(v).value = v
  BY <1>2, <1>3, PrefsAssumption DEF Prefs!NoneAssumption, GivenAt, PrefKeys, Prefs!Row
<1>6. RowInv(f, Prefs!Row(v))
  BY <1>2, <1>5 DEF RowInv, ValidAt, GivenAt
<1>7. RowsInv(rows')
  BY <1>1, <1>4, <1>6 DEF RowsInv
<1>8. /\ x \in PrefRequests /\ x.stage = "next" /\ x.pos = y.pos + 1 /\ x.form = y.form
      /\ x.alone = y.alone
  BY <1>2, RequestMovesOn
<1> HIDE DEF x
<1>9. PageInv(x)
  BY <1>8 DEF PageInv
<1>10. AloneInv(x, rows')
  <2> SUFFICES ASSUME x.alone, NEW i \in 1 .. (x.pos - 1)
               PROVE  ShownIn(rows', Fields[i]) = GivenAt(x, i)
    BY <1>8 DEF AloneInv
  <2>1. i \in 1 .. Len(Fields) /\ GivenAt(x, i) = GivenAt(y, i)
    BY <1>2, <1>8, FieldsAreKeys DEF GivenAt
  <2>2. CASE i = y.pos
    BY <1>3, <1>4, <1>5, <2>1, <2>2 DEF ShownIn
  <2>3. CASE i # y.pos
    <3>1. i \in 1 .. (y.pos - 1)
      BY <1>2, <1>8, <2>3, FieldsAreKeys
    <3>2. ShownIn(rows, Fields[i]) = GivenAt(y, i)
      BY <1>2, <1>8, <3>1 DEF AloneInv, BusyStages
    <3>3. rows'[Fields[i]] = rows[Fields[i]]
      BY <1>2, <1>4, <2>1, <2>3, FieldsAreKeys
    <3>4. QED
      BY <2>1, <3>2, <3>3 DEF ShownIn
  <2>4. QED
    BY <2>2, <2>3
<1>11. CallsInv(request', rows')
  BY <1>1, <1>8, <1>9, <1>10, BusyGoesOn DEF x, BusyStages
<1>12. QED
  BY <1>7, <1>11, PreferencesMeansNext

LEMMA UpdateFieldKeeps ==
  ASSUME Prefs!PreferencesInv, NEW p \in Pages, Prefs!UpdateField(p)
  PROVE  Prefs!PreferencesInv'
<1> DEFINE y == request[p]
           x == [y EXCEPT !.stage = "next", !.pos = @ + 1]
<1>1. RowsInv(rows) /\ CallsInv(request, rows)
  BY PreferencesMeans
<1>2. y.stage = "found" /\ request' = [request EXCEPT ![p] = x]
  BY DEF Prefs!UpdateField
<1>3. CASE rows[Fields[y.pos]] # None
  <2>1. rows' = [rows EXCEPT ![Fields[y.pos]] = Prefs!Row(GivenAt(y, y.pos))]
    BY <1>3 DEF Prefs!UpdateField, Prefs!Field, Prefs!Value, GivenAt
  <2>2. QED
    BY <1>2, <2>1, StoredField
<1>4. CASE rows[Fields[y.pos]] = None
  <2>1. rows' = rows
    BY <1>4 DEF Prefs!UpdateField, Prefs!Field
  <2>2. y \in PrefRequests /\ AloneInv(y, rows) /\ y.pos \in 1 .. Len(Fields)
    BY <1>1, <1>2, RequestHas, FieldsAreKeys DEF BusyStages, PageInv, Prefs!Idle
  <2>3. x \in PrefRequests /\ x.stage = "next" /\ x.alone = y.alone
    BY <2>2, RequestMovesOn
  <2>4. ~ y.alone
    BY <1>2, <1>4, <2>2 DEF AloneInv, BusyStages
  <2> HIDE DEF x
  <2>5. PageInv(x) /\ AloneInv(x, rows)
    BY <2>3, <2>4 DEF PageInv, AloneInv
  <2>6. CallsInv(request', rows')
    BY <1>1, <1>2, <2>1, <2>3, <2>5, BusyGoesOn DEF BusyStages
  <2>7. QED
    BY <1>1, <2>1, <2>6, PreferencesMeansNext
<1>5. QED
  BY <1>3, <1>4

\* A request ends, saved or refused.
LEMMA RequestEnds ==
  ASSUME Prefs!PreferencesInv, NEW p \in Pages, request[p].stage \in BusyStages,
         NEW stage \in {"saved", "refused"}, stage = "refused" => ~ request[p].alone,
         stage = "refused" => request[p].pos <= Len(Fields),
         UNCHANGED rows, request' = [request EXCEPT ![p].stage = stage]
  PROVE  Prefs!PreferencesInv'
<1> DEFINE x == [request[p] EXCEPT !.stage = stage]
<1>1. RowsInv(rows) /\ CallsInv(request, rows)
  BY PreferencesMeans
<1>2. request[p] \in PrefRequests
  BY <1>1, RequestHas
<1>3. /\ x \in PrefRequests /\ x.stage = stage /\ x.alone = request[p].alone
      /\ x.pos = request[p].pos
  BY <1>2 DEF PrefRequests
<1>4. request' = [request EXCEPT ![p] = x]
  OBVIOUS
<1> HIDE DEF x
<1>5. PageInv(x) /\ AloneInv(x, rows)
  BY <1>3 DEF PageInv, AloneInv, BusyStages
<1>6. CallsInv(request', rows')
  BY <1>1, <1>3, <1>4, <1>5, BusyGoesOn
<1>7. QED
  BY <1>1, <1>6, PreferencesMeansNext

LEMMA InsertFieldKeeps ==
  ASSUME Prefs!PreferencesInv, NEW p \in Pages, Prefs!InsertField(p)
  PROVE  Prefs!PreferencesInv'
<1> DEFINE y == request[p]
<1>1. RowsInv(rows) /\ CallsInv(request, rows)
  BY PreferencesMeans
<1>2. y.stage = "missing" /\ y.stage \in BusyStages
  BY DEF Prefs!InsertField, BusyStages
<1>3. AloneInv(y, rows) /\ y.pos <= Len(Fields)
  BY <1>1, <1>2, RequestHas DEF PageInv
<1>4. CASE rows[Fields[y.pos]] = None
  <2>1. rows' = [rows EXCEPT ![Fields[y.pos]] = Prefs!Row(GivenAt(y, y.pos))]
    BY <1>4 DEF Prefs!InsertField, Prefs!Field, Prefs!Value, GivenAt
  <2>2. request' = [request EXCEPT ![p] = [request[p] EXCEPT !.stage = "next", !.pos = @ + 1]]
    BY <1>4 DEF Prefs!InsertField, Prefs!Field
  <2>3. QED
    BY <1>2, <2>1, <2>2, StoredField
<1>5. CASE rows[Fields[y.pos]] # None
  <2>1. UNCHANGED rows /\ request' = [request EXCEPT ![p].stage = "refused"]
    BY <1>5 DEF Prefs!InsertField, Prefs!Field
  <2>2. ~ y.alone
    BY <1>2, <1>3, <1>5 DEF AloneInv
  <2>3. QED
    BY <1>2, <1>3, <2>1, <2>2, RequestEnds
<1>6. QED
  BY <1>4, <1>5

LEMMA SaveDoneKeeps ==
  ASSUME Prefs!PreferencesInv, NEW p \in Pages, Prefs!SaveDone(p)
  PROVE  Prefs!PreferencesInv'
BY RequestEnds DEF Prefs!SaveDone, BusyStages

LEMMA PreferencesInit == Prefs!Init => Prefs!PreferencesInv
<1> SUFFICES ASSUME Prefs!Init PROVE Prefs!PreferencesInv
  OBVIOUS
<1>1. rows = [key \in PrefKeys |-> None] /\ request = [p \in Pages |-> Prefs!Idle]
  BY DEF Prefs!Init, PrefKeys
<1>2. Prefs!Idle.stage = "idle"
  BY DEF Prefs!Idle
<1>3. RowsInv(rows)
  BY <1>1 DEF RowsInv, RowInv
<1>4. PageInv(Prefs!Idle) /\ AloneInv(Prefs!Idle, rows)
  BY <1>2 DEF PageInv, AloneInv, BusyStages
<1>5. OnlyOne(request)
  BY <1>1, <1>2 DEF OnlyOne, BusyStages
<1>6. CallsInv(request, rows)
  BY <1>1, <1>4, <1>5 DEF CallsInv
<1>7. QED
  BY <1>3, <1>6, PreferencesMeans

LEMMA PreferencesStep ==
  Prefs!PreferencesInv /\ (Prefs!Next \/ UNCHANGED prefVars) => Prefs!PreferencesInv'
<1> SUFFICES ASSUME Prefs!PreferencesInv, Prefs!Next \/ UNCHANGED prefVars
             PROVE  Prefs!PreferencesInv'
  OBVIOUS
<1>1. CASE UNCHANGED prefVars
  BY <1>1, PreferencesMeans, PreferencesMeansNext DEF prefVars
<1>2. CASE Prefs!Next
  BY <1>2, SaveKeeps, FindFieldKeeps, UpdateFieldKeeps, InsertFieldKeeps, SaveDoneKeeps,
     ResetAllKeeps DEF Prefs!Next
<1>3. QED
  BY <1>1, <1>2

-----------------------------------------------------------------------------
(* The theorems *)

LEMMA UsersStep == UsersInv /\ [UsersNext]_<<vars, prefVars, part>> => UsersInv'
<1> SUFFICES ASSUME UsersInv, [UsersNext]_<<vars, prefVars, part>> PROVE UsersInv'
  OBVIOUS
<1>1. [Next]_vars /\ (Prefs!Next \/ UNCHANGED prefVars)
  BY DEF UsersNext
<1>2. QED
  BY <1>1, AccountsStep, PreferencesStep DEF UsersInv

\* Whatever callers, pages, the seed and restarts do: addresses stay apart, nobody
\* unapproved is logged in and the seeded server has an administrator
\* (authService.js, userService.js, passwordResetService.js); and a save of
\* preferences shows what it has passed, stores nothing that is not valid, and is
\* refused for a reason (userPreferenceService.js).
THEOREM UsersAreInOrder == UsersSpec => []UsersInv
<1>1. UsersInit => UsersInv
  BY AccountsInit, PreferencesInit DEF UsersInit, UsersInv
<1>2. QED
  BY <1>1, UsersStep, PTL DEF UsersSpec

\* A password changes only for a token that was mailed to its user.
PasswordRight ==
  \A n \in Names :
    users[n] # None /\ users'[n].pw # users[n].pw =>
      \E c \in Callers :
        /\ call[c] # None /\ call[c].op = "reset"
        /\ call[c].token.email = users[n].email
        /\ call[c].read <= call[c].token.at + Expiry

\* A role changes only by the seed or while somebody has an administrator's session.
AdminRight ==
  \A n \in Names :
    /\ users'[n] # None /\ users'[n].role = "admin"
    /\ users[n] = None \/ users[n].role # "admin"
    => seed # seed' \/ \E c \in Callers : IsSuperAdmin(c)

\* The steps that change a user.
LEMMA WhoChangesUsers ==
  ASSUME Next
  PROVE  \/ UNCHANGED users
         \/ \E c \in Callers : RegisterInsert(c) \/ ResetUpdate(c)
         \/ \E c \in Callers : AdminCreateInsert(c)
         \/ \E c \in Callers, n \in Names, op \in {"approve", "revoke", "promote"} : ManageUser(c, n, op)
         \/ \E p \in Passwords : SeedCreate(p)
BY DEF Next, Register, AdminCreateUser, Login, Forgot, Reset, EstablishSession, Logout, ForgotDelete, ForgotInsert,
       DeleteToken, SeedCount, SeedFails, Tick, Restart

LEMMA RightsStep == AccountsInv /\ [Next]_vars => PasswordRight /\ AdminRight
<1> SUFFICES ASSUME AccountsInv, [Next]_vars PROVE PasswordRight /\ AdminRight
  OBVIOUS
<1>1. TypeOK /\ CallsFit(call, users, issued, routed) /\ ByAdmins(call, session)
  BY AccountsMeans
<1>2. CASE UNCHANGED users
  BY <1>2 DEF PasswordRight, AdminRight
<1>3. ASSUME NEW c \in Callers, RegisterInsert(c)
      PROVE  PasswordRight /\ AdminRight
  <2> DEFINE u == User(call[c].email, call[c].pw, "user", "pending")
  <2>1. u.role = "user"
    BY DEF User
  <2>2. \/ users' = users
        \/ users[call[c].name] = None /\ users' = [users EXCEPT ![call[c].name] = u]
    BY <1>3 DEF RegisterInsert
  <2> HIDE DEF u
  <2>3. QED
    BY <1>1, <2>1, <2>2 DEF TypeOK, PasswordRight, AdminRight
<1>4. ASSUME NEW c \in Callers, ResetUpdate(c)
      PROVE  PasswordRight /\ AdminRight
  <2> DEFINE r == call[c]
             m == Owner(r.email)
  <2>1. r \in Calls /\ r.op = "reset" /\ r.step = "valid" /\ r # None
    BY <1>1, <1>4 DEF TypeOK, ResetUpdate
  <2>2. Fits(r, users, issued, routed)
    BY <1>1, <2>1 DEF CallsFit
  <2>3. r.token.email = r.email /\ r.read <= r.token.at + Expiry
    BY <2>1, <2>2 DEF Fits
  <2>4. \/ users' = users
        \/ Taken(r.email) /\ users' = [users EXCEPT ![m].pw = r.pw]
    BY <1>4 DEF ResetUpdate
  <2>5. Taken(r.email) => m \in Names /\ users[m] # None /\ users[m].email = r.email
    BY OwnerHasIt
  <2>6. ASSUME Taken(r.email), users' = [users EXCEPT ![m].pw = r.pw], NEW n \in Names
        PROVE  n # m => users'[n] = users[n]
    BY <1>1, <2>6 DEF TypeOK
  <2>7. ASSUME Taken(r.email), users' = [users EXCEPT ![m].pw = r.pw]
        PROVE  users'[m].role = users[m].role
    BY <1>1, <2>5, <2>7 DEF TypeOK, Users
  <2> HIDE DEF r, m
  <2>8. PasswordRight
    BY <2>1, <2>3, <2>4, <2>5, <2>6 DEF PasswordRight, r
  <2>9. AdminRight
    BY <2>4, <2>5, <2>6, <2>7 DEF AdminRight
  <2>10. QED
    BY <2>8, <2>9
<1>5. ASSUME NEW c \in Callers, AdminCreateInsert(c)
      PROVE  PasswordRight /\ AdminRight
  <2>1. IsSuperAdmin(c)
    BY <1>1, <1>5 DEF AdminCreateInsert, ByAdmins, IsSuperAdmin
  <2>2. \A n \in Names : users[n] # None => users'[n] = users[n]
    BY <1>1, <1>5 DEF AdminCreateInsert, TypeOK
  <2>3. QED
    BY <2>1, <2>2 DEF PasswordRight, AdminRight
<1>6. ASSUME NEW c \in Callers, NEW m \in Names, NEW op \in {"approve", "revoke", "promote"},
             ManageUser(c, m, op)
      PROVE  PasswordRight /\ AdminRight
  <2>1. IsSuperAdmin(c)
    BY <1>6 DEF ManageUser
  <2>2. \A n \in Names : users[n] # None => users'[n].pw = users[n].pw
    BY <1>1, <1>6 DEF ManageUser, TypeOK, Users
  <2>3. QED
    BY <2>1, <2>2 DEF PasswordRight, AdminRight
<1>7. ASSUME NEW p \in Passwords, SeedCreate(p)
      PROVE  PasswordRight /\ AdminRight
  <2>1. seed' # seed /\ \A n \in Names : users[n] # None => users'[n] = users[n]
    BY <1>1, <1>7 DEF SeedCreate, TypeOK
  <2>2. QED
    BY <2>1 DEF PasswordRight, AdminRight
<1>8. QED
  BY <1>2, <1>3, <1>4, <1>5, <1>6, <1>7, WhoChangesUsers DEF vars

\* A password is set only by a token that was mailed to that user and not too old when
\* it was looked up, and nobody becomes an administrator but by the seed or while somebody
\* has an administrator's session:
\* of every step, of whatever requests overlap (passwordResetService.js, userService.js).
THEOREM RightsAreRespected == UsersSpec => RightsChangeByRight
<1>1. AccountsInv /\ [UsersNext]_<<vars, prefVars, part>> =>
        [PasswordRight]_vars /\ [AdminRight]_vars
  BY RightsStep DEF UsersNext
<1>2. UsersSpec => [][UsersNext]_<<vars, prefVars, part>>
  BY DEF UsersSpec
<1>3. UsersInv => AccountsInv
  BY DEF UsersInv
<1>4. UsersSpec => [][PasswordRight]_vars /\ [][AdminRight]_vars
  BY <1>1, <1>2, <1>3, UsersAreInOrder, PTL
<1>5. QED
  BY <1>4 DEF RightsChangeByRight, PasswordByMailedToken, AdminByAdmin, PasswordRight, AdminRight
=============================================================================
