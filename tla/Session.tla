------------------------------- MODULE Session -------------------------------
(***************************************************************************)
(* Users and their sessions: AuthService, its passport strategies, the     *)
(* RefreshTokenMiddleware every request goes through, and UserService,     *)
(* whose updateUser reads a user row, assigns to the copy and saves it.    *)
(* The refresh token lives in a column of that row, so signing in, signing *)
(* out and editing a user are saves that race with each other.             *)
(***************************************************************************)
EXTENDS Integers, FiniteSets

CONSTANTS Users,        \* ids of the users table
          Clients,      \* browsers
          Requests,
          Phones,
          Passwords,
          Roles,
          Staff,        \* the roles with UPDATE_USER and DELETE_USER
          Forms,        \* what updateUser may be asked to assign (functions on Columns)
          Rows,         \* the users table at the start
          Jars,         \* the browsers' cookies at the start
          AccessTTL,    \* ACCESS_TOKEN_EXPIRES_IN and REFRESH_TOKEN_EXPIRES_IN, in ticks
          RefreshTTL,
          MaxTime,      \* bound on the clock
          None,         \* null
          Absent        \* no row

\* A token is what was signed: the user and the second (two of one second are the same JWT).
Token == [user : Users, iat : 0..MaxTime]
MaybeToken == Token \cup {None}

Columns == {"phone", "password", "refresh", "roles", "deleted"}

\* A row of the table, and its history: the number it was created with, and the users and their
\* numbers among which signUp had not found it (none, if there was no look-up or no answer).
Row == [phone : Phones, password : Passwords, refresh : MaybeToken, roles : SUBSET Roles,
        deleted : BOOLEAN, asked : Phones, seen : SUBSET (Users \X Phones)]

Jar == [access : MaybeToken, refresh : MaybeToken]
EmptyJar == [access |-> None, refresh |-> None]

Ops == {"signUp", "signIn", "signOut", "refreshToken", "createUser", "updateUser", "deleteUser"}

ASSUME SessionAssumption ==
    /\ AccessTTL \in Nat \ {0} /\ RefreshTTL \in Nat \ {0} /\ MaxTime \in Nat
    /\ Clients # {} /\ None \notin Token /\ Absent \notin Row
    \* UpdateUserInput has no other of the columns
    /\ \A f \in Forms : /\ DOMAIN f \subseteq {"phone", "password", "roles"}
                        /\ "phone" \in DOMAIN f => f["phone"] \in Phones
                        /\ "password" \in DOMAIN f => f["password"] \in Passwords
                        /\ "roles" \in DOMAIN f => f["roles"] \in SUBSET Roles
    /\ Rows \in [Users -> Row \cup {Absent}]
    /\ \A u \in Users : Rows[u] # Absent => Rows[u].seen = {}
    /\ Jars \in [Clients -> Jar]
    /\ \A c \in Clients : Jars[c].access # None => Jars[c].access.iat = 0

VARIABLES
    now,        \* the clock
    rows,       \* the users table
    jars,       \* the cookies each browser holds
    at,         \* where each request is
    client,     \* who sent it
    form,       \* its operation and arguments
    sent,       \* its cookies; the middleware may replace them
    seen,       \* history: the users and numbers there were when signUp's look-up was answered
    minted,     \* the refresh token that signIn has signed
    renewed,    \* the middleware has put a new access token into the response
    user,       \* the row it works on
    model,      \* options.model
    image,      \* what save() selected
    lastIn,     \* history: when each user was last signed in, see SignedIn
    buried      \* history: column values overwritten, and in no request's copy any more

requestVars == <<client, form, sent, seen>>
vars == <<now, rows, jars, at, requestVars, minted, renewed, user, model, image, lastIn, buried>>

-----------------------------------------------------------------------------

Exists(u) == rows[u] # Absent

\* What getOne finds: it hides deleted rows.
Found(u) == Exists(u) /\ ~rows[u].deleted

Valid(token, ttl) == token # None /\ now < token.iat + ttl

\* Mutant: the second in which the token expires, for that in which it was signed.
SignedExpiry(u) == [user |-> u, iat |-> now + AccessTTL]

\* jwtService.sign.
Signed(u) == [user |-> u, iat |-> now]

\* validateAccessToken: the signature, the expiry, and that the user is there.
AccessOk(token) == Valid(token, AccessTTL) /\ Found(token.user)

\* Mutant: any refresh token with a good signature will do.
RefreshSigned(token) == Valid(token, RefreshTTL) /\ Found(token.user)

\* validateRefreshToken: it must also be the one in the row.
RefreshOk(token) == /\ Valid(token, RefreshTTL)
                    /\ Found(token.user)
                    /\ rows[token.user].refresh = token

\* A browser drops a cookie when the maxAge it counts from the response's arrival is over: not
\* before the token expires, and maybe a moment after.
Kept(token, ttl) == IF Valid(token, ttl) THEN {token} ELSE {token, None}

\* The permissions of the roles, read with the user (ALL_USER_PERMISSIONS has none of these two).
IsStaff(u) == rows[u].roles \cap Staff # {}

-----------------------------------------------------------------------------

\* What the variables of a request hold that has not begun, or has ended.
Nobody == CHOOSE c \in Clients : TRUE
Blank == [op |-> "refreshToken"]

Init == /\ now = 0
        /\ rows = Rows
        /\ jars = Jars
        /\ at = [r \in Requests |-> "idle"]
        /\ client = [r \in Requests |-> Nobody]
        /\ form = [r \in Requests |-> Blank]
        /\ sent = [r \in Requests |-> EmptyJar]
        /\ seen = [r \in Requests |-> {}]
        /\ minted = [r \in Requests |-> None]
        /\ renewed = [r \in Requests |-> None]
        /\ user = [r \in Requests |-> None]
        /\ model = [r \in Requests |-> Absent]
        /\ image = [r \in Requests |-> Absent]
        /\ lastIn = [u \in Users |-> 0]
        /\ buried = [u \in Users |-> {}]

\* What AuthResolver and UserResolver are asked.
Mutations == [op : {"signUp", "signIn", "createUser"}, phone : Phones, password : Passwords]
             \cup [op : {"signOut", "refreshToken"}]
             \cup [op : {"updateUser"}, id : Users, password : Passwords, data : Forms]
             \cup [op : {"deleteUser"}, id : Users]

Send(r) == /\ at[r] = "idle"
           /\ \E c \in Clients, m \in Mutations :
                /\ "id" \in DOMAIN m => Exists(m.id)
                /\ client' = [client EXCEPT ![r] = c]
                /\ form' = [form EXCEPT ![r] = m]
                /\ \E a \in Kept(jars[c].access, AccessTTL), f \in Kept(jars[c].refresh, RefreshTTL) :
                     sent' = [sent EXCEPT ![r] = [access |-> a, refresh |-> f]]
           /\ at' = [at EXCEPT ![r] = "sent"]
           /\ UNCHANGED <<now, rows, jars, seen, minted, renewed, user, model, image, lastIn, buried>>

\* The response arrives with these cookies; the copies of the row are gone.
End(r, jar, how) == /\ at' = [at EXCEPT ![r] = how]
                    /\ jars' = [jars EXCEPT ![client[r]] = jar]
                    /\ client' = [client EXCEPT ![r] = Nobody]
                    /\ form' = [form EXCEPT ![r] = Blank]
                    /\ sent' = [sent EXCEPT ![r] = EmptyJar]
                    /\ seen' = [seen EXCEPT ![r] = {}]
                    /\ minted' = [minted EXCEPT ![r] = None]
                    /\ renewed' = [renewed EXCEPT ![r] = None]
                    /\ user' = [user EXCEPT ![r] = None]
                    /\ model' = [model EXCEPT ![r] = Absent]
                    /\ image' = [image EXCEPT ![r] = Absent]
                    /\ UNCHANGED now

Respond(r, jar) == End(r, jar, "ended")

\* A response that sets no cookie but the one the middleware renewed.
Plain(r) == IF renewed[r] = None THEN jars[client[r]]
                                 ELSE [jars[client[r]] EXCEPT !.access = renewed[r]]

-----------------------------------------------------------------------------
(* RefreshTokenMiddleware.use.                                             *)

\* Nobody signed in, or a good access token.
Pass(r) == /\ at[r] = "sent"
           /\ sent[r] = EmptyJar \/ AccessOk(sent[r].access)
           /\ at' = [at EXCEPT ![r] = "routed"]
           /\ UNCHANGED <<now, rows, jars, requestVars, minted, renewed, user, model, image, lastIn, buried>>

\* Mutant: a request without an access token is not one to renew.
FallsThroughIfInvalid(jar) == /\ jar.access # None
                              /\ Valid(jar.access, AccessTTL)
                              /\ ~Found(jar.access.user)

\* 'jwt must be provided', or the 'invalid token' of a user who is gone; 'jwt expired' is neither.
FallsThrough(jar) == /\ jar # EmptyJar
                     /\ \/ jar.access = None
                        \/ Valid(jar.access, AccessTTL) /\ ~Found(jar.access.user)

\* A read that gets no answer makes null of the user, too.
Falls(r) == /\ at[r] = "sent"
            /\ FallsThrough(sent[r]) \/ Valid(sent[r].access, AccessTTL)
            /\ at' = [at EXCEPT ![r] = "falling"]
            /\ UNCHANGED <<now, rows, jars, requestVars, minted, renewed, user, model, image, lastIn, buried>>

\* validateRefreshToken is awaited ...
Grant(r) == /\ at[r] = "falling"
            /\ RefreshOk(sent[r].refresh)
            /\ at' = [at EXCEPT ![r] = "granted"]
            /\ UNCHANGED <<now, rows, jars, requestVars, minted, renewed, user, model, image, lastIn, buried>>

\* ... and a new access token signed afterwards.
Renew(r) == /\ at[r] = "granted"
            /\ LET fresh == Signed(sent[r].refresh.user) IN
               /\ sent' = [sent EXCEPT ![r].access = fresh]
               /\ renewed' = [renewed EXCEPT ![r] = fresh]
            /\ at' = [at EXCEPT ![r] = "routed"]
            /\ UNCHANGED <<now, rows, jars, client, form, seen, minted, user, model, image, lastIn, buried>>

\* Both cookies are cleared and the request ends.
Unauthorized(r) == /\ \/ /\ at[r] = "sent"
                         /\ sent[r] # EmptyJar /\ ~AccessOk(sent[r].access)
                         /\ ~FallsThrough(sent[r])
                      \/ at[r] = "falling" /\ ~RefreshOk(sent[r].refresh)
                   /\ Respond(r, EmptyJar)
                   /\ UNCHANGED <<rows, lastIn, buried>>

\* The database does not answer: getOne makes null of it, as if there were no such token.
Unread(r) == /\ at[r] = "falling"
             /\ Valid(sent[r].refresh, RefreshTTL)
             /\ End(r, EmptyJar, "unread")
             /\ UNCHANGED <<rows, lastIn, buried>>

-----------------------------------------------------------------------------
(* The guards and the resolvers.                                           *)

\* A guard or a check refuses.  JwtRefreshTokenStrategy means to clear the cookies then, but its
\* "res" is the token's payload, so they stay.
Refused(r) == Respond(r, Plain(r)) /\ UNCHANGED <<rows, lastIn, buried>>

\* The resolver calls the service, with the row the guard has read.
ToService(r, u, row, place) ==
    /\ at' = [at EXCEPT ![r] = place]
    /\ user' = [user EXCEPT ![r] = u]
    /\ model' = [model EXCEPT ![r] = row]
    /\ UNCHANGED <<now, rows, jars, requestVars, minted, renewed, image, lastIn, buried>>

\* What a look-up searches.
Numbers == {<<u, rows[u].phone>> : u \in {v \in Users : Found(v)}}

SamePhone(phone) == {u \in Users : Found(u) /\ rows[u].phone = phone}

\* SignInGuard, validateUser: if rows share the number, any of them may be the one it reads.
SignIn(r) == /\ at[r] = "routed" /\ form[r].op = "signIn"
             /\ \/ \E u \in SamePhone(form[r].phone) :
                     /\ rows[u].password = form[r].password
                     /\ ToService(r, u, rows[u], "sign")
                \/ /\ \A u \in SamePhone(form[r].phone) : rows[u].password # form[r].password
                   /\ Refused(r)

\* RefreshGuard.
SignOut(r) == /\ at[r] = "routed" /\ form[r].op = "signOut"
              /\ LET u == sent[r].refresh.user IN
                 IF RefreshOk(sent[r].refresh) THEN ToService(r, u, rows[u], "load") ELSE Refused(r)

\* The same guard, awaited before the resolver ...
RefreshGuarded(r) ==
    /\ at[r] = "routed" /\ form[r].op = "refreshToken"
    /\ IF RefreshOk(sent[r].refresh)
       THEN ToService(r, sent[r].refresh.user, Absent, "reissue") ELSE Refused(r)

\* ... of refreshToken: a new access token; the refresh token stays what it is.
RefreshToken(r) == /\ at[r] = "reissue"
                   /\ Respond(r, [jars[client[r]] EXCEPT !.access = Signed(user[r])])
                   /\ UNCHANGED <<rows, lastIn, buried>>

\* GraphqlPassportAuthGuard: the access token again, and a role with the permission.
Administer(r) == /\ at[r] = "routed" /\ form[r].op \in {"updateUser", "deleteUser"}
                 /\ IF AccessOk(sent[r].access) /\ IsStaff(sent[r].access.user)
                    THEN ToService(r, form[r].id, Absent, "load") ELSE Refused(r)

\* createUser of UserResolver does not look for the number.
AdministerNew(r) == /\ at[r] = "routed" /\ form[r].op = "createUser"
                    /\ IF AccessOk(sent[r].access) /\ IsStaff(sent[r].access.user)
                       THEN /\ at' = [at EXCEPT ![r] = "create"]
                            /\ UNCHANGED <<now, rows, jars, requestVars, minted, renewed, user, model, image, lastIn, buried>>
                       ELSE Refused(r)

\* Mutant: only the insert would notice that the number is taken.
LookUpNothing(r) == /\ at[r] = "routed" /\ form[r].op = "signUp"
                    /\ at' = [at EXCEPT ![r] = "create"]
                    /\ seen' = [seen EXCEPT ![r] = Numbers]
                    /\ UNCHANGED <<now, rows, jars, client, form, sent, minted, renewed, user, model, image, lastIn, buried>>

\* signUp looks for the number ...
LookUp(r) == /\ at[r] = "routed" /\ form[r].op = "signUp"
             /\ IF SamePhone(form[r].phone) # {} THEN Refused(r)
                ELSE /\ at' = [at EXCEPT ![r] = "create"]
                     /\ seen' = [seen EXCEPT ![r] = Numbers]
                     /\ UNCHANGED <<now, rows, jars, client, form, sent, minted, renewed, user, model, image, lastIn, buried>>

\* ... where no answer is "no such user" ...
LookUpUnread(r) == /\ at[r] = "routed" /\ form[r].op = "signUp"
                   /\ at' = [at EXCEPT ![r] = "create"]
                   /\ UNCHANGED <<now, rows, jars, requestVars, minted, renewed, user, model, image, lastIn, buried>>

\* ... and creates the user (the table has no constraint on phone), then signs in.
\* UserResolver's createUser ends here.
CreateUser(r) ==
    /\ at[r] = "create"
    /\ {u \in Users : ~Exists(u)} # {}
    /\ LET u == CHOOSE x \in Users : ~Exists(x) IN
       /\ rows' = [rows EXCEPT ![u] = [phone |-> form[r].phone, password |-> form[r].password,
                                       refresh |-> None, roles |-> {}, deleted |-> FALSE,
                                       asked |-> form[r].phone, seen |-> seen[r]]]
       /\ IF form[r].op = "createUser" THEN Respond(r, Plain(r))
          ELSE /\ user' = [user EXCEPT ![r] = u]
               /\ at' = [at EXCEPT ![r] = "sign"]
               /\ UNCHANGED <<now, jars, requestVars, minted, renewed, model, image>>
    /\ UNCHANGED <<lastIn, buried>>

\* signIn: the refresh token is signed, and then stored by updateUser.
Mint(r) == /\ at[r] = "sign"
           /\ minted' = [minted EXCEPT ![r] = Signed(user[r])]
           /\ at' = [at EXCEPT ![r] = "load"]
           /\ UNCHANGED <<now, rows, jars, requestVars, renewed, user, model, image, lastIn, buried>>

-----------------------------------------------------------------------------
(* UserService.updateUser and AbstractService.delete: read, assign, save.  *)

\* signUp ends with a signIn.
IsSignIn(r) == form[r].op \in {"signUp", "signIn"}

\* The columns a request means to write.
Data(r) == CASE IsSignIn(r) -> [refresh |-> minted[r]]
             [] form[r].op = "signOut" -> [refresh |-> None]
             [] form[r].op = "updateUser" -> form[r].data
             [] form[r].op = "deleteUser" -> [deleted |-> TRUE]

\* What Object.assign is given: roles that could not be read are none.
Given(r) == {Data(r)} \cup {[Data(r) EXCEPT !.roles = {}] : c \in DOMAIN Data(r) \cap {"roles"}}

\* updateUser finds the row, and a new password comes with the old one of a row with that phone.
MayAssign(r) ==
    /\ Found(user[r])
    /\ form[r].op = "updateUser" /\ "password" \in DOMAIN form[r].data
         => \E v \in SamePhone(rows[user[r]].phone) : rows[v].password = form[r].password

Assigned(row, data) == [c \in DOMAIN row |-> IF c \in DOMAIN data THEN data[c] ELSE row[c]]

\* Mutant: updateUser is handed the row that the guard has read.
LoadedByGuard(r, u) == IF model[r] = Absent THEN rows[u] ELSE model[r]

\* What updateUser reads, with the roles.
Loaded(r, u) == rows[u]

Load(r) == /\ at[r] = "load"
           /\ MayAssign(r)
           /\ \E data \in Given(r) :
                  model' = [model EXCEPT ![r] = Assigned(Loaded(r, user[r]), data)]
           /\ at' = [at EXCEPT ![r] = "select"]
           /\ UNCHANGED <<now, rows, jars, requestVars, minted, renewed, user, image, lastIn, buried>>

\* The row is gone, or the password is wrong.  signOut clears the cookies all the same.
LoadFails(r) == /\ at[r] = "load"
                /\ ~MayAssign(r)
                /\ Respond(r, IF form[r].op = "signOut" THEN EmptyJar ELSE Plain(r))
                /\ UNCHANGED <<rows, lastIn, buried>>

Select(r) == /\ at[r] = "select"
             /\ image' = [image EXCEPT ![r] = rows[user[r]]]
             /\ at' = [at EXCEPT ![r] = "write"]
             /\ UNCHANGED <<now, rows, jars, requestVars, minted, renewed, user, model, lastIn, buried>>

\* save() writes the columns in which the copy differs from what it selected.
Saved(copy, read, row) == [c \in DOMAIN row |-> IF copy[c] # read[c] THEN copy[c] ELSE row[c]]

\* Another request's copy will write it back, if it saves late.
CopiedElsewhere(r, u, c, value) ==
    \E q \in Requests \ {r} : at[q] \in {"select", "write"} /\ user[q] = u /\ model[q][c] = value

\* What this save overwrites for good, and what it means to write.
Buried(r, old, new) ==
    LET u == user[r]
        gone == {<<c, old[c]>> : c \in {d \in Columns : old[d] # new[d] /\ ~CopiedElsewhere(r, u, d, old[d])}}
        meant == {<<c, model[r][c]>> : c \in DOMAIN Data(r)}
    IN  (buried[u] \cup gone) \ meant

Update(r) ==
    /\ at[r] = "write"
    /\ LET u == user[r]
           new == Saved(model[r], image[r], rows[u])
       IN  /\ rows' = [rows EXCEPT ![u] = new]
           /\ buried' = [buried EXCEPT ![u] = Buried(r, rows[u], new)]
           /\ lastIn' = [lastIn EXCEPT ![u] = IF new.refresh # None \/ IsSignIn(r) THEN now ELSE @]
    /\ IF IsSignIn(r)
       THEN /\ at' = [at EXCEPT ![r] = "enter"]
            /\ UNCHANGED <<now, jars, requestVars, minted, renewed, user, model, image>>
       ELSE Respond(r, IF form[r].op = "signOut" THEN EmptyJar ELSE Plain(r))

\* The refresh token is stored; signIn signs an access token and sets both cookies.
Enter(r) == /\ at[r] = "enter"
            /\ Respond(r, [access |-> Signed(user[r]), refresh |-> minted[r]])
            /\ UNCHANGED <<rows, lastIn, buried>>

\* The database rejects a statement of a save (the row keeps what it has), or a read that getOne
\* turns into null: the request fails, and signOut clears the cookies nevertheless.
Fail(r) == /\ \/ at[r] \in {"load", "select", "write", "create"}
              \/ at[r] = "routed" /\ form[r].op # "signUp"
           /\ Respond(r, IF form[r].op = "signOut" /\ at[r] # "routed" THEN EmptyJar ELSE Plain(r))
           /\ UNCHANGED <<rows, lastIn, buried>>

\* A request has passed the check for which it is about to get an access token of u.
Admitted(r, u) == \/ at[r] = "granted" /\ sent[r].refresh.user = u
                  \/ at[r] \in {"reissue", "enter"} /\ user[r] = u

\* u is signed in somewhere, or about to be given an access token.
SignedIn(u) == \/ Exists(u) /\ rows[u].refresh # None
               \/ \E r \in Requests : Admitted(r, u)

Tick == /\ now < MaxTime
        /\ now' = now + 1
        /\ lastIn' = [u \in Users |-> IF SignedIn(u) THEN now' ELSE lastIn[u]]
        /\ UNCHANGED <<rows, jars, at, requestVars, minted, renewed, user, model, image, buried>>

Next == \/ Tick
        \/ \E r \in Requests :
             \/ Send(r) \/ Pass(r) \/ Falls(r) \/ Grant(r) \/ Renew(r)
             \/ Unauthorized(r) \/ Unread(r)
             \/ SignIn(r) \/ SignOut(r) \/ RefreshGuarded(r) \/ RefreshToken(r)
             \/ Administer(r) \/ AdministerNew(r)
             \/ LookUp(r) \/ LookUpUnread(r) \/ CreateUser(r)
             \/ Mint(r) \/ Load(r) \/ LoadFails(r) \/ Select(r) \/ Update(r) \/ Enter(r) \/ Fail(r)

Spec == Init /\ [][Next]_vars

-----------------------------------------------------------------------------
(* Properties.                                                             *)

TypeOK ==
    /\ now \in 0..MaxTime
    /\ rows \in [Users -> Row \cup {Absent}]
    /\ jars \in [Clients -> Jar]
    /\ at \in [Requests -> {"idle", "sent", "falling", "granted", "routed", "reissue", "create", "sign",
                          "load", "select", "write", "enter", "ended", "unread"}]
    /\ client \in [Requests -> Clients]
    /\ \A r \in Requests : form[r].op \in Ops
    /\ sent \in [Requests -> Jar]
    /\ seen \in [Requests -> SUBSET (Users \X Phones)]
    /\ minted \in [Requests -> MaybeToken]
    /\ renewed \in [Requests -> MaybeToken]
    /\ user \in [Requests -> Users \cup {None}]
    /\ model \in [Requests -> Row \cup {Absent}]
    /\ image \in [Requests -> Row \cup {Absent}]
    /\ lastIn \in [Users -> 0..MaxTime]

\* Two users have the same phone number only if neither was shown to the other's sign-up with that
\* number: they signed up together, a look-up got no answer, or an administrator has created one
\* of them or changed a number.
SamePhoneOnlyUnseen ==
    \A u, v \in Users : u # v /\ Exists(u) /\ Exists(v) /\ rows[u].phone = rows[v].phone
                             /\ rows[v].asked = rows[v].phone
        => <<u, rows[u].phone>> \notin rows[v].seen

\* A revoked refresh token, an old password, a role that was taken away, a deleted user: none of
\* them comes back, unless it is assigned again or a request that read it before the change is
\* still to save its copy.
OnlyOverlapsUndo ==
    \A u \in Users : Exists(u) => \A c \in Columns : <<c, rows[u][c]>> \notin buried[u]

\* Every access token in use was signed while its user's row held a refresh token, or by a request
\* that had passed its check while it did.  So all access ends AccessTTL after the user has signed out
\* everywhere and the renewals and sign-ins have ended that were admitted before.
AccessEndsAfterSignOut ==
    \A token \in {jars[c].access : c \in Clients} \cup {sent[r].access : r \in Requests}
                  \cup {renewed[r] : r \in Requests} :
        token # None => token.iat <= lastIn[token.user]

\* A browser that holds a good refresh token loses it only when it signs out, to a request that
\* carried an expired access token or was sent with other cookies, or by an error of the database.
KeepsSession ==
    [][\A c \in Clients :
         RefreshOk(jars[c].refresh) /\ jars'[c].refresh = None =>
             \E r \in Requests :
                 /\ client[r] = c /\ at'[r] # at[r]
                 /\ \/ form[r].op = "signOut"
                    \/ sent[r].access # None /\ ~Valid(sent[r].access, AccessTTL)
                    \/ sent[r].refresh # jars[c].refresh
                    \/ at'[r] = "unread"]_vars

=============================================================================
