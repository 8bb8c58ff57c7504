----------------------------- MODULE SessionProofs -----------------------------
(***************************************************************************)
(* The properties of Session for any users, browsers and requests, any     *)
(* life of the tokens and any edits.                                       *)
(***************************************************************************)
EXTENDS Session, TLAPS

Places == {"idle", "sent", "falling", "granted", "routed", "reissue", "create", "sign",
           "load", "select", "write", "enter", "ended", "unread"}
Saves == {"signUp", "signIn", "signOut", "updateUser", "deleteUser"}

LEMMA FormTypes ==
    ASSUME NEW m \in Mutations
    PROVE  /\ m.op \in Ops
           /\ m.op \in {"signUp", "signIn", "createUser"} => m.phone \in Phones /\ m.password \in Passwords
           /\ m.op = "updateUser" => m.id \in Users /\ m.password \in Passwords /\ m.data \in Forms
           /\ m.op = "deleteUser" => m.id \in Users
BY DEF Mutations, Ops

\* The columns that Data assigns.
Meant(r) == IF form[r].op \in {"signUp", "signIn", "signOut"} THEN {"refresh"}
            ELSE IF form[r].op = "updateUser" THEN DOMAIN form[r].data
            ELSE {"deleted"}

-----------------------------------------------------------------------------
(* The invariant.                                                          *)

Typed == /\ now \in 0..MaxTime
         /\ rows \in [Users -> Row \cup {Absent}]
         /\ jars \in [Clients -> Jar]
         /\ lastIn \in [Users -> 0..MaxTime]
         /\ DOMAIN buried = Users

RequestsTyped == /\ at \in [Requests -> Places]
                 /\ client \in [Requests -> Clients]
                 /\ form \in [Requests -> Mutations]
                 /\ sent \in [Requests -> Jar]
                 /\ seen \in [Requests -> SUBSET (Users \X Phones)]
                 /\ minted \in [Requests -> MaybeToken]
                 /\ renewed \in [Requests -> MaybeToken]
                 /\ user \in [Requests -> Users \cup {None}]
                 /\ model \in [Requests -> Row \cup {Absent}]
                 /\ image \in [Requests -> Row \cup {Absent}]

\* The user of a token has been signed in since it was signed.
Good(token) == token # None => token.iat <= lastIn[token.user]

\* A row with a refresh token is signed in now.
InNow == \A u \in Users : /\ lastIn[u] <= now
                          /\ Exists(u) /\ rows[u].refresh # None => lastIn[u] = now

\* The number of a new user was not among those its sign-up was shown, and nothing is buried of
\* a user who is not there.
Born == \A u \in Users :
            /\ Exists(u) => \A shown \in rows[u].seen : shown[2] # rows[u].asked
            /\ ~Exists(u) => buried[u] = {}

World == InNow /\ Born /\ OnlyOverlapsUndo

\* What a request's place says of its copies.
Placed(r) ==
    /\ at[r] \in {"idle", "sent", "falling", "granted", "routed"} => seen[r] = {}
    /\ at[r] = "granted" => sent[r].refresh \in Token
    /\ at[r] = "create" => /\ form[r].op \in {"signUp", "createUser"}
                           /\ \A shown \in seen[r] : shown[2] # form[r].phone
    /\ at[r] \in {"reissue", "sign", "load", "select", "write", "enter"} => user[r] \in Users
    /\ at[r] \in {"sign", "enter"} => IsSignIn(r)
    /\ at[r] \in {"load", "select", "write"} => form[r].op \in Saves
    /\ at[r] \in {"load", "select", "write", "enter"} /\ IsSignIn(r) => minted[r] \in Token
    /\ at[r] \in {"select", "write"} =>
         /\ Exists(user[r]) /\ model[r] \in Row
         /\ model[r].asked = rows[user[r]].asked /\ model[r].seen = rows[user[r]].seen
    /\ at[r] = "write" =>
         /\ image[r] \in Row
         /\ image[r].asked = rows[user[r]].asked /\ image[r].seen = rows[user[r]].seen

\* What a copy still holds is not buried, but for what the request assigns.
Copied(r) == at[r] \in {"select", "write"} =>
                 \A c \in Columns \ Meant(r) : <<c, model[r][c]>> \notin buried[user[r]]

\* The access tokens of a request are good, and so will be the one it may sign.
Tokens(r) == /\ Good(sent[r].access) /\ Good(renewed[r])
             /\ \A u \in Users : Admitted(r, u) => lastIn[u] = now

IInv == /\ Typed
        /\ RequestsTyped
        /\ World
        /\ \A c \in Clients : Good(jars[c].access)
        /\ \A r \in Requests : Placed(r) /\ Copied(r) /\ Tokens(r)

LEMMA InitInv == Init => IInv
<1> SUFFICES ASSUME Init PROVE IInv
  OBVIOUS
<1>1. Typed
  BY SessionAssumption DEF Init, Typed
<1>2. Blank \in Mutations
  BY DEF Blank, Mutations
<1>3. EmptyJar \in Jar /\ None \in MaybeToken
  BY DEF EmptyJar, Jar, MaybeToken
<1>4. Nobody \in Clients
  BY SessionAssumption DEF Nobody
<1>5. RequestsTyped
  BY <1>2, <1>3, <1>4 DEF Init, RequestsTyped, Places
<1>6. InNow
  BY DEF Init, InNow
<1>7. Born /\ OnlyOverlapsUndo
  BY SessionAssumption DEF Init, Born, OnlyOverlapsUndo, Exists
<1>8. \A c \in Clients : Good(jars[c].access)
  <2> TAKE c \in Clients
  <2>1. Jars[c].access # None => Jars[c].access.iat = 0 /\ Jars[c].access.user \in Users
    BY SessionAssumption DEF Jar, MaybeToken, Token
  <2> QED BY <2>1 DEF Init, Good
<1>9. \A r \in Requests : Placed(r) /\ Copied(r) /\ Tokens(r)
  BY DEF Init, Placed, Copied, Tokens, Admitted, Good, EmptyJar
<1> QED BY <1>1, <1>5, <1>6, <1>7, <1>8, <1>9 DEF IInv, World

-----------------------------------------------------------------------------
(* Tokens and rows.                                                        *)

LEMMA ExistingRow ==
    ASSUME Typed, NEW u \in Users, Exists(u)
    PROVE  rows[u] \in Row
BY DEF Typed, Exists

\* An access token signed now for a user who is signed in now.
LEMMA GoodSigned ==
    ASSUME Typed, NEW u \in Users, lastIn[u] = now
    PROVE  Signed(u) \in Token /\ Good(Signed(u))
<1>1. now \in 0..MaxTime /\ now \in Int
  BY DEF Typed
<1> QED BY <1>1 DEF Signed, Token, Good

LEMMA GoodRefresh ==
    ASSUME Typed, InNow, NEW token \in MaybeToken, RefreshOk(token)
    PROVE  /\ token \in Token /\ token.user \in Users /\ Exists(token.user)
           /\ lastIn[token.user] = now
<1>1. token \in Token /\ token.user \in Users
  BY DEF RefreshOk, Valid, MaybeToken, Token
<1>2. Exists(token.user) /\ rows[token.user].refresh # None
  BY DEF RefreshOk, Valid, Found
<1> QED BY <1>1, <1>2 DEF InNow

LEMMA JarOfPlain ==
    ASSUME IInv, NEW r \in Requests
    PROVE  /\ Plain(r) \in Jar /\ Good(Plain(r).access)
           /\ Plain(r).refresh = jars[client[r]].refresh
<1>1. jars[client[r]] \in Jar /\ Good(jars[client[r]].access)
  BY DEF IInv, Typed, RequestsTyped
<1>2. renewed[r] \in MaybeToken /\ Good(renewed[r])
  BY DEF IInv, RequestsTyped, Tokens
<1> QED BY <1>1, <1>2 DEF Plain, Jar

LEMMA JarOfNone ==
    EmptyJar \in Jar /\ Good(EmptyJar.access) /\ EmptyJar.refresh = None
BY DEF EmptyJar, Jar, MaybeToken, Good

LEMMA SavedRow ==
    ASSUME NEW copy \in Row, NEW read \in Row, NEW row \in Row
    PROVE  /\ Saved(copy, read, row) \in Row
           /\ \A c \in Columns \cup {"asked", "seen"} :
                Saved(copy, read, row)[c] = IF copy[c] # read[c] THEN copy[c] ELSE row[c]
BY DEF Saved, Row, Columns

LEMMA AssignedRow ==
    ASSUME NEW row \in Row, NEW data, DOMAIN data \subseteq Columns,
           "phone" \in DOMAIN data => data["phone"] \in Phones,
           "password" \in DOMAIN data => data["password"] \in Passwords,
           "refresh" \in DOMAIN data => data["refresh"] \in MaybeToken,
           "roles" \in DOMAIN data => data["roles"] \in SUBSET Roles,
           "deleted" \in DOMAIN data => data["deleted"] \in BOOLEAN
    PROVE  /\ Assigned(row, data) \in Row
           /\ Assigned(row, data).asked = row.asked /\ Assigned(row, data).seen = row.seen
           /\ \A c \in Columns : Assigned(row, data)[c] = IF c \in DOMAIN data THEN data[c] ELSE row[c]
BY DEF Assigned, Row, Columns

LEMMA DataTypes ==
    ASSUME RequestsTyped, NEW r \in Requests, form[r].op \in Saves, NEW data \in Given(r)
    PROVE  /\ DOMAIN Data(r) = Meant(r) /\ DOMAIN data = Meant(r) /\ Meant(r) \subseteq Columns
           /\ "phone" \in DOMAIN data => data["phone"] \in Phones
           /\ "password" \in DOMAIN data => data["password"] \in Passwords
           /\ "refresh" \in DOMAIN data => data["refresh"] \in MaybeToken
           /\ "roles" \in DOMAIN data => data["roles"] \in SUBSET Roles
           /\ "deleted" \in DOMAIN data => data["deleted"] \in BOOLEAN
<1>1. CASE IsSignIn(r)
  <2>1. Data(r) = [refresh |-> minted[r]]
    BY <1>1 DEF Data, IsSignIn
  <2>2. minted[r] \in MaybeToken /\ data = Data(r)
    BY <2>1 DEF RequestsTyped, Given
  <2> QED BY <1>1, <2>1, <2>2 DEF Meant, Columns, IsSignIn
<1>2. CASE form[r].op = "signOut"
  <2>1. Data(r) = [refresh |-> None]
    BY <1>2 DEF Data, IsSignIn
  <2>2. data = Data(r)
    BY <2>1 DEF Given
  <2> QED BY <1>2, <2>1, <2>2 DEF Meant, Columns, MaybeToken
<1>3. CASE form[r].op = "updateUser"
  <2>1. Data(r) = form[r].data
    BY <1>3 DEF Data, IsSignIn
  <2>2. form[r].data \in Forms
    BY <1>3, FormTypes DEF RequestsTyped
  <2>3. /\ DOMAIN data = DOMAIN form[r].data
        /\ \A c \in DOMAIN data : data[c] = form[r].data[c] \/ (c = "roles" /\ data[c] = {})
    BY <2>1 DEF Given
  <2>4. DOMAIN form[r].data \subseteq {"phone", "password", "roles"}
    BY <2>2, SessionAssumption
  <2>5. /\ "phone" \in DOMAIN data => data["phone"] \in Phones
        /\ "password" \in DOMAIN data => data["password"] \in Passwords
    BY <2>2, <2>3, SessionAssumption
  <2>6. "roles" \in DOMAIN data => data["roles"] \in SUBSET Roles
    BY <2>2, <2>3, SessionAssumption
  <2>7. Meant(r) = DOMAIN form[r].data
    BY <1>3 DEF Meant
  <2> QED BY <2>1, <2>3, <2>4, <2>5, <2>6, <2>7 DEF Columns
<1>4. CASE form[r].op = "deleteUser"
  <2>1. Data(r) = [deleted |-> TRUE]
    BY <1>4 DEF Data, IsSignIn
  <2>2. data = Data(r)
    BY <2>1 DEF Given
  <2> QED BY <1>4, <2>1, <2>2 DEF Meant, Columns
<1> QED BY <1>1, <1>2, <1>3, <1>4 DEF Saves, IsSignIn

-----------------------------------------------------------------------------
(* What a step leaves alone.                                               *)

\* r's step leaves the other requests alone.
OthersSame(r) ==
    \A q \in Requests \ {r} :
        UNCHANGED <<at[q], client[q], form[q], sent[q], seen[q], minted[q], renewed[q], user[q], model[q], image[q]>>

\* Rows stay, with what was asked and seen, and nobody's lastIn goes back.
Onward == \A u \in Users :
              /\ Exists(u) => /\ Exists(u)' /\ rows'[u].asked = rows[u].asked
                              /\ rows'[u].seen = rows[u].seen
              /\ lastIn[u] <= lastIn'[u]

\* The clock stands, and lastIn goes no further.
Standing == now' = now /\ \A u \in Users : lastIn'[u] \in {lastIn[u], now}

LEMMA GoodStays ==
    ASSUME Typed, Typed', Onward, NEW token \in MaybeToken, Good(token)
    PROVE  Good(token)'
<1>1. CASE token = None
  BY <1>1 DEF Good
<1>2. CASE token # None
  <2>1. token.user \in Users /\ token.iat \in Int
    BY <1>2 DEF MaybeToken, Token
  <2>2. lastIn[token.user] \in Int /\ lastIn'[token.user] \in Int
    BY <2>1 DEF Typed
  <2> QED BY <1>2, <2>1, <2>2 DEF Good, Onward
<1> QED BY <1>1, <1>2

LEMMA RequestStays ==
    ASSUME IInv, Typed', Onward, Standing, NEW r \in Requests, OthersSame(r), NEW q \in Requests \ {r}
    PROVE  Placed(q)' /\ Tokens(q)'
<1>1. Placed(q) /\ Tokens(q) /\ sent[q] \in Jar /\ renewed[q] \in MaybeToken
  BY DEF IInv, RequestsTyped
<1>2. UNCHANGED <<at[q], client[q], form[q], sent[q], seen[q], minted[q], renewed[q], user[q], model[q], image[q]>>
  BY DEF OthersSame
<1>3. Placed(q)'
  <2>1. IsSignIn(q)' <=> IsSignIn(q)
    BY <1>2 DEF IsSignIn
  <2> QED BY <1>1, <1>2, <2>1 DEF Placed, Onward
<1>4. Good(sent[q].access)' /\ Good(renewed[q])'
  <2>1. sent[q].access \in MaybeToken /\ Good(sent[q].access) /\ Good(renewed[q])
    BY <1>1 DEF Tokens, Jar
  <2>2. \A token \in MaybeToken : Good(token) => (token # None => token.iat <= lastIn'[token.user])
    BY GoodStays DEF Good, IInv
  <2>3. sent'[q] = sent[q] /\ renewed'[q] = renewed[q]
    BY <1>2
  <2> QED BY <1>1, <2>1, <2>2, <2>3 DEF Good
<1>5. ASSUME NEW u \in Users, Admitted(q, u)' PROVE lastIn'[u] = now'
  <2>1. Admitted(q, u)
    BY <1>2, <1>5 DEF Admitted
  <2> QED BY <1>1, <2>1 DEF Tokens, Standing
<1>6. Tokens(q)'
  BY <1>4, <1>5 DEF Tokens
<1> QED BY <1>3, <1>6

LEMMA CopyStays ==
    ASSUME IInv, NEW r \in Requests, OthersSame(r), NEW q \in Requests \ {r},
           at[q] \in {"select", "write"} => buried'[user[q]] = buried[user[q]]
    PROVE  Copied(q)'
<1>1. UNCHANGED <<at[q], form[q], user[q], model[q]>> /\ Copied(q)
  BY DEF OthersSame, IInv
<1>2. Meant(q)' = Meant(q)
  BY <1>1 DEF Meant
<1> QED BY <1>1, <1>2 DEF Copied

LEMMA SameWorld ==
    ASSUME IInv, UNCHANGED <<now, rows, lastIn, buried>>
    PROVE  World' /\ Onward /\ Standing
<1>1. World'
  BY DEF IInv, World, InNow, Born, OnlyOverlapsUndo, Exists
<1>2. \A u \in Users : lastIn[u] <= lastIn[u]
  BY DEF IInv, Typed
<1>3. Onward
  BY <1>2 DEF Onward, Exists
<1> QED BY <1>1, <1>3 DEF Standing

\* A step of r that changes nothing but r's own variables and its browser's jar.
LEMMA OwnStep ==
    ASSUME IInv, NEW r \in Requests, UNCHANGED <<now, rows, lastIn, buried>>,
           RequestsTyped', OthersSame(r),
           jars' \in [Clients -> Jar], \A c \in Clients : Good(jars'[c].access),
           Placed(r)', Copied(r)', Tokens(r)'
    PROVE  IInv'
<1>1. World' /\ Onward /\ Standing
  BY SameWorld
<1>2. Typed'
  BY DEF IInv, Typed
<1>3. \A c \in Clients : Good(jars[c].access)'
  BY DEF Good
<1>4. ASSUME NEW q \in Requests \ {r} PROVE Placed(q)' /\ Copied(q)' /\ Tokens(q)'
  BY <1>1, <1>2, RequestStays, CopyStays
<1> QED BY <1>1, <1>2, <1>3, <1>4 DEF IInv

\* The end of a request, for its own variables and the jars.
LEMMA EndParts ==
    ASSUME IInv, NEW r \in Requests, NEW jar \in Jar, NEW how \in {"ended", "unread"}, End(r, jar, how)
    PROVE  /\ RequestsTyped' /\ OthersSame(r)
           /\ jars' \in [Clients -> Jar]
           /\ \A c \in Clients : jars'[c] = jars[c] \/ (c = client[r] /\ jars'[c] = jar)
           /\ at'[r] = how /\ sent'[r] = EmptyJar /\ renewed'[r] = None
           /\ now' = now
<1>1. RequestsTyped /\ jars \in [Clients -> Jar] /\ client[r] \in Clients
  BY DEF IInv, Typed, RequestsTyped
<1>2. /\ at' = [at EXCEPT ![r] = how] /\ jars' = [jars EXCEPT ![client[r]] = jar]
      /\ client' = [client EXCEPT ![r] = Nobody] /\ form' = [form EXCEPT ![r] = Blank]
      /\ sent' = [sent EXCEPT ![r] = EmptyJar] /\ seen' = [seen EXCEPT ![r] = {}]
      /\ minted' = [minted EXCEPT ![r] = None]
      /\ renewed' = [renewed EXCEPT ![r] = None] /\ user' = [user EXCEPT ![r] = None]
      /\ model' = [model EXCEPT ![r] = Absent] /\ image' = [image EXCEPT ![r] = Absent]
      /\ UNCHANGED now
  BY DEF End
<1>3. Nobody \in Clients /\ Blank \in Mutations
  BY SessionAssumption DEF Nobody, Blank, Mutations
<1>4. RequestsTyped'
  BY <1>1, <1>2, <1>3, JarOfNone DEF RequestsTyped, Places, MaybeToken
<1>5. OthersSame(r)
  BY <1>1, <1>2 DEF OthersSame, RequestsTyped
<1>6. jars' \in [Clients -> Jar] /\ \A c \in Clients : jars'[c] = jars[c] \/ (c = client[r] /\ jars'[c] = jar)
  BY <1>1, <1>2
<1>7. at'[r] = how /\ sent'[r] = EmptyJar /\ renewed'[r] = None
  BY <1>1, <1>2 DEF RequestsTyped
<1> QED BY <1>2, <1>4, <1>5, <1>6, <1>7

LEMMA EndOfRequest ==
    ASSUME NEW r \in Requests, at'[r] \in {"ended", "unread"}, sent'[r] = EmptyJar, renewed'[r] = None
    PROVE  Placed(r)' /\ Copied(r)' /\ Tokens(r)'
BY DEF Placed, Copied, Tokens, Admitted, Good, EmptyJar

\* A request that ends and leaves the users alone.
LEMMA EndStep ==
    ASSUME IInv, NEW r \in Requests, NEW jar \in Jar, Good(jar.access),
           NEW how \in {"ended", "unread"}, End(r, jar, how), UNCHANGED <<rows, lastIn, buried>>
    PROVE  IInv'
<1>1. \A c \in Clients : Good(jars'[c].access)
  BY EndParts DEF IInv
<1>2. Placed(r)' /\ Copied(r)' /\ Tokens(r)'
  BY EndParts, EndOfRequest
<1> QED BY <1>1, <1>2, EndParts, OwnStep

-----------------------------------------------------------------------------
(* The middleware.                                                         *)

LEMMA SendStep ==
    ASSUME IInv, NEW r \in Requests, Send(r)
    PROVE  IInv'
<1>0. PICK c \in Clients, m \in Mutations :
        /\ client' = [client EXCEPT ![r] = c] /\ form' = [form EXCEPT ![r] = m]
        /\ \E a \in Kept(jars[c].access, AccessTTL), f \in Kept(jars[c].refresh, RefreshTTL) :
             sent' = [sent EXCEPT ![r] = [access |-> a, refresh |-> f]]
  BY DEF Send
<1>1. PICK a \in Kept(jars[c].access, AccessTTL), f \in Kept(jars[c].refresh, RefreshTTL) :
        sent' = [sent EXCEPT ![r] = [access |-> a, refresh |-> f]]
  BY <1>0
<1>2. /\ at[r] = "idle" /\ at' = [at EXCEPT ![r] = "sent"]
      /\ UNCHANGED <<now, rows, jars, seen, minted, renewed, user, model, image, lastIn, buried>>
  BY DEF Send
<1>3. jars[c] \in Jar /\ Good(jars[c].access)
  BY DEF IInv, Typed
<1>4. [access |-> a, refresh |-> f] \in Jar /\ Good(a)
  BY <1>3 DEF Kept, Jar, MaybeToken, Good
<1>5. RequestsTyped'
  BY <1>0, <1>1, <1>2, <1>4 DEF IInv, RequestsTyped, Places
<1>6. OthersSame(r)
  BY <1>0, <1>1, <1>2 DEF OthersSame, IInv, RequestsTyped
<1>7. at'[r] = "sent" /\ sent'[r].access = a
  BY <1>1, <1>2 DEF IInv, RequestsTyped
<1>8. Placed(r)' /\ Copied(r)'
  BY <1>2, <1>7 DEF IInv, Placed, Copied
<1>9. Tokens(r)'
  BY <1>2, <1>4, <1>7 DEF IInv, Tokens, Admitted, Good
<1>10. jars' \in [Clients -> Jar] /\ \A d \in Clients : Good(jars'[d].access)
  BY <1>2 DEF IInv, Typed
<1> QED BY <1>2, <1>5, <1>6, <1>8, <1>9, <1>10, OwnStep

\* A request goes on to the next check, or to creating a user.
LEMMA MoveStep ==
    ASSUME IInv, NEW r \in Requests, at[r] \in {"sent", "falling", "routed"},
           NEW place \in {"falling", "granted", "routed", "create"}, at' = [at EXCEPT ![r] = place],
           UNCHANGED <<now, rows, jars, requestVars, minted, renewed, user, model, image, lastIn, buried>>,
           place = "granted" => RefreshOk(sent[r].refresh),
           place = "create" => form[r].op \in {"signUp", "createUser"}
    PROVE  IInv'
<1>1. UNCHANGED <<now, rows, jars, client, form, sent, seen, minted, renewed, user, model, image, lastIn, buried>>
  BY DEF requestVars
<1>2. RequestsTyped' /\ OthersSame(r) /\ at'[r] = place
  BY <1>1 DEF IInv, RequestsTyped, Places, OthersSame
<1>3. sent[r].refresh \in MaybeToken
  BY DEF IInv, RequestsTyped, Jar
<1>4. place = "granted" => sent[r].refresh \in Token /\ lastIn[sent[r].refresh.user] = now
  BY <1>3, GoodRefresh DEF IInv, World
<1>5. Placed(r)'
  BY <1>1, <1>2, <1>4 DEF IInv, Placed
<1>6. Copied(r)'
  BY <1>2 DEF Copied
<1>7. Tokens(r)'
  BY <1>1, <1>2, <1>4 DEF IInv, Tokens, Admitted, Good
<1>8. jars' \in [Clients -> Jar] /\ \A d \in Clients : Good(jars'[d].access)
  BY <1>1 DEF IInv, Typed
<1> QED BY <1>1, <1>2, <1>5, <1>6, <1>7, <1>8, OwnStep

LEMMA ChecksStep ==
    ASSUME IInv, NEW r \in Requests, Pass(r) \/ Falls(r) \/ Grant(r)
    PROVE  IInv'
<1>1. \E place \in {"falling", "granted", "routed"} :
        /\ at[r] \in {"sent", "falling", "routed"} /\ at' = [at EXCEPT ![r] = place]
        /\ place = "granted" => RefreshOk(sent[r].refresh)
        /\ UNCHANGED <<now, rows, jars, requestVars, minted, renewed, user, model, image, lastIn, buried>>
  BY DEF Pass, Falls, Grant
<1> QED BY <1>1, MoveStep

LEMMA RenewStep ==
    ASSUME IInv, NEW r \in Requests, Renew(r)
    PROVE  IInv'
<1> DEFINE fresh == Signed(sent[r].refresh.user)
<1>1. /\ at[r] = "granted" /\ at' = [at EXCEPT ![r] = "routed"]
      /\ sent' = [sent EXCEPT ![r].access = fresh] /\ renewed' = [renewed EXCEPT ![r] = fresh]
      /\ UNCHANGED <<now, rows, jars, client, form, seen, minted, user, model, image, lastIn, buried>>
  BY DEF Renew
<1>2. sent[r] \in Jar /\ sent[r].refresh \in Token /\ sent[r].refresh.user \in Users
  BY <1>1 DEF IInv, RequestsTyped, Placed, Token
<1>3. Admitted(r, sent[r].refresh.user)
  BY <1>1 DEF Admitted
<1>4. lastIn[sent[r].refresh.user] = now
  BY <1>2, <1>3 DEF IInv, Tokens
<1>5. fresh \in Token /\ Good(fresh)
  BY <1>2, <1>4, GoodSigned DEF IInv
<1> HIDE DEF fresh
<1>6. sent'[r] \in Jar /\ sent'[r].access = fresh
  BY <1>1, <1>2, <1>5 DEF IInv, RequestsTyped, Jar, MaybeToken
<1>7. sent' \in [Requests -> Jar] /\ \A q \in Requests \ {r} : sent'[q] = sent[q]
  BY <1>1, <1>2, <1>5 DEF IInv, RequestsTyped, Jar, MaybeToken
<1>8. renewed' \in [Requests -> MaybeToken] /\ renewed'[r] = fresh
      /\ \A q \in Requests \ {r} : renewed'[q] = renewed[q]
  BY <1>1, <1>5 DEF IInv, RequestsTyped, MaybeToken
<1>9. RequestsTyped' /\ OthersSame(r) /\ at'[r] = "routed"
  BY <1>1, <1>7, <1>8 DEF IInv, RequestsTyped, Places, OthersSame
<1>10. Placed(r)' /\ Copied(r)'
  BY <1>1, <1>9 DEF IInv, Placed, Copied
<1>11. Tokens(r)'
  BY <1>1, <1>5, <1>6, <1>8, <1>9 DEF Tokens, Admitted, Good
<1>12. jars' \in [Clients -> Jar] /\ \A d \in Clients : Good(jars'[d].access)
  BY <1>1 DEF IInv, Typed
<1> QED BY <1>1, <1>9, <1>10, <1>11, <1>12, OwnStep

LEMMA UnauthorizedStep ==
    ASSUME IInv, NEW r \in Requests, Unauthorized(r) \/ Unread(r)
    PROVE  IInv'
<1>1. UNCHANGED <<rows, lastIn, buried>> /\ \E how \in {"ended", "unread"} : End(r, EmptyJar, how)
  BY DEF Unauthorized, Unread, Respond
<1> QED BY <1>1, JarOfNone, EndStep

-----------------------------------------------------------------------------
(* The guards and the resolvers.                                           *)

LEMMA RefusedStep ==
    ASSUME IInv, NEW r \in Requests, Refused(r)
    PROVE  IInv'
BY JarOfPlain, EndStep DEF Refused, Respond

LEMMA ToServiceStep ==
    ASSUME IInv, NEW r \in Requests, NEW u \in Users, NEW row \in Row \cup {Absent},
           NEW place \in {"sign", "load", "reissue"}, ToService(r, u, row, place),
           place = "sign" => IsSignIn(r),
           place = "load" => form[r].op \in Saves /\ ~IsSignIn(r),
           place = "reissue" => lastIn[u] = now
    PROVE  IInv'
<1>1. /\ at' = [at EXCEPT ![r] = place] /\ user' = [user EXCEPT ![r] = u]
      /\ model' = [model EXCEPT ![r] = row]
      /\ UNCHANGED <<now, rows, jars, client, form, sent, seen, minted, renewed, image, lastIn, buried>>
  BY DEF ToService, requestVars
<1>2. RequestsTyped' /\ OthersSame(r) /\ at'[r] = place /\ user'[r] = u
  BY <1>1 DEF IInv, RequestsTyped, Places, OthersSame
<1>3. IsSignIn(r)' <=> IsSignIn(r)
  BY <1>1 DEF IsSignIn
<1>4. Placed(r)' /\ Copied(r)'
  BY <1>1, <1>2, <1>3 DEF IInv, Placed, Copied
<1>5. Tokens(r)'
  BY <1>1, <1>2 DEF IInv, Tokens, Admitted, Good
<1>6. jars' \in [Clients -> Jar] /\ \A d \in Clients : Good(jars'[d].access)
  BY <1>1 DEF IInv, Typed
<1> QED BY <1>1, <1>2, <1>4, <1>5, <1>6, OwnStep

LEMMA SignInStep ==
    ASSUME IInv, NEW r \in Requests, SignIn(r)
    PROVE  IInv'
<1>1. CASE Refused(r)
  BY <1>1, RefusedStep
<1>2. CASE \E u \in SamePhone(form[r].phone) : ToService(r, u, rows[u], "sign")
  <2>1. PICK u \in SamePhone(form[r].phone) : ToService(r, u, rows[u], "sign")
    BY <1>2
  <2>2. u \in Users /\ rows[u] \in Row \cup {Absent}
    BY DEF SamePhone, IInv, Typed
  <2> QED BY <2>1, <2>2, ToServiceStep DEF SignIn, IsSignIn
<1> QED BY <1>1, <1>2 DEF SignIn

\* RefreshGuard lets a request through.
LEMMA GuardedUser ==
    ASSUME IInv, NEW r \in Requests, RefreshOk(sent[r].refresh)
    PROVE  /\ sent[r].refresh.user \in Users /\ lastIn[sent[r].refresh.user] = now
           /\ rows[sent[r].refresh.user] \in Row \cup {Absent}
<1>1. sent[r].refresh \in MaybeToken
  BY DEF IInv, RequestsTyped, Jar
<1> QED BY <1>1, GoodRefresh DEF IInv, World, Typed

LEMMA GuardedStep ==
    ASSUME IInv, NEW r \in Requests, SignOut(r) \/ RefreshGuarded(r)
    PROVE  IInv'
<1>1. CASE ~RefreshOk(sent[r].refresh)
  BY <1>1, RefusedStep DEF SignOut, RefreshGuarded
<1>2. CASE RefreshOk(sent[r].refresh) /\ SignOut(r)
  BY <1>2, GuardedUser, ToServiceStep DEF SignOut, Saves, IsSignIn
<1>3. CASE RefreshOk(sent[r].refresh) /\ RefreshGuarded(r)
  BY <1>3, GuardedUser, ToServiceStep DEF RefreshGuarded
<1> QED BY <1>1, <1>2, <1>3

\* The access token that refreshToken signs, or signIn.
LEMMA SignedJar ==
    ASSUME IInv, NEW r \in Requests, at[r] \in {"reissue", "enter"}
    PROVE  user[r] \in Users /\ Signed(user[r]) \in Token /\ Good(Signed(user[r]))
<1>1. user[r] \in Users
  BY DEF IInv, Placed
<1>2. Admitted(r, user[r])
  BY DEF Admitted
<1>3. lastIn[user[r]] = now
  BY <1>1, <1>2 DEF IInv, Tokens
<1> QED BY <1>1, <1>3, GoodSigned DEF IInv

LEMMA RefreshTokenStep ==
    ASSUME IInv, NEW r \in Requests, RefreshToken(r)
    PROVE  IInv'
<1> DEFINE fresh == Signed(user[r])
<1>1. fresh \in Token /\ Good(fresh)
  BY SignedJar DEF RefreshToken
<1>2. Respond(r, [jars[client[r]] EXCEPT !.access = fresh]) /\ UNCHANGED <<rows, lastIn, buried>>
  BY DEF RefreshToken
<1>3. jars[client[r]] \in Jar
  BY DEF IInv, Typed, RequestsTyped
<1> HIDE DEF fresh
<1>4. [jars[client[r]] EXCEPT !.access = fresh] \in Jar
      /\ [jars[client[r]] EXCEPT !.access = fresh].access = fresh
  BY <1>1, <1>3 DEF Jar, MaybeToken
<1> QED BY <1>1, <1>2, <1>4, EndStep DEF Respond

LEMMA AdministerStep ==
    ASSUME IInv, NEW r \in Requests, Administer(r)
    PROVE  IInv'
<1>1. CASE Refused(r)
  BY <1>1, RefusedStep
<1>2. CASE ToService(r, form[r].id, Absent, "load")
  <2>1. form[r].id \in Users
    BY FormTypes DEF Administer, IInv, RequestsTyped
  <2> QED BY <1>2, <2>1, ToServiceStep DEF Administer, Saves, IsSignIn
<1> QED BY <1>1, <1>2 DEF Administer

LEMMA ToCreateStep ==
    ASSUME IInv, NEW r \in Requests, AdministerNew(r) \/ LookUpUnread(r)
    PROVE  IInv'
<1>1. CASE Refused(r)
  BY <1>1, RefusedStep
<1>2. CASE ~Refused(r)
  <2>1. /\ at[r] = "routed" /\ form[r].op \in {"signUp", "createUser"} /\ at' = [at EXCEPT ![r] = "create"]
        /\ UNCHANGED <<now, rows, jars, requestVars, minted, renewed, user, model, image, lastIn, buried>>
    BY <1>2 DEF AdministerNew, LookUpUnread
  <2> QED BY <2>1, MoveStep
<1> QED BY <1>1, <1>2

LEMMA LookUpStep ==
    ASSUME IInv, NEW r \in Requests, LookUp(r)
    PROVE  IInv'
<1>1. CASE SamePhone(form[r].phone) # {}
  BY <1>1, RefusedStep DEF LookUp
<1>2. CASE SamePhone(form[r].phone) = {}
  <2>1. /\ form[r].op = "signUp" /\ at' = [at EXCEPT ![r] = "create"]
        /\ seen' = [seen EXCEPT ![r] = Numbers]
        /\ UNCHANGED <<now, rows, jars, client, form, sent, minted, renewed, user, model, image, lastIn, buried>>
    BY <1>2 DEF LookUp
  <2>2. ASSUME NEW v \in Users, Found(v) PROVE rows[v].phone \in Phones /\ rows[v].phone # form[r].phone
    <3>1. rows[v] \in Row
      BY <2>2, ExistingRow DEF IInv, Found
    <3> QED BY <1>2, <2>2, <3>1 DEF SamePhone, Row
  <2>3. /\ Numbers \in SUBSET (Users \X Phones)
        /\ \A shown \in Numbers : shown[2] # form[r].phone
    BY <2>2 DEF Numbers
  <2>4. RequestsTyped' /\ OthersSame(r) /\ at'[r] = "create" /\ seen'[r] = Numbers
    BY <2>1, <2>3 DEF IInv, RequestsTyped, Places, OthersSame
  <2>5. Placed(r)' /\ Copied(r)'
    BY <2>1, <2>3, <2>4 DEF IInv, Placed, Copied
  <2>6. Tokens(r)'
    BY <2>1, <2>4 DEF IInv, Tokens, Admitted, Good
  <2>7. jars' \in [Clients -> Jar] /\ \A d \in Clients : Good(jars'[d].access)
    BY <2>1 DEF IInv, Typed
  <2> QED BY <2>1, <2>4, <2>5, <2>6, <2>7, OwnStep
<1> QED BY <1>1, <1>2

LEMMA MintStep ==
    ASSUME IInv, NEW r \in Requests, Mint(r)
    PROVE  IInv'
<1>1. /\ at[r] = "sign" /\ at' = [at EXCEPT ![r] = "load"]
      /\ minted' = [minted EXCEPT ![r] = Signed(user[r])]
      /\ UNCHANGED <<now, rows, jars, client, form, sent, seen, renewed, user, model, image, lastIn, buried>>
  BY DEF Mint, requestVars
<1>2. user[r] \in Users /\ IsSignIn(r) /\ now \in 0..MaxTime
  BY <1>1 DEF IInv, Placed, Typed
<1>3. Signed(user[r]) \in Token
  BY <1>2 DEF Signed, Token
<1>4. RequestsTyped' /\ OthersSame(r) /\ at'[r] = "load" /\ minted'[r] \in Token
  BY <1>1, <1>3 DEF IInv, RequestsTyped, Places, MaybeToken, OthersSame
<1>5. Placed(r)' /\ Copied(r)'
  BY <1>1, <1>2, <1>4 DEF Placed, Copied, Saves, IsSignIn
<1>6. Tokens(r)'
  BY <1>1, <1>4 DEF IInv, Tokens, Admitted, Good
<1>7. jars' \in [Clients -> Jar] /\ \A d \in Clients : Good(jars'[d].access)
  BY <1>1 DEF IInv, Typed
<1> QED BY <1>1, <1>4, <1>5, <1>6, <1>7, OwnStep

\* signIn gives both tokens.
LEMMA EnterStep ==
    ASSUME IInv, NEW r \in Requests, Enter(r)
    PROVE  IInv'
<1> DEFINE jar == [access |-> Signed(user[r]), refresh |-> minted[r]]
<1>1. Signed(user[r]) \in Token /\ Good(Signed(user[r]))
  BY SignedJar DEF Enter
<1>2. jar \in Jar /\ Good(jar.access)
  BY <1>1 DEF Jar, MaybeToken, IInv, RequestsTyped
<1>3. Respond(r, jar) /\ UNCHANGED <<rows, lastIn, buried>>
  BY DEF Enter
<1> HIDE DEF jar
<1> QED BY <1>2, <1>3, EndStep DEF Respond

-----------------------------------------------------------------------------
(* Read, assign, save.                                                     *)

LEMMA FailStep ==
    ASSUME IInv, NEW r \in Requests, LoadFails(r) \/ Fail(r)
    PROVE  IInv'
<1>1. UNCHANGED <<rows, lastIn, buried>>
      /\ \E jar \in {EmptyJar, Plain(r)} : End(r, jar, "ended")
  BY DEF LoadFails, Fail, Respond
<1> QED BY <1>1, JarOfNone, JarOfPlain, EndStep

LEMMA LoadStep ==
    ASSUME IInv, NEW r \in Requests, Load(r)
    PROVE  IInv'
<1> PICK u : u = user[r]
  OBVIOUS
<1>0. PICK data \in Given(r) : model' = [model EXCEPT ![r] = Assigned(rows[u], data)]
  BY DEF Load, Loaded
<1> DEFINE copy == Assigned(rows[u], data)
<1>1. /\ at[r] = "load" /\ at' = [at EXCEPT ![r] = "select"]
      /\ model' = [model EXCEPT ![r] = copy]
      /\ Exists(u)
      /\ UNCHANGED <<now, rows, jars, client, form, sent, seen, minted, renewed, user, image, lastIn, buried>>
  BY <1>0 DEF Load, MayAssign, Found, requestVars
<1>2. u \in Users /\ form[r].op \in Saves /\ Placed(r)
  BY <1>1 DEF IInv, Placed
<1>3. rows[u] \in Row
  BY <1>1, <1>2, ExistingRow DEF IInv
<1>4. /\ DOMAIN data = Meant(r) /\ copy \in Row
      /\ copy.asked = rows[u].asked /\ copy.seen = rows[u].seen
      /\ \A c \in Columns : copy[c] = IF c \in Meant(r) THEN data[c] ELSE rows[u][c]
  BY <1>2, <1>3, DataTypes, AssignedRow DEF IInv
<1> HIDE DEF copy
<1>5. RequestsTyped' /\ OthersSame(r) /\ at'[r] = "select" /\ model'[r] = copy
  BY <1>1, <1>4 DEF IInv, RequestsTyped, Places, OthersSame
<1>6. IsSignIn(r)' <=> IsSignIn(r)
  BY <1>1 DEF IsSignIn
<1>7. Placed(r)'
  BY <1>1, <1>2, <1>4, <1>5, <1>6 DEF Placed, Exists
<1>8. Meant(r)' = Meant(r)
  BY <1>1 DEF Meant
<1>9. \A c \in Columns : <<c, rows[u][c]>> \notin buried[u]
  BY <1>1, <1>2 DEF IInv, World, OnlyOverlapsUndo
<1>10. Copied(r)'
  BY <1>1, <1>4, <1>5, <1>8, <1>9 DEF Copied
<1>11. Tokens(r)'
  BY <1>1, <1>5 DEF IInv, Tokens, Admitted, Good
<1>12. jars' \in [Clients -> Jar] /\ \A d \in Clients : Good(jars'[d].access)
  BY <1>1 DEF IInv, Typed
<1> QED BY <1>1, <1>5, <1>7, <1>10, <1>11, <1>12, OwnStep

LEMMA SelectStep ==
    ASSUME IInv, NEW r \in Requests, Select(r)
    PROVE  IInv'
<1>1. /\ at[r] = "select" /\ at' = [at EXCEPT ![r] = "write"]
      /\ image' = [image EXCEPT ![r] = rows[user[r]]]
      /\ UNCHANGED <<now, rows, jars, client, form, sent, seen, minted, renewed, user, model, lastIn, buried>>
  BY DEF Select, requestVars
<1>2. Placed(r) /\ Copied(r) /\ Tokens(r)
  BY DEF IInv
<1>3. user[r] \in Users /\ rows[user[r]] \in Row
  BY <1>1, <1>2, ExistingRow DEF Placed, IInv
<1>4. RequestsTyped' /\ OthersSame(r) /\ at'[r] = "write" /\ image'[r] = rows[user[r]]
  BY <1>1, <1>3 DEF IInv, RequestsTyped, Places, OthersSame
<1>5. Placed(r)'
  <2>1. IsSignIn(r)' <=> IsSignIn(r)
    BY <1>1 DEF IsSignIn
  <2> QED BY <1>1, <1>2, <1>3, <1>4, <2>1 DEF Placed, Exists
<1>6. Copied(r)'
  <2>1. Meant(r)' = Meant(r)
    BY <1>1 DEF Meant
  <2> QED BY <1>1, <1>2, <1>4, <2>1 DEF Copied
<1>7. Tokens(r)'
  BY <1>1, <1>2, <1>4 DEF Tokens, Admitted, Good
<1>8. jars' \in [Clients -> Jar] /\ \A d \in Clients : Good(jars'[d].access)
  BY <1>1 DEF IInv, Typed
<1> QED BY <1>1, <1>4, <1>5, <1>6, <1>7, <1>8, OwnStep

LEMMA CreateUserStep ==
    ASSUME IInv, NEW r \in Requests, CreateUser(r)
    PROVE  IInv'
<1> DEFINE row == [phone |-> form[r].phone, password |-> form[r].password, refresh |-> None,
                   roles |-> {}, deleted |-> FALSE, asked |-> form[r].phone, seen |-> seen[r]]
<1>0. PICK u \in Users :
        /\ ~Exists(u)
        /\ rows' = [rows EXCEPT ![u] = row]
        /\ \/ form[r].op = "createUser" /\ End(r, Plain(r), "ended")
           \/ /\ form[r].op # "createUser"
              /\ user' = [user EXCEPT ![r] = u] /\ at' = [at EXCEPT ![r] = "sign"]
              /\ UNCHANGED <<now, jars, client, form, sent, seen, minted, renewed, model, image>>
  <2> DEFINE x == CHOOSE x \in Users : ~Exists(x)
  <2>1. x \in Users /\ ~Exists(x)
    BY DEF CreateUser
  <2> QED BY <2>1 DEF CreateUser, Respond, requestVars
<1>1. at[r] = "create" /\ UNCHANGED <<lastIn, buried>>
  BY DEF CreateUser
<1>2. Placed(r) /\ Tokens(r) /\ form[r] \in Mutations /\ seen[r] \in SUBSET (Users \X Phones)
  BY DEF IInv, RequestsTyped
<1>3. form[r].phone \in Phones /\ form[r].password \in Passwords
  BY <1>1, <1>2, FormTypes DEF Placed
<1>4. row \in Row /\ row.refresh = None /\ row.seen = seen[r] /\ row.asked = form[r].phone
  BY <1>2, <1>3 DEF Row, MaybeToken
<1> HIDE DEF row
<1>5. /\ rows' \in [Users -> Row \cup {Absent}] /\ rows'[u] = row
      /\ \A v \in Users \ {u} : rows'[v] = rows[v]
  BY <1>0, <1>4 DEF IInv, Typed
<1>6. row # Absent
  BY <1>4, SessionAssumption
<1>7. /\ \A v \in Users : Exists(v) => Exists(v)' /\ rows'[v] = rows[v] /\ v # u
      /\ Exists(u)'
      /\ \A v \in Users \ {u} : Exists(v)' => Exists(v)
  <2>1. rows[u] = Absent /\ rows'[u] # Absent
    BY <1>0, <1>5, <1>6 DEF Exists
  <2>2. ASSUME NEW v \in Users, Exists(v) PROVE Exists(v)' /\ rows'[v] = rows[v] /\ v # u
    BY <1>5, <2>1, <2>2 DEF Exists
  <2> QED BY <1>5, <2>1, <2>2 DEF Exists
<1>8. now' = now
  BY <1>0 DEF End
<1>9. Onward /\ Standing
  <2>1. \A v \in Users : lastIn[v] <= lastIn[v]
    BY DEF IInv, Typed
  <2> QED BY <1>1, <1>7, <1>8, <2>1 DEF Onward, Standing
<1>10. InNow'
  BY <1>1, <1>4, <1>5, <1>7, <1>8 DEF IInv, World, InNow
<1>11. Born'
  <2>1. ASSUME NEW v \in Users, Exists(v)', NEW shown \in rows'[v].seen PROVE shown[2] # rows'[v].asked
    <3>1. CASE v = u
      BY <1>1, <1>2, <1>4, <1>5, <2>1, <3>1 DEF Placed
    <3>2. CASE v # u
      BY <1>5, <1>7, <2>1, <3>2 DEF IInv, World, Born
    <3> QED BY <3>1, <3>2
  <2>2. ASSUME NEW v \in Users, ~Exists(v)' PROVE buried'[v] = {}
    BY <1>1, <1>7, <2>2 DEF IInv, World, Born
  <2> QED BY <2>1, <2>2 DEF Born
<1>12. OnlyOverlapsUndo'
  <2>1. ASSUME NEW v \in Users, Exists(v)', NEW c \in Columns PROVE <<c, rows'[v][c]>> \notin buried'[v]
    <3>1. CASE v = u
      BY <1>0, <1>1, <3>1 DEF IInv, World, Born
    <3>2. CASE v # u
      BY <1>1, <1>5, <1>7, <2>1, <3>2 DEF IInv, World, OnlyOverlapsUndo
    <3> QED BY <3>1, <3>2
  <2> QED BY <2>1 DEF OnlyOverlapsUndo
<1>13. World'
  BY <1>10, <1>11, <1>12 DEF World
<1>14. CASE form[r].op = "createUser" /\ End(r, Plain(r), "ended")
  <2>1. /\ RequestsTyped' /\ OthersSame(r) /\ jars' \in [Clients -> Jar]
        /\ \A c \in Clients : Good(jars'[c].access)
    BY <1>14, JarOfPlain, EndParts DEF IInv
  <2>2. Placed(r)' /\ Copied(r)' /\ Tokens(r)'
    BY <1>14, JarOfPlain, EndParts, EndOfRequest
  <2>3. Typed'
    BY <1>1, <1>5, <1>8, <2>1 DEF IInv, Typed
  <2>4. ASSUME NEW q \in Requests \ {r} PROVE Placed(q)' /\ Copied(q)' /\ Tokens(q)'
    BY <1>1, <1>9, <2>1, <2>3, RequestStays, CopyStays
  <2>5. \A c \in Clients : Good(jars[c].access)'
    BY <1>1, <2>1 DEF Good
  <2> QED BY <1>13, <2>1, <2>2, <2>3, <2>4, <2>5 DEF IInv
<1>15. CASE /\ form[r].op # "createUser"
            /\ user' = [user EXCEPT ![r] = u] /\ at' = [at EXCEPT ![r] = "sign"]
            /\ UNCHANGED <<now, jars, client, form, sent, seen, minted, renewed, model, image>>
  <2>1. RequestsTyped' /\ OthersSame(r) /\ at'[r] = "sign" /\ user'[r] = u
    BY <1>1, <1>15 DEF IInv, RequestsTyped, Places, OthersSame
  <2>2. Placed(r)' /\ Copied(r)'
    BY <1>1, <1>2, <1>15, <2>1 DEF Placed, Copied, IsSignIn
  <2>3. Tokens(r)'
    BY <1>1, <1>2, <1>15, <2>1 DEF Tokens, Admitted, Good
  <2>4. Typed'
    BY <1>1, <1>5, <1>15 DEF IInv, Typed
  <2>5. ASSUME NEW q \in Requests \ {r} PROVE Placed(q)' /\ Copied(q)' /\ Tokens(q)'
    BY <1>1, <1>9, <2>1, <2>4, RequestStays, CopyStays
  <2>6. \A c \in Clients : Good(jars[c].access)'
    BY <1>1, <1>15 DEF IInv, Good
  <2> QED BY <1>13, <2>1, <2>2, <2>3, <2>4, <2>5, <2>6 DEF IInv
<1> QED BY <1>0, <1>14, <1>15

\* The row that a save leaves.
LEMMA WrittenRow ==
    ASSUME IInv, NEW r \in Requests, Update(r), NEW new, new = Saved(model[r], image[r], rows[user[r]])
    PROVE  /\ user[r] \in Users /\ Exists(user[r]) /\ rows[user[r]] \in Row /\ model[r] \in Row
           /\ new \in Row /\ new # Absent
           /\ new.asked = rows[user[r]].asked /\ new.seen = rows[user[r]].seen
           /\ \A c \in Columns : new[c] \in {model[r][c], rows[user[r]][c]}
<1>1. at[r] = "write" /\ Placed(r)
  BY DEF Update, IInv
<1>2. user[r] \in Users /\ Exists(user[r]) /\ model[r] \in Row /\ image[r] \in Row
  BY <1>1 DEF Placed
<1>3. rows[user[r]] \in Row
  BY <1>2, ExistingRow DEF IInv
<1>4. /\ new \in Row
      /\ \A c \in Columns \cup {"asked", "seen"} :
            new[c] = IF model[r][c] # image[r][c] THEN model[r][c] ELSE rows[user[r]][c]
  BY <1>2, <1>3, SavedRow
<1>5. new.asked = rows[user[r]].asked /\ new.seen = rows[user[r]].seen
  BY <1>1, <1>4 DEF Placed
<1> QED BY <1>2, <1>3, <1>4, <1>5, SessionAssumption

\* What is buried now is not in a copy that another request still holds, nor in the row.
LEMMA BuriedStep ==
    ASSUME IInv, NEW r \in Requests, Update(r), NEW u \in Users, u = user[r],
           NEW new, new = Saved(model[r], image[r], rows[u])
    PROVE  /\ \A c \in Columns : <<c, new[c]>> \notin Buried(r, rows[u], new)
           /\ \A q \in Requests \ {r} : at[q] \in {"select", "write"} /\ user[q] = u =>
                \A c \in Columns \ Meant(q) : <<c, model[q][c]>> \notin Buried(r, rows[u], new)
<1> DEFINE gone == {<<c, rows[u][c]>> : c \in {d \in Columns :
                        rows[u][d] # new[d] /\ ~CopiedElsewhere(r, u, d, rows[u][d])}}
           meant == {<<c, model[r][c]>> : c \in DOMAIN Data(r)}
<1>1. at[r] = "write" /\ Placed(r) /\ Copied(r) /\ form[r].op \in Saves
  BY DEF Update, IInv, Placed
<1>2. Buried(r, rows[u], new) = (buried[u] \cup gone) \ meant
  BY DEF Buried
<1>3. DOMAIN Data(r) = Meant(r)
  <2>1. Data(r) \in Given(r)
    BY DEF Given
  <2> QED BY <1>1, <2>1, DataTypes DEF IInv
<1>4. Exists(u) /\ \A c \in Columns : new[c] \in {model[r][c], rows[u][c]}
  BY WrittenRow
<1>5. ASSUME NEW c \in Columns PROVE <<c, new[c]>> \notin (buried[u] \cup gone) \ meant
  <2>1. <<c, new[c]>> \notin gone
    OBVIOUS
  <2>2. CASE new[c] = rows[u][c]
    BY <1>4, <2>1, <2>2 DEF IInv, World, OnlyOverlapsUndo
  <2>3. CASE new[c] = model[r][c] /\ c \in Meant(r)
    BY <1>3, <2>3
  <2>4. CASE new[c] = model[r][c] /\ c \notin Meant(r)
    BY <1>1, <2>1, <2>4 DEF Copied
  <2> QED BY <1>4, <2>2, <2>3, <2>4
<1>6. ASSUME NEW q \in Requests \ {r}, at[q] \in {"select", "write"}, user[q] = u,
             NEW c \in Columns \ Meant(q)
      PROVE  <<c, model[q][c]>> \notin (buried[u] \cup gone) \ meant
  <2>1. <<c, model[q][c]>> \notin buried[u]
    BY <1>6 DEF IInv, Copied
  <2>2. <<c, model[q][c]>> \notin gone
    BY <1>6 DEF CopiedElsewhere
  <2> QED BY <2>1, <2>2
<1> HIDE DEF gone, meant
<1> QED BY <1>2, <1>5, <1>6

\* What follows the save, for the request's own variables and the jars.
LEMMA AfterUpdate ==
    ASSUME IInv, NEW r \in Requests, Update(r)
    PROVE  /\ now' = now /\ RequestsTyped' /\ OthersSame(r)
           /\ jars' \in [Clients -> Jar]
           /\ \A c \in Clients : Good(jars'[c].access)
           /\ Placed(r)' /\ Copied(r)'
           /\ Good(sent'[r].access) /\ Good(renewed'[r])
           /\ \A v \in Users : Admitted(r, v)' => v = user[r] /\ IsSignIn(r)
<1>1. at[r] = "write" /\ Placed(r) /\ Tokens(r)
  BY DEF Update, IInv
<1>2. CASE IsSignIn(r)
  <2>1. /\ at' = [at EXCEPT ![r] = "enter"]
        /\ UNCHANGED <<now, jars, client, form, sent, seen, minted, renewed, user, model, image>>
    BY <1>2 DEF Update, requestVars
  <2>2. RequestsTyped' /\ OthersSame(r) /\ at'[r] = "enter"
    BY <2>1 DEF IInv, RequestsTyped, Places, OthersSame
  <2>3. IsSignIn(r)'
    BY <1>2, <2>1 DEF IsSignIn
  <2>4. Placed(r)' /\ Copied(r)'
    BY <1>1, <1>2, <2>1, <2>2, <2>3 DEF Placed, Copied
  <2>5. jars' \in [Clients -> Jar] /\ \A c \in Clients : Good(jars'[c].access)
    BY <2>1 DEF IInv, Typed
  <2> QED BY <1>1, <1>2, <2>1, <2>2, <2>4, <2>5 DEF Tokens, Admitted
<1>3. CASE ~IsSignIn(r)
  <2>1. PICK jar \in {EmptyJar, Plain(r)} : End(r, jar, "ended")
    BY <1>3 DEF Update, Respond
  <2>2. jar \in Jar /\ Good(jar.access)
    BY JarOfNone, JarOfPlain
  <2>3. /\ now' = now /\ RequestsTyped' /\ OthersSame(r) /\ jars' \in [Clients -> Jar]
        /\ \A c \in Clients : jars'[c] = jars[c] \/ jars'[c] = jar
        /\ at'[r] = "ended" /\ sent'[r] = EmptyJar /\ renewed'[r] = None
    BY <2>1, <2>2, EndParts
  <2>4. Placed(r)' /\ Copied(r)'
    BY <2>3, EndOfRequest
  <2>5. \A c \in Clients : Good(jars'[c].access)
    BY <2>2, <2>3 DEF IInv
  <2>6. Good(sent'[r].access) /\ Good(renewed'[r])
    BY <2>3 DEF Good, EmptyJar
  <2>7. \A v \in Users : ~Admitted(r, v)'
    BY <2>3 DEF Admitted
  <2> QED BY <2>3, <2>4, <2>5, <2>6, <2>7
<1> QED BY <1>2, <1>3

LEMMA UpdateStep ==
    ASSUME IInv, NEW r \in Requests, Update(r)
    PROVE  IInv'
<1> PICK u : u = user[r]
  OBVIOUS
<1> PICK new : new = Saved(model[r], image[r], rows[u])
  OBVIOUS
<1> DEFINE in == new.refresh # None \/ IsSignIn(r)
<1>1. /\ at[r] = "write"
      /\ rows' = [rows EXCEPT ![u] = new]
      /\ buried' = [buried EXCEPT ![u] = Buried(r, rows[u], new)]
      /\ lastIn' = [lastIn EXCEPT ![u] = IF in THEN now ELSE @]
  BY DEF Update
<1>2. /\ u \in Users /\ Exists(u) /\ new \in Row /\ new # Absent
      /\ new.asked = rows[u].asked /\ new.seen = rows[u].seen
  BY WrittenRow
<1>3. now' = now /\ now \in 0..MaxTime /\ lastIn \in [Users -> 0..MaxTime]
  BY AfterUpdate DEF IInv, Typed
<1>4. /\ rows' \in [Users -> Row \cup {Absent}] /\ rows'[u] = new
      /\ \A v \in Users \ {u} : rows'[v] = rows[v]
  BY <1>1, <1>2 DEF IInv, Typed
<1>5. /\ DOMAIN buried' = Users /\ buried'[u] = Buried(r, rows[u], new)
      /\ \A v \in Users \ {u} : buried'[v] = buried[v]
  BY <1>1, <1>2 DEF IInv, Typed
<1>6. /\ lastIn' \in [Users -> 0..MaxTime] /\ lastIn'[u] = (IF in THEN now ELSE lastIn[u])
      /\ \A v \in Users \ {u} : lastIn'[v] = lastIn[v]
  BY <1>1, <1>2, <1>3
<1>7. \A v \in Users : (Exists(v)' <=> Exists(v))
  BY <1>2, <1>4 DEF Exists
<1>8. \A v \in Users : lastIn[v] <= lastIn'[v] /\ lastIn'[v] <= now
  <2>1. ASSUME NEW v \in Users PROVE lastIn[v] <= lastIn'[v] /\ lastIn'[v] <= now
    <3>1. lastIn[v] \in Int /\ lastIn[v] <= now
      BY <1>3 DEF IInv, World, InNow
    <3>2. lastIn'[v] = lastIn[v] \/ lastIn'[v] = now
      BY <1>6
    <3> QED BY <1>3, <3>1, <3>2
  <2> QED BY <2>1
<1>9. \A v \in Users : rows'[v] = rows[v] \/ (v = u /\ rows'[v] = new)
  BY <1>4
<1>10. \A v \in Users : Exists(v) => rows'[v].asked = rows[v].asked /\ rows'[v].seen = rows[v].seen
  BY <1>2, <1>9
<1>11. Onward /\ Standing
  BY <1>3, <1>6, <1>7, <1>8, <1>10 DEF Onward, Standing
<1>12. InNow'
  <2>1. ASSUME NEW v \in Users, Exists(v), rows'[v].refresh # None PROVE lastIn'[v] = now
    <3>1. CASE v = u
      BY <1>4, <1>6, <2>1, <3>1
    <3>2. CASE v # u
      BY <1>4, <1>6, <2>1, <3>2 DEF IInv, World, InNow
    <3> QED BY <3>1, <3>2
  <2> QED BY <1>3, <1>7, <1>8, <2>1 DEF InNow
<1>13. Born'
  <2>1. ASSUME NEW v \in Users, Exists(v) PROVE \A shown \in rows'[v].seen : shown[2] # rows'[v].asked
    BY <1>10, <2>1 DEF IInv, World, Born
  <2>2. ASSUME NEW v \in Users, ~Exists(v) PROVE buried'[v] = {}
    BY <1>2, <1>5, <2>2 DEF IInv, World, Born
  <2> QED BY <1>7, <2>1, <2>2 DEF Born
<1>14. OnlyOverlapsUndo'
  <2>1. ASSUME NEW v \in Users, Exists(v), NEW c \in Columns PROVE <<c, rows'[v][c]>> \notin buried'[v]
    <3>1. CASE v = u
      BY <1>2, <1>4, <1>5, <3>1, BuriedStep
    <3>2. CASE v # u
      BY <1>4, <1>5, <2>1, <3>2 DEF IInv, World, OnlyOverlapsUndo
    <3> QED BY <3>1, <3>2
  <2> QED BY <1>7, <2>1 DEF OnlyOverlapsUndo
<1>15. Typed'
  BY <1>3, <1>4, <1>5, <1>6, AfterUpdate DEF Typed
<1>16. \A token \in MaybeToken : Good(token) => (token # None => token.iat <= lastIn'[token.user])
  BY <1>11, <1>15, GoodStays DEF Good, IInv
<1>17. ASSUME NEW c \in Clients PROVE Good(jars[c].access)'
  <2>1. jars'[c].access \in MaybeToken /\ Good(jars'[c].access)
    BY AfterUpdate DEF Jar
  <2> QED BY <1>16, <2>1 DEF Good
<1>18. Tokens(r)'
  <2>1. sent'[r].access \in MaybeToken /\ renewed'[r] \in MaybeToken
    BY AfterUpdate DEF RequestsTyped, Jar
  <2>2. Good(sent'[r].access) /\ Good(renewed'[r])
    BY AfterUpdate
  <2>3. Good(sent[r].access)' /\ Good(renewed[r])'
    BY <1>16, <2>1, <2>2 DEF Good
  <2>4. ASSUME NEW v \in Users, Admitted(r, v)' PROVE lastIn'[v] = now'
    <3>1. v = u /\ IsSignIn(r)
      BY <2>4, AfterUpdate
    <3> QED BY <1>3, <1>6, <3>1
  <2> QED BY <2>3, <2>4 DEF Tokens
<1>19. ASSUME NEW q \in Requests \ {r} PROVE Placed(q)' /\ Copied(q)' /\ Tokens(q)'
  <2>1. Placed(q)' /\ Tokens(q)'
    BY <1>11, <1>15, AfterUpdate, RequestStays
  <2>2. CASE at[q] \in {"select", "write"} /\ user[q] = u
    <3>1. UNCHANGED <<at[q], form[q], user[q], model[q]>>
      BY AfterUpdate DEF OthersSame
    <3>2. Meant(q)' = Meant(q)
      BY <3>1 DEF Meant
    <3>3. Copied(q)'
      BY <1>2, <1>5, <2>2, <3>1, <3>2, BuriedStep DEF Copied
    <3> QED BY <2>1, <3>3
  <2>3. CASE ~(at[q] \in {"select", "write"} /\ user[q] = u)
    <3>1. at[q] \in {"select", "write"} => user[q] \in Users
      BY DEF IInv, Placed
    <3>2. Copied(q)'
      BY <1>5, <2>3, <3>1, AfterUpdate, CopyStays
    <3> QED BY <2>1, <3>2
  <2> QED BY <2>1, <2>2, <2>3
<1>20. World' /\ RequestsTyped' /\ Placed(r)' /\ Copied(r)'
  BY <1>12, <1>13, <1>14, AfterUpdate DEF World
<1> QED BY <1>15, <1>17, <1>18, <1>19, <1>20 DEF IInv

LEMMA TickStep ==
    ASSUME IInv, Tick
    PROVE  IInv'
<1>1. /\ now < MaxTime /\ now' = now + 1
      /\ lastIn' = [u \in Users |-> IF SignedIn(u) THEN now' ELSE lastIn[u]]
      /\ UNCHANGED <<rows, jars, at, client, form, sent, seen, minted, renewed, user, model, image, buried>>
  BY DEF Tick, requestVars
<1>2. now \in 0..MaxTime /\ lastIn \in [Users -> 0..MaxTime] /\ MaxTime \in Nat
  BY SessionAssumption DEF IInv, Typed
<1>3. now' \in 0..MaxTime /\ now <= now'
  BY <1>1, <1>2
<1>4. lastIn' \in [Users -> 0..MaxTime]
  BY <1>1, <1>2, <1>3
<1>5. \A u \in Users : /\ lastIn'[u] = now' \/ lastIn'[u] = lastIn[u]
                       /\ SignedIn(u) => lastIn'[u] = now'
  BY <1>1
<1>6. \A u \in Users : lastIn[u] <= lastIn'[u] /\ lastIn'[u] <= now'
  <2> TAKE u \in Users
  <2>1. lastIn[u] \in Int /\ now \in Int /\ now' \in Int /\ lastIn[u] <= now
    BY <1>2, <1>3 DEF IInv, World, InNow
  <2> QED BY <1>3, <1>5, <2>1
<1>7. Onward
  BY <1>1, <1>6 DEF Onward, Exists
<1>8. InNow'
  BY <1>1, <1>5, <1>6 DEF InNow, Exists, SignedIn
<1>9. (Born /\ OnlyOverlapsUndo)'
  BY <1>1 DEF IInv, World, Born, OnlyOverlapsUndo, Exists
<1>10. Typed' /\ RequestsTyped'
  BY <1>1, <1>3, <1>4 DEF IInv, Typed, RequestsTyped
<1>11. \A token \in MaybeToken : Good(token) => (token # None => token.iat <= lastIn'[token.user])
  BY <1>7, <1>10, GoodStays DEF IInv, Good
<1>12. \A c \in Clients : Good(jars[c].access)'
  <2> TAKE c \in Clients
  <2>1. jars[c].access \in MaybeToken /\ Good(jars[c].access)
    BY DEF IInv, Typed, Jar
  <2> QED BY <1>1, <1>11, <2>1 DEF Good
<1>13. ASSUME NEW r \in Requests PROVE Placed(r)' /\ Copied(r)' /\ Tokens(r)'
  <2>1. Placed(r) /\ Copied(r) /\ Tokens(r) /\ sent[r] \in Jar /\ renewed[r] \in MaybeToken
    BY DEF IInv, RequestsTyped
  <2>2. Placed(r)'
    BY <1>1, <2>1 DEF Placed, Exists, IsSignIn
  <2>3. Meant(r)' = Meant(r)
    BY <1>1 DEF Meant
  <2>4. Copied(r)'
    BY <1>1, <2>1, <2>3 DEF Copied
  <2>5. sent[r].access \in MaybeToken
    BY <2>1 DEF Jar
  <2>6. Good(sent[r].access)' /\ Good(renewed[r])'
    BY <1>1, <1>11, <2>1, <2>5 DEF Tokens, Good
  <2>7. ASSUME NEW u \in Users, Admitted(r, u)' PROVE lastIn'[u] = now'
    <3>1. SignedIn(u)
      BY <1>1, <2>7 DEF Admitted, SignedIn
    <3> QED BY <1>5, <3>1
  <2> QED BY <2>2, <2>4, <2>6, <2>7 DEF Tokens
<1> QED BY <1>8, <1>9, <1>10, <1>12, <1>13 DEF IInv, World

LEMMA StepInv == IInv /\ [Next]_vars => IInv'
<1> SUFFICES ASSUME IInv, [Next]_vars PROVE IInv'
  OBVIOUS
<1>1. CASE Tick
  BY <1>1, TickStep
<1>2. ASSUME NEW r \in Requests,
             \/ Send(r) \/ Pass(r) \/ Falls(r) \/ Grant(r) \/ Renew(r)
             \/ Unauthorized(r) \/ Unread(r)
      PROVE  IInv'
  BY <1>2, SendStep, ChecksStep, RenewStep, UnauthorizedStep
<1>3. ASSUME NEW r \in Requests,
             \/ SignIn(r) \/ SignOut(r) \/ RefreshGuarded(r) \/ RefreshToken(r)
             \/ Administer(r) \/ AdministerNew(r) \/ LookUp(r) \/ LookUpUnread(r)
      PROVE  IInv'
  BY <1>3, SignInStep, GuardedStep, RefreshTokenStep, AdministerStep, ToCreateStep, LookUpStep
<1>4. ASSUME NEW r \in Requests,
             \/ CreateUser(r) \/ Mint(r) \/ Load(r) \/ LoadFails(r)
             \/ Select(r) \/ Update(r) \/ Enter(r) \/ Fail(r)
      PROVE  IInv'
  BY <1>4, CreateUserStep, MintStep, LoadStep, SelectStep, UpdateStep, EnterStep, FailStep
<1>5. CASE UNCHANGED vars
  <2>1. UNCHANGED <<now, rows, jars, at, client, form, sent, seen, minted, renewed, user, model, image, lastIn, buried>>
    BY <1>5 DEF vars, requestVars
  <2>2. World'
    BY <2>1, SameWorld DEF IInv
  <2>3. Typed' /\ RequestsTyped' /\ \A c \in Clients : Good(jars[c].access)'
    BY <2>1 DEF IInv, Typed, RequestsTyped, Good
  <2>4. ASSUME NEW r \in Requests PROVE Placed(r)' /\ Copied(r)' /\ Tokens(r)'
    <3>1. Meant(r)' = Meant(r)
      BY <2>1 DEF Meant
    <3> QED BY <2>1, <3>1 DEF IInv, Placed, Copied, Tokens, Admitted, IsSignIn, Good, Exists
  <2> QED BY <2>2, <2>3, <2>4 DEF IInv
<1> QED BY <1>1, <1>2, <1>3, <1>4, <1>5 DEF Next

LEMMA IInvAlways == Spec => []IInv
BY InitInv, StepInv, PTL DEF Spec

-----------------------------------------------------------------------------
(* The theorems.                                                           *)

\* The clock, the users table, the cookies and what every request holds always have their types.
THEOREM TypeCorrect == Spec => []TypeOK
<1>1. IInv => TypeOK
  <2>1. RequestsTyped => \A r \in Requests : form[r].op \in Ops
    BY FormTypes DEF RequestsTyped
  <2> QED BY <2>1 DEF IInv, Typed, RequestsTyped, Places, TypeOK
<1> QED BY <1>1, IInvAlways, PTL

\* However many people sign up at once and whatever the database answers, two users have one phone
\* number only if neither was among those that signUp was shown when it looked for the other's.
THEOREM SamePhoneNeedsUnseen == Spec => []SamePhoneOnlyUnseen
<1>1. IInv => SamePhoneOnlyUnseen
  <2> SUFFICES ASSUME IInv, NEW u \in Users, NEW v \in Users, Exists(v),
                      rows[u].phone = rows[v].phone, rows[v].asked = rows[v].phone
               PROVE  <<u, rows[u].phone>> \notin rows[v].seen
    BY DEF SamePhoneOnlyUnseen
  <2> QED BY DEF IInv, World, Born
<1> QED BY <1>1, IInvAlways, PTL

\* What a save has overwritten in a user row comes back only from a copy that another request had
\* read before, however many edit, sign in and sign out at once.
THEOREM EditsStay == Spec => []OnlyOverlapsUndo
<1>1. IInv => OnlyOverlapsUndo
  BY DEF IInv, World
<1> QED BY <1>1, IInvAlways, PTL

\* No access token in use is younger than the moment its user was last signed in or some request
\* was last between its check and the token it signs.
THEOREM SignOutEndsAccess == Spec => []AccessEndsAfterSignOut
<1>1. IInv => AccessEndsAfterSignOut
  BY DEF IInv, Tokens, Good, AccessEndsAfterSignOut
<1> QED BY <1>1, IInvAlways, PTL

\* The end of a request takes a refresh token only from the browser that sent it.
LEMMA EndTakes ==
    ASSUME IInv, NEW r \in Requests, NEW jar \in Jar, NEW how \in {"ended", "unread"}, End(r, jar, how),
           at[r] \notin {"ended", "unread"},
           NEW c \in Clients, jars[c].refresh # None, jars'[c].refresh = None
    PROVE  client[r] = c /\ at'[r] # at[r] /\ jar.refresh = None
BY EndParts

LEMMA TakenBy ==
    ASSUME IInv, Next, NEW c \in Clients, RefreshOk(jars[c].refresh), jars'[c].refresh = None
    PROVE  \E r \in Requests :
             /\ client[r] = c /\ at'[r] # at[r]
             /\ \/ form[r].op = "signOut"
                \/ sent[r].access # None /\ ~Valid(sent[r].access, AccessTTL)
                \/ sent[r].refresh # jars[c].refresh
                \/ at'[r] = "unread"
<1>1. jars[c].refresh # None
  BY DEF RefreshOk, Valid
<1>2. jars' # jars
  BY <1>1
<1>3. PICK r \in Requests :
        \/ Unauthorized(r) \/ Unread(r) \/ RefreshToken(r) \/ CreateUser(r) \/ LoadFails(r)
        \/ Update(r) \/ Enter(r) \/ Fail(r)
        \/ Refused(r) /\ at[r] = "routed"
  BY <1>2 DEF Next, Tick, Send, Pass, Falls, Grant, Renew, SignIn, SignOut, RefreshGuarded, Administer,
              AdministerNew, LookUp, LookUpUnread, Mint, Load, Select, ToService
<1>4. Plain(r) \in Jar /\ Plain(r).refresh = jars[client[r]].refresh /\ jars[client[r]] \in Jar
  BY JarOfPlain DEF IInv, Typed, RequestsTyped
<1>5. CASE Unauthorized(r)
  <2>1. client[r] = c /\ at'[r] # at[r]
    BY <1>1, <1>5, JarOfNone, EndTakes DEF Unauthorized, Respond
  <2>2. ASSUME sent[r].refresh = jars[c].refresh PROVE sent[r].access # None /\ ~Valid(sent[r].access, AccessTTL)
    BY <1>5, <2>2 DEF Unauthorized, FallsThrough, AccessOk
  <2> QED BY <2>1, <2>2
<1>6. CASE Unread(r)
  <2>1. client[r] = c /\ at'[r] # at[r]
    BY <1>1, <1>6, JarOfNone, EndTakes DEF Unread
  <2>2. at'[r] = "unread"
    BY <1>6, JarOfNone, EndParts DEF Unread
  <2> QED BY <2>1, <2>2
<1>7. CASE RefreshToken(r)
  <2> DEFINE fresh == Signed(user[r])
  <2>1. fresh \in Token
    BY <1>7, SignedJar DEF RefreshToken
  <2>2. Respond(r, [jars[client[r]] EXCEPT !.access = fresh]) /\ at[r] = "reissue"
    BY <1>7 DEF RefreshToken
  <2> HIDE DEF fresh
  <2>3. [jars[client[r]] EXCEPT !.access = fresh] \in Jar
        /\ [jars[client[r]] EXCEPT !.access = fresh].refresh = jars[client[r]].refresh
    BY <1>4, <2>1 DEF Jar, MaybeToken
  <2> PICK jar \in Jar : Respond(r, jar) /\ jar.refresh = jars[client[r]].refresh
    BY <2>2, <2>3
  <2>4. client[r] = c /\ jar.refresh = None
    BY <1>1, <2>2, EndTakes DEF Respond
  <2> QED BY <1>1, <2>4
<1>8. CASE CreateUser(r)
  <2>1. Respond(r, Plain(r)) /\ at[r] = "create"
    BY <1>2, <1>8 DEF CreateUser
  <2>2. client[r] = c /\ Plain(r).refresh = None
    BY <1>1, <1>4, <2>1, EndTakes DEF Respond
  <2> QED BY <1>1, <1>4, <2>2
<1>9. CASE LoadFails(r) \/ Fail(r) \/ (Refused(r) /\ at[r] = "routed")
  <2>1. PICK jar \in {EmptyJar, Plain(r)} :
          /\ End(r, jar, "ended")
          /\ at[r] \in {"routed", "load", "select", "write", "create"}
          /\ form[r].op # "signOut" => jar = Plain(r)
    BY <1>9 DEF LoadFails, Fail, Refused, Respond
  <2>2. client[r] = c /\ at'[r] # at[r] /\ jar.refresh = None
    BY <1>1, <1>4, <2>1, JarOfNone, EndTakes
  <2>3. form[r].op = "signOut"
    BY <1>1, <1>4, <2>1, <2>2
  <2> QED BY <2>2, <2>3
<1>10. CASE Update(r)
  <2>1. PICK jar \in {EmptyJar, Plain(r)} :
          /\ End(r, jar, "ended") /\ at[r] = "write"
          /\ form[r].op # "signOut" => jar = Plain(r)
    BY <1>2, <1>10 DEF Update, Respond
  <2>2. client[r] = c /\ at'[r] # at[r] /\ jar.refresh = None
    BY <1>1, <1>4, <2>1, JarOfNone, EndTakes
  <2>3. form[r].op = "signOut"
    BY <1>1, <1>4, <2>1, <2>2
  <2> QED BY <2>2, <2>3
<1>11. CASE Enter(r)
  <2> DEFINE jar == [access |-> Signed(user[r]), refresh |-> minted[r]]
  <2>1. Respond(r, jar) /\ at[r] = "enter" /\ Placed(r)
    BY <1>11 DEF Enter, IInv
  <2>2. Signed(user[r]) \in Token /\ minted[r] \in Token
    BY <2>1, SignedJar DEF Placed
  <2>3. jar \in Jar /\ jar.refresh # None
    BY <2>2, SessionAssumption DEF Jar, MaybeToken
  <2> HIDE DEF jar
  <2> QED BY <1>1, <2>1, <2>3, EndTakes DEF Respond
<1> QED BY <1>3, <1>5, <1>6, <1>7, <1>8, <1>9, <1>10, <1>11

\* A browser loses a good refresh token only when it signs out, to a request that carried an
\* expired access token or other cookies, or by an error of the database.
THEOREM SessionsLast == Spec => KeepsSession
<1> DEFINE Keeps(c) ==
         RefreshOk(jars[c].refresh) /\ jars'[c].refresh = None =>
             \E r \in Requests :
                 /\ client[r] = c /\ at'[r] # at[r]
                 /\ \/ form[r].op = "signOut"
                    \/ sent[r].access # None /\ ~Valid(sent[r].access, AccessTTL)
                    \/ sent[r].refresh # jars[c].refresh
                    \/ at'[r] = "unread"
<1>1. ASSUME IInv, Next, NEW c \in Clients PROVE Keeps(c)
  BY <1>1, TakenBy
<1>2. IInv /\ [Next]_vars => [\A c \in Clients : Keeps(c)]_vars
  BY <1>1
<1> QED BY <1>2, IInvAlways, PTL DEF Spec, KeepsSession

=============================================================================
