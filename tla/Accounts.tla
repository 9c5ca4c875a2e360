------------------------------ MODULE Accounts ------------------------------
(***************************************************************************)
(* Signing up and in, the refresh tokens a login session lives by, the     *)
(* handlers that end sessions, the role switch, and the cache of users     *)
(* that every authenticated request is admitted by.  Requests run          *)
(* concurrently; one is cut where its handler awaits the database or       *)
(* Redis.  Nothing is locked: what a step writes rests on what an earlier  *)
(* step read.  Passwords are counted, so that a changed one is a new one.  *)
(***************************************************************************)
EXTENDS Integers

CONSTANTS
    None,           \* SQL NULL, a missing row or cache entry
    Users,          \* user ids
    Emails,         \* addresses people sign up with
    Googles,        \* Google accounts
    Tokens,         \* refresh tokens
    Links,          \* password reset tokens
    Requests,       \* requests that can be in flight at the same time
    Mixes,          \* bound: the sets of operations clients combine
    MaxPassword     \* bound: how often a password changes

VARIABLES
    users,      \* table users, with the profile of each
    tokens,     \* table refresh_tokens
    links,      \* table password_reset_tokens
    cache,      \* the entries user/<id> in Redis
    req,        \* what each request carries from one step to the next
    calls,      \* the operations of this behaviour, one of Mixes
    outdated    \* history: users whose entry was filled late or not deleted

tables == <<users, tokens, links>>
vars == <<users, tokens, links, cache, req, calls, outdated>>

Roles == {"CUSTOMER", "PROVIDER"}

UserRows == [email    : Emails \cup {None},     \* None: anonymized
             google   : Googles \cup {None},
             password : 0..MaxPassword,
             resetTo  : 0..MaxPassword,         \* history: set by the last reset
             role     : Roles,
             profile  : {"none", "open", "closed"},
             active   : BOOLEAN,
             deleted  : BOOLEAN]

\* family, password and late are history: the login a token descends from, the
\* password that login was checked against, and whether the token was issued
\* by a request that did not see what had been done to its grounds
TokenRows == [user : Users, state : {"live", "revoked", "expired"},
              family : Tokens, password : 0..MaxPassword, late : BOOLEAN]

LinkRows == [user : Users, state : {"unused", "used", "expired"},
             password : 0..MaxPassword, late : BOOLEAN]

\* The AuthUser that requests are admitted as
Views == [role : Roles, hasProfile : BOOLEAN]

Grounds == [token : Tokens \cup {None}, family : Tokens \cup {None},
            password : 0..MaxPassword]

ASSUME AccountsAssumption ==
    /\ None \notin Users \cup Emails \cup Googles \cup Tokens
    /\ None \notin UserRows \cup TokenRows \cup LinkRows \cup Views
    /\ MaxPassword \in Nat

Idle == [op |-> "none", step |-> "idle", user |-> None, data |-> None, late |-> FALSE]

Init ==
    /\ users = [u \in Users |-> None]
    /\ tokens = [t \in Tokens |-> None]
    /\ links = [x \in Links |-> None]
    /\ cache = [u \in Users |-> None]
    /\ req = [r \in Requests |-> Idle]
    /\ calls \in Mixes
    /\ outdated = {}

Exists(u) == users[u] # None

\* isActive and no deletedAt: asked at every sign-in, refresh and reset
Enabled(u) == Exists(u) /\ users[u].active /\ ~users[u].deleted

View(u) == [role |-> users[u].role, hasProfile |-> users[u].profile # "none"]

\* JwtStrategy lets a request in on its cache entry, or on the row
Admitted(u) == Exists(u) /\ (cache[u] # None \/ Enabled(u))

Live(t) == tokens[t] # None /\ tokens[t].state = "live"

Unused(x) == links[x] # None /\ links[x].state = "unused"

\* Another row has the address or the Google account: the unique indexes refuse
Taken(u, email, google) ==
    \E v \in Users \ {u} :
        /\ Exists(v)
        /\ \/ email # None /\ users[v].email = email
           \/ google # None /\ users[v].google = google

-----------------------------------------------------------------------------
(* How a request moves on *)

Begin(r, op, step, u, data, late) ==
    /\ op \in calls
    /\ req[r] = Idle
    /\ req' = [req EXCEPT ![r] = [op |-> op, step |-> step, user |-> u,
                                  data |-> data, late |-> late]]
    /\ UNCHANGED <<tables, cache, outdated, calls>>

GoTo(r, step, data) ==
    req' = [req EXCEPT ![r].step = step, ![r].data = data]

Answer(r) == req' = [req EXCEPT ![r] = Idle]

SignsIn(token, family, password) ==
    [token |-> token, family |-> family, password |-> password]

-----------------------------------------------------------------------------
(* Signing up and in *)

NewUser(email, google, role) ==
    [email |-> email, google |-> google, password |-> 0, resetTo |-> 0, role |-> role,
     profile |-> IF role = "PROVIDER" THEN "open" ELSE "none",
     active |-> TRUE, deleted |-> FALSE]

\* Ids are generated on insert: any id no row or pending insert has
FreshUsers == {u \in Users : ~Exists(u) /\ \A r \in Requests : req[r].user # u}

SignUp(r, op, row) ==
    /\ \A u \in Users : Exists(u) => users[u].email # row.email
    /\ FreshUsers # {}                                          \* bound: ids run out
    /\ Begin(r, op, "insert", CHOOSE u \in FreshUsers : TRUE, row, FALSE)

RegisterRead(r, email, role) == SignUp(r, "register", NewUser(email, None, role))

\* Mutant: a refused insert is not noticed, and the sign-up goes on
InsertUserAnyway(r) ==
    LET row == req[r].data
        u == req[r].user
    IN  /\ req[r].step = "insert"
        /\ users' = IF Taken(u, row.email, row.google)
                    THEN users ELSE [users EXCEPT ![u] = row]
        /\ GoTo(r, "issue", SignsIn(None, None, 0))
        /\ UNCHANGED <<tokens, links, cache, outdated, calls>>

\* User, profile and preferences in one transaction
InsertUser(r) ==
    LET row == req[r].data
        u == req[r].user
    IN  /\ req[r].step = "insert"
        /\ IF Taken(u, row.email, row.google)
           THEN Answer(r) /\ UNCHANGED users
           ELSE /\ users' = [users EXCEPT ![u] = row]
                /\ GoTo(r, "issue", SignsIn(None, None, 0))
        /\ UNCHANGED <<tokens, links, cache, outdated, calls>>

LoginRead(r, u, password) ==
    /\ Enabled(u)
    /\ password = users[u].password                             \* bcrypt.compare
    /\ Begin(r, "login", "issue", u, SignsIn(None, None, password), FALSE)

OAuthRead(r, google, email) ==
    \/ SignUp(r, "oauth", NewUser(email, google, "CUSTOMER"))
    \/ \E u \in Users :
          /\ Exists(u)
          /\ users[u].email = email
          /\ ~users[u].deleted
          /\ \/ /\ users[u].google = None
                /\ Begin(r, "oauth", "link", u, google, FALSE)
             \/ /\ users[u].google # None
                /\ Enabled(u)
                /\ Begin(r, "oauth", "issue", u,
                         SignsIn(None, None, users[u].password), FALSE)

\* The update returns the row as it now is, which oauthLogin then checks
LinkGoogle(r) ==
    LET u == req[r].user
    IN  /\ req[r].step = "link"
        /\ IF Taken(u, None, req[r].data)
           THEN Answer(r) /\ UNCHANGED users
           ELSE /\ users' = [users EXCEPT ![u].google = req[r].data]
                /\ IF Enabled(u)
                   THEN req' = [req EXCEPT
                            ![r] = [@ EXCEPT !.step = "issue", !.late = FALSE,
                                    !.data = SignsIn(None, None, users[u].password)]]
                   ELSE Answer(r)
        /\ UNCHANGED <<tokens, links, cache, outdated, calls>>

\* Mutant: a token that was revoked or has expired is accepted
RefreshReadAny(r, t) ==
    /\ tokens[t] # None
    /\ Enabled(tokens[t].user)
    /\ Begin(r, "refresh", "rotate", tokens[t].user,
             SignsIn(t, tokens[t].family, tokens[t].password), tokens[t].late)

RefreshRead(r, t) ==
    /\ Live(t)
    /\ Enabled(tokens[t].user)
    /\ Begin(r, "refresh", "rotate", tokens[t].user,
             SignsIn(t, tokens[t].family, tokens[t].password), tokens[t].late)

\* Mutant: the token that was exchanged stays good
RotateKeeps(r) ==
    /\ req[r].step = "rotate"
    /\ req' = [req EXCEPT ![r].step = "issue"]
    /\ UNCHANGED <<users, tokens, links, cache, outdated, calls>>

\* The old token is revoked by id, whatever has become of it since the read
Rotate(r) ==
    LET t == req[r].data.token
    IN  /\ req[r].step = "rotate"
        /\ tokens' = [tokens EXCEPT ![t].state = "revoked"]
        /\ req' = [req EXCEPT ![r].step = "issue", ![r].late = @ \/ ~Live(t)]
        /\ UNCHANGED <<users, links, cache, outdated, calls>>

FreshTokens == {t \in Tokens : tokens[t] = None}

Issue(r) ==
    /\ req[r].step = "issue"
    /\ FreshTokens # {}                                         \* bound: ids run out
    /\ LET t == CHOOSE t \in FreshTokens : TRUE
           grounds == req[r].data
       IN  tokens' = [tokens EXCEPT ![t] =
               [user |-> req[r].user, state |-> "live",
                family |-> IF grounds.family = None THEN t ELSE grounds.family,
                password |-> grounds.password, late |-> req[r].late]]
    /\ Answer(r)
    /\ UNCHANGED <<users, links, cache, outdated, calls>>

\* One updateMany: no step of it can be separated
Logout(t) ==
    /\ "logout" \in calls
    /\ Live(t)
    /\ tokens' = [tokens EXCEPT ![t].state = "revoked"]
    /\ UNCHANGED <<users, links, cache, req, outdated, calls>>

TokenExpires(t) ==
    /\ "expire" \in calls
    /\ Live(t)
    /\ tokens' = [tokens EXCEPT ![t].state = "expired"]
    /\ UNCHANGED <<users, links, cache, req, outdated, calls>>

-----------------------------------------------------------------------------
(* Handlers that change an account and end its sessions *)

ForgotRead(r, u) ==
    /\ Enabled(u)
    /\ Begin(r, "forgot", "link mail", u, users[u].password, FALSE)

CreateLink(r) ==
    /\ req[r].step = "link mail"
    /\ \E x \in Links :
          /\ links[x] = None                                    \* bound: ids run out
          /\ links' = [links EXCEPT ![x] =
                 [user |-> req[r].user, state |-> "unused",
                  password |-> req[r].data, late |-> req[r].late]]
    /\ Answer(r)
    /\ UNCHANGED <<users, tokens, cache, outdated, calls>>

\* Mutant: usedAt is not looked at
ResetReadUsed(r, x) ==
    /\ links[x] # None
    /\ Enabled(links[x].user)
    /\ Begin(r, "reset", "reset", links[x].user, x, FALSE)

ResetRead(r, x) ==
    /\ Unused(x)
    /\ Enabled(links[x].user)
    /\ Begin(r, "reset", "reset", links[x].user, x, FALSE)

LinkExpires(x) ==
    /\ "expire" \in calls
    /\ Unused(x)
    /\ links' = [links EXCEPT ![x].state = "expired"]
    /\ UNCHANGED <<users, tokens, cache, req, outdated, calls>>

\* The next password of the user, which nobody had before
NextPassword(u) == users[u].password + 1

\* The handler found the user; what it checks besides is its own guard
ChangeRead(r, u) ==
    /\ Admitted(u)
    /\ Begin(r, "change", "change", u, None, FALSE)

DeleteRead(r, u) ==
    /\ Admitted(u)
    /\ Begin(r, "delete", "delete", u, None, FALSE)

DeactivateRead(r, u) ==
    /\ Exists(u)
    /\ ~users[u].deleted
    /\ Begin(r, "deactivate", "deactivate", u, None, FALSE)

ActivateRead(r, u) ==
    /\ Exists(u)
    /\ ~users[u].deleted
    /\ Begin(r, "activate", "activate", u, None, FALSE)

\* Mutant: the refresh tokens are left as they are
WriteUserOnly(r, row) ==
    /\ users' = [users EXCEPT ![req[r].user] = row]
    /\ req' = [q \in Requests |->
           IF q = r THEN [req[q] EXCEPT !.step = "invalidate"]
           ELSE [req[q] EXCEPT !.late = @ \/ req[q].user = req[r].user]]
    /\ UNCHANGED <<tokens, cache, outdated, calls>>

(***************************************************************************)
(* The transaction of a handler that rewrites a user row and revokes every *)
(* refresh token of the user; the cache entry is deleted in a later step.  *)
(* Requests in flight for the user go on from what they read before.       *)
(***************************************************************************)
WriteUser(r, row) ==
    LET u == req[r].user
    IN  /\ users' = [users EXCEPT ![u] = row]
        /\ tokens' = [t \in Tokens |->
               IF tokens[t] # None /\ tokens[t].user = u
               THEN [tokens[t] EXCEPT !.state = "revoked"]
               ELSE tokens[t]]
        /\ req' = [q \in Requests |->
               IF q = r THEN [req[q] EXCEPT !.step = "invalidate"]
               ELSE [req[q] EXCEPT !.late = @ \/ req[q].user = u]]
        /\ UNCHANGED <<cache, outdated, calls>>

ChangePassword(r) ==
    LET u == req[r].user
    IN  /\ req[r].step = "change"
        /\ NextPassword(u) <= MaxPassword                       \* bound
        /\ WriteUser(r, [users[u] EXCEPT !.password = NextPassword(u)])
        /\ UNCHANGED links

\* Mutant: only the link that was used is marked
ResetPasswordOneLink(r) ==
    LET u == req[r].user
    IN  /\ req[r].step = "reset"
        /\ NextPassword(u) <= MaxPassword
        /\ WriteUser(r, [users[u] EXCEPT !.password = NextPassword(u),
                                         !.resetTo = NextPassword(u)])
        /\ links' = [links EXCEPT ![req[r].data].state = "used"]

\* Every unused link of the user is used up with the one that was presented
ResetPassword(r) ==
    LET u == req[r].user
    IN  /\ req[r].step = "reset"
        /\ NextPassword(u) <= MaxPassword                       \* bound
        /\ WriteUser(r, [users[u] EXCEPT !.password = NextPassword(u),
                                         !.resetTo = NextPassword(u)])
        /\ links' = [x \in Links |->
               IF x = req[r].data \/ (Unused(x) /\ links[x].user = u)
               THEN [links[x] EXCEPT !.state = "used"]
               ELSE links[x]]

DeleteAccount(r) ==
    LET u == req[r].user
    IN  /\ req[r].step = "delete"
        /\ WriteUser(r, [users[u] EXCEPT !.email = None, !.active = FALSE, !.deleted = TRUE])
        /\ UNCHANGED links

Deactivate(r) ==
    LET u == req[r].user
    IN  /\ req[r].step = "deactivate"
        /\ WriteUser(r, [users[u] EXCEPT !.active = FALSE])
        /\ UNCHANGED links

Activate(r) ==
    /\ req[r].step = "activate"
    /\ users' = [users EXCEPT ![req[r].user].active = TRUE]
    /\ GoTo(r, "invalidate", None)
    /\ UNCHANGED <<tokens, links, cache, outdated, calls>>

-----------------------------------------------------------------------------
(* The role switch *)

\* That no upcoming appointment forbids the switch is a matter of Appointments
SwitchRead(r, u, role) ==
    /\ Admitted(u)
    /\ users[u].role # role
    /\ role = "CUSTOMER" => users[u].profile # "none"
    /\ Begin(r, "switch", "switch", u,
             [role |-> role, creates |-> users[u].profile = "none"], FALSE)

\* Mutant: the role is not part of the transaction on the profile
SwitchProfileOnly(r) ==
    LET u == req[r].user
    IN  /\ req[r].step = "switch"
        /\ users' = [users EXCEPT ![u].profile =
               IF req[r].data.role = "PROVIDER" THEN "open" ELSE "closed"]
        /\ GoTo(r, "invalidate", None)
        /\ UNCHANGED <<tokens, links, cache, outdated, calls>>

\* Role and profile in one transaction; a profile can be created only once
Switch(r) ==
    LET u == req[r].user
    IN  /\ req[r].step = "switch"
        /\ IF req[r].data.creates /\ users[u].profile # "none"
           THEN Answer(r) /\ UNCHANGED users
           ELSE /\ users' = [users EXCEPT
                       ![u].role = req[r].data.role,
                       ![u].profile =
                           IF req[r].data.role = "PROVIDER" THEN "open" ELSE "closed"]
                /\ GoTo(r, "invalidate", None)
        /\ UNCHANGED <<tokens, links, cache, outdated, calls>>

-----------------------------------------------------------------------------
(* The user cache; a Redis error is logged and swallowed *)

\* Mutant: the entry is deleted only when the role was switched
InvalidateAfterSwitch(r) ==
    LET u == req[r].user
    IN  /\ req[r].step = "invalidate"
        /\ IF req[r].op = "switch"
           THEN cache' = [cache EXCEPT ![u] = None] /\ outdated' = outdated \ {u}
           ELSE UNCHANGED <<cache, outdated>>
        /\ Answer(r)
        /\ UNCHANGED <<tables, calls>>

Invalidate(r) ==
    LET u == req[r].user
    IN  /\ req[r].step = "invalidate"
        /\ cache' = [cache EXCEPT ![u] = None]
        /\ outdated' = outdated \ {u}
        /\ Answer(r)
        /\ UNCHANGED <<tables, calls>>

\* A miss; a hit admits the request and changes nothing
ValidateMiss(r, u) ==
    /\ Exists(u)
    /\ cache[u] = None
    /\ Begin(r, "validate", "lookup", u, None, FALSE)

\* Mutant: whoever has an access token is let in
LookupAny(r) ==
    /\ req[r].step = "lookup"
    /\ GoTo(r, "fill", View(req[r].user))
    /\ UNCHANGED <<tables, cache, outdated, calls>>

Lookup(r) ==
    LET u == req[r].user
    IN  /\ req[r].step = "lookup"
        /\ IF Enabled(u) THEN GoTo(r, "fill", View(u)) ELSE Answer(r)
        /\ UNCHANGED <<tables, cache, outdated, calls>>

\* The entry says of the row what the row says now
Agrees(u, view) == Enabled(u) /\ view = View(u)

Fill(r) ==
    LET u == req[r].user
    IN  /\ req[r].step = "fill"
        /\ cache' = [cache EXCEPT ![u] = req[r].data]
        /\ outdated' = IF Agrees(u, req[r].data) THEN outdated \ {u} ELSE outdated \cup {u}
        /\ Answer(r)
        /\ UNCHANGED <<tables, calls>>

CacheExpires(u) ==
    /\ cache[u] # None
    /\ cache' = [cache EXCEPT ![u] = None]
    /\ outdated' = outdated \ {u}
    /\ UNCHANGED <<tables, req, calls>>

\* A database or Redis error, or the death of the replica, at any step
Fail(r) ==
    /\ req[r] # Idle
    /\ outdated' = IF req[r].step = "invalidate" /\ cache[req[r].user] # None
                   THEN outdated \cup {req[r].user}
                   ELSE outdated
    /\ Answer(r)
    /\ UNCHANGED <<tables, cache, calls>>

-----------------------------------------------------------------------------
Receive(r) ==
    \/ \E email \in Emails :
          \/ \E role \in Roles : RegisterRead(r, email, role)
          \/ \E google \in Googles : OAuthRead(r, google, email)
    \/ \E t \in Tokens : RefreshRead(r, t)
    \/ \E x \in Links : ResetRead(r, x)
    \/ \E u \in Users :
          \/ \E password \in 0..MaxPassword : LoginRead(r, u, password)
          \/ \E role \in Roles : SwitchRead(r, u, role)
          \/ ForgotRead(r, u)
          \/ ChangeRead(r, u)
          \/ DeleteRead(r, u)
          \/ DeactivateRead(r, u)
          \/ ActivateRead(r, u)
          \/ ValidateMiss(r, u)

Advance(r) ==
    \/ InsertUser(r)
    \/ LinkGoogle(r)
    \/ Rotate(r)
    \/ Issue(r)
    \/ CreateLink(r)
    \/ ChangePassword(r)
    \/ ResetPassword(r)
    \/ DeleteAccount(r)
    \/ Deactivate(r)
    \/ Activate(r)
    \/ Switch(r)
    \/ Invalidate(r)
    \/ Lookup(r)
    \/ Fill(r)

Next ==
    \/ \E r \in Requests : Receive(r) \/ Advance(r) \/ Fail(r)
    \/ \E t \in Tokens : Logout(t) \/ TokenExpires(t)
    \/ \E x \in Links : LinkExpires(x)
    \/ \E u \in Users : CacheExpires(u)

Spec == Init /\ [][Next]_vars

\* A started request goes on or fails; Redis drops an entry when its TTL is over
Fairness ==
    /\ \A r \in Requests : WF_vars(Advance(r) \/ Fail(r))
    /\ \A u \in Users : WF_vars(CacheExpires(u))

FairSpec == Spec /\ Fairness

-----------------------------------------------------------------------------
(* Properties *)

\* Every variable has its type, and a request carries what its next step needs:
\* in particular, none signs in or changes a user that was never stored.
TypeOK ==
    /\ users \in [Users -> UserRows \cup {None}]
    /\ tokens \in [Tokens -> TokenRows \cup {None}]
    /\ links \in [Links -> LinkRows \cup {None}]
    /\ cache \in [Users -> Views \cup {None}]
    /\ calls \in Mixes
    /\ outdated \subseteq Users
    /\ \A r \in Requests :
          /\ req[r].step = "insert" => req[r].data \in UserRows
          /\ req[r].step \in {"rotate", "issue"} => req[r].data \in Grounds
          /\ req[r].step = "fill" => req[r].data \in Views
          /\ req[r] # Idle /\ req[r].step # "insert" => Exists(req[r].user)

(***************************************************************************)
(* register and oauthLogin look an address up and insert later: racing     *)
(* sign-ups, links and deletions never leave two accounts with one address *)
(* or one Google account, and the role of an account always matches its    *)
(* profile, however two role switches, or two first ones, interleave.      *)
(***************************************************************************)
AccountsAreWhole ==
    \A u \in Users : Exists(u) =>
        /\ ~Taken(u, users[u].email, users[u].google)
        /\ users[u].role = "PROVIDER" <=> users[u].profile = "open"

(***************************************************************************)
(* A refresh token is good only while its account is enabled and has the   *)
(* password its login was checked against: changing or resetting the       *)
(* password, deactivation and deletion leave none behind.  The exception   *)
(* is a token issued by a request that had passed its checks before.       *)
(***************************************************************************)
LiveTokensAreAuthorized ==
    \A t \in Tokens :
        Live(t) /\ ~tokens[t].late =>
            /\ Enabled(tokens[t].user)
            /\ tokens[t].password = users[tokens[t].user].password

(***************************************************************************)
(* A login session has one good refresh token at a time: a second one      *)
(* appears only when two refreshes of the same token overlapped.           *)
(***************************************************************************)
OneTokenPerSession ==
    \A t, v \in Tokens :
        /\ Live(t) /\ ~tokens[t].late
        /\ Live(v) /\ ~tokens[v].late
        /\ tokens[t].family = tokens[v].family
        => t = v

(***************************************************************************)
(* resetPassword uses up every link the user had been sent: an unused one  *)
(* is younger than the last reset, unless the request that made it was     *)
(* under way meanwhile.                                                    *)
(***************************************************************************)
ResetVoidsLinks ==
    \A x \in Links :
        Unused(x) /\ ~links[x].late => links[x].password >= users[links[x].user].resetTo

(***************************************************************************)
(* A link sets a password once; only a use that had been checked before    *)
(* another one was committed finds it used.                                *)
(***************************************************************************)
LinkWorksOnce ==
    [][\A r \in Requests :
          ResetPassword(r) /\ ~req[r].late => links[req[r].data].state # "used"]_vars

(***************************************************************************)
(* A cached user has the role and the profile of its row and is enabled,   *)
(* except while the handler that changed the row has yet to delete the     *)
(* entry, when that deletion failed, or when the entry was filled with     *)
(* what had been read before the change.                                   *)
(***************************************************************************)
CachedUserIsCurrent ==
    \A u \in Users :
        cache[u] # None /\ ~Agrees(u, cache[u]) =>
            \/ u \in outdated
            \/ \E r \in Requests : req[r].step = "invalidate" /\ req[r].user = u

(***************************************************************************)
(* An account that stays disabled is shut out in the end, whatever fills   *)
(* and lost deletions left in the cache.                                   *)
(***************************************************************************)
DisabledIsShutOut ==
    \A u \in Users :
        <>[](Exists(u) /\ ~Enabled(u)) => <>[](cache[u] = None)

(***************************************************************************)
(* Login sessions as Sessions promises them: one is open while it has a    *)
(* good token or a refresh of one is under way, and having ended it is     *)
(* never resumed, not even by requests that overlap the end.               *)
(***************************************************************************)
Resumable(f) ==
    \/ \E t \in Tokens : Live(t) /\ tokens[t].family = f
    \/ \E r \in Requests : /\ req[r].step \in {"rotate", "issue"}
                           /\ req[r].data.family = f

Session(f) ==
    IF Resumable(f) THEN "open"
    ELSE IF tokens[f] # None /\ tokens[f].family = f THEN "ended" ELSE "none"

S == INSTANCE Sessions WITH Families <- Tokens,
                            session <- [f \in Tokens |-> Session(f)]

ImplementsSessions == S!SessionsSpec
=============================================================================
