--------------------------- MODULE AccountsProofs ---------------------------
(***************************************************************************)
(* Proofs about Accounts for every value of its constants: any number of   *)
(* requests in flight, users, tokens, links and password changes.          *)
(***************************************************************************)
EXTENDS Accounts, TLAPS

-----------------------------------------------------------------------------
(* The inductive invariant *)

Switches == [role : Roles, creates : BOOLEAN]

Payloads == UserRows \cup Googles \cup Grounds \cup 0..MaxPassword \cup Links
            \cup Switches \cup Views \cup {None}

Ops == {"none", "register", "login", "oauth", "refresh", "forgot", "reset", "change",
        "delete", "deactivate", "activate", "switch", "validate"}

Steps == {"idle", "insert", "link", "rotate", "issue", "link mail", "reset", "change",
          "delete", "deactivate", "activate", "switch", "lookup", "fill", "invalidate"}

RequestRecords == [op : Ops, step : Steps, user : Users \cup {None},
                   data : Payloads, late : BOOLEAN]

\* A request carries what its next step needs
PayloadFits(q) ==
    /\ q.step = "idle" <=> q = Idle
    /\ q.step # "idle" => q.user \in Users
    /\ q.step = "insert" => q.data \in UserRows
    /\ q.step = "link" => q.data \in Googles
    /\ q.step \in {"rotate", "issue"} => q.data \in Grounds
    /\ q.step = "link mail" => q.data \in 0..MaxPassword
    /\ q.step = "reset" => q.data \in Links
    /\ q.step = "switch" => q.data \in Switches
    /\ q.step = "fill" => q.data \in Views

RequestStates == {q \in RequestRecords : PayloadFits(q)}

TypeInv ==
    /\ users \in [Users -> UserRows \cup {None}]
    /\ tokens \in [Tokens -> TokenRows \cup {None}]
    /\ links \in [Links -> LinkRows \cup {None}]
    /\ cache \in [Users -> Views \cup {None}]
    /\ req \in [Requests -> RequestStates]
    /\ calls \in Mixes
    /\ outdated \subseteq Users

\* Role and profile of a row agree
RoleFits(row) == row.role = "PROVIDER" <=> row.profile = "open"

\* The row of a sign-up: enabled, with a first password
Pristine(row) ==
    /\ row.active /\ ~row.deleted
    /\ row.password = 0 /\ row.resetTo = 0
    /\ RoleFits(row)

\* A login session is named by the token that was first issued to it
Root(f) == f \in Tokens /\ tokens[f] # None /\ tokens[f].family = f

\* What signs a user in still holds, unless the request was overtaken
Grounded(q) ==
    /\ q.data.family # None => Root(q.data.family)
    /\ ~q.late => Enabled(q.user) /\ q.data.password = users[q.user].password

\* A refresh presents a token of its user and carries on that token's session
Exchanges(q) ==
    LET t == q.data.token
    IN  /\ t \in Tokens
        /\ tokens[t] # None
        /\ tokens[t].family = q.data.family
        /\ ~q.late => ~tokens[t].late

\* A reset presents a link of its user, unused unless the request was overtaken
Presents(q) ==
    /\ links[q.data] # None
    /\ links[q.data].user = q.user
    /\ ~q.late => links[q.data].state # "used"

\* What a request read is still so, as far as nothing overtook it
Sound(q) ==
    /\ q.step = "insert" => ~Exists(q.user) /\ Pristine(q.data)
    /\ q.step \notin {"idle", "insert"} => Exists(q.user)
    /\ q.step = "rotate" => Exchanges(q)
    /\ q.step \in {"rotate", "issue"} => Grounded(q)
    /\ q.step = "link mail" /\ ~q.late => q.data >= users[q.user].resetTo
    /\ q.step = "reset" => Presents(q)

\* A row yet to be inserted is of one request only
OwnIds ==
    \A r, q \in Requests :
        req[r].step = "insert" /\ q # r => req[q].user # req[r].user

RequestInv == OwnIds /\ \A r \in Requests : Sound(req[r])

\* A token or link is of a user that exists, and was issued on what still holds
GoodToken(t) ==
    /\ Exists(tokens[t].user)
    /\ Root(tokens[t].family)
    /\ Live(t) /\ ~tokens[t].late =>
           /\ Enabled(tokens[t].user)
           /\ tokens[t].password = users[tokens[t].user].password

GoodLink(x) ==
    /\ Exists(links[x].user)
    /\ Unused(x) /\ ~links[x].late => links[x].password >= users[links[x].user].resetTo

TableInv ==
    /\ \A u \in Users : Exists(u) => users[u].resetTo <= users[u].password /\ RoleFits(users[u])
    /\ \A t \in Tokens : tokens[t] # None => GoodToken(t)
    /\ \A x \in Links : links[x] # None => GoodLink(x)

\* The steps of one request that is under way, and what holds a login session
Holds(t, f) == Live(t) /\ ~tokens[t].late /\ tokens[t].family = f
Carries(r, f) == req[r].step = "issue" /\ ~req[r].late /\ req[r].data.family = f

(***************************************************************************)
(* Between the two writes of a refresh its session has no good token; the  *)
(* request that will issue the next one stands for it.                     *)
(***************************************************************************)
HolderInv ==
    \A f \in Tokens :
        /\ \A t, v \in Tokens : Holds(t, f) /\ Holds(v, f) => t = v
        /\ \A r, q \in Requests : Carries(r, f) /\ Carries(q, f) => r = q
        /\ \A t \in Tokens, r \in Requests : ~(Holds(t, f) /\ Carries(r, f))

UniqueInv ==
    \A u \in Users : Exists(u) => ~Taken(u, users[u].email, users[u].google)

IInv == TypeInv /\ RequestInv /\ TableInv

-----------------------------------------------------------------------------
(* What a request is *)

\* An unused request slot is a request, and sound
LEMMA IdleType == Idle \in RequestStates /\ Sound(Idle)
  <1>1. None \in Payloads /\ "idle" \in Steps /\ "none" \in Ops
    BY DEF Payloads, Steps, Ops
  <1>2. Idle \in RequestRecords
    BY <1>1 DEF RequestRecords, Idle
  <1>3. PayloadFits(Idle) /\ Sound(Idle)
    BY DEF PayloadFits, Idle, Sound
  <1> QED
    BY <1>2, <1>3 DEF RequestStates

\* A request under way has a user, and at each step the payload of that step
LEMMA RequestType ==
    ASSUME TypeInv, NEW r \in Requests
    PROVE  req[r] \in RequestRecords /\ PayloadFits(req[r])
  BY DEF TypeInv, RequestStates

\* Fields of the types of a step make a request
LEMMA RequestMade ==
    ASSUME NEW op \in Ops, NEW step \in Steps \ {"idle"}, NEW u \in Users, NEW data,
           NEW late \in BOOLEAN,
           \/ step = "insert" /\ data \in UserRows
           \/ step = "link" /\ data \in Googles
           \/ step \in {"rotate", "issue"} /\ data \in Grounds
           \/ step = "link mail" /\ data \in 0..MaxPassword
           \/ step = "reset" /\ data \in Links
           \/ step = "switch" /\ data \in Switches
           \/ step = "fill" /\ data \in Views
           \/ step \in {"change", "delete", "deactivate", "activate", "lookup"} /\ data = None
           \/ step = "invalidate" /\ data \in Payloads
    PROVE  [op |-> op, step |-> step, user |-> u, data |-> data, late |-> late]
               \in RequestStates
  <1>1. data \in Payloads
    BY DEF Payloads
  <1> QED
    BY <1>1 DEF RequestStates, RequestRecords, PayloadFits, Idle

\* Moving a request on touches the fields it names, and only them
Moved(q, step, data, late) ==
    [op |-> q.op, step |-> step, user |-> q.user, data |-> data, late |-> late]

\* A request whose user another one has changed meanwhile
Overtaken(q) == Moved(q, q.step, q.data, TRUE)

\* Changing the step, the payload or the lateness of a request moves it
LEMMA RequestMoves ==
    ASSUME NEW q \in RequestRecords, NEW step, NEW data, NEW late
    PROVE  /\ [q EXCEPT !.step = step] = Moved(q, step, q.data, q.late)
           /\ [q EXCEPT !.late = late] = Moved(q, q.step, q.data, late)
           /\ [q EXCEPT !.step = step, !.data = data] = Moved(q, step, data, q.late)
  <1> USE DEF Moved
  <1> DEFINE stepped == [q EXCEPT !.step = step]
  <1>1. stepped = Moved(q, step, q.data, q.late)
    BY DEF RequestRecords
  <1>2. [q EXCEPT !.late = late] = Moved(q, q.step, q.data, late)
    BY DEF RequestRecords
  <1>3. [q EXCEPT !.step = step, !.data = data] = [stepped EXCEPT !.data = data]
    OBVIOUS
  <1> HIDE DEF stepped
  <1>4. [stepped EXCEPT !.data = data] = Moved(q, step, data, q.late)
    BY <1>1
  <1> QED
    BY <1>1, <1>2, <1>3, <1>4 DEF stepped

\* So does changing the step and the lateness at once
LEMMA LateMoves ==
    ASSUME NEW q \in RequestRecords, NEW step, NEW late
    PROVE  [q EXCEPT !.step = step, !.late = late] = Moved(q, step, q.data, late)
  <1> DEFINE stepped == [q EXCEPT !.step = step]
  <1>1. stepped = Moved(q, step, q.data, q.late)
    BY DEF RequestRecords, Moved
  <1>2. [q EXCEPT !.step = step, !.late = late] = [stepped EXCEPT !.late = late]
    OBVIOUS
  <1> HIDE DEF stepped
  <1>3. [stepped EXCEPT !.late = late] = Moved(q, step, q.data, late)
    BY <1>1 DEF Moved
  <1> QED
    BY <1>2, <1>3

\* A request that goes to a step with a payload
LEMMA GoToMoves ==
    ASSUME TypeInv, NEW r \in Requests, NEW step, NEW data, GoTo(r, step, data)
    PROVE  req' = [req EXCEPT ![r] = Moved(req[r], step, data, req[r].late)]
  <1>1. req' = [req EXCEPT ![r] = [req[r] EXCEPT !.step = step, !.data = data]]
    BY Zenon DEF GoTo, TypeInv
  <1>2. [req[r] EXCEPT !.step = step, !.data = data] = Moved(req[r], step, data, req[r].late)
    BY RequestType, RequestMoves, Zenon
  <1> QED
    BY <1>1, <1>2, Zenon

-----------------------------------------------------------------------------
(* Steps that leave the tables alone *)

\* Request r becomes q, which is sound, and nothing is written
Quiet(r, q) ==
    /\ q \in RequestStates
    /\ Sound(q)
    /\ q.step = "insert" => \A p \in Requests : req[p].user # q.user
    /\ req' = [req EXCEPT ![r] = q]
    /\ UNCHANGED <<tables, calls>>

\* The operations requests are named by
LEMMA OpsNamed ==
    /\ {"register", "login", "oauth", "refresh", "forgot", "reset", "switch"} \subseteq Ops
    /\ {"change", "delete", "deactivate", "activate", "validate"} \subseteq Ops
    /\ FALSE \in BOOLEAN
  BY DEF Ops

\* The row a sign-up is to insert
LEMMA NewUserType ==
    ASSUME NEW email \in Emails, NEW google \in Googles \cup {None}, NEW role \in Roles
    PROVE  NewUser(email, google, role) \in UserRows /\ Pristine(NewUser(email, google, role))
  <1>1. 0 \in 0..MaxPassword
    BY AccountsAssumption
  <1> DEFINE profile == IF role = "PROVIDER" THEN "open" ELSE "none"
  <1>2. profile \in {"none", "open", "closed"} /\ (role = "PROVIDER" <=> profile = "open")
    OBVIOUS
  <1> HIDE DEF profile
  <1>3. NewUser(email, google, role) =
            [email |-> email, google |-> google, password |-> 0, resetTo |-> 0,
             role |-> role, profile |-> profile, active |-> TRUE, deleted |-> FALSE]
    BY DEF NewUser, profile
  <1> QED
    BY <1>1, <1>2, <1>3 DEF UserRows, Pristine, RoleFits

\* A sign-up begins with a pristine row, under an id of its own
LEMMA SignUpQuiet ==
    ASSUME IInv, NEW r \in Requests, NEW op \in Ops, NEW row \in UserRows, Pristine(row),
           SignUp(r, op, row)
    PROVE  \E q \in RequestStates : Quiet(r, q) /\ q.step = "insert"
  <1> DEFINE u == CHOOSE u \in FreshUsers : TRUE
             q == [op |-> op, step |-> "insert", user |-> u, data |-> row, late |-> FALSE]
  <1>1. u \in FreshUsers
    BY DEF SignUp
  <1>2. u \in Users /\ ~Exists(u) /\ \A p \in Requests : req[p].user # u
    BY <1>1 DEF FreshUsers
  <1>3. Begin(r, op, "insert", u, row, FALSE)
    BY DEF SignUp
  <1> HIDE DEF u
  <1>4. q \in RequestStates
    BY <1>2, RequestMade DEF Steps
  <1>5. Sound(q)
    BY <1>2 DEF Sound
  <1>6. req' = [req EXCEPT ![r] = q] /\ UNCHANGED <<tables, calls>>
    BY <1>3 DEF Begin
  <1> QED
    BY <1>2, <1>4, <1>5, <1>6 DEF Quiet

\* What a request that begins at a step has just read
Reads(step, u, data, late) ==
    /\ Exists(u)
    /\ \/ step = "link" /\ data \in Googles
       \/ /\ step = "issue" /\ data \in Grounds /\ data.family = None /\ ~late
          /\ Enabled(u) /\ data.password = users[u].password
       \/ /\ step = "rotate" /\ data \in Grounds /\ data.token \in Tokens
          /\ Live(data.token) /\ tokens[data.token].family = data.family
          /\ Root(data.family)
          /\ ~late => /\ ~tokens[data.token].late
                      /\ Enabled(u) /\ data.password = users[u].password
       \/ step = "link mail" /\ data \in 0..MaxPassword /\ data >= users[u].resetTo
       \/ /\ step = "reset" /\ data \in Links /\ ~late
          /\ links[data] # None /\ links[data].user = u /\ links[data].state # "used"
       \/ step = "switch" /\ data \in Switches
       \/ step \in {"change", "delete", "deactivate", "activate", "lookup"} /\ data = None

\* The session has a good token
Continues(f) == \E t \in Tokens : Live(t) /\ tokens[t].family = f

\* Request r becomes q; a login opens a session, a refresh continues one
Begun(r, q, step) ==
    /\ Quiet(r, q) /\ q.step = step
    /\ step = "issue" => q.data.family = None
    /\ step = "rotate" => Continues(q.data.family)

\* A request that begins with what it has just read
LEMMA BeginQuiet ==
    ASSUME IInv, NEW r \in Requests, NEW op \in Ops, NEW step, NEW u \in Users, NEW data,
           NEW late \in BOOLEAN,
           Begin(r, op, step, u, data, late), Reads(step, u, data, late)
    PROVE  \E q \in RequestStates : Begun(r, q, step)
  <1> DEFINE q == [op |-> op, step |-> step, user |-> u, data |-> data, late |-> late]
  <1>1. q \in RequestStates
    BY RequestMade DEF Reads, Steps
  <1>2. q.step = step /\ q.user = u /\ q.data = data /\ q.late = late
    OBVIOUS
  <1>3. req' = [req EXCEPT ![r] = q] /\ UNCHANGED <<tables, calls>>
    BY DEF Begin
  <1> HIDE DEF q
  <1>4. Sound(q)
    <2>1. step \notin {"idle", "insert"} /\ Exists(u)
      BY DEF Reads
    <2>2. step = "rotate" => Exchanges(q)
      BY <1>2 DEF Reads, Exchanges, Live
    <2>3. step \in {"rotate", "issue"} => Grounded(q)
      BY <1>2 DEF Reads, Grounded
    <2>4. step = "reset" => Presents(q)
      BY <1>2 DEF Reads, Presents
    <2>5. step = "link mail" => q.data >= users[q.user].resetTo
      BY <1>2 DEF Reads
    <2> QED
      BY <1>2, <2>1, <2>2, <2>3, <2>4, <2>5 DEF Sound
  <1>5. /\ step # "insert" /\ (step = "issue" => data.family = None)
        /\ step = "rotate" => Continues(data.family)
    BY DEF Reads, Continues
  <1> QED
    BY <1>1, <1>2, <1>3, <1>4, <1>5 DEF Quiet, Begun

\* Reading an account in Users that exists finds a whole row
LEMMA RowType ==
    ASSUME IInv, NEW u \in Users, Exists(u)
    PROVE  /\ users[u] \in UserRows
           /\ users[u].password \in 0..MaxPassword
           /\ users[u].resetTo \in 0..MaxPassword
           /\ users[u].resetTo <= users[u].password
           /\ users[u].role \in Roles
  <1>1. users[u] \in UserRows
    BY DEF IInv, TypeInv, Exists
  <1> QED
    BY <1>1 DEF IInv, TableInv, UserRows

\* A stored token is a whole row, and good
LEMMA TokenType ==
    ASSUME IInv, NEW t \in Tokens, tokens[t] # None
    PROVE  /\ tokens[t] \in TokenRows
           /\ tokens[t].user \in Users
           /\ tokens[t].family \in Tokens
           /\ tokens[t].password \in 0..MaxPassword
           /\ tokens[t].late \in BOOLEAN
           /\ GoodToken(t)
  <1>1. tokens[t] \in TokenRows
    BY DEF IInv, TypeInv
  <1> QED
    BY <1>1 DEF IInv, TableInv, TokenRows

\* A stored reset link is a whole row, and good
LEMMA LinkType ==
    ASSUME IInv, NEW x \in Links, links[x] # None
    PROVE  /\ links[x] \in LinkRows
           /\ links[x].user \in Users
           /\ links[x].password \in 0..MaxPassword
           /\ GoodLink(x)
  <1>1. links[x] \in LinkRows
    BY DEF IInv, TypeInv
  <1> QED
    BY <1>1 DEF IInv, TableInv, LinkRows

\* A login descends from nothing and holds the password that was compared
LEMMA SignsInType ==
    ASSUME NEW token \in Tokens \cup {None}, NEW family \in Tokens \cup {None},
           NEW password \in 0..MaxPassword
    PROVE  /\ SignsIn(token, family, password) \in Grounds
           /\ SignsIn(token, family, password).token = token
           /\ SignsIn(token, family, password).family = family
           /\ SignsIn(token, family, password).password = password
  BY DEF SignsIn, Grounds

\* Whatever request arrives, what it carries is sound and nothing is written
LEMMA ReceiveQuiet ==
    ASSUME IInv, NEW r \in Requests, Receive(r)
    PROVE  /\ \E q \in RequestStates :
                  /\ Quiet(r, q)
                  /\ q.step = "issue" => q.data.family = None
                  /\ q.step = "rotate" => Continues(q.data.family)
                  /\ q.step # "invalidate"
           /\ req[r] = Idle
           /\ UNCHANGED <<tables, cache, outdated, calls>>
  <1> DEFINE Goal == \E q \in RequestStates :
                         /\ Quiet(r, q)
                         /\ q.step = "issue" => q.data.family = None
                         /\ q.step = "rotate" => Continues(q.data.family)
                         /\ q.step # "invalidate"
  <1>a. ASSUME NEW op, NEW step, NEW u, NEW data, NEW late, Begin(r, op, step, u, data, late)
        PROVE  req[r] = Idle /\ UNCHANGED <<tables, cache, outdated, calls>>
    BY <1>a DEF Begin
  <1>b. ASSUME NEW op, NEW row, SignUp(r, op, row)
        PROVE  req[r] = Idle /\ UNCHANGED <<tables, cache, outdated, calls>>
    BY <1>a, <1>b DEF SignUp
  <1> DEFINE Framed == req[r] = Idle /\ UNCHANGED <<tables, cache, outdated, calls>>
  <1>1. ASSUME NEW email \in Emails, NEW role \in Roles, RegisterRead(r, email, role)
        PROVE  Goal /\ Framed
    <2>1. SignUp(r, "register", NewUser(email, None, role))
      BY <1>1 DEF RegisterRead
    <2>2. \E q \in RequestStates : Quiet(r, q) /\ q.step = "insert"
      BY <2>1, NewUserType, SignUpQuiet DEF Ops
    <2> QED
      BY <1>b, <2>1, <2>2
  <1>2. ASSUME NEW email \in Emails, NEW google \in Googles, OAuthRead(r, google, email)
        PROVE  Goal /\ Framed
    <2>1. CASE SignUp(r, "oauth", NewUser(email, google, "CUSTOMER"))
      <3>1. \E q \in RequestStates : Quiet(r, q) /\ q.step = "insert"
        BY <2>1, NewUserType, SignUpQuiet DEF Ops, Roles
      <3> QED
        BY <1>b, <2>1, <3>1
    <2>2. ASSUME NEW u \in Users, Exists(u), Begin(r, "oauth", "link", u, google, FALSE)
          PROVE  Goal /\ Framed
      <3>1. \E q \in RequestStates : Begun(r, q, "link")
        <4>1. Reads("link", u, google, FALSE)
          BY <2>2 DEF Reads
        <4> QED
          BY <2>2, <4>1, BeginQuiet DEF Ops
      <3> QED
        BY <1>a, <2>2, <3>1 DEF Begun
    <2>3. ASSUME NEW u \in Users, Enabled(u),
                 Begin(r, "oauth", "issue", u, SignsIn(None, None, users[u].password), FALSE)
          PROVE  Goal /\ Framed
      <3> DEFINE data == SignsIn(None, None, users[u].password)
      <3>1. Exists(u) /\ users[u].password \in 0..MaxPassword
        BY <2>3, RowType DEF Enabled
      <3>2. data \in Grounds /\ data.family = None /\ data.password = users[u].password
        BY <3>1, SignsInType
      <3> HIDE DEF data
      <3>3. \E q \in RequestStates : Begun(r, q, "issue")
        <4>1. Reads("issue", u, data, FALSE)
          BY <2>3, <3>1, <3>2 DEF Reads
        <4>2. Begin(r, "oauth", "issue", u, data, FALSE)
          BY <2>3 DEF data
        <4>3. \E q \in RequestStates : Begun(r, q, "issue")
          BY <4>1, <4>2, OpsNamed, BeginQuiet, Zenon
        <4> QED
          BY <4>3
      <3> QED
        BY <1>a, <2>3, <3>3 DEF Begun
    <2> QED
      BY <1>2, <2>1, <2>2, <2>3 DEF OAuthRead
  <1>3. ASSUME NEW t \in Tokens, RefreshRead(r, t)
        PROVE  Goal /\ Framed
    <2> DEFINE data == SignsIn(t, tokens[t].family, tokens[t].password)
               u == tokens[t].user
               late == tokens[t].late
    <2>1. Live(t) /\ Enabled(u) /\ Begin(r, "refresh", "rotate", u, data, late)
      BY <1>3 DEF RefreshRead
    <2>2. /\ u \in Users /\ late \in BOOLEAN /\ GoodToken(t) /\ Exists(u)
          /\ tokens[t].family \in Tokens
      BY <2>1, TokenType DEF Live, Enabled
    <2>3. /\ data \in Grounds /\ data.family = tokens[t].family /\ data.token = t
          /\ data.password = tokens[t].password
      BY <2>1, TokenType, SignsInType DEF Live
    <2>4. Reads("rotate", u, data, late)
      BY <2>1, <2>2, <2>3 DEF Reads, GoodToken, Live
    <2> HIDE DEF data, u, late
    <2>5. \E q \in RequestStates : Begun(r, q, "rotate")
      BY <2>1, <2>2, <2>4, OpsNamed, BeginQuiet, Zenon
    <2> QED
      BY <1>a, <2>1, <2>5 DEF Begun
  <1>4. ASSUME NEW x \in Links, ResetRead(r, x)
        PROVE  Goal /\ Framed
    <2> DEFINE u == links[x].user
    <2>1. Unused(x) /\ Enabled(u) /\ Begin(r, "reset", "reset", u, x, FALSE)
      BY <1>4 DEF ResetRead
    <2>2. links[x] # None /\ u \in Users /\ links[x].state # "used"
      BY <2>1, LinkType DEF Unused
    <2>3. Reads("reset", u, x, FALSE)
      BY <2>1, <2>2 DEF Reads, Enabled
    <2> HIDE DEF u
    <2>4. \E q \in RequestStates : Begun(r, q, "reset")
      BY <2>1, <2>2, <2>3, OpsNamed, BeginQuiet, Zenon
    <2> QED
      BY <1>a, <2>1, <2>4 DEF Begun
  <1>5. ASSUME NEW u \in Users, NEW password \in 0..MaxPassword, LoginRead(r, u, password)
        PROVE  Goal /\ Framed
    <2> DEFINE data == SignsIn(None, None, password)
    <2>1. /\ Enabled(u) /\ password = users[u].password
          /\ Begin(r, "login", "issue", u, data, FALSE)
      BY <1>5 DEF LoginRead
    <2>2. data \in Grounds /\ data.family = None /\ data.password = users[u].password
      BY <2>1, SignsInType
    <2> HIDE DEF data
    <2>3. Reads("issue", u, data, FALSE)
      BY <2>1, <2>2 DEF Reads, Enabled
    <2>4. \E q \in RequestStates : Begun(r, q, "issue")
      BY <2>1, <2>3, OpsNamed, BeginQuiet, Zenon
    <2> QED
      BY <1>a, <2>1, <2>4 DEF Begun
  <1>6. ASSUME NEW u \in Users, NEW role \in Roles, SwitchRead(r, u, role)
        PROVE  Goal /\ Framed
    <2> DEFINE data == [role |-> role, creates |-> users[u].profile = "none"]
    <2>1. Exists(u) /\ Begin(r, "switch", "switch", u, data, FALSE)
      BY <1>6 DEF SwitchRead, Admitted
    <2>2. data \in Switches
      BY DEF Switches
    <2> HIDE DEF data
    <2>3. Reads("switch", u, data, FALSE)
      BY <2>1, <2>2 DEF Reads
    <2>4. \E q \in RequestStates : Begun(r, q, "switch")
      BY <2>1, <2>3, BeginQuiet DEF Ops
    <2> QED
      BY <1>a, <2>1, <2>4 DEF Begun
  <1>7. ASSUME NEW u \in Users, ForgotRead(r, u)
        PROVE  Goal /\ Framed
    <2>1. Exists(u) /\ Begin(r, "forgot", "link mail", u, users[u].password, FALSE)
      BY <1>7 DEF ForgotRead, Enabled
    <2>2. users[u].password \in 0..MaxPassword /\ users[u].password >= users[u].resetTo
      BY <2>1, RowType
    <2>3. Reads("link mail", u, users[u].password, FALSE)
      BY <2>1, <2>2 DEF Reads
    <2>4. \E q \in RequestStates : Begun(r, q, "link mail")
      BY <2>1, <2>3, BeginQuiet DEF Ops
    <2> QED
      BY <1>a, <2>1, <2>4 DEF Begun
  <1>8. ASSUME NEW u \in Users,
               \/ ChangeRead(r, u) \/ DeleteRead(r, u) \/ DeactivateRead(r, u)
               \/ ActivateRead(r, u) \/ ValidateMiss(r, u)
        PROVE  Goal /\ Framed
    <2>1. PICK op \in Ops, step \in {"change", "delete", "deactivate", "activate", "lookup"} :
              Exists(u) /\ Begin(r, op, step, u, None, FALSE)
      BY <1>8 DEF ChangeRead, DeleteRead, DeactivateRead, ActivateRead, ValidateMiss,
                  Admitted, Ops
    <2>2. Reads(step, u, None, FALSE)
      BY <2>1 DEF Reads
    <2>3. \E q \in RequestStates : Begun(r, q, step)
      BY <2>1, <2>2, BeginQuiet
    <2> QED
      BY <1>a, <2>1, <2>3 DEF Begun
  <1> QED
    BY <1>1, <1>2, <1>3, <1>4, <1>5, <1>6, <1>7, <1>8 DEF Receive

-----------------------------------------------------------------------------
(* How the tables change under the requests in flight *)

\* Rows of tokens and links stay, and nothing that has ended is good again
TokensKept ==
    \A t \in Tokens : tokens[t] # None =>
        /\ tokens'[t] # None
        /\ tokens'[t].user = tokens[t].user
        /\ tokens'[t].family = tokens[t].family
        /\ tokens'[t].password = tokens[t].password
        /\ tokens'[t].late = tokens[t].late
        /\ tokens'[t].state = "live" => tokens[t].state = "live"

LinksKept ==
    \A x \in Links : links[x] # None =>
        /\ links'[x] # None
        /\ links'[x].user = links[x].user
        /\ links'[x].password = links[x].password
        /\ links'[x].late = links[x].late
        /\ links'[x].state = "unused" => links[x].state = "unused"

LinksNotUsed(u) ==
    \A x \in Links : links[x] # None /\ links[x].user = u /\ links[x].state # "used" =>
        links'[x].state # "used"

\* As far as signing in is concerned, a user is what it was
UserKept(u) ==
    \/ users'[u] = users[u]
    \/ /\ users[u] # None
       /\ users'[u] # None
       /\ users'[u].password = users[u].password
       /\ users'[u].resetTo = users[u].resetTo
       /\ Enabled(u) => Enabled(u)'

\* What is sound stays so while its user, the tokens and the links are kept
LEMMA SoundKept ==
    ASSUME NEW q \in RequestStates, Sound(q), q.user \in Users,
           TokensKept, LinksKept, UserKept(q.user), LinksNotUsed(q.user)
    PROVE  Sound(q)'
  <1>1. Exists(q.user)' = Exists(q.user)
    BY DEF UserKept, Exists
  <1>2. \A f : Root(f) => Root(f)'
    BY DEF Root, TokensKept
  <1>3. q.step \in {"rotate", "issue"} => Grounded(q)'
    <2> SUFFICES ASSUME Grounded(q)
                 PROVE  Grounded(q)'
      BY DEF Sound
    <2>1. Enabled(q.user) => Enabled(q.user)' /\ users'[q.user].password = users[q.user].password
      BY DEF UserKept, Enabled, Exists
    <2> QED
      BY <1>2, <2>1 DEF Grounded
  <1>4. q.step = "rotate" => Exchanges(q)'
    BY DEF Sound, Exchanges, TokensKept
  <1>5. q.step = "reset" => Presents(q)'
    <2> SUFFICES ASSUME q.step = "reset", Presents(q)
                 PROVE  Presents(q)'
      BY DEF Sound
    <2>1. q.data \in Links
      BY DEF RequestStates, PayloadFits
    <2> QED
      BY <2>1 DEF Presents, LinksKept, LinksNotUsed
  <1>6. q.step = "link mail" /\ ~q.late => q.data >= users'[q.user].resetTo
    BY DEF Sound, UserKept, Exists
  <1> QED
    BY <1>1, <1>3, <1>4, <1>5, <1>6 DEF Sound

\* A request that is overtaken rests on nothing that may have changed
LEMMA SoundOvertaken ==
    ASSUME NEW q \in RequestStates, Sound(q), q.user \in Users, q.step # "insert",
           NEW m, m = Overtaken(q),
           TokensKept, LinksKept, Exists(q.user)'
    PROVE  Sound(m)'
  <1>1. m.step = q.step /\ m.user = q.user /\ m.data = q.data /\ m.late
    BY DEF Overtaken, Moved
  <1>2. \A f : Root(f) => Root(f)'
    BY DEF Root, TokensKept
  <1>3. q.step \in {"rotate", "issue"} => Grounded(m)'
    BY <1>1, <1>2 DEF Sound, Grounded
  <1>4. q.step = "rotate" => Exchanges(m)'
    BY <1>1 DEF Sound, Exchanges, TokensKept
  <1>5. q.step = "reset" => Presents(m)'
    <2> SUFFICES ASSUME q.step = "reset", Presents(q)
                 PROVE  Presents(m)'
      BY DEF Sound
    <2>1. q.data \in Links
      BY DEF RequestStates, PayloadFits
    <2> QED
      BY <1>1, <2>1 DEF Presents, LinksKept
  <1> QED
    BY <1>1, <1>3, <1>4, <1>5 DEF Sound

\* An unused request slot is sound
LEMMA SoundIdle == Sound(Idle)'
  BY DEF Sound, Idle

\* The requests are sound after a step when each of them is
LEMMA SoundPrimed ==
    ASSUME \A p \in Requests : \A q : q = req'[p] => Sound(q)'
    PROVE  (\A p \in Requests : Sound(req[p]))'
  BY DEF Sound, Exchanges, Grounded, Presents, Root, Enabled, Exists

\* A step that takes one request on and gives no other its id
LEMMA OwnIdsKept ==
    ASSUME IInv, NEW r \in Requests, NEW m,
           \/ m = Idle
           \/ m.step # "insert" /\ (m.user = req[r].user \/ Exists(m.user))
           \/ m.step = "insert" /\ \A p \in Requests : req[p].user # m.user,
           \A p \in Requests \ {r} : /\ req'[p].user = req[p].user
                                     /\ req'[p].step = req[p].step,
           req'[r] = m
    PROVE  OwnIds'
  <1> SUFFICES ASSUME NEW p \in Requests, NEW q \in Requests, p # q,
                      req'[p].step = "insert"
               PROVE  req'[q].user # req'[p].user
    BY DEF OwnIds
  <1>1. \A k \in Requests : req[k].step = "insert" => req[k].user \in Users /\ ~Exists(req[k].user)
    BY RequestType DEF PayloadFits, IInv, RequestInv, Sound
  <1>2. CASE p # r /\ q # r
    BY <1>2 DEF IInv, RequestInv, OwnIds
  <1>3. CASE p = r
    BY <1>3 DEF Idle
  <1>4. CASE q = r
    <2>1. m = Idle => m.user = None
      BY DEF Idle
    <2> QED
      BY <1>1, <1>4, <2>1, AccountsAssumption DEF IInv, RequestInv, OwnIds
  <1> QED
    BY <1>2, <1>3, <1>4

\* A step that takes one request on and keeps what the others rest on
LEMMA RequestKept ==
    ASSUME IInv, NEW r \in Requests, NEW m, req' = [req EXCEPT ![r] = m], Sound(m)',
           \/ m = Idle
           \/ m.step # "insert" /\ (m.user = req[r].user \/ Exists(m.user))
           \/ m.step = "insert" /\ \A p \in Requests : req[p].user # m.user,
           TokensKept, LinksKept,
           \A p \in Requests \ {r} :
               req[p].step # "idle" => UserKept(req[p].user) /\ LinksNotUsed(req[p].user)
    PROVE  RequestInv'
  <1>1. req \in [Requests -> RequestStates]
    BY DEF IInv, TypeInv
  <1>2. req'[r] = m /\ \A p \in Requests \ {r} : req'[p] = req[p]
    BY <1>1
  <1>3. OwnIds'
    BY <1>2, OwnIdsKept
  <1>4. ASSUME NEW p \in Requests, NEW q, q = req'[p]
        PROVE  Sound(q)'
    <2>1. CASE p = r
      BY <1>2, <1>4, <2>1
    <2>2. CASE p # r /\ req[p].step = "idle"
      <3>1. q = Idle
        BY <1>2, <1>4, <2>2, RequestType DEF PayloadFits, IInv
      <3> QED
        BY <3>1, SoundIdle
    <2>3. CASE p # r /\ req[p].step # "idle"
      <3>1. q \in RequestStates /\ q.user \in Users /\ Sound(q)
        BY <1>1, <1>2, <1>4, <2>3, RequestType DEF PayloadFits, IInv, RequestInv
      <3> QED
        BY <1>2, <1>4, <2>3, <3>1, SoundKept
    <2> QED
      BY <2>1, <2>2, <2>3
  <1>5. (\A p \in Requests : Sound(req[p]))'
    BY <1>4, SoundPrimed
  <1> QED
    BY <1>3, <1>5 DEF RequestInv

\* Whoever stays as he is, or has had his sessions ended, has good tokens and links
SessionsEnded(u) ==
    \A t \in Tokens : tokens[t] # None /\ tokens[t].user = u => tokens'[t].state # "live"

LinksStand(u) ==
    \A x \in Links :
        /\ links[x] # None /\ links[x].user = u
        /\ links'[x].state = "unused" /\ ~links[x].late
        => links[x].password >= users'[u].resetTo

WholeRow(u) == users[u] # None => users[u].resetTo <= users[u].password /\ RoleFits(users[u])

\* The tables stay good when users are kept or their sessions ended, and new rows are good
LEMMA TableKept ==
    ASSUME IInv, TokensKept, LinksKept,
           \A u \in Users : WholeRow(u)',
           \A u \in Users : users[u] # None =>
               \/ UserKept(u)
               \/ users'[u] # None /\ SessionsEnded(u) /\ LinksStand(u),
           \A t \in Tokens : tokens[t] = None /\ tokens'[t] # None => GoodToken(t)',
           \A x \in Links : links[x] = None /\ links'[x] # None => GoodLink(x)'
    PROVE  TableInv'
  <1>1. ASSUME NEW t \in Tokens, tokens[t] # None
        PROVE  GoodToken(t)'
    <2>1. GoodToken(t) /\ tokens[t].user \in Users /\ users[tokens[t].user] # None
      BY <1>1, TokenType DEF GoodToken, Exists
    <2>2. Root(tokens[t].family)'
      BY <2>1 DEF GoodToken, Root, TokensKept
    <2>3. CASE UserKept(tokens[t].user)
      BY <1>1, <2>1, <2>2, <2>3 DEF GoodToken, UserKept, TokensKept, Live, Enabled, Exists
    <2>4. CASE users'[tokens[t].user] # None /\ SessionsEnded(tokens[t].user)
      BY <1>1, <2>1, <2>2, <2>4 DEF GoodToken, SessionsEnded, TokensKept, Live, Exists
    <2> QED
      BY <2>1, <2>3, <2>4
  <1>2. ASSUME NEW x \in Links, links[x] # None
        PROVE  GoodLink(x)'
    <2>1. GoodLink(x) /\ links[x].user \in Users /\ users[links[x].user] # None
      BY <1>2, LinkType DEF GoodLink, Exists
    <2>2. CASE UserKept(links[x].user)
      <3>1. users'[links[x].user] # None
            /\ users'[links[x].user].resetTo = users[links[x].user].resetTo
        BY <2>1, <2>2 DEF UserKept
      <3> QED
        BY <1>2, <2>1, <3>1 DEF GoodLink, LinksKept, Unused, Exists
    <2>3. CASE users'[links[x].user] # None /\ LinksStand(links[x].user)
      BY <1>2, <2>3 DEF GoodLink, LinksStand, LinksKept, Unused, Exists
    <2> QED
      BY <2>1, <2>2, <2>3
  <1>3. \A t \in Tokens : tokens'[t] # None => GoodToken(t)'
    BY <1>1
  <1>4. \A x \in Links : links'[x] # None => GoodLink(x)'
    BY <1>2
  <1> QED
    BY <1>3, <1>4 DEF TableInv, WholeRow, Exists

\* A step that writes none of the tables
LEMMA TablesUnchanged ==
    ASSUME IInv, UNCHANGED tables
    PROVE  /\ TokensKept /\ LinksKept
           /\ \A u : UserKept(u) /\ LinksNotUsed(u)
           /\ TableInv'
  <1>1. TokensKept /\ LinksKept /\ \A u : UserKept(u) /\ LinksNotUsed(u)
    BY DEF tables, TokensKept, LinksKept, UserKept, LinksNotUsed
  <1>2. TableInv'
    BY DEF tables, IInv, TableInv, GoodToken, GoodLink, Root, Live, Unused, Enabled, Exists,
           RoleFits
  <1> QED
    BY <1>1, <1>2

\* Requests are requests after a step that makes one of them another
LEMMA RequestsTyped ==
    ASSUME IInv, NEW r \in Requests, NEW m \in RequestStates, req' = [req EXCEPT ![r] = m]
    PROVE  req' \in [Requests -> RequestStates]
  BY DEF IInv, TypeInv

\* A step that only takes a request on, and may touch the cache
LEMMA QuietKeeps ==
    ASSUME IInv, NEW r \in Requests, NEW q \in RequestStates, Quiet(r, q),
           cache' \in [Users -> Views \cup {None}], outdated' \subseteq Users
    PROVE  IInv'
  <1>1. UNCHANGED tables /\ calls' = calls /\ req' = [req EXCEPT ![r] = q]
    BY DEF Quiet
  <1>2. TypeInv'
    BY <1>1, RequestsTyped DEF IInv, TypeInv, tables
  <1>3. Sound(q)'
    BY <1>1 DEF Quiet, tables, Sound, Exchanges, Grounded, Presents, Root, Enabled, Exists
  <1>4. \/ q = Idle
        \/ q.step # "insert" /\ Exists(q.user)
        \/ q.step = "insert" /\ \A p \in Requests : req[p].user # q.user
    BY DEF Quiet, Sound, RequestStates, PayloadFits
  <1>5. RequestInv'
    BY <1>1, <1>3, <1>4, TablesUnchanged, RequestKept
  <1> QED
    BY <1>1, <1>2, <1>5, TablesUnchanged DEF IInv

-----------------------------------------------------------------------------
(* The steps, one by one *)

\* A request that is answered
LEMMA AnswerKeeps ==
    ASSUME IInv, NEW r \in Requests, Answer(r), UNCHANGED <<tables, calls>>,
           cache' \in [Users -> Views \cup {None}], outdated' \subseteq Users
    PROVE  IInv'
  <1>1. Quiet(r, Idle)
    BY IdleType DEF Quiet, Answer, Idle
  <1> QED
    BY <1>1, IdleType, QuietKeeps

\* A sign-up that is inserted is signed in on its own, pristine row
LEMMA InsertUserKeeps ==
    ASSUME IInv, NEW r \in Requests, InsertUser(r)
    PROVE  IInv'
  <1>0. PICK u, row, m : /\ u = req[r].user /\ row = req[r].data
                         /\ m = Moved(req[r], "issue", SignsIn(None, None, 0), req[r].late)
    OBVIOUS
  <1>1. /\ req[r].step = "insert" /\ u \in Users /\ row \in UserRows
        /\ ~Exists(u) /\ Pristine(row) /\ req[r].op \in Ops /\ req[r].late \in BOOLEAN
    BY <1>0, RequestType DEF InsertUser, IInv, RequestInv, Sound, PayloadFits, RequestRecords
  <1>2. CASE Taken(u, row.email, row.google)
    BY <1>0, <1>2, AnswerKeeps DEF InsertUser, tables, IInv, TypeInv
  <1>3. CASE ~Taken(u, row.email, row.google)
    <2>1. /\ users' = [users EXCEPT ![u] = row]
          /\ GoTo(r, "issue", SignsIn(None, None, 0))
          /\ UNCHANGED <<tokens, links, cache, outdated, calls>>
      BY <1>0, <1>3 DEF InsertUser
    <2>2. /\ SignsIn(None, None, 0) \in Grounds
          /\ SignsIn(None, None, 0).family = None
          /\ SignsIn(None, None, 0).password = 0
      BY SignsInType, AccountsAssumption
    <2>3. req' = [req EXCEPT ![r] = m]
      BY <1>0, <2>1, GoToMoves DEF IInv
    <2>4. m \in RequestStates
      BY <1>0, <1>1, <2>2, RequestMade DEF Moved, Steps
    <2>5. users' \in [Users -> UserRows \cup {None}] /\ users'[u] = row /\ row # None
          /\ \A v \in Users \ {u} : users'[v] = users[v]
      BY <1>1, <2>1, AccountsAssumption DEF IInv, TypeInv
    <2>6. TypeInv'
      BY <2>1, <2>3, <2>4, <2>5, RequestsTyped DEF IInv, TypeInv
    <2>7. TokensKept /\ LinksKept /\ \A v : LinksNotUsed(v)
      BY <2>1 DEF TokensKept, LinksKept, LinksNotUsed
    <2>8. Sound(m)'
      <3>1. m.step = "issue" /\ m.user = u /\ m.data = SignsIn(None, None, 0)
        BY <1>0 DEF Moved
      <3>2. Enabled(u)' /\ users'[u].password = 0
        BY <1>1, <2>5 DEF Enabled, Exists, Pristine
      <3>3. Grounded(m)'
        BY <2>2, <3>1, <3>2 DEF Grounded
      <3> QED
        BY <3>1, <3>2, <3>3 DEF Sound, Enabled
    <2>9. \A v \in Users : users[v] # None => UserKept(v)
      BY <1>1, <2>5 DEF UserKept, Exists
    <2>10. \A p \in Requests \ {r} : req[p].step # "idle" => UserKept(req[p].user)
      <3> SUFFICES ASSUME NEW p \in Requests \ {r}, req[p].step # "idle"
                   PROVE  UserKept(req[p].user)
        OBVIOUS
      <3>1. req[p].user # u /\ req[p].user \in Users
        BY <1>0, <1>1, RequestType DEF IInv, RequestInv, OwnIds, PayloadFits
      <3> QED
        BY <2>5, <3>1 DEF UserKept
    <2>11. m.step # "insert" /\ m.user = req[r].user
      BY <1>0 DEF Moved
    <2>12. RequestInv'
      BY <2>3, <2>7, <2>8, <2>10, <2>11, RequestKept
    <2>13. \A v \in Users : WholeRow(v)'
      <3>1. WholeRow(u)'
        BY <1>1, <2>5 DEF WholeRow, Pristine, RoleFits
      <3>2. \A v \in Users \ {u} : WholeRow(v)'
        BY <2>5 DEF IInv, TableInv, WholeRow, RoleFits, Exists
      <3> QED
        BY <3>1, <3>2
    <2>14. TableInv'
      BY <2>1, <2>7, <2>9, <2>13, TableKept
    <2> QED
      BY <2>6, <2>12, <2>14 DEF IInv
  <1> QED
    BY <1>2, <1>3

\* The tables and the cache have their types
TablesTyped ==
    /\ users \in [Users -> UserRows \cup {None}]
    /\ tokens \in [Tokens -> TokenRows \cup {None}]
    /\ links \in [Links -> LinkRows \cup {None}]
    /\ cache \in [Users -> Views \cup {None}]
    /\ calls \in Mixes
    /\ outdated \subseteq Users

\* A step of one request that keeps every user
LEMMA MoveKeeps ==
    ASSUME IInv, NEW r \in Requests, NEW m \in RequestStates, req' = [req EXCEPT ![r] = m],
           Sound(m)',
           \/ m = Idle
           \/ m.step # "insert" /\ (m.user = req[r].user \/ Exists(m.user)),
           TablesTyped',
           TokensKept, LinksKept,
           \A u \in Users : UserKept(u) /\ LinksNotUsed(u) /\ WholeRow(u)',
           \A t \in Tokens : tokens[t] = None /\ tokens'[t] # None => GoodToken(t)',
           \A x \in Links : links[x] = None /\ links'[x] # None => GoodLink(x)'
    PROVE  IInv'
  <1>1. TypeInv'
    BY RequestsTyped DEF TypeInv, TablesTyped
  <1>2. \A p \in Requests : req[p].step # "idle" => req[p].user \in Users
    BY RequestType DEF IInv, PayloadFits
  <1>3. RequestInv'
    BY <1>2, RequestKept
  <1>4. TableInv'
    BY TableKept
  <1> QED
    BY <1>1, <1>3, <1>4 DEF IInv

\* The same with no request taken on
LEMMA TokensEndKeeps ==
    ASSUME IInv, UNCHANGED <<users, cache, req, calls, outdated>>,
           tokens' \in [Tokens -> TokenRows \cup {None}],
           links' \in [Links -> LinkRows \cup {None}],
           TokensKept, LinksKept, \A u \in Users : LinksNotUsed(u),
           \A t \in Tokens : tokens[t] = None => tokens'[t] = None,
           \A x \in Links : links[x] = None => links'[x] = None
    PROVE  IInv'
  <1>1. TypeInv'
    BY DEF IInv, TypeInv
  <1>2. \A u \in Users : UserKept(u) /\ WholeRow(u)'
    BY DEF UserKept, WholeRow, IInv, TableInv, RoleFits, Exists
  <1>3. OwnIds'
    BY DEF IInv, RequestInv, OwnIds
  <1>4. ASSUME NEW p \in Requests, NEW q, q = req'[p]
        PROVE  Sound(q)'
    <2>1. q \in RequestStates /\ Sound(q)
      BY <1>4 DEF IInv, TypeInv, RequestInv
    <2>2. CASE q = Idle
      BY <2>2, SoundIdle
    <2>3. CASE q # Idle
      <3>1. q.user \in Users
        BY <2>1, <2>3 DEF RequestStates, PayloadFits
      <3> QED
        BY <1>2, <2>1, <3>1, SoundKept
    <2> QED
      BY <2>2, <2>3
  <1>5. RequestInv'
    BY <1>3, <1>4, SoundPrimed DEF RequestInv
  <1>6. TableInv'
    BY <1>2, TableKept
  <1> QED
    BY <1>1, <1>5, <1>6 DEF IInv

\* Attaching a Google account signs an enabled user in
LEMMA LinkGoogleMoves ==
    ASSUME IInv, NEW r \in Requests, LinkGoogle(r), NEW u, u = req[r].user,
           ~Taken(u, None, req[r].data), Enabled(u), NEW m,
           m = [op |-> req[r].op, step |-> "issue", user |-> u,
                data |-> SignsIn(None, None, users[u].password), late |-> FALSE]
    PROVE  req' = [req EXCEPT ![r] = m]
  <1>1. req' = [req EXCEPT ![r] = [req[r] EXCEPT !.step = "issue", !.late = FALSE,
                                    !.data = SignsIn(None, None, users[u].password)]]
    BY DEF LinkGoogle
  <1>2. req[r] \in RequestRecords
    BY RequestType DEF IInv
  <1>3. PICK data, late : data = SignsIn(None, None, users[u].password) /\ late = FALSE
    OBVIOUS
  <1>4. PICK moved : moved = [req[r] EXCEPT !.step = "issue", !.late = late]
    OBVIOUS
  <1>5. moved = Moved(req[r], "issue", req[r].data, late)
    BY <1>2, <1>4, LateMoves, Zenon
  <1>6. [req[r] EXCEPT !.step = "issue", !.late = late, !.data = data] =
            [moved EXCEPT !.data = data]
    BY <1>4
  <1>7. [moved EXCEPT !.data = data] = Moved(req[r], "issue", data, late)
    BY <1>5 DEF Moved
  <1>8. Moved(req[r], "issue", data, late) = m
    BY <1>3 DEF Moved
  <1> QED
    BY <1>1, <1>3, <1>6, <1>7, <1>8, Zenon

\* Attaching a Google account leaves all that a sign-in rests on
LEMMA LinkGoogleKeeps ==
    ASSUME IInv, NEW r \in Requests, LinkGoogle(r)
    PROVE  IInv'
  <1>0. PICK u, g : u = req[r].user /\ g = req[r].data
    OBVIOUS
  <1>1. /\ req[r].step = "link" /\ u \in Users /\ g \in Googles /\ Exists(u)
        /\ req[r].op \in Ops /\ req[r].late \in BOOLEAN /\ req[r] \in RequestRecords
    BY <1>0, RequestType DEF LinkGoogle, IInv, RequestInv, Sound, PayloadFits, RequestRecords
  <1>2. CASE Taken(u, None, g)
    BY <1>0, <1>2, AnswerKeeps DEF LinkGoogle, tables, IInv, TypeInv
  <1>3. CASE ~Taken(u, None, g)
    <2>1. /\ users' = [users EXCEPT ![u].google = g]
          /\ UNCHANGED <<tokens, links, cache, outdated, calls>>
      BY <1>0, <1>3 DEF LinkGoogle
    <2>2. users[u] \in UserRows /\ users[u] # None
      BY <1>1, RowType DEF Exists
    <2>3. PICK row : row = [users[u] EXCEPT !.google = g]
      OBVIOUS
    <2>4. /\ row \in UserRows
          /\ row.password = users[u].password /\ row.resetTo = users[u].resetTo
          /\ row.active = users[u].active /\ row.deleted = users[u].deleted
          /\ row.role = users[u].role /\ row.profile = users[u].profile
      BY <1>1, <2>2, <2>3 DEF UserRows
    <2>5. users' = [users EXCEPT ![u] = row]
      BY <2>1, <2>3
    <2>6. /\ users' \in [Users -> UserRows \cup {None}]
          /\ users'[u] = row /\ \A v \in Users \ {u} : users'[v] = users[v]
          /\ row # None
      BY <1>1, <2>4, <2>5, AccountsAssumption DEF IInv, TypeInv
    <2>7. TablesTyped'
      BY <2>1, <2>6 DEF TablesTyped, IInv, TypeInv
    <2>8. TokensKept /\ LinksKept
      BY <2>1 DEF TokensKept, LinksKept
    <2>9. \A v \in Users : UserKept(v) /\ LinksNotUsed(v) /\ WholeRow(v)'
      <3>1. UserKept(u)
        BY <2>2, <2>4, <2>6 DEF UserKept, Enabled, Exists
      <3>2. \A v \in Users \ {u} : UserKept(v)
        BY <2>6 DEF UserKept
      <3>3. WholeRow(u)'
        BY <1>1, <2>4, <2>6 DEF WholeRow, IInv, TableInv, RoleFits
      <3>4. \A v \in Users \ {u} : WholeRow(v)'
        BY <2>6 DEF WholeRow, IInv, TableInv, RoleFits, Exists
      <3>5. \A v \in Users : LinksNotUsed(v)
        BY <2>1 DEF LinksNotUsed
      <3>6. \A v \in Users : WholeRow(v)'
        BY <3>3, <3>4
      <3> QED
        BY <3>1, <3>2, <3>5, <3>6
    <2>10. CASE Enabled(u)
      <3>1. PICK m : m = [op |-> req[r].op, step |-> "issue", user |-> u,
                          data |-> SignsIn(None, None, users[u].password), late |-> FALSE]
        OBVIOUS
      <3>3. req' = [req EXCEPT ![r] = m]
        BY <1>0, <1>3, <2>10, <3>1, LinkGoogleMoves
      <3>4. /\ m.data \in Grounds /\ m.data.family = None
            /\ m.data.password = users[u].password
        BY <1>1, <3>1, RowType, SignsInType
      <3>5. m \in RequestStates
        BY <1>1, <3>1, <3>4, RequestMade DEF Steps
      <3>6. Sound(m)'
        <4>1. Enabled(u)' /\ users'[u].password = users[u].password
          BY <2>4, <2>6, <2>10 DEF Enabled, Exists
        <4>2. Grounded(m)'
          BY <3>1, <3>4, <4>1 DEF Grounded
        <4> QED
          BY <3>1, <4>1, <4>2 DEF Sound, Enabled
      <3>7. m.step # "insert" /\ m.user = req[r].user
        BY <1>0, <3>1
      <3> QED
        BY <2>1, <2>7, <2>8, <2>9, <3>3, <3>5, <3>6, <3>7, MoveKeeps
    <2>11. CASE ~Enabled(u)
      <3>1. req' = [req EXCEPT ![r] = Idle]
        BY <1>0, <1>3, <2>11 DEF LinkGoogle, Answer
      <3>2. PICK m : m = Idle
        OBVIOUS
      <3> QED
        BY <2>1, <2>7, <2>8, <2>9, <3>1, <3>2, IdleType, SoundIdle, MoveKeeps
    <2> QED
      BY <2>10, <2>11
  <1> QED
    BY <1>2, <1>3

\* Fields of a token row that do not change when its state does
LEMMA TokenEnds ==
    ASSUME IInv, NEW t \in Tokens, tokens[t] # None, NEW state \in {"revoked", "expired"},
           tokens' = [tokens EXCEPT ![t].state = state]
    PROVE  /\ tokens' \in [Tokens -> TokenRows \cup {None}]
           /\ TokensKept
           /\ \A v \in Tokens \ {t} : tokens'[v] = tokens[v]
           /\ tokens'[t] # None /\ tokens'[t].state = state
  <1>1. tokens[t] \in TokenRows
    BY TokenType
  <1> DEFINE row == [tokens[t] EXCEPT !.state = state]
  <1>2. /\ row \in TokenRows /\ row.user = tokens[t].user /\ row.family = tokens[t].family
        /\ row.password = tokens[t].password /\ row.late = tokens[t].late
        /\ row.state = state
    BY <1>1 DEF TokenRows
  <1>3. tokens' = [tokens EXCEPT ![t] = row]
    OBVIOUS
  <1> HIDE DEF row
  <1>4. tokens' \in [Tokens -> TokenRows \cup {None}] /\ tokens'[t] = row
        /\ \A v \in Tokens \ {t} : tokens'[v] = tokens[v]
    BY <1>2, <1>3 DEF IInv, TypeInv
  <1>5. row # None
    BY <1>2, AccountsAssumption
  <1> QED
    BY <1>2, <1>4, <1>5 DEF TokensKept

\* The same of a reset link
LEMMA LinkEnds ==
    ASSUME IInv, NEW x \in Links, links[x] # None,
           links' = [links EXCEPT ![x].state = "expired"]
    PROVE  /\ links' \in [Links -> LinkRows \cup {None}]
           /\ LinksKept
           /\ \A y \in Links \ {x} : links'[y] = links[y]
           /\ links'[x] # None /\ links'[x].state = "expired"
  <1>1. links[x] \in LinkRows
    BY LinkType
  <1> DEFINE row == [links[x] EXCEPT !.state = "expired"]
  <1>2. /\ row \in LinkRows /\ row.user = links[x].user
        /\ row.password = links[x].password /\ row.late = links[x].late
        /\ row.state = "expired"
    BY <1>1 DEF LinkRows
  <1>3. links' = [links EXCEPT ![x] = row]
    OBVIOUS
  <1> HIDE DEF row
  <1>4. links' \in [Links -> LinkRows \cup {None}] /\ links'[x] = row
        /\ \A y \in Links \ {x} : links'[y] = links[y]
    BY <1>2, <1>3 DEF IInv, TypeInv
  <1>5. row # None
    BY <1>2, AccountsAssumption
  <1> QED
    BY <1>2, <1>4, <1>5 DEF LinksKept

\* Logging out and the passing of time only end tokens and links
LEMMA EndingsKeep ==
    ASSUME IInv,
           \/ \E t \in Tokens : Logout(t) \/ TokenExpires(t)
           \/ \E x \in Links : LinkExpires(x)
    PROVE  IInv'
  <1>1. ASSUME NEW t \in Tokens, Logout(t) \/ TokenExpires(t)
        PROVE  IInv'
    <2>1. PICK state \in {"revoked", "expired"} : tokens' = [tokens EXCEPT ![t].state = state]
      BY <1>1 DEF Logout, TokenExpires
    <2>2. tokens[t] # None /\ UNCHANGED <<users, links, cache, req, outdated, calls>>
      BY <1>1 DEF Logout, TokenExpires, Live
    <2>3. LinksKept /\ (\A u \in Users : LinksNotUsed(u))
          /\ links' \in [Links -> LinkRows \cup {None}]
      BY <2>2 DEF LinksKept, LinksNotUsed, IInv, TypeInv
    <2> QED
      BY <2>1, <2>2, <2>3, TokenEnds, TokensEndKeeps
  <1>2. ASSUME NEW x \in Links, LinkExpires(x)
        PROVE  IInv'
    <2>1. /\ links[x] # None /\ links' = [links EXCEPT ![x].state = "expired"]
          /\ UNCHANGED <<users, tokens, cache, req, outdated, calls>>
      BY <1>2 DEF LinkExpires, Unused
    <2>2. TokensKept /\ tokens' \in [Tokens -> TokenRows \cup {None}]
      BY <2>1 DEF TokensKept, IInv, TypeInv
    <2>3. \A u \in Users : LinksNotUsed(u)
      BY <2>1, LinkEnds DEF LinksNotUsed
    <2> QED
      BY <2>1, <2>2, <2>3, LinkEnds, TokensEndKeeps
  <1> QED
    BY <1>1, <1>2

\* What the exchange of a refresh token leaves: the token has ended, and what it
\* will be exchanged for is late unless the token was good
LEMMA RotateStep ==
    ASSUME IInv, NEW r \in Requests, Rotate(r)
    PROVE  \E t \in Tokens, m \in RequestStates :
               /\ t = req[r].data.token /\ tokens[t] # None /\ Sound(req[r])
               /\ req[r].step = "rotate" /\ req[r].user \in Users
               /\ tokens[t].family = req[r].data.family
               /\ m = Moved(req[r], "issue", req[r].data, req[r].late \/ ~Live(t))
               /\ req' = [req EXCEPT ![r] = m]
               /\ tokens' = [tokens EXCEPT ![t].state = "revoked"]
               /\ UNCHANGED <<users, links, cache, outdated, calls>>
  <1> DEFINE t == req[r].data.token
             late == req[r].late \/ ~Live(t)
             m == Moved(req[r], "issue", req[r].data, late)
  <1>1. /\ req[r].step = "rotate" /\ req[r].user \in Users /\ Sound(req[r])
        /\ req[r].op \in Ops /\ req[r] \in RequestRecords /\ req[r].data \in Grounds
    BY RequestType DEF Rotate, IInv, RequestInv, PayloadFits, RequestRecords
  <1>2. t \in Tokens /\ tokens[t] # None /\ tokens[t].family = req[r].data.family
    BY <1>1 DEF Sound, Exchanges
  <1>3. late \in BOOLEAN
    BY <1>1 DEF RequestRecords, Live
  <1> HIDE DEF late
  <1>4. m \in RequestStates
    BY <1>1, <1>3, RequestMade DEF Moved, Steps
  <1>5. req' = [req EXCEPT ![r] = [req[r] EXCEPT !.step = "issue", !.late = late]]
    BY <1>1, Zenon DEF Rotate, IInv, TypeInv, late
  <1>6. [req[r] EXCEPT !.step = "issue", !.late = late] = m
    BY <1>1, LateMoves, Zenon
  <1>7. req' = [req EXCEPT ![r] = m]
    BY <1>5, <1>6, Zenon
  <1>8. /\ tokens' = [tokens EXCEPT ![t].state = "revoked"]
        /\ UNCHANGED <<users, links, cache, outdated, calls>>
    BY DEF Rotate
  <1> QED
    BY <1>1, <1>2, <1>4, <1>7, <1>8 DEF late

\* An exchange keeps what the other requests and the tables rest on
LEMMA RotateKeepsAll ==
    ASSUME IInv, NEW r \in Requests, Rotate(r)
    PROVE  IInv'
  <1>1. PICK t \in Tokens, m \in RequestStates :
               /\ t = req[r].data.token /\ tokens[t] # None /\ Sound(req[r])
               /\ req[r].step = "rotate" /\ req[r].user \in Users
               /\ tokens[t].family = req[r].data.family
               /\ m = Moved(req[r], "issue", req[r].data, req[r].late \/ ~Live(t))
               /\ req' = [req EXCEPT ![r] = m]
               /\ tokens' = [tokens EXCEPT ![t].state = "revoked"]
               /\ UNCHANGED <<users, links, cache, outdated, calls>>
    BY RotateStep
  <1>2. /\ tokens' \in [Tokens -> TokenRows \cup {None}]
        /\ TokensKept
        /\ \A v \in Tokens \ {t} : tokens'[v] = tokens[v]
    BY <1>1, TokenEnds
  <1>3. TablesTyped'
    BY <1>1, <1>2 DEF TablesTyped, IInv, TypeInv
  <1>4. LinksKept /\ \A u \in Users : UserKept(u) /\ LinksNotUsed(u) /\ WholeRow(u)'
    BY <1>1 DEF LinksKept, LinksNotUsed, UserKept, WholeRow, IInv, TableInv, RoleFits, Exists
  <1>5. /\ m.step = "issue" /\ m.user = req[r].user /\ m.data = req[r].data
        /\ ~m.late => ~req[r].late
    BY <1>1 DEF Moved
  <1>6. Exists(m.user) /\ Grounded(m)
    BY <1>1, <1>5 DEF Sound, Grounded
  <1>7. Sound(m)
    BY <1>5, <1>6 DEF Sound
  <1>8. Sound(m)'
    BY <1>1, <1>2, <1>4, <1>5, <1>7, SoundKept
  <1>9. \A v \in Tokens : ~(tokens[v] = None /\ tokens'[v] # None)
    BY <1>1, <1>2
  <1>10. \A x \in Links : ~(links[x] = None /\ links'[x] # None)
    BY <1>1
  <1>11. m.step # "insert" /\ m.user = req[r].user
    BY <1>5
  <1> QED
    BY <1>1, <1>2, <1>3, <1>4, <1>8, <1>9, <1>10, <1>11, MoveKeeps
\* The token a sign-in or refresh issues
IssuedRow(q, t) ==
    [user |-> q.user, state |-> "live",
     family |-> IF q.data.family = None THEN t ELSE q.data.family,
     password |-> q.data.password, late |-> q.late]

\* What issuing a token does: one fresh row, in a session that has a root
LEMMA IssueStep ==
    ASSUME IInv, NEW r \in Requests, Issue(r)
    PROVE  \E t \in Tokens, row \in TokenRows :
               /\ tokens[t] = None /\ row = IssuedRow(req[r], t)
               /\ req[r].step = "issue" /\ req[r].data \in Grounds /\ Sound(req[r])
               /\ req[r].user \in Users /\ row # None
               /\ req' = [req EXCEPT ![r] = Idle]
               /\ tokens' = [tokens EXCEPT ![t] = row]
               /\ UNCHANGED <<users, links, cache, outdated, calls>>
  <1> DEFINE t == CHOOSE t \in FreshTokens : TRUE
             row == IssuedRow(req[r], t)
  <1>1. /\ req[r].step = "issue" /\ req[r].data \in Grounds /\ Sound(req[r])
        /\ req[r].user \in Users /\ req[r].late \in BOOLEAN
    BY RequestType DEF Issue, IInv, RequestInv, PayloadFits, RequestRecords
  <1>2. t \in FreshTokens
    BY DEF Issue
  <1>3. t \in Tokens /\ tokens[t] = None
    BY <1>2 DEF FreshTokens
  <1>4. /\ tokens' = [tokens EXCEPT ![t] = row]
        /\ req' = [req EXCEPT ![r] = Idle]
        /\ UNCHANGED <<users, links, cache, outdated, calls>>
    BY DEF Issue, IssuedRow, Answer
  <1> HIDE DEF t
  <1>5. row \in TokenRows
    <2> DEFINE family == IF req[r].data.family = None THEN t ELSE req[r].data.family
    <2>1. family \in Tokens /\ req[r].data.password \in 0..MaxPassword
      BY <1>1, <1>3 DEF Grounds
    <2> HIDE DEF family
    <2>2. row = [user |-> req[r].user, state |-> "live", family |-> family,
                 password |-> req[r].data.password, late |-> req[r].late]
      BY DEF IssuedRow, family
    <2> QED
      BY <1>1, <2>1, <2>2 DEF TokenRows
  <1>6. row # None
    BY <1>5, AccountsAssumption
  <1> QED
    BY <1>1, <1>3, <1>4, <1>5, <1>6

\* The token issued is as good as what the request rests on
LEMMA IssueKeeps ==
    ASSUME IInv, NEW r \in Requests, Issue(r)
    PROVE  IInv'
  <1>1. PICK t \in Tokens, row \in TokenRows :
               /\ tokens[t] = None /\ row = IssuedRow(req[r], t)
               /\ req[r].step = "issue" /\ req[r].data \in Grounds /\ Sound(req[r])
               /\ req[r].user \in Users /\ row # None
               /\ req' = [req EXCEPT ![r] = Idle]
               /\ tokens' = [tokens EXCEPT ![t] = row]
               /\ UNCHANGED <<users, links, cache, outdated, calls>>
    BY IssueStep
  <1>2. /\ tokens' \in [Tokens -> TokenRows \cup {None}] /\ tokens'[t] = row
        /\ \A v \in Tokens \ {t} : tokens'[v] = tokens[v]
    BY <1>1 DEF IInv, TypeInv
  <1>3. TokensKept /\ LinksKept
    BY <1>1, <1>2 DEF TokensKept, LinksKept
  <1>4. TablesTyped'
    BY <1>1, <1>2 DEF TablesTyped, IInv, TypeInv
  <1>5. \A u \in Users : UserKept(u) /\ LinksNotUsed(u) /\ WholeRow(u)'
    BY <1>1 DEF LinksNotUsed, UserKept, WholeRow, IInv, TableInv, RoleFits, Exists
  <1>6. /\ row.user = req[r].user /\ row.password = req[r].data.password
        /\ row.late = req[r].late
        /\ row.family = IF req[r].data.family = None THEN t ELSE req[r].data.family
    BY <1>1 DEF IssuedRow
  <1>7. Exists(req[r].user) /\ Grounded(req[r])
    BY <1>1 DEF Sound
  <1>8. Root(row.family)'
    <2>1. CASE req[r].data.family = None
      BY <1>1, <1>2, <1>6, <2>1 DEF Root
    <2>2. CASE req[r].data.family # None
      BY <1>3, <1>6, <1>7, <2>2 DEF Grounded, Root, TokensKept
    <2> QED
      BY <2>1, <2>2
  <1>9. GoodToken(t)'
    BY <1>1, <1>2, <1>6, <1>7, <1>8 DEF GoodToken, Grounded, Live, Enabled, Exists
  <1>10. \A v \in Tokens : tokens[v] = None /\ tokens'[v] # None => GoodToken(v)'
    BY <1>2, <1>9
  <1>11. \A x \in Links : ~(links[x] = None /\ links'[x] # None)
    BY <1>1
  <1> QED
    BY <1>1, <1>3, <1>4, <1>5, <1>10, <1>11, IdleType, SoundIdle, MoveKeeps

\* A reset link is as good as what the request that made it rests on
LEMMA CreateLinkKeeps ==
    ASSUME IInv, NEW r \in Requests, CreateLink(r)
    PROVE  IInv'
  <1>1. /\ req[r].step = "link mail" /\ req[r].data \in 0..MaxPassword /\ Sound(req[r])
        /\ req[r].user \in Users /\ req[r].late \in BOOLEAN
    BY RequestType DEF CreateLink, IInv, RequestInv, PayloadFits, RequestRecords
  <1>2. PICK x, row :
            /\ x \in Links /\ links[x] = None
            /\ row = [user |-> req[r].user, state |-> "unused",
                      password |-> req[r].data, late |-> req[r].late]
            /\ links' = [links EXCEPT ![x] = row]
            /\ req' = [req EXCEPT ![r] = Idle]
            /\ UNCHANGED <<users, tokens, cache, outdated, calls>>
    BY DEF CreateLink, Answer
  <1>3. row \in LinkRows /\ row # None
    <2>1. row \in LinkRows
      BY <1>1, <1>2 DEF LinkRows
    <2> QED
      BY <2>1, AccountsAssumption
  <1>4. /\ links' \in [Links -> LinkRows \cup {None}] /\ links'[x] = row
        /\ \A y \in Links \ {x} : links'[y] = links[y]
    BY <1>2, <1>3 DEF IInv, TypeInv
  <1>5. TokensKept /\ LinksKept
    BY <1>2, <1>4 DEF TokensKept, LinksKept
  <1>6. TablesTyped'
    BY <1>2, <1>4 DEF TablesTyped, IInv, TypeInv
  <1>7. \A u \in Users : UserKept(u) /\ LinksNotUsed(u) /\ WholeRow(u)'
    BY <1>2, <1>4 DEF LinksNotUsed, UserKept, WholeRow, IInv, TableInv, RoleFits, Exists
  <1>8. GoodLink(x)'
    BY <1>1, <1>2, <1>4 DEF GoodLink, Sound, Unused, Exists
  <1>9. \A y \in Links : links[y] = None /\ links'[y] # None => GoodLink(y)'
    BY <1>4, <1>8
  <1>10. \A v \in Tokens : ~(tokens[v] = None /\ tokens'[v] # None)
    BY <1>2
  <1> QED
    BY <1>2, <1>5, <1>6, <1>7, <1>9, <1>10, IdleType, SoundIdle, MoveKeeps

\* A request that has written its user's row, and will delete the cache entry
LEMMA Invalidates ==
    ASSUME IInv, NEW r \in Requests, req[r].step \notin {"idle", "insert"},
           NEW data \in Payloads, NEW u, u = req[r].user,
           NEW m, m = Moved(req[r], "invalidate", data, req[r].late)
    PROVE  /\ m \in RequestStates /\ m.user = u /\ m.step = "invalidate"
           /\ u \in Users /\ Exists(u)
           /\ Exists(u)' => Sound(m)'
  <1>1. /\ u \in Users /\ Exists(u) /\ req[r].op \in Ops /\ req[r].late \in BOOLEAN
    BY RequestType DEF IInv, RequestInv, Sound, PayloadFits, RequestRecords
  <1>2. m \in RequestStates
    BY <1>1, RequestMade DEF Moved, Steps
  <1>3. m.user = u /\ m.step = "invalidate"
    BY DEF Moved
  <1>4. Exists(u)' => Sound(m)'
    BY <1>3 DEF Sound
  <1> QED
    BY <1>1, <1>2, <1>3, <1>4
\* Rewriting what a sign-in does not rest on
LEMMA RewriteKeeps ==
    ASSUME IInv, NEW r \in Requests, req[r].step \notin {"idle", "insert"},
           NEW u, u = req[r].user, NEW row \in UserRows,
           row.password = users[u].password, row.resetTo = users[u].resetTo,
           users[u].active /\ ~users[u].deleted => row.active /\ ~row.deleted,
           RoleFits(row),
           users' = [users EXCEPT ![u] = row], GoTo(r, "invalidate", None),
           UNCHANGED <<tokens, links, cache, outdated, calls>>
    PROVE  IInv'
  <1>1. PICK m : m = Moved(req[r], "invalidate", None, req[r].late)
    OBVIOUS
  <1>2. None \in Payloads
    BY DEF Payloads
  <1>3. /\ m \in RequestStates /\ m.user = u /\ m.step = "invalidate"
        /\ u \in Users /\ Exists(u)
        /\ Exists(u)' => Sound(m)'
    BY <1>1, <1>2, Invalidates
  <1>4. req' = [req EXCEPT ![r] = m]
    BY <1>1, GoToMoves DEF IInv
  <1>5. row # None
    BY AccountsAssumption
  <1>6. /\ users' \in [Users -> UserRows \cup {None}] /\ users'[u] = row
        /\ \A v \in Users \ {u} : users'[v] = users[v]
    BY <1>3 DEF IInv, TypeInv
  <1>7. TablesTyped'
    BY <1>6 DEF TablesTyped, IInv, TypeInv
  <1>8. TokensKept /\ LinksKept /\ \A v : LinksNotUsed(v)
    BY DEF TokensKept, LinksKept, LinksNotUsed
  <1>9. UserKept(u)
    BY <1>3, <1>5, <1>6 DEF UserKept, Enabled, Exists
  <1>10. \A v \in Users \ {u} : UserKept(v)
    BY <1>6 DEF UserKept
  <1>11. WholeRow(u)'
    <2>1. users[u].resetTo <= users[u].password
      BY <1>3, RowType
    <2> QED
      BY <1>6, <2>1 DEF WholeRow, RoleFits
  <1>12. \A v \in Users \ {u} : WholeRow(v)'
    BY <1>6 DEF WholeRow, IInv, TableInv, RoleFits, Exists
  <1>13. \A v \in Users : UserKept(v) /\ LinksNotUsed(v) /\ WholeRow(v)'
    BY <1>8, <1>9, <1>10, <1>11, <1>12
  <1>14. Sound(m)'
    BY <1>3, <1>5, <1>6 DEF Exists
  <1>15. /\ m.step # "insert" /\ m.user = req[r].user
         /\ \A v \in Tokens : ~(tokens[v] = None /\ tokens'[v] # None)
         /\ \A x \in Links : ~(links[x] = None /\ links'[x] # None)
    BY <1>3
  <1> QED
    BY <1>3, <1>4, <1>7, <1>8, <1>13, <1>14, <1>15, MoveKeeps

\* Activation enables, and takes nothing from a request in flight
LEMMA ActivateKeeps ==
    ASSUME IInv, NEW r \in Requests, Activate(r)
    PROVE  IInv'
  <1>1. PICK u : u = req[r].user
    OBVIOUS
  <1>2. req[r].step = "activate" /\ u \in Users /\ Exists(u)
    BY <1>1, RequestType DEF Activate, IInv, RequestInv, Sound, PayloadFits
  <1>3. PICK row : row = [users[u] EXCEPT !.active = TRUE]
    OBVIOUS
  <1>4. users[u] \in UserRows /\ RoleFits(users[u])
    BY <1>2, RowType DEF IInv, TableInv
  <1>5. /\ row \in UserRows /\ row.active /\ row.deleted = users[u].deleted
        /\ row.password = users[u].password /\ row.resetTo = users[u].resetTo
        /\ row.role = users[u].role /\ row.profile = users[u].profile
    BY <1>3, <1>4 DEF UserRows
  <1>6. RoleFits(row)
    BY <1>4, <1>5 DEF RoleFits
  <1>7. users' = [users EXCEPT ![u] = row]
    BY <1>1, <1>3 DEF Activate
  <1>8. GoTo(r, "invalidate", None) /\ UNCHANGED <<tokens, links, cache, outdated, calls>>
    BY DEF Activate
  <1> QED
    BY <1>1, <1>2, <1>5, <1>6, <1>7, <1>8, RewriteKeeps

\* A role switch writes a role and the profile that fits it
LEMMA SwitchKeeps ==
    ASSUME IInv, NEW r \in Requests, Switch(r)
    PROVE  IInv'
  <1>1. PICK u, role, profile :
            /\ u = req[r].user /\ role = req[r].data.role
            /\ profile = IF role = "PROVIDER" THEN "open" ELSE "closed"
    OBVIOUS
  <1>2. req[r].step = "switch" /\ u \in Users /\ Exists(u) /\ role \in Roles
    BY <1>1, RequestType DEF Switch, IInv, RequestInv, Sound, PayloadFits, Switches
  <1>3. CASE req[r].data.creates /\ users[u].profile # "none"
    BY <1>1, <1>3, AnswerKeeps DEF Switch, tables, IInv, TypeInv
  <1>4. CASE ~(req[r].data.creates /\ users[u].profile # "none")
    <2>1. /\ users' = [users EXCEPT ![u].role = role, ![u].profile = profile]
          /\ GoTo(r, "invalidate", None)
          /\ UNCHANGED <<tokens, links, cache, outdated, calls>>
      BY <1>1, <1>4, Zenon DEF Switch
    <2>2. users' = [users EXCEPT ![u] = [users[u] EXCEPT !.role = role, !.profile = profile]]
      BY <1>2, <2>1, Zenon DEF IInv, TypeInv
    <2>3. PICK cast : cast = [users[u] EXCEPT !.role = role]
      OBVIOUS
    <2>4. PICK row : row = [cast EXCEPT !.profile = profile]
      OBVIOUS
    <2>5. row = [users[u] EXCEPT !.role = role, !.profile = profile]
      BY <2>3, <2>4
    <2>6. users[u] \in UserRows
      BY <1>2, RowType
    <2>7. /\ cast \in UserRows /\ cast.active = users[u].active
          /\ cast.deleted = users[u].deleted /\ cast.password = users[u].password
          /\ cast.resetTo = users[u].resetTo /\ cast.role = role
      BY <1>2, <2>3, <2>6 DEF UserRows
    <2>8. /\ row \in UserRows /\ row.active = cast.active
          /\ row.deleted = cast.deleted /\ row.password = cast.password
          /\ row.resetTo = cast.resetTo /\ row.role = cast.role /\ row.profile = profile
      BY <1>1, <2>4, <2>7 DEF UserRows
    <2>9. RoleFits(row)
      BY <1>1, <2>7, <2>8 DEF RoleFits
    <2>10. users' = [users EXCEPT ![u] = row]
      BY <2>2, <2>5, Zenon
    <2> QED
      <3>1. /\ row.password = users[u].password /\ row.resetTo = users[u].resetTo
            /\ users[u].active /\ ~users[u].deleted => row.active /\ ~row.deleted
            /\ row \in UserRows
        BY <2>7, <2>8
      <3>2. req[r].step \notin {"idle", "insert"} /\ u = req[r].user
        BY <1>1, <1>2
      <3> QED
        BY <2>1, <2>9, <2>10, <3>1, <3>2, RewriteKeeps
  <1> QED
    BY <1>3, <1>4

\* The steps that serve the cache
LEMMA CacheKeeps ==
    ASSUME IInv, NEW r \in Requests, Invalidate(r) \/ Lookup(r) \/ Fill(r) \/ Fail(r)
    PROVE  IInv'
  <1>1. \A u \in Users, view \in Views \cup {None} :
            [cache EXCEPT ![u] = view] \in [Users -> Views \cup {None}]
    BY DEF IInv, TypeInv
  <1>2. req[r].step # "idle" => req[r].user \in Users
    BY RequestType DEF IInv, PayloadFits
  <1>3. CASE Invalidate(r)
    <2>1. /\ Answer(r) /\ UNCHANGED <<tables, calls>>
          /\ cache' \in [Users -> Views \cup {None}] /\ outdated' \subseteq Users
      BY <1>1, <1>2, <1>3 DEF Invalidate, IInv, TypeInv
    <2> QED
      BY <2>1, AnswerKeeps
  <1>4. CASE Lookup(r)
    <2>1. PICK u : u = req[r].user
      OBVIOUS
    <2>2. /\ req[r].step = "lookup" /\ u \in Users /\ Exists(u) /\ req[r].op \in Ops
          /\ req[r].late \in BOOLEAN
      BY <1>4, <2>1, RequestType
      DEF Lookup, IInv, RequestInv, Sound, PayloadFits, RequestRecords
    <2>3. UNCHANGED <<tables, calls>> /\ cache' \in [Users -> Views \cup {None}]
          /\ outdated' \subseteq Users
      BY <1>4 DEF Lookup, IInv, TypeInv
    <2>4. CASE Enabled(u)
      <3>1. PICK m : m = Moved(req[r], "fill", View(u), req[r].late)
        OBVIOUS
      <3>2. req' = [req EXCEPT ![r] = m]
        BY <1>4, <2>1, <2>4, <3>1, GoToMoves DEF Lookup, IInv
      <3>3. View(u) \in Views
        BY <2>2, RowType DEF View, Views
      <3>4. m \in RequestStates
        BY <2>1, <2>2, <3>1, <3>3, RequestMade DEF Moved, Steps
      <3>5. m.step = "fill" /\ m.user = u
        BY <2>1, <3>1 DEF Moved
      <3>6. Sound(m)
        BY <2>2, <3>5 DEF Sound
      <3>7. Quiet(r, m)
        BY <2>3, <3>2, <3>4, <3>5, <3>6 DEF Quiet
      <3> QED
        BY <2>3, <3>4, <3>7, QuietKeeps
    <2>5. CASE ~Enabled(u)
      BY <1>4, <2>1, <2>3, <2>5, AnswerKeeps DEF Lookup
    <2> QED
      BY <2>4, <2>5
  <1>5. CASE Fill(r)
    <2>1. req[r].data \in Views /\ req[r].user \in Users
      BY <1>2, <1>5, RequestType DEF Fill, PayloadFits, IInv
    <2>2. /\ Answer(r) /\ UNCHANGED <<tables, calls>>
          /\ cache' = [cache EXCEPT ![req[r].user] = req[r].data]
          /\ outdated' \subseteq Users
      BY <1>5, <2>1 DEF Fill, IInv, TypeInv
    <2> QED
      BY <1>1, <2>1, <2>2, AnswerKeeps
  <1>6. CASE Fail(r)
    <2>1. /\ Answer(r) /\ UNCHANGED <<tables, calls>>
          /\ cache' \in [Users -> Views \cup {None}] /\ outdated' \subseteq Users
      BY <1>2, <1>6 DEF Fail, IInv, TypeInv
    <2> QED
      BY <2>1, AnswerKeeps
  <1> QED
    BY <1>3, <1>4, <1>5, <1>6

\* An entry that Redis drops
LEMMA CacheExpiresKeeps ==
    ASSUME IInv, NEW u \in Users, CacheExpires(u)
    PROVE  IInv'
  <1>1. /\ UNCHANGED <<users, tokens, links, req, calls>>
        /\ cache' \in [Users -> Views \cup {None}] /\ outdated' \subseteq Users
    BY DEF CacheExpires, tables, IInv, TypeInv
  <1>2. TypeInv'
    BY <1>1 DEF IInv, TypeInv
  <1>3. RequestInv'
    BY <1>1 DEF IInv, RequestInv, OwnIds, Sound, Exchanges, Grounded, Presents, Root,
                Enabled, Exists
  <1>4. TableInv'
    BY <1>1, TablesUnchanged DEF tables
  <1> QED
    BY <1>2, <1>3, <1>4 DEF IInv
\* What happens to the requests in flight when r writes the row of its user u
LEMMA Overtakes ==
    ASSUME IInv, NEW r \in Requests, NEW u, NEW row, u = req[r].user,
           req[r].step \notin {"idle", "insert"}, WriteUser(r, row)
    PROVE  /\ req' \in [Requests -> RequestStates]
           /\ req'[r] = Moved(req[r], "invalidate", req[r].data, req[r].late)
           /\ \A p \in Requests \ {r} :
                 /\ req[p].user = u => /\ req[p].step \notin {"idle", "insert"}
                                       /\ req'[p] = Overtaken(req[p])
                 /\ req[p].user # u => req'[p] = req[p]
           /\ u \in Users /\ Exists(u)
  <1>1. u \in Users /\ Exists(u)
    BY RequestType DEF IInv, RequestInv, Sound, PayloadFits
  <1>2. req' = [p \in Requests |->
               IF p = r THEN [req[p] EXCEPT !.step = "invalidate"]
               ELSE [req[p] EXCEPT !.late = @ \/ req[p].user = u]]
    BY DEF WriteUser
  <1>3. \A p \in Requests : req[p] \in RequestRecords /\ req[p] \in RequestStates
    BY RequestType DEF IInv, TypeInv
  <1>4. req'[r] = Moved(req[r], "invalidate", req[r].data, req[r].late)
    <2>1. req'[r] = [req[r] EXCEPT !.step = "invalidate"]
      BY <1>2
    <2> QED
      BY <1>3, <2>1, RequestMoves, Zenon
  <1>5. req'[r] \in RequestStates
    <2>1. req[r].data \in Payloads
      BY <1>3 DEF RequestRecords
    <2> QED
      BY <1>4, <2>1, Invalidates
  <1>6. ASSUME NEW p \in Requests \ {r}, req[p].user = u
        PROVE  /\ req[p].step \notin {"idle", "insert"}
               /\ req'[p] = Overtaken(req[p])
               /\ req'[p] \in RequestStates
    <2>1. PayloadFits(req[p]) /\ Sound(req[p])
      BY RequestType DEF IInv, RequestInv
    <2>2. req[p].step # "idle"
      <3>1. req[p].step = "idle" => req[p].user = None
        BY <2>1 DEF PayloadFits, Idle
      <3>2. u # None
        BY <1>1, AccountsAssumption
      <3> QED
        BY <1>6, <3>1, <3>2
    <2>3. req[p].step # "insert"
      BY <1>1, <1>6, <2>1 DEF Sound
    <2>4. PICK late : late = (req[p].late \/ req[p].user = u)
      OBVIOUS
    <2>5. req'[p] = [req[p] EXCEPT !.late = late]
      BY <1>2, <2>4
    <2>6. req'[p] = Moved(req[p], req[p].step, req[p].data, late)
      BY <1>3, <2>5, RequestMoves, Zenon
    <2>7. late = TRUE
      BY <1>6, <2>4
    <2>8. Overtaken(req[p]) \in RequestRecords
      BY <1>3 DEF Overtaken, Moved, RequestRecords
    <2>9. PayloadFits(Overtaken(req[p]))
      BY <2>1, <2>2 DEF PayloadFits, Overtaken, Moved, Idle
    <2> QED
      BY <2>2, <2>3, <2>6, <2>7, <2>8, <2>9 DEF RequestStates, Overtaken
  <1>7. ASSUME NEW p \in Requests \ {r}, req[p].user # u
        PROVE  req'[p] = req[p]
    <2>1. PICK late : late = (req[p].late \/ req[p].user = u)
      OBVIOUS
    <2>2. req'[p] = [req[p] EXCEPT !.late = late]
      BY <1>2, <2>1
    <2>3. late = req[p].late
      <3>1. req[p].late \in BOOLEAN
        BY <1>3 DEF RequestRecords
      <3> QED
        BY <1>7, <2>1, <3>1
    <2> QED
      BY <1>3, <2>2, <2>3 DEF RequestRecords
  <1>8. \A p \in Requests : req'[p] \in RequestStates
    BY <1>3, <1>5, <1>6, <1>7
  <1>9. req' \in [Requests -> RequestStates]
    BY <1>2, <1>8
  <1> QED
    BY <1>1, <1>4, <1>6, <1>7, <1>9

\* Revoking all that a user holds ends them and nothing else
LEMMA Revokes ==
    ASSUME IInv, NEW r \in Requests, NEW u, NEW row, u = req[r].user, WriteUser(r, row)
    PROVE  /\ tokens' \in [Tokens -> TokenRows \cup {None}]
           /\ TokensKept /\ SessionsEnded(u)
           /\ \A t \in Tokens : tokens[t] = None => tokens'[t] = None
           /\ \A t \in Tokens : tokens[t] # None /\ tokens[t].user # u => tokens'[t] = tokens[t]
  <1>1. tokens' = [t \in Tokens |->
               IF tokens[t] # None /\ tokens[t].user = u
               THEN [tokens[t] EXCEPT !.state = "revoked"]
               ELSE tokens[t]]
    BY DEF WriteUser
  <1>2. ASSUME NEW t \in Tokens, tokens[t] # None, tokens[t].user = u
        PROVE  /\ tokens'[t] \in TokenRows /\ tokens'[t] # None
               /\ tokens'[t].user = tokens[t].user /\ tokens'[t].family = tokens[t].family
               /\ tokens'[t].password = tokens[t].password
               /\ tokens'[t].late = tokens[t].late /\ tokens'[t].state = "revoked"
    <2>1. tokens'[t] = [tokens[t] EXCEPT !.state = "revoked"]
      BY <1>1, <1>2
    <2>2. tokens[t] \in TokenRows
      BY <1>2, TokenType
    <2>3. tokens'[t] \in TokenRows
      BY <2>1, <2>2 DEF TokenRows
    <2>4. /\ tokens'[t].user = tokens[t].user /\ tokens'[t].family = tokens[t].family
          /\ tokens'[t].password = tokens[t].password
          /\ tokens'[t].late = tokens[t].late /\ tokens'[t].state = "revoked"
      BY <2>1, <2>2 DEF TokenRows
    <2> QED
      BY <2>3, <2>4, AccountsAssumption
  <1>3. ASSUME NEW t \in Tokens, ~(tokens[t] # None /\ tokens[t].user = u)
        PROVE  tokens'[t] = tokens[t]
    BY <1>1, <1>3
  <1>4. tokens' \in [Tokens -> TokenRows \cup {None}]
    <2>1. \A t \in Tokens : tokens'[t] \in TokenRows \cup {None}
      BY <1>2, <1>3 DEF IInv, TypeInv
    <2> QED
      BY <1>1, <2>1
  <1>5. TokensKept
    BY <1>2, <1>3 DEF TokensKept
  <1>6. SessionsEnded(u)
    BY <1>2 DEF SessionsEnded
  <1> QED
    BY <1>3, <1>4, <1>5, <1>6

\* The transaction that rewrites a user and revokes the user's tokens
LEMMA WriteUserKeeps ==
    ASSUME IInv, NEW r \in Requests, req[r].step \notin {"idle", "insert"},
           NEW u, u = req[r].user, NEW row \in UserRows, WriteUser(r, row),
           row.resetTo <= row.password, RoleFits(row),
           links' \in [Links -> LinkRows \cup {None}], LinksKept, LinksStand(u),
           \A v \in Users \ {u} : LinksNotUsed(v),
           \A x \in Links : links[x] = None => links'[x] = None
    PROVE  IInv'
  <1>1. /\ req' \in [Requests -> RequestStates]
        /\ req'[r] = Moved(req[r], "invalidate", req[r].data, req[r].late)
        /\ \A p \in Requests \ {r} :
              /\ req[p].user = u => /\ req[p].step \notin {"idle", "insert"}
                                    /\ req'[p] = Overtaken(req[p])
              /\ req[p].user # u => req'[p] = req[p]
        /\ u \in Users /\ Exists(u)
    BY Overtakes
  <1>2. row # None
    BY AccountsAssumption
  <1>3. /\ users' \in [Users -> UserRows \cup {None}] /\ users'[u] = row
        /\ \A v \in Users \ {u} : users'[v] = users[v]
    BY <1>1 DEF WriteUser, IInv, TypeInv
  <1>4. /\ tokens' \in [Tokens -> TokenRows \cup {None}]
        /\ TokensKept /\ SessionsEnded(u)
        /\ \A t \in Tokens : tokens[t] = None => tokens'[t] = None
    BY Revokes
  <1>5. TypeInv'
    BY <1>1, <1>3, <1>4 DEF WriteUser, IInv, TypeInv
  <1>6. \A v \in Users \ {u} : UserKept(v)
    BY <1>3 DEF UserKept
  <1>7. OwnIds'
    <2>1. PICK m : m = req'[r]
      OBVIOUS
    <2>2. m.step # "insert" /\ m.user = req[r].user
      BY <1>1, <2>1 DEF Moved
    <2>3. \A p \in Requests \ {r} : req'[p].user = req[p].user /\ req'[p].step = req[p].step
      BY <1>1 DEF Moved, Overtaken
    <2> QED
      BY <2>1, <2>2, <2>3, OwnIdsKept
  <1>8. ASSUME NEW p \in Requests, NEW q, q = req'[p]
        PROVE  Sound(q)'
    <2>1. req[p] \in RequestStates /\ Sound(req[p]) /\ PayloadFits(req[p])
      BY RequestType DEF IInv, TypeInv, RequestInv
    <2>2. CASE p = r
      <3>1. req[r].data \in Payloads
        BY <2>1, <2>2 DEF RequestStates, RequestRecords
      <3>2. q = Moved(req[r], "invalidate", req[r].data, req[r].late)
        BY <1>1, <1>8, <2>2
      <3>3. Exists(u)'
        BY <1>2, <1>3 DEF Exists
      <3> QED
        BY <3>1, <3>2, <3>3, Invalidates
    <2>3. CASE p # r /\ req[p].user = u
      <3>1. PICK k : k = req[p]
        OBVIOUS
      <3>2. k \in RequestStates /\ Sound(k) /\ k.user = u /\ k.step # "insert"
        BY <1>1, <2>1, <2>3, <3>1
      <3>3. q = Overtaken(k)
        BY <1>1, <1>8, <2>3, <3>1
      <3>4. Exists(k.user)'
        BY <1>2, <1>3, <3>2 DEF Exists
      <3> QED
        BY <1>1, <1>4, <3>2, <3>3, <3>4, SoundOvertaken
    <2>4. CASE p # r /\ req[p].user # u /\ req[p].step = "idle"
      <3>1. q = Idle
        BY <1>1, <1>8, <2>1, <2>4 DEF PayloadFits
      <3> QED
        BY <3>1, SoundIdle
    <2>5. CASE p # r /\ req[p].user # u /\ req[p].step # "idle"
      <3>1. q = req[p] /\ q \in RequestStates /\ Sound(q) /\ q.user \in Users \ {u}
        BY <1>1, <1>8, <2>1, <2>5 DEF PayloadFits
      <3> QED
        BY <1>4, <1>6, <3>1, SoundKept
    <2> QED
      BY <2>2, <2>3, <2>4, <2>5
  <1>9. RequestInv'
    BY <1>7, <1>8, SoundPrimed DEF RequestInv
  <1>10. \A v \in Users : WholeRow(v)'
    <2>1. WholeRow(u)'
      BY <1>3 DEF WholeRow, RoleFits
    <2>2. \A v \in Users \ {u} : WholeRow(v)'
      BY <1>3 DEF IInv, TableInv, WholeRow, RoleFits, Exists
    <2> QED
      BY <2>1, <2>2
  <1>11. \A v \in Users : users[v] # None =>
            \/ UserKept(v)
            \/ users'[v] # None /\ SessionsEnded(v) /\ LinksStand(v)
    BY <1>2, <1>3, <1>4, <1>6
  <1>12. TableInv'
    BY <1>4, <1>10, <1>11, TableKept
  <1> QED
    BY <1>5, <1>9, <1>12 DEF IInv
\* A handler that leaves the links, and the last reset, as they are
LEMMA LinksLeft ==
    ASSUME IInv, NEW r \in Requests, req[r].step \notin {"idle", "insert"},
           NEW u, u = req[r].user, NEW row \in UserRows, WriteUser(r, row), links' = links,
           row.resetTo = users[u].resetTo, row.password >= users[u].password, RoleFits(row)
    PROVE  IInv'
  <1>1. u \in Users /\ Exists(u)
    BY RequestType DEF IInv, RequestInv, Sound, PayloadFits
  <1>2. row.resetTo <= row.password
    <2>1. /\ users[u].resetTo <= users[u].password /\ users[u].password \in 0..MaxPassword
          /\ users[u].resetTo \in 0..MaxPassword
      BY <1>1, RowType
    <2>2. row.password \in 0..MaxPassword
      BY DEF UserRows
    <2> QED
      BY <2>1, <2>2, AccountsAssumption
  <1>3. users'[u] = row
    BY <1>1 DEF WriteUser, IInv, TypeInv
  <1>4. LinksKept /\ links' \in [Links -> LinkRows \cup {None}]
    BY DEF LinksKept, IInv, TypeInv
  <1>5. LinksStand(u)
    BY <1>3, LinkType DEF LinksStand, GoodLink, Unused
  <1>6. \A v \in Users : LinksNotUsed(v)
    BY DEF LinksNotUsed
  <1>7. \A x \in Links : links[x] = None => links'[x] = None
    OBVIOUS
  <1> QED
    BY <1>2, <1>4, <1>5, <1>6, <1>7, WriteUserKeeps

\* A new password ends what was signed in with the old one
LEMMA ChangePasswordKeeps ==
    ASSUME IInv, NEW r \in Requests, ChangePassword(r)
    PROVE  IInv'
  <1>1. PICK u, row : u = req[r].user
                      /\ row = [users[u] EXCEPT !.password = NextPassword(u)]
    OBVIOUS
  <1>2. /\ req[r].step = "change" /\ NextPassword(u) <= MaxPassword
        /\ WriteUser(r, row) /\ links' = links
    BY <1>1 DEF ChangePassword
  <1>3. u \in Users /\ Exists(u)
    BY <1>1, <1>2, RequestType DEF IInv, RequestInv, Sound, PayloadFits
  <1>4. users[u] \in UserRows /\ RoleFits(users[u]) /\ users[u].password \in 0..MaxPassword
    BY <1>3, RowType DEF IInv, TableInv
  <1>5. NextPassword(u) \in 0..MaxPassword /\ NextPassword(u) >= users[u].password
    BY <1>2, <1>4, AccountsAssumption DEF NextPassword
  <1>6. /\ row \in UserRows /\ row.password = NextPassword(u)
        /\ row.resetTo = users[u].resetTo
        /\ row.role = users[u].role /\ row.profile = users[u].profile
    BY <1>1, <1>4, <1>5 DEF UserRows
  <1>7. RoleFits(row) /\ row.password >= users[u].password
    BY <1>4, <1>5, <1>6 DEF RoleFits
  <1> QED
    BY <1>1, <1>2, <1>6, <1>7, LinksLeft

\* An account that is deleted or deactivated keeps nothing that signs it in
LEMMA DisablingKeeps ==
    ASSUME IInv, NEW r \in Requests, DeleteAccount(r) \/ Deactivate(r)
    PROVE  IInv'
  <1>1. PICK u : u = req[r].user
    OBVIOUS
  <1>2. req[r].step \notin {"idle", "insert"} /\ links' = links
    BY DEF DeleteAccount, Deactivate
  <1>3. u \in Users /\ Exists(u)
    BY <1>1, <1>2, RequestType DEF IInv, RequestInv, Sound, PayloadFits
  <1>4. users[u] \in UserRows /\ RoleFits(users[u]) /\ users[u].password \in 0..MaxPassword
    BY <1>3, RowType DEF IInv, TableInv
  <1>5. PICK row \in UserRows :
            /\ WriteUser(r, row)
            /\ row.password = users[u].password /\ row.resetTo = users[u].resetTo
            /\ row.role = users[u].role /\ row.profile = users[u].profile
    <2>1. CASE Deactivate(r)
      <3>1. PICK row : row = [users[u] EXCEPT !.active = FALSE]
        OBVIOUS
      <3>2. WriteUser(r, row)
        BY <1>1, <2>1, <3>1 DEF Deactivate
      <3>3. /\ row \in UserRows
            /\ row.password = users[u].password /\ row.resetTo = users[u].resetTo
            /\ row.role = users[u].role /\ row.profile = users[u].profile
        BY <1>4, <3>1 DEF UserRows
      <3> QED
        BY <3>2, <3>3
    <2>2. CASE DeleteAccount(r)
      <3>1. PICK anon : anon = [users[u] EXCEPT !.email = None]
        OBVIOUS
      <3>2. PICK off : off = [anon EXCEPT !.active = FALSE]
        OBVIOUS
      <3>3. PICK row : row = [off EXCEPT !.deleted = TRUE]
        OBVIOUS
      <3>4. row = [users[u] EXCEPT !.email = None, !.active = FALSE, !.deleted = TRUE]
        BY <3>1, <3>2, <3>3
      <3>5. WriteUser(r, row)
        BY <1>1, <2>2, <3>4, Zenon DEF DeleteAccount
      <3>6. /\ anon \in UserRows
            /\ anon.password = users[u].password /\ anon.resetTo = users[u].resetTo
            /\ anon.role = users[u].role /\ anon.profile = users[u].profile
        BY <1>4, <3>1 DEF UserRows
      <3>7. /\ off \in UserRows
            /\ off.password = users[u].password /\ off.resetTo = users[u].resetTo
            /\ off.role = users[u].role /\ off.profile = users[u].profile
        BY <3>2, <3>6 DEF UserRows
      <3>8. /\ row \in UserRows
            /\ row.password = users[u].password /\ row.resetTo = users[u].resetTo
            /\ row.role = users[u].role /\ row.profile = users[u].profile
        BY <3>3, <3>7 DEF UserRows
      <3> QED
        BY <3>5, <3>8
    <2> QED
      BY <2>1, <2>2
  <1>6. RoleFits(row) /\ row.password >= users[u].password
    BY <1>4, <1>5 DEF RoleFits
  <1> QED
    BY <1>1, <1>2, <1>5, <1>6, LinksLeft

\* A reset uses up the link it was given and every other one of the user
LEMMA ResetPasswordKeeps ==
    ASSUME IInv, NEW r \in Requests, ResetPassword(r)
    PROVE  IInv'
  <1>1. PICK u, next : u = req[r].user /\ next = NextPassword(u)
    OBVIOUS
  <1>2. /\ req[r].step = "reset" /\ next <= MaxPassword
        /\ WriteUser(r, [users[u] EXCEPT !.password = next, !.resetTo = next])
        /\ links' = [x \in Links |->
               IF x = req[r].data \/ (Unused(x) /\ links[x].user = u)
               THEN [links[x] EXCEPT !.state = "used"]
               ELSE links[x]]
    BY <1>1, Zenon DEF ResetPassword
  <1>3. u \in Users /\ Exists(u) /\ Presents(req[r])
    BY <1>1, <1>2, RequestType DEF IInv, RequestInv, Sound, PayloadFits
  <1>4. users[u] \in UserRows /\ RoleFits(users[u]) /\ users[u].password \in 0..MaxPassword
    BY <1>3, RowType DEF IInv, TableInv
  <1>5. next \in 0..MaxPassword
    BY <1>1, <1>2, <1>4, AccountsAssumption DEF NextPassword
  <1>6. PICK renewed : renewed = [users[u] EXCEPT !.password = next]
    OBVIOUS
  <1>7. PICK row : row = [renewed EXCEPT !.resetTo = next]
    OBVIOUS
  <1>8. row = [users[u] EXCEPT !.password = next, !.resetTo = next]
    BY <1>6, <1>7
  <1>9. WriteUser(r, row)
    BY <1>2, <1>8, Zenon
  <1>10. /\ renewed \in UserRows /\ renewed.password = next
         /\ renewed.role = users[u].role /\ renewed.profile = users[u].profile
    BY <1>4, <1>5, <1>6 DEF UserRows
  <1>11. /\ row \in UserRows /\ row.password = next /\ row.resetTo = next
         /\ row.role = users[u].role /\ row.profile = users[u].profile
    BY <1>5, <1>7, <1>10 DEF UserRows
  <1>12. RoleFits(row) /\ row.resetTo <= row.password
    BY <1>4, <1>5, <1>11 DEF RoleFits
  <1>13. ASSUME NEW x \in Links, x = req[r].data \/ (Unused(x) /\ links[x].user = u)
         PROVE  /\ links[x] # None /\ links[x].user = u
                /\ links'[x] \in LinkRows /\ links'[x] # None
                /\ links'[x].user = u /\ links'[x].password = links[x].password
                /\ links'[x].late = links[x].late /\ links'[x].state = "used"
    <2>1. links[x] # None /\ links[x].user = u
      BY <1>1, <1>3, <1>13 DEF Presents, Unused
    <2>2. links'[x] = [links[x] EXCEPT !.state = "used"]
      BY <1>2, <1>13
    <2>3. links[x] \in LinkRows
      BY <2>1, LinkType
    <2>4. links'[x] \in LinkRows
      BY <2>2, <2>3 DEF LinkRows
    <2>5. /\ links'[x].user = u /\ links'[x].password = links[x].password
          /\ links'[x].late = links[x].late /\ links'[x].state = "used"
      BY <2>1, <2>2, <2>3 DEF LinkRows
    <2> QED
      BY <2>1, <2>4, <2>5, AccountsAssumption
  <1>14. ASSUME NEW x \in Links, ~(x = req[r].data \/ (Unused(x) /\ links[x].user = u))
         PROVE  links'[x] = links[x]
    BY <1>2, <1>14
  <1>15. links' \in [Links -> LinkRows \cup {None}]
    <2>1. \A x \in Links : links'[x] \in LinkRows \cup {None}
      BY <1>13, <1>14 DEF IInv, TypeInv
    <2> QED
      BY <1>2, <2>1
  <1>16. LinksKept
    BY <1>13, <1>14 DEF LinksKept
  <1>17. LinksStand(u)
    BY <1>13, <1>14 DEF LinksStand, Unused
  <1>18. \A v \in Users \ {u} : LinksNotUsed(v)
    BY <1>13, <1>14 DEF LinksNotUsed
  <1>19. \A x \in Links : links[x] = None => links'[x] = None
    BY <1>13, <1>14
  <1> QED
    BY <1>1, <1>2, <1>9, <1>11, <1>12, <1>15, <1>16, <1>17, <1>18, <1>19, WriteUserKeeps

-----------------------------------------------------------------------------
(* The invariant *)

\* Nothing is stored and nobody is served at first
LEMMA InitIInv == Init => IInv
  <1> SUFFICES ASSUME Init
               PROVE  IInv
    OBVIOUS
  <1>1. TypeInv
    BY IdleType DEF Init, TypeInv
  <1>2. RequestInv
    BY IdleType DEF Init, RequestInv, OwnIds, Idle
  <1>3. TableInv
    BY DEF Init, TableInv, Exists
  <1> QED
    BY <1>1, <1>2, <1>3 DEF IInv

\* The inductive invariant survives every step of every request, and of time
LEMMA StepIInv == IInv /\ [Next]_vars => IInv'
  <1> SUFFICES ASSUME IInv, [Next]_vars
               PROVE  IInv'
    OBVIOUS
  <1>1. ASSUME NEW r \in Requests, Receive(r)
        PROVE  IInv'
    <2>1. PICK q \in RequestStates : Quiet(r, q)
      BY <1>1, ReceiveQuiet
    <2>2. cache' \in [Users -> Views \cup {None}] /\ outdated' \subseteq Users
      BY <1>1, ReceiveQuiet DEF IInv, TypeInv
    <2> QED
      BY <2>1, <2>2, QuietKeeps
  <1>2. ASSUME NEW r \in Requests, Advance(r)
        PROVE  IInv'
    BY <1>2, InsertUserKeeps, LinkGoogleKeeps, RotateKeepsAll, IssueKeeps, CreateLinkKeeps,
       ChangePasswordKeeps, ResetPasswordKeeps, DisablingKeeps, ActivateKeeps, SwitchKeeps,
       CacheKeeps
    DEF Advance
  <1>3. ASSUME NEW r \in Requests, Fail(r)
        PROVE  IInv'
    BY <1>3, CacheKeeps
  <1>4. CASE \/ \E t \in Tokens : Logout(t) \/ TokenExpires(t)
             \/ \E x \in Links : LinkExpires(x)
    BY <1>4, EndingsKeep
  <1>5. CASE \E u \in Users : CacheExpires(u)
    BY <1>5, CacheExpiresKeeps
  <1>6. CASE UNCHANGED vars
    <2>1. TypeInv'
      BY <1>6 DEF vars, tables, IInv, TypeInv
    <2>2. RequestInv'
      BY <1>6 DEF vars, tables, IInv, RequestInv, OwnIds, Sound, Exchanges, Grounded,
                  Presents, Root, Enabled, Exists
    <2>3. TableInv'
      BY <1>6, TablesUnchanged DEF vars, tables
    <2> QED
      BY <2>1, <2>2, <2>3 DEF IInv
  <1> QED
    BY <1>1, <1>2, <1>3, <1>4, <1>5, <1>6 DEF Next

\* The inductive invariant holds in every reachable state
THEOREM IInvariant == Spec => []IInv
  BY InitIInv, StepIInv, PTL DEF Spec

\* Every variable has its type and every request what its next step needs: in
\* particular no request changes or signs in a user that was never stored
THEOREM Types == Spec => []TypeOK
  <1>1. ASSUME IInv
        PROVE  TypeOK
    <2>1. ASSUME NEW r \in Requests
          PROVE  /\ req[r].step = "insert" => req[r].data \in UserRows
                 /\ req[r].step \in {"rotate", "issue"} => req[r].data \in Grounds
                 /\ req[r].step = "fill" => req[r].data \in Views
                 /\ req[r] # Idle /\ req[r].step # "insert" => Exists(req[r].user)
      BY <1>1, RequestType DEF IInv, RequestInv, Sound, PayloadFits
    <2> QED
      BY <1>1, <2>1 DEF IInv, TypeInv, TypeOK
  <1> QED
    BY <1>1, IInvariant, PTL

\* A refresh token that its issuer saw the grounds of is good only while its account
\* is enabled and has the password the login was checked against
THEOREM AuthorizedTokens == Spec => []LiveTokensAreAuthorized
  <1>1. IInv => LiveTokensAreAuthorized
    BY DEF IInv, TableInv, GoodToken, LiveTokensAreAuthorized, Live
  <1> QED
    BY <1>1, IInvariant, PTL

\* An unused reset link is younger than the last reset of its user
THEOREM VoidLinks == Spec => []ResetVoidsLinks
  <1>1. IInv => ResetVoidsLinks
    BY DEF IInv, TableInv, GoodLink, ResetVoidsLinks, Unused
  <1> QED
    BY <1>1, IInvariant, PTL

\* A reset whose check still holds has never been committed before
THEOREM LinksWorkOnce == Spec => LinkWorksOnce
  <1>1. IInv /\ [Next]_vars =>
            [\A r \in Requests :
                ResetPassword(r) /\ ~req[r].late => links[req[r].data].state # "used"]_vars
    BY DEF IInv, RequestInv, Sound, Presents, ResetPassword
  <1> QED
    BY <1>1, IInvariant, PTL DEF Spec, LinkWorksOnce
-----------------------------------------------------------------------------
(* What a step may do to tokens and to the requests in flight *)

\* No token is added, and none that has ended is good again
TokensShrink == TokensKept /\ \A t \in Tokens : tokens[t] = None => tokens'[t] = None

\* The other requests stay at their steps
OthersGoOn(r) ==
    \A p \in Requests \ {r} :
        /\ req'[p].step = req[p].step
        /\ req'[p].user = req[p].user
        /\ req'[p].data = req[p].data
        /\ req[p].late => req'[p].late

\* The request is to issue a token, or to exchange one first
Pursues(r, f) == req[r].step \in {"rotate", "issue"} /\ req[r].data.family = f

\* No session gets a good token, or a request that will issue one, that had none
Gentle ==
    /\ TokensShrink
    /\ \A r \in Requests, f \in Tokens :
          /\ Carries(r, f)' => Carries(r, f)
          /\ Pursues(r, f)' => Pursues(r, f) \/ Continues(f)

\* A step that takes one request on is gentle when that request is
LEMMA GentleStep ==
    ASSUME NEW r \in Requests, TokensShrink, OthersGoOn(r),
           req'[r].step = "issue" => req'[r].data.family = None,
           req'[r].step = "rotate" => Continues(req'[r].data.family)
    PROVE  Gentle
  <1>1. None \notin Tokens
    BY AccountsAssumption
  <1>2. ASSUME NEW p \in Requests, NEW f \in Tokens
        PROVE  /\ Carries(p, f)' => Carries(p, f)
               /\ Pursues(p, f)' => Pursues(p, f) \/ Continues(f)
    <2>1. CASE p = r
      BY <1>1, <2>1 DEF Carries, Pursues
    <2>2. CASE p # r
      BY <2>2 DEF OthersGoOn, Carries, Pursues
    <2> QED
      BY <2>1, <2>2
  <1> QED
    BY <1>2 DEF Gentle

\* Replacing one request leaves the others as they are
LEMMA OthersStay ==
    ASSUME TypeInv, NEW r \in Requests, NEW m, req' = [req EXCEPT ![r] = m]
    PROVE  OthersGoOn(r) /\ req'[r] = m
  BY DEF TypeInv, OthersGoOn

\* Whoever rewrites a user goes on to the cache; the user's other requests are late
LEMMA WriteUserGentle ==
    ASSUME IInv, NEW r \in Requests, NEW row, WriteUser(r, row),
           req[r].step \notin {"idle", "insert"}
    PROVE  /\ Gentle /\ OthersGoOn(r)
           /\ req'[r].step = "invalidate" /\ req'[r].user = req[r].user
  <1>1. PICK u : u = req[r].user
    OBVIOUS
  <1>2. /\ req'[r] = Moved(req[r], "invalidate", req[r].data, req[r].late)
        /\ \A p \in Requests \ {r} :
              /\ req[p].user = u => req'[p] = Overtaken(req[p])
              /\ req[p].user # u => req'[p] = req[p]
    BY <1>1, Overtakes
  <1>3. OthersGoOn(r) /\ req'[r].step = "invalidate" /\ req'[r].user = req[r].user
    <2>1. ASSUME NEW p \in Requests \ {r}
          PROVE  /\ req'[p].step = req[p].step /\ req'[p].user = req[p].user
                 /\ req'[p].data = req[p].data /\ (req[p].late => req'[p].late)
      <3>1. CASE req[p].user = u
        <4>1. PICK q, k : q = req[p] /\ k = req'[p]
          OBVIOUS
        <4>2. k = Overtaken(q)
          BY <1>2, <3>1, <4>1
        <4>3. k.step = q.step /\ k.user = q.user /\ k.data = q.data /\ k.late
          BY <4>2 DEF Moved, Overtaken
        <4> QED
          BY <4>1, <4>3
      <3>2. CASE req[p].user # u
        BY <1>2, <3>2
      <3> QED
        BY <3>1, <3>2
    <2>2. req'[r].step = "invalidate" /\ req'[r].user = req[r].user
      BY <1>2 DEF Moved
    <2> QED
      BY <2>1, <2>2 DEF OthersGoOn
  <1>4. TokensShrink
    BY <1>1, Revokes DEF TokensShrink
  <1> QED
    BY <1>3, <1>4, GentleStep

\* Tokens that are left alone
LEMMA TokensLeft ==
    ASSUME tokens' = tokens
    PROVE  TokensShrink
  BY DEF TokensShrink, TokensKept

\* A request on its way to anything but a token
LEMMA AnswerGentle ==
    ASSUME IInv, NEW r \in Requests, tokens' = tokens, Answer(r)
    PROVE  Gentle /\ OthersGoOn(r) /\ req'[r] = Idle
  <1>1. OthersGoOn(r) /\ req'[r] = Idle
    BY OthersStay DEF Answer, IInv
  <1> QED
    BY <1>1, TokensLeft, GentleStep DEF Idle

\* The same of a request that goes on to another step
LEMMA GoToGentle ==
    ASSUME IInv, NEW r \in Requests, tokens' = tokens, NEW step, NEW data, GoTo(r, step, data),
           step # "rotate", step = "issue" => data.family = None
    PROVE  /\ Gentle /\ OthersGoOn(r)
           /\ req'[r].step = step /\ req'[r].user = req[r].user
  <1>1. req' = [req EXCEPT ![r] = Moved(req[r], step, data, req[r].late)]
    BY GoToMoves DEF IInv
  <1>2. OthersGoOn(r) /\ req'[r] = Moved(req[r], step, data, req[r].late)
    BY <1>1, OthersStay DEF IInv
  <1>3. req'[r].step = step /\ req'[r].data = data /\ req'[r].user = req[r].user
    BY <1>2 DEF Moved
  <1> QED
    BY <1>2, <1>3, TokensLeft, GentleStep

\* A sign-up or a linked account signs in to a session of its own
LEMMA SignInGentle ==
    ASSUME IInv, NEW r \in Requests, InsertUser(r) \/ LinkGoogle(r)
    PROVE  Gentle /\ OthersGoOn(r)
  <1>1. tokens' = tokens
    BY DEF InsertUser, LinkGoogle
  <1>2. CASE Answer(r)
    BY <1>1, <1>2, AnswerGentle
  <1>3. CASE InsertUser(r) /\ ~Answer(r)
    <2>1. GoTo(r, "issue", SignsIn(None, None, 0))
      BY <1>3 DEF InsertUser
    <2>2. SignsIn(None, None, 0).family = None
      BY SignsInType, AccountsAssumption
    <2> QED
      BY <1>1, <2>1, <2>2, GoToGentle
  <1>4. CASE LinkGoogle(r) /\ ~Answer(r)
    <2>1. PICK u : u = req[r].user
      OBVIOUS
    <2>2. req[r].step = "link" /\ Enabled(u) /\ ~Taken(u, None, req[r].data)
      BY <1>4, <2>1 DEF LinkGoogle
    <2>3. PICK m : m = [op |-> req[r].op, step |-> "issue", user |-> u,
                        data |-> SignsIn(None, None, users[u].password), late |-> FALSE]
      OBVIOUS
    <2>4. req' = [req EXCEPT ![r] = m]
      BY <1>4, <2>1, <2>2, <2>3, LinkGoogleMoves
    <2>5. m.step = "issue" /\ m.data.family = None
      BY <2>3 DEF SignsIn
    <2>6. OthersGoOn(r) /\ req'[r] = m
      BY <2>4, OthersStay DEF IInv
    <2> QED
      BY <1>1, <2>5, <2>6, TokensLeft, GentleStep
  <1> QED
    BY <1>2, <1>3, <1>4

\* The handlers that rewrite a user
Rewrites(r) ==
    \/ ChangePassword(r) \/ ResetPassword(r) \/ DeleteAccount(r) \/ Deactivate(r)
    \/ Activate(r) \/ Switch(r)

\* They issue no token, and have the cache entry to delete if they wrote anything
LEMMA RewritesGentle ==
    ASSUME IInv, NEW r \in Requests, Rewrites(r)
    PROVE  /\ Gentle /\ OthersGoOn(r)
           /\ \/ req'[r].step = "invalidate" /\ req'[r].user = req[r].user
              \/ users' = users
           /\ req[r].step # "invalidate"
  <1>1. CASE ChangePassword(r) \/ ResetPassword(r) \/ DeleteAccount(r) \/ Deactivate(r)
    <2>1. /\ \E row : WriteUser(r, row)
          /\ req[r].step \in {"change", "reset", "delete", "deactivate"}
      BY <1>1, Zenon DEF ChangePassword, ResetPassword, DeleteAccount, Deactivate
    <2> QED
      BY <2>1, WriteUserGentle
  <1>2. CASE Activate(r)
    <2>1. tokens' = tokens /\ GoTo(r, "invalidate", None) /\ req[r].step = "activate"
      BY <1>2 DEF Activate
    <2> QED
      BY <2>1, GoToGentle
  <1>3. CASE Switch(r)
    <2>1. /\ tokens' = tokens /\ req[r].step = "switch"
          /\ GoTo(r, "invalidate", None) \/ (Answer(r) /\ users' = users)
      BY <1>3 DEF Switch
    <2> QED
      BY <2>1, GoToGentle, AnswerGentle
  <1> QED
    BY <1>1, <1>2, <1>3 DEF Rewrites

\* Steps that neither issue a token nor exchange one
LEMMA StepKinds ==
    ASSUME IInv, [Next]_vars
    PROVE  \/ \E r \in Requests : Rotate(r) \/ Issue(r)
           \/ Gentle
  <1>1. ASSUME NEW r \in Requests, Receive(r)
        PROVE  Gentle
    <2>1. PICK q \in RequestStates :
              /\ Quiet(r, q)
              /\ q.step = "issue" => q.data.family = None
              /\ q.step = "rotate" => Continues(q.data.family)
      BY <1>1, ReceiveQuiet
    <2>2. OthersGoOn(r) /\ req'[r] = q /\ tokens' = tokens
      BY <2>1, OthersStay DEF Quiet, tables, IInv
    <2> QED
      BY <2>1, <2>2, TokensLeft, GentleStep
  <1>2. ASSUME NEW r \in Requests, CreateLink(r) \/ Invalidate(r) \/ Fill(r) \/ Fail(r)
        PROVE  Gentle
    <2>1. tokens' = tokens /\ Answer(r)
      BY <1>2 DEF CreateLink, Invalidate, Fill, Fail, tables
    <2> QED
      BY <2>1, AnswerGentle
  <1>3. ASSUME NEW r \in Requests, Lookup(r)
        PROVE  Gentle
    <2>1. /\ tokens' = tokens
          /\ Answer(r) \/ GoTo(r, "fill", View(req[r].user))
      BY <1>3 DEF Lookup, tables
    <2> QED
      BY <2>1, AnswerGentle, GoToGentle
  <1>4. CASE UNCHANGED <<tokens, req>>
    BY <1>4, TokensLeft DEF Gentle, Carries, Pursues
  <1>5. CASE \E t \in Tokens : Logout(t) \/ TokenExpires(t)
    <2>1. PICK t \in Tokens, state \in {"revoked", "expired"} :
              /\ tokens[t] # None /\ tokens' = [tokens EXCEPT ![t].state = state]
              /\ req' = req
      BY <1>5 DEF Logout, TokenExpires, Live
    <2>2. TokensShrink
      BY <2>1, TokenEnds DEF TokensShrink
    <2> QED
      BY <2>1, <2>2 DEF Gentle, Carries, Pursues
  <1>6. ASSUME NEW r \in Requests, Advance(r)
        PROVE  Rotate(r) \/ Issue(r) \/ Gentle
    BY <1>2, <1>3, <1>6, SignInGentle, RewritesGentle DEF Advance, Rewrites
  <1>7. (\E x \in Links : LinkExpires(x)) \/ (\E u \in Users : CacheExpires(u)) \/ UNCHANGED vars
            => UNCHANGED <<tokens, req>>
    BY DEF LinkExpires, CacheExpires, vars, tables
  <1> QED
    BY <1>1, <1>2, <1>4, <1>5, <1>6, <1>7 DEF Next
-----------------------------------------------------------------------------
(* Sessions have one holder *)

\* A gentle step gives a session no holder it did not have
LEMMA GentleHolders ==
    ASSUME HolderInv, Gentle
    PROVE  HolderInv'
  <1>1. \A t \in Tokens, f \in Tokens : Holds(t, f)' => Holds(t, f)
    BY DEF Gentle, TokensShrink, TokensKept, Holds, Live
  <1>2. \A r \in Requests, f \in Tokens : Carries(r, f)' => Carries(r, f)
    BY DEF Gentle
  <1> QED
    BY <1>1, <1>2 DEF HolderInv

\* The request that exchanges a good token takes its place
LEMMA RotateHolders ==
    ASSUME IInv, HolderInv, NEW r \in Requests, Rotate(r)
    PROVE  HolderInv'
  <1>1. PICK t \in Tokens, m \in RequestStates :
               /\ t = req[r].data.token /\ tokens[t] # None /\ Sound(req[r])
               /\ req[r].step = "rotate" /\ req[r].user \in Users
               /\ tokens[t].family = req[r].data.family
               /\ m = Moved(req[r], "issue", req[r].data, req[r].late \/ ~Live(t))
               /\ req' = [req EXCEPT ![r] = m]
               /\ tokens' = [tokens EXCEPT ![t].state = "revoked"]
               /\ UNCHANGED <<users, links, cache, outdated, calls>>
    BY RotateStep
  <1>2. /\ TokensKept
        /\ \A v \in Tokens \ {t} : tokens'[v] = tokens[v]
        /\ tokens'[t].state = "revoked"
    BY <1>1, TokenEnds
  <1>3. OthersGoOn(r) /\ req'[r] = m
    BY <1>1, OthersStay DEF IInv
  <1>4. m.step = "issue" /\ m.data = req[r].data /\ (~m.late => ~req[r].late /\ Live(t))
    BY <1>1 DEF Moved
  <1>5. ~m.late => ~tokens[t].late
    BY <1>1, <1>4 DEF Sound, Exchanges
  <1>6. ASSUME NEW f \in Tokens, Carries(r, f)'
        PROVE  Holds(t, f)
    BY <1>1, <1>3, <1>4, <1>5, <1>6 DEF Carries, Holds
  <1>7. \A v \in Tokens, f \in Tokens : Holds(v, f)' => v # t /\ Holds(v, f)
    BY <1>2 DEF Holds, Live
  <1>8. \A p \in Requests \ {r}, f \in Tokens : Carries(p, f)' => Carries(p, f)
    BY <1>3 DEF OthersGoOn, Carries
  <1>9. ASSUME NEW f \in Tokens
        PROVE  /\ \A v, w \in Tokens : Holds(v, f)' /\ Holds(w, f)' => v = w
               /\ \A p, q \in Requests : Carries(p, f)' /\ Carries(q, f)' => p = q
               /\ \A v \in Tokens, p \in Requests : ~(Holds(v, f)' /\ Carries(p, f)')
    BY <1>6, <1>7, <1>8 DEF HolderInv
  <1> QED
    BY <1>9 DEF HolderInv

\* The token that is issued takes the place of its request, or names a new session
LEMMA IssueHolders ==
    ASSUME IInv, HolderInv, NEW r \in Requests, Issue(r)
    PROVE  HolderInv'
  <1>1. PICK t \in Tokens, row \in TokenRows :
               /\ tokens[t] = None /\ row = IssuedRow(req[r], t)
               /\ req[r].step = "issue" /\ req[r].data \in Grounds /\ Sound(req[r])
               /\ req[r].user \in Users /\ row # None
               /\ req' = [req EXCEPT ![r] = Idle]
               /\ tokens' = [tokens EXCEPT ![t] = row]
               /\ UNCHANGED <<users, links, cache, outdated, calls>>
    BY IssueStep
  <1>2. tokens'[t] = row /\ \A v \in Tokens \ {t} : tokens'[v] = tokens[v]
    BY <1>1 DEF IInv, TypeInv
  <1>3. OthersGoOn(r) /\ req'[r] = Idle
    BY <1>1, OthersStay DEF IInv
  <1>4. /\ row.late = req[r].late
        /\ row.family = IF req[r].data.family = None THEN t ELSE req[r].data.family
    BY <1>1 DEF IssuedRow
  <1>5. ASSUME NEW f \in Tokens, Holds(t, f)'
        PROVE  Carries(r, f) \/ f = t
    BY <1>1, <1>2, <1>4, <1>5 DEF Carries, Holds
  <1>6. \A v \in Tokens \ {t}, f \in Tokens : Holds(v, f)' => Holds(v, f)
    BY <1>2 DEF Holds, Live
  <1>7. \A p \in Requests, f \in Tokens : Carries(p, f)' => p # r /\ Carries(p, f)
    BY <1>3 DEF OthersGoOn, Carries, Idle
  <1>8. \A v \in Tokens : ~Holds(v, t)
    BY <1>1, TokenType DEF Holds, Live, GoodToken, Root
  <1>9. \A p \in Requests : ~Carries(p, t)
    BY <1>1, AccountsAssumption DEF Carries, IInv, RequestInv, Sound, Grounded, Root
  <1>10. ASSUME NEW f \in Tokens
         PROVE  /\ \A v, w \in Tokens : Holds(v, f)' /\ Holds(w, f)' => v = w
                /\ \A p, q \in Requests : Carries(p, f)' /\ Carries(q, f)' => p = q
                /\ \A v \in Tokens, p \in Requests : ~(Holds(v, f)' /\ Carries(p, f)')
    BY <1>5, <1>6, <1>7, <1>8, <1>9 DEF HolderInv
  <1> QED
    BY <1>10 DEF HolderInv

\* A login session has one good refresh token at a time
THEOREM SessionsHaveOneToken == Spec => []OneTokenPerSession
  <1>1. Init => HolderInv
    BY DEF Init, HolderInv, Holds, Carries, Live, Idle
  <1>2. IInv /\ HolderInv /\ [Next]_vars => HolderInv'
    BY StepKinds, GentleHolders, RotateHolders, IssueHolders
  <1>3. IInv /\ HolderInv => OneTokenPerSession
    BY TokenType DEF HolderInv, OneTokenPerSession, Holds, Live
  <1> QED
    BY <1>1, <1>2, <1>3, IInvariant, PTL DEF Spec

-----------------------------------------------------------------------------
(* Sessions are implemented *)

\* A session that is resumable has been opened
LEMMA ResumableRoot ==
    ASSUME IInv, NEW f \in Tokens, Resumable(f)
    PROVE  Root(f)
  <1>1. ASSUME NEW t \in Tokens, Live(t), tokens[t].family = f
        PROVE  Root(f)
    BY <1>1, TokenType DEF Live, GoodToken
  <1>2. ASSUME NEW r \in Requests, req[r].step \in {"rotate", "issue"}, req[r].data.family = f
        PROVE  Root(f)
    BY <1>2, AccountsAssumption DEF IInv, RequestInv, Sound, Grounded
  <1> QED
    BY <1>1, <1>2 DEF Resumable

\* A step that resumes nothing and opens nothing can only end sessions
LEMMA EndsOnly ==
    ASSUME IInv, \A f \in Tokens : Resumable(f)' => Resumable(f),
           \A f \in Tokens : Root(f)' = Root(f)
    PROVE  S!SessionsNext
  <1> DEFINE ending == {f \in Tokens : Resumable(f) /\ ~Resumable(f)'}
  <1>1. \A f \in ending : Session(f) = "open"
    BY DEF Session
  <1>2. ASSUME NEW f \in Tokens
        PROVE  Session(f)' = IF f \in ending THEN "ended" ELSE Session(f)
    BY ResumableRoot DEF Session, Root
  <1>3. S!End(ending)
    BY <1>1, <1>2 DEF S!End
  <1> QED
    BY <1>3 DEF S!SessionsNext

\* Every step of the handlers opens a session, ends some, or leaves them
LEMMA StepSessions ==
    ASSUME IInv, [Next]_vars
    PROVE  S!SessionsNext
  <1>1. CASE Gentle
    <2>1. \A f \in Tokens : Resumable(f)' => Resumable(f)
      BY <1>1 DEF Gentle, TokensShrink, TokensKept, Pursues, Continues, Resumable, Live
    <2>2. \A f \in Tokens : Root(f)' = Root(f)
      BY <1>1 DEF Gentle, TokensShrink, TokensKept, Root
    <2> QED
      BY <2>1, <2>2, EndsOnly
  <1>2. ASSUME NEW r \in Requests, Rotate(r)
        PROVE  S!SessionsNext
    <2>1. PICK t \in Tokens, m \in RequestStates :
               /\ t = req[r].data.token /\ tokens[t] # None /\ Sound(req[r])
               /\ req[r].step = "rotate" /\ req[r].user \in Users
               /\ tokens[t].family = req[r].data.family
               /\ m = Moved(req[r], "issue", req[r].data, req[r].late \/ ~Live(t))
               /\ req' = [req EXCEPT ![r] = m]
               /\ tokens' = [tokens EXCEPT ![t].state = "revoked"]
               /\ UNCHANGED <<users, links, cache, outdated, calls>>
      BY <1>2, RotateStep
    <2>2. /\ TokensKept
          /\ \A v \in Tokens \ {t} : tokens'[v] = tokens[v]
          /\ tokens'[t] # None
      BY <2>1, TokenEnds
    <2>3. OthersGoOn(r) /\ req'[r] = m
      BY <2>1, OthersStay DEF IInv
    <2>4. m.step = "issue" /\ m.data = req[r].data
      BY <2>1 DEF Moved
    <2>5. \A f \in Tokens : Resumable(f)' => Resumable(f)
      <3>1. \A p \in Requests : req'[p].step \in {"rotate", "issue"} =>
                /\ req[p].step \in {"rotate", "issue"}
                /\ req'[p].data = req[p].data
        BY <2>1, <2>3, <2>4 DEF OthersGoOn
      <3>2. \A v \in Tokens : tokens'[v] # None /\ tokens'[v].state = "live" =>
                /\ Live(v) /\ tokens'[v].family = tokens[v].family
        BY <2>1, <2>2 DEF TokensKept, Live
      <3> QED
        BY <3>1, <3>2 DEF Resumable, Live
    <2>6. \A f \in Tokens : Root(f)' = Root(f)
      BY <2>1, <2>2 DEF TokensKept, Root
    <2> QED
      BY <2>5, <2>6, EndsOnly
  <1>3. ASSUME NEW r \in Requests, Issue(r)
        PROVE  S!SessionsNext
    <2>1. PICK t \in Tokens, row \in TokenRows :
               /\ tokens[t] = None /\ row = IssuedRow(req[r], t)
               /\ req[r].step = "issue" /\ req[r].data \in Grounds /\ Sound(req[r])
               /\ req[r].user \in Users /\ row # None
               /\ req' = [req EXCEPT ![r] = Idle]
               /\ tokens' = [tokens EXCEPT ![t] = row]
               /\ UNCHANGED <<users, links, cache, outdated, calls>>
      BY <1>3, IssueStep
    <2>2. tokens'[t] = row /\ \A v \in Tokens \ {t} : tokens'[v] = tokens[v]
      BY <2>1 DEF IInv, TypeInv
    <2>3. OthersGoOn(r) /\ req'[r] = Idle
      BY <2>1, OthersStay DEF IInv
    <2>4. /\ row.state = "live"
          /\ row.family = IF req[r].data.family = None THEN t ELSE req[r].data.family
      BY <2>1 DEF IssuedRow
    <2>5. \A f \in Tokens : Resumable(f)' => Resumable(f) \/ f = row.family
      <3>1. \A p \in Requests : req'[p].step \in {"rotate", "issue"} =>
                /\ req[p].step \in {"rotate", "issue"}
                /\ req'[p].data = req[p].data
        BY <2>3 DEF OthersGoOn, Idle
      <3> QED
        BY <2>2, <3>1 DEF Resumable, Live
    <2>6. CASE req[r].data.family # None
      <3>1. row.family = req[r].data.family /\ row.family \in Tokens
        BY <2>1, <2>4, <2>6 DEF Grounds
      <3>2. Resumable(row.family)
        BY <2>1, <3>1 DEF Resumable
      <3>3. row.family # t
        BY <2>1, <3>1, <3>2, ResumableRoot DEF Root
      <3>4. \A f \in Tokens : Root(f)' = Root(f)
        BY <2>1, <2>2, <3>3 DEF Root
      <3> QED
        BY <2>5, <3>2, <3>4, EndsOnly
    <2>7. CASE req[r].data.family = None
      <3>1. row.family = t
        BY <2>4, <2>7
      <3>2. Session(t) = "none"
        BY <2>1, ResumableRoot DEF Session, Root
      <3>3. Session(t)' = "open"
        BY <2>1, <2>2, <2>4, <3>1 DEF Session, Resumable, Live
      <3>4. ASSUME NEW f \in Tokens \ {t}
            PROVE  Session(f)' = Session(f)
        <4>1. Resumable(f)' => Resumable(f)
          BY <2>5, <3>1
        <4>2. Resumable(f) => Resumable(f)'
          <5>1. ASSUME NEW v \in Tokens, Live(v), tokens[v].family = f
                PROVE  Resumable(f)'
            BY <2>1, <2>2, <5>1 DEF Resumable, Live
          <5>2. ASSUME NEW p \in Requests, req[p].step \in {"rotate", "issue"},
                       req[p].data.family = f
                PROVE  Resumable(f)'
            <6>1. p # r
              BY <2>7, <5>2, AccountsAssumption
            <6> QED
              BY <2>3, <5>2, <6>1 DEF OthersGoOn, Resumable
          <5> QED
            BY <5>1, <5>2 DEF Resumable
        <4>3. Root(f)' = Root(f)
          BY <2>2 DEF Root
        <4> QED
          BY <4>1, <4>2, <4>3 DEF Session, Root
      <3>5. S!Open(t)
        BY <3>2, <3>3, <3>4 DEF S!Open
      <3> QED
        BY <3>5 DEF S!SessionsNext
    <2> QED
      BY <2>6, <2>7
  <1> QED
    BY <1>1, <1>2, <1>3, StepKinds

\* The handlers, cut wherever they wait, implement login sessions that are opened
\* once and never resumed
THEOREM SessionsImplemented == Spec => ImplementsSessions
  <1>1. Init => S!SessionsInit
    BY DEF Init, S!SessionsInit, Session, Resumable, Live, Idle
  <1>2. IInv /\ [Next]_vars => [S!SessionsNext]_([f \in Tokens |-> Session(f)])
    BY StepSessions
  <1> QED
    BY <1>1, <1>2, IInvariant, PTL DEF Spec, ImplementsSessions, S!SessionsSpec
-----------------------------------------------------------------------------
(* Accounts are whole *)

\* No account comes or goes, and an address or a Google account is at most given up
NamesKept ==
    \A u \in Users :
        /\ Exists(u)' = Exists(u)
        /\ Exists(u) => /\ users'[u].email \in {users[u].email, None}
                        /\ users'[u].google = users[u].google

\* Writing a row with the names of the one it replaces
LEMMA NamesOfRow ==
    ASSUME IInv, NEW u \in Users, Exists(u), NEW row, users' = [users EXCEPT ![u] = row],
           row # None, row.email \in {users[u].email, None}, row.google = users[u].google
    PROVE  NamesKept
  <1>1. users'[u] = row /\ \A v \in Users \ {u} : users'[v] = users[v]
    BY DEF IInv, TypeInv
  <1> QED
    BY <1>1 DEF NamesKept, Exists

\* The handlers that rewrite a user keep the names, or give the address up
LEMMA RewritesNames ==
    ASSUME IInv, NEW r \in Requests, Rewrites(r)
    PROVE  NamesKept
  <1>1. PICK u, next : u = req[r].user /\ next = NextPassword(u)
    OBVIOUS
  <1>2. req[r].step \notin {"idle", "insert"}
    BY DEF Rewrites, ChangePassword, ResetPassword, DeleteAccount, Deactivate, Activate, Switch
  <1>3. u \in Users /\ Exists(u)
    BY <1>1, <1>2, RequestType DEF IInv, RequestInv, Sound, PayloadFits
  <1>4. users[u] \in UserRows
    BY <1>3, RowType
  <1>5. \A k, row : /\ k \in UserRows /\ row \in UserRows
                    => k # None /\ row # None
    BY AccountsAssumption
  <1>6. CASE ChangePassword(r)
    <2>1. PICK row : row = [users[u] EXCEPT !.password = next]
      OBVIOUS
    <2>2. users' = [users EXCEPT ![u] = row] /\ next <= MaxPassword
      BY <1>1, <1>6, <2>1 DEF ChangePassword, WriteUser
    <2>3. next \in 0..MaxPassword
      BY <1>1, <1>3, <2>2, RowType, AccountsAssumption DEF NextPassword
    <2>4. row \in UserRows /\ row.email = users[u].email /\ row.google = users[u].google
      BY <1>4, <2>1, <2>3 DEF UserRows
    <2> QED
      BY <1>3, <1>5, <2>2, <2>4, NamesOfRow
  <1>7. CASE ResetPassword(r)
    <2>1. PICK renewed : renewed = [users[u] EXCEPT !.password = next]
      OBVIOUS
    <2>2. PICK row : row = [renewed EXCEPT !.resetTo = next]
      OBVIOUS
    <2>3. row = [users[u] EXCEPT !.password = next, !.resetTo = next]
      BY <2>1, <2>2
    <2>4. WriteUser(r, row) /\ next <= MaxPassword
      BY <1>1, <1>7, <2>3, Zenon DEF ResetPassword
    <2>5. users' = [users EXCEPT ![u] = row]
      BY <1>1, <2>4 DEF WriteUser
    <2>6. next \in 0..MaxPassword
      BY <1>1, <1>3, <2>4, RowType, AccountsAssumption DEF NextPassword
    <2>7. /\ renewed \in UserRows /\ renewed.email = users[u].email
          /\ renewed.google = users[u].google
      BY <1>4, <2>1, <2>6 DEF UserRows
    <2>8. row \in UserRows /\ row.email = renewed.email /\ row.google = renewed.google
      BY <2>2, <2>6, <2>7 DEF UserRows
    <2> QED
      BY <1>3, <1>5, <2>5, <2>7, <2>8, NamesOfRow
  <1>8. CASE DeleteAccount(r)
    <2>1. PICK anon : anon = [users[u] EXCEPT !.email = None]
      OBVIOUS
    <2>2. PICK off : off = [anon EXCEPT !.active = FALSE]
      OBVIOUS
    <2>3. PICK row : row = [off EXCEPT !.deleted = TRUE]
      OBVIOUS
    <2>4. row = [users[u] EXCEPT !.email = None, !.active = FALSE, !.deleted = TRUE]
      BY <2>1, <2>2, <2>3
    <2>5. WriteUser(r, row)
      BY <1>1, <1>8, <2>4, Zenon DEF DeleteAccount
    <2>6. users' = [users EXCEPT ![u] = row]
      BY <1>1, <2>5 DEF WriteUser
    <2>7. anon \in UserRows /\ anon.email = None /\ anon.google = users[u].google
      BY <1>4, <2>1 DEF UserRows
    <2>8. off \in UserRows /\ off.email = anon.email /\ off.google = anon.google
      BY <2>2, <2>7 DEF UserRows
    <2>9. row \in UserRows /\ row.email = off.email /\ row.google = off.google
      BY <2>3, <2>8 DEF UserRows
    <2> QED
      BY <1>3, <1>5, <2>6, <2>7, <2>8, <2>9, NamesOfRow
  <1>9. CASE Deactivate(r)
    <2>1. PICK row : row = [users[u] EXCEPT !.active = FALSE]
      OBVIOUS
    <2>2. users' = [users EXCEPT ![u] = row]
      BY <1>1, <1>9, <2>1 DEF Deactivate, WriteUser
    <2>3. row \in UserRows /\ row.email = users[u].email /\ row.google = users[u].google
      BY <1>4, <2>1 DEF UserRows
    <2> QED
      BY <1>3, <1>5, <2>2, <2>3, NamesOfRow
  <1>10. CASE Activate(r)
    <2>1. PICK row : row = [users[u] EXCEPT !.active = TRUE]
      OBVIOUS
    <2>2. users' = [users EXCEPT ![u] = row]
      BY <1>1, <1>10, <2>1 DEF Activate
    <2>3. row \in UserRows /\ row.email = users[u].email /\ row.google = users[u].google
      BY <1>4, <2>1 DEF UserRows
    <2> QED
      BY <1>3, <1>5, <2>2, <2>3, NamesOfRow
  <1>11. CASE Switch(r)
    <2>1. CASE users' = users
      BY <2>1 DEF NamesKept, Exists
    <2>2. CASE users' # users
      <3>1. PICK role, profile :
                /\ role = req[r].data.role
                /\ profile = IF role = "PROVIDER" THEN "open" ELSE "closed"
        OBVIOUS
      <3>2. role \in Roles
        BY <1>11, <3>1, RequestType DEF Switch, PayloadFits, Switches, IInv
      <3>3. users' = [users EXCEPT ![u].role = role, ![u].profile = profile]
        BY <1>1, <1>11, <2>2, <3>1, Zenon DEF Switch
      <3>4. users' = [users EXCEPT ![u] = [users[u] EXCEPT !.role = role,
                                                           !.profile = profile]]
        BY <1>3, <3>3, Zenon DEF IInv, TypeInv
      <3>5. PICK cast : cast = [users[u] EXCEPT !.role = role]
        OBVIOUS
      <3>6. PICK row : row = [cast EXCEPT !.profile = profile]
        OBVIOUS
      <3>7. row = [users[u] EXCEPT !.role = role, !.profile = profile]
        BY <3>5, <3>6
      <3>8. users' = [users EXCEPT ![u] = row]
        BY <3>4, <3>7, Zenon
      <3>9. /\ cast \in UserRows /\ cast.email = users[u].email
            /\ cast.google = users[u].google
        BY <1>4, <3>2, <3>5 DEF UserRows
      <3>10. row \in UserRows /\ row.email = cast.email /\ row.google = cast.google
        BY <3>1, <3>6, <3>9 DEF UserRows
      <3> QED
        BY <1>3, <1>5, <3>8, <3>9, <3>10, NamesOfRow
    <2> QED
      BY <2>1, <2>2
  <1> QED
    BY <1>6, <1>7, <1>8, <1>9, <1>10, <1>11 DEF Rewrites

\* Accounts that keep their names, or give them up, stay apart
LEMMA NamesKeptUnique ==
    ASSUME UniqueInv, NamesKept
    PROVE  UniqueInv'
  BY DEF UniqueInv, NamesKept, Taken

\* A row that is written with names nobody else has
LEMMA NewNamesUnique ==
    ASSUME IInv, UniqueInv, NEW u \in Users, NEW row, users' = [users EXCEPT ![u] = row],
           ~Taken(u, row.email, row.google)
    PROVE  UniqueInv'
  <1>1. users'[u] = row /\ \A v \in Users \ {u} : users'[v] = users[v]
    BY DEF IInv, TypeInv
  <1> QED
    BY <1>1 DEF UniqueInv, Taken, Exists

\* No step gives two accounts one address or one Google account
LEMMA StepUnique ==
    ASSUME IInv, UniqueInv, [Next]_vars
    PROVE  UniqueInv'
  <1>1. CASE UNCHANGED users
    BY <1>1, NamesKeptUnique DEF NamesKept, Exists
  <1>2. ASSUME NEW r \in Requests, Rewrites(r)
        PROVE  UniqueInv'
    BY <1>2, RewritesNames, NamesKeptUnique
  <1>3. ASSUME NEW r \in Requests, InsertUser(r)
        PROVE  UniqueInv'
    <2>1. PICK u, row : u = req[r].user /\ row = req[r].data
      OBVIOUS
    <2>2. u \in Users
      BY <1>3, <2>1, RequestType DEF InsertUser, PayloadFits, IInv
    <2>3. \/ UNCHANGED users
          \/ ~Taken(u, row.email, row.google) /\ users' = [users EXCEPT ![u] = row]
      BY <1>3, <2>1 DEF InsertUser
    <2> QED
      BY <1>1, <2>2, <2>3, NewNamesUnique
  <1>4. ASSUME NEW r \in Requests, LinkGoogle(r)
        PROVE  UniqueInv'
    <2>1. PICK u, g : u = req[r].user /\ g = req[r].data
      OBVIOUS
    <2>2. u \in Users /\ Exists(u) /\ g \in Googles
      BY <1>4, <2>1, RequestType DEF LinkGoogle, IInv, RequestInv, Sound, PayloadFits
    <2>3. \/ UNCHANGED users
          \/ ~Taken(u, None, g) /\ users' = [users EXCEPT ![u].google = g]
      BY <1>4, <2>1 DEF LinkGoogle
    <2>4. CASE ~Taken(u, None, g) /\ users' = [users EXCEPT ![u].google = g]
      <3>1. PICK row : row = [users[u] EXCEPT !.google = g]
        OBVIOUS
      <3>2. users[u] \in UserRows
        BY <2>2, RowType
      <3>3. row.email = users[u].email /\ row.google = g
        BY <3>1, <3>2 DEF UserRows
      <3>4. ~Taken(u, row.email, row.google)
        BY <2>2, <2>4, <3>3 DEF UniqueInv, Taken
      <3> QED
        BY <2>2, <2>4, <3>1, <3>4, NewNamesUnique
    <2> QED
      BY <1>1, <2>3, <2>4
  <1>5. ASSUME NEW r \in Requests, Receive(r)
        PROVE  UNCHANGED users
    BY <1>5, ReceiveQuiet DEF tables
  <1>6. ASSUME NEW r \in Requests, Advance(r)
        PROVE  InsertUser(r) \/ LinkGoogle(r) \/ Rewrites(r) \/ UNCHANGED users
    BY <1>6 DEF Advance, Rewrites, Rotate, Issue, CreateLink, Invalidate, Lookup, Fill, tables
  <1>7. (\E r \in Requests : Fail(r)) \/ (\E t \in Tokens : Logout(t) \/ TokenExpires(t))
        \/ (\E x \in Links : LinkExpires(x)) \/ (\E u \in Users : CacheExpires(u))
        \/ UNCHANGED vars
            => UNCHANGED users
    BY DEF Fail, Logout, TokenExpires, LinkExpires, CacheExpires, vars, tables
  <1> QED
    BY <1>1, <1>2, <1>3, <1>4, <1>5, <1>6, <1>7 DEF Next

\* No two accounts share an address or a Google account, and roles fit profiles
THEOREM WholeAccounts == Spec => []AccountsAreWhole
  <1>1. Init => UniqueInv
    BY DEF Init, UniqueInv, Exists
  <1>2. IInv /\ UniqueInv /\ [Next]_vars => UniqueInv'
    BY StepUnique
  <1>3. IInv /\ UniqueInv => AccountsAreWhole
    BY DEF IInv, TableInv, RoleFits, UniqueInv, AccountsAreWhole
  <1> QED
    BY <1>1, <1>2, <1>3, IInvariant, PTL DEF Spec

-----------------------------------------------------------------------------
(* The user cache *)

\* Handlers that have yet to delete an entry keep on having to
Deleting(u) == \E r \in Requests : req[r].step = "invalidate" /\ req[r].user = u

\* A step that leaves the cache alone, and says so wherever it outdates an entry
LEMMA CacheLeft ==
    ASSUME CachedUserIsCurrent, UNCHANGED <<cache, outdated>>,
           \A u \in Users : Deleting(u) => Deleting(u)',
           \A u \in Users : Deleting(u)' \/ (\A view : Agrees(u, view) => Agrees(u, view)')
    PROVE  CachedUserIsCurrent'
  BY DEF CachedUserIsCurrent, Deleting, Agrees, Enabled, Exists, View

\* Requests at another step do not come in the way
LEMMA DeletingKept ==
    ASSUME NEW r \in Requests, OthersGoOn(r), NEW u, req[r].step # "invalidate" \/ req[r].user # u
    PROVE  Deleting(u) => Deleting(u)'
  BY DEF OthersGoOn, Deleting
\* What a cache entry is compared with is the account's own row
LEMMA AgreesKept ==
    ASSUME NEW u \in Users,
           \/ users'[u] = users[u]
           \/ users[u] = None
           \/ /\ users'[u] # None
              /\ users'[u].active = users[u].active /\ users'[u].deleted = users[u].deleted
              /\ users'[u].role = users[u].role /\ users'[u].profile = users[u].profile
    PROVE  \A view : Agrees(u, view) => Agrees(u, view)'
  BY DEF Agrees, Enabled, Exists, View

\* Steps that write neither a user nor the cache
LEMMA UsersLeft ==
    ASSUME CachedUserIsCurrent, UNCHANGED <<users, cache, outdated>>,
           \A u \in Users : Deleting(u) => Deleting(u)'
    PROVE  CachedUserIsCurrent'
  BY AgreesKept, CacheLeft

\* A step of a request on the tables
LEMMA TablesCached ==
    ASSUME IInv, CachedUserIsCurrent, NEW r \in Requests,
           \/ InsertUser(r) \/ LinkGoogle(r) \/ Rotate(r) \/ Issue(r) \/ CreateLink(r)
           \/ Lookup(r)
    PROVE  CachedUserIsCurrent'
  <1>1. UNCHANGED <<cache, outdated>> /\ req[r].step # "invalidate"
    BY DEF InsertUser, LinkGoogle, Rotate, Issue, CreateLink, Lookup
  <1>2. OthersGoOn(r)
    <2>1. CASE InsertUser(r) \/ LinkGoogle(r)
      BY <2>1, SignInGentle
    <2>2. CASE Rotate(r)
      <3>1. \E m : req' = [req EXCEPT ![r] = m]
        BY <2>2, RotateStep
      <3> QED
        BY <3>1, OthersStay DEF IInv
    <2>3. CASE Issue(r) \/ CreateLink(r)
      <3>1. \E m : req' = [req EXCEPT ![r] = m]
        BY <2>3 DEF Issue, CreateLink, Answer
      <3> QED
        BY <3>1, OthersStay DEF IInv
    <2>4. CASE Lookup(r)
      <3>1. tokens' = tokens /\ (Answer(r) \/ GoTo(r, "fill", View(req[r].user)))
        BY <2>4 DEF Lookup, tables
      <3> QED
        BY <3>1, AnswerGentle, GoToGentle
    <2> QED
      BY <2>1, <2>2, <2>3, <2>4
  <1>3. \A u \in Users : Deleting(u) => Deleting(u)'
    BY <1>1, <1>2, DeletingKept
  <1>4. CASE UNCHANGED users
    BY <1>1, <1>3, <1>4, UsersLeft
  <1>5. CASE InsertUser(r) /\ ~UNCHANGED users
    <2>1. PICK u, row : u = req[r].user /\ row = req[r].data
      OBVIOUS
    <2>2. ~Exists(u) /\ users' = [users EXCEPT ![u] = row]
      BY <1>5, <2>1 DEF InsertUser, IInv, RequestInv, Sound
    <2>3. \A v \in Users : users'[v] = users[v] \/ users[v] = None
      BY <2>2 DEF IInv, TypeInv, Exists
    <2>4. \A v \in Users : \A view : Agrees(v, view) => Agrees(v, view)'
      BY <2>3, AgreesKept
    <2> QED
      BY <1>1, <1>3, <2>4, CacheLeft
  <1>6. CASE LinkGoogle(r) /\ ~UNCHANGED users
    <2>1. PICK u, g : u = req[r].user /\ g = req[r].data
      OBVIOUS
    <2>2. u \in Users /\ Exists(u) /\ g \in Googles
      BY <1>6, <2>1, RequestType DEF LinkGoogle, IInv, RequestInv, Sound, PayloadFits
    <2>3. users' = [users EXCEPT ![u].google = g]
      BY <1>6, <2>1 DEF LinkGoogle
    <2>4. PICK row : row = [users[u] EXCEPT !.google = g]
      OBVIOUS
    <2>5. users[u] \in UserRows
      BY <2>2, RowType
    <2>6. /\ row \in UserRows
          /\ row.active = users[u].active /\ row.deleted = users[u].deleted
          /\ row.role = users[u].role /\ row.profile = users[u].profile
      BY <2>2, <2>4, <2>5 DEF UserRows
    <2>7. users'[u] = row /\ \A v \in Users \ {u} : users'[v] = users[v]
      BY <2>2, <2>3, <2>4 DEF IInv, TypeInv
    <2>8. row # None
      BY <2>6, AccountsAssumption
    <2>9. ASSUME NEW v \in Users
          PROVE  \A view : Agrees(v, view) => Agrees(v, view)'
      <3>1. CASE v = u
        BY <2>6, <2>7, <2>8, <3>1, AgreesKept
      <3>2. CASE v # u
        BY <2>7, <3>2, AgreesKept
      <3> QED
        BY <3>1, <3>2
    <2> QED
      BY <1>1, <1>3, <2>9, CacheLeft
  <1>7. Rotate(r) \/ Issue(r) \/ CreateLink(r) \/ Lookup(r) => UNCHANGED users
    BY DEF Rotate, Issue, CreateLink, Lookup, tables
  <1> QED
    BY <1>4, <1>5, <1>6, <1>7

\* Whoever rewrites a user has the user's entry to delete
LEMMA RewritesCached ==
    ASSUME IInv, CachedUserIsCurrent, NEW r \in Requests, Rewrites(r)
    PROVE  CachedUserIsCurrent'
  <1>1. /\ OthersGoOn(r) /\ req[r].step # "invalidate"
        /\ \/ req'[r].step = "invalidate" /\ req'[r].user = req[r].user
           \/ users' = users
    BY RewritesGentle
  <1>2. UNCHANGED <<cache, outdated>>
    BY DEF Rewrites, ChangePassword, ResetPassword, DeleteAccount, Deactivate, Activate,
           Switch, WriteUser
  <1>3. \A u \in Users : Deleting(u) => Deleting(u)'
    BY <1>1, DeletingKept
  <1>4. CASE users' = users
    BY <1>2, <1>3, <1>4, UsersLeft
  <1>5. CASE users' # users
    <2>1. PICK u : u = req[r].user
      OBVIOUS
    <2>2. Deleting(u)'
      BY <1>1, <1>5, <2>1 DEF Deleting
    <2>3. \A v \in Users \ {u} : users'[v] = users[v]
      <3>1. (ChangePassword(r) \/ ResetPassword(r) \/ DeleteAccount(r) \/ Deactivate(r))
                => \E row : users' = [users EXCEPT ![u] = row]
        BY <2>1, Zenon
        DEF ChangePassword, ResetPassword, DeleteAccount, Deactivate, WriteUser
      <3>2. Activate(r) => \A v \in Users \ {u} : users'[v] = users[v]
        BY <2>1 DEF Activate, IInv, TypeInv
      <3>3. Switch(r) => \A v \in Users \ {u} : users'[v] = users[v]
        BY <1>5, <2>1 DEF Switch, IInv, TypeInv
      <3>4. (\E row : users' = [users EXCEPT ![u] = row])
                => \A v \in Users \ {u} : users'[v] = users[v]
        BY DEF IInv, TypeInv
      <3> QED
        BY <3>1, <3>2, <3>3, <3>4 DEF Rewrites
    <2>4. ASSUME NEW v \in Users
          PROVE  Deleting(v)' \/ (\A view : Agrees(v, view) => Agrees(v, view)')
      BY <2>2, <2>3, AgreesKept
    <2> QED
      BY <1>2, <1>3, <2>4, CacheLeft
  <1> QED
    BY <1>4, <1>5

\* The steps on the cache: an entry is deleted, or filled and compared, or lost
LEMMA CacheCached ==
    ASSUME IInv, CachedUserIsCurrent,
           \/ \E r \in Requests : Invalidate(r) \/ Fill(r) \/ Fail(r)
           \/ \E u \in Users : CacheExpires(u)
    PROVE  CachedUserIsCurrent'
  <1>a. users' = users
    BY DEF Invalidate, Fill, Fail, CacheExpires, tables
  <1>b. \A u \in Users : \A view : Agrees(u, view)' = Agrees(u, view)
    BY <1>a DEF Agrees, Enabled, Exists, View
  <1>c. \A u \in Users :
            cache[u] # None /\ ~Agrees(u, cache[u]) => u \in outdated \/ Deleting(u)
    BY DEF CachedUserIsCurrent, Deleting
  <1> DEFINE Current(u) ==
        cache'[u] # None /\ ~Agrees(u, cache'[u]) => u \in outdated' \/ Deleting(u)'
  <1>d. (\A u \in Users : Current(u)) => CachedUserIsCurrent'
    BY <1>b DEF CachedUserIsCurrent, Deleting
  <1>1. ASSUME NEW r \in Requests, Invalidate(r) \/ Fill(r) \/ Fail(r)
        PROVE  CachedUserIsCurrent'
    <2>1. PICK u : u = req[r].user
      OBVIOUS
    <2>2. OthersGoOn(r)
      <3>1. req' = [req EXCEPT ![r] = Idle]
        BY <1>1 DEF Invalidate, Fill, Fail, Answer
      <3> QED
        BY <3>1, OthersStay DEF IInv
    <2>3. \A v \in Users \ {u} : Deleting(v) => Deleting(v)'
      BY <2>1, <2>2, DeletingKept
    <2>4. \A v \in Users \ {u} : cache'[v] = cache[v] /\ (v \in outdated => v \in outdated')
      BY <1>1, <2>1 DEF Invalidate, Fill, Fail, IInv, TypeInv
    <2>5. \A v \in Users \ {u} : Current(v)
      BY <1>c, <2>3, <2>4
    <2>6. u \in Users => Current(u)
      <3>1. CASE Invalidate(r)
        BY <2>1, <3>1 DEF Invalidate, IInv, TypeInv
      <3>2. CASE Fill(r)
        BY <2>1, <3>2 DEF Fill, IInv, TypeInv
      <3>3. CASE Fail(r) /\ req[r].step = "invalidate"
        BY <2>1, <3>3 DEF Fail
      <3>4. CASE Fail(r) /\ req[r].step # "invalidate"
        <4>1. Deleting(u) => Deleting(u)'
          BY <2>2, <3>4, DeletingKept
        <4> QED
          BY <1>c, <3>4, <4>1 DEF Fail
      <3> QED
        BY <1>1, <3>1, <3>2, <3>3, <3>4
    <2> QED
      BY <1>d, <2>5, <2>6
  <1>2. ASSUME NEW u \in Users, CacheExpires(u)
        PROVE  CachedUserIsCurrent'
    <2>1. \A v \in Users : Deleting(v)' = Deleting(v)
      BY <1>2 DEF CacheExpires, Deleting
    <2>2. /\ cache'[u] = None
          /\ \A v \in Users \ {u} :
                cache'[v] = cache[v] /\ (v \in outdated => v \in outdated')
      BY <1>2 DEF CacheExpires, IInv, TypeInv
    <2> QED
      BY <1>c, <1>d, <2>1, <2>2
  <1> QED
    BY <1>1, <1>2

\* A cached user is what its row says, unless the exception is recorded
THEOREM CurrentCache == Spec => []CachedUserIsCurrent
  <1>1. Init => CachedUserIsCurrent
    BY DEF Init, CachedUserIsCurrent
  <1>2. IInv /\ CachedUserIsCurrent /\ [Next]_vars => CachedUserIsCurrent'
    <2> SUFFICES ASSUME IInv, CachedUserIsCurrent, [Next]_vars
                 PROVE  CachedUserIsCurrent'
      OBVIOUS
    <2>1. ASSUME NEW r \in Requests, Receive(r)
          PROVE  CachedUserIsCurrent'
      <3>1. PICK q \in RequestStates : Quiet(r, q)
        BY <2>1, ReceiveQuiet
      <3>2. req[r] = Idle /\ UNCHANGED <<users, cache, outdated>>
        BY <2>1, ReceiveQuiet DEF tables
      <3>3. OthersGoOn(r)
        BY <3>1, OthersStay DEF Quiet, IInv
      <3>4. \A u \in Users : Deleting(u) => Deleting(u)'
        BY <3>2, <3>3, DeletingKept DEF Idle
      <3> QED
        BY <3>2, <3>4, UsersLeft
    <2>2. ASSUME NEW r \in Requests, Advance(r) \/ Fail(r)
          PROVE  CachedUserIsCurrent'
      BY <2>2, TablesCached, RewritesCached, CacheCached DEF Advance, Rewrites
    <2>3. CASE UNCHANGED <<users, cache, outdated, req>>
      BY <2>3, UsersLeft DEF Deleting
    <2>4. (\E t \in Tokens : Logout(t) \/ TokenExpires(t)) \/ (\E x \in Links : LinkExpires(x))
          \/ UNCHANGED vars
              => UNCHANGED <<users, cache, outdated, req>>
      BY DEF Logout, TokenExpires, LinkExpires, vars, tables
    <2> QED
      BY <2>1, <2>2, <2>3, <2>4, CacheCached DEF Next
  <1> QED
    BY <1>1, <1>2, IInvariant, PTL DEF Spec
=============================================================================
