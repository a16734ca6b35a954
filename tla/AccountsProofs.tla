--------------------------- MODULE AccountsProofs ---------------------------
(***************************************************************************)
(* Proofs about Accounts, for any number of accounts, browsers, sessions,  *)
(* codes and requests, and any set of forms submitted.                     *)
(***************************************************************************)
EXTENDS Accounts, FiniteSetTheorems, TLAPS

----------------------------------------------------------------------------
(* The inductive invariant.                                                *)

\* Where a request acts on an account it has read.
Judging == {"count", "write", "erase", "print", "evict"}

\* What a request holds at each place of its handler.
Placed(r) ==
  /\ r.at \in Edits => r.ask.kind = r.at
  /\ r.at \in Judging => r.ask.kind \in Edits /\ r.row \in Row
  /\ r.at \in Judging \cup Edits \cup {"user", "issue", "factor", "list", "consume", "promote"}
       => r.user \in User
  /\ r.at \in {"user", "factor", "list", "consume", "promote"} => r.sid \in Session
  /\ r.at \in {"create", "setup", "insert"} => r.ask.name \in Name /\ r.ask.password \in Password
  /\ r.at \in {"list", "consume"} => r.ask.code \in Code
  /\ r.at = "count" => r.ask.kind = "active" /\ ~r.ask.new
  /\ r.at = "print" => r.ask.kind \in {"confirm", "regenerate"}

\* What a request knows of the tables: its account exists, it acts with no half-open
\* session, and what it judged still holds unless another wrote the row in between.
Sound(r) ==
  /\ r.at \in Judging => Exists(r.user)
  /\ r.at = "user" \/ r.self # None => r.sid \notin half
  /\ r.at \in {"count", "write"} /\ ~r.stale => r.row = account[r.user]
  /\ r.at = "write" /\ r.ask.kind = "active" /\ ~r.ask.new /\ ~r.stale
       => \E v \in Active : v # r.user
  /\ r.at \in {"erase", "print"} /\ r.ask.kind \in {"confirm", "regenerate"} /\ ~r.stale
       => MFAEnabled(account[r.user])

\* A session without its second factor is marked so in its row.
HalfIsPending == \A s \in half : session[s] # None /\ session[s].pending

\* A deactivation that has ended left the account there and off.
EndedIsOff == \A u \in ended : Exists(u) /\ ~account[u].active

\* A code is one account's, was printed, and is in the table only while it is unused.
CodesAreFresh ==
  /\ \A u, v \in User : u # v => codes[u] \cap codes[v] = {}
  /\ \A u \in User : codes[u] \subseteq issued /\ \A c \in codes[u] : uses[c] = 0
  /\ \A c \in Code \ issued : uses[c] = 0
  /\ CodeSpentOnce

\* Codes without a factor are about to be erased.
CodesHaveAFactor ==
  \A u \in User \ untidy :
    codes[u] # {} => \/ Exists(u) /\ MFAEnabled(account[u])
                     \/ \E b \in Browser : req[b].user = u /\ req[b].at = "erase"

Tables == HalfIsPending /\ EndedIsOff /\ DeactivationEndsSessions /\ CodesAreFresh /\ CodesHaveAFactor

IInv == TypeOK /\ Tables /\ \A b \in Browser : Placed(req[b]) /\ Sound(req[b])

----------------------------------------------------------------------------
(* The forms and what they change.                                         *)

\* What a form carries.
LEMMA AskFields ==
  ASSUME NEW k \in Ask
  PROVE  /\ k.kind \in Public \cup Edits \cup {"create"}
         /\ k.kind \in {"create", "setup"} => k.name \in Name /\ k.password \in Password
         /\ k.kind \in TeamEdits => k.user \in User
         /\ k.kind = "rename" => k.new \in Name
         /\ k.kind \in {"password", "resetPassword"} => k.new \in Password
         /\ k.kind = "language" => k.new \in Language
         /\ k.kind = "confirm" => k.new \in Secret
         /\ k.kind = "active" => k.new \in BOOLEAN
<1>1. k \in AllAsks BY AskAssumption
<1>2. CASE k \in SignInAsks BY <1>2 DEF SignInAsks, Public, Edits, OwnEdits, TeamEdits
<1>3. CASE k \in AccountAsks BY <1>3 DEF AccountAsks, Public, Edits, OwnEdits, TeamEdits
<1>4. CASE k \in UserAsks BY <1>4 DEF UserAsks, Public, Edits, OwnEdits, TeamEdits
<1> QED BY <1>1, <1>2, <1>3, <1>4 DEF AllAsks

\* An edit writes a row back that differs in the form's own column at most, and each kind of
\* edit has its own statements before and after the write.
LEMMA EditFacts ==
  ASSUME NEW r, r.ask \in Ask, r.ask.kind \in Edits, NEW old \in Row
  PROVE  /\ Edit(r, old).row \in Row
         /\ \A c \in DOMAIN old \ Columns(r.ask.kind) : Edit(r, old).row[c] = old[c]
         /\ Edit(r, old).then \in {"write", "erase", "count"}
         /\ Edit(r, old).after \in {"idle", "erase", "evict"}
         /\ Edit(r, old).then = "erase" => r.ask.kind = "regenerate"
         /\ Edit(r, old).then = "count" => r.ask.kind = "active" /\ ~r.ask.new
         /\ Edit(r, old).then = "write" /\ r.ask.kind = "active" => r.ask.new
         /\ Edit(r, old).allowed /\ r.ask.kind = "regenerate" => MFAEnabled(old)
         /\ r.ask.kind = "regenerate" => Edit(r, old).after = "idle"
         /\ r.ask.kind = "active" => Edit(r, old).row.active = r.ask.new
         /\ r.ask.kind # "active" => Edit(r, old).row.active = old.active
         /\ r.ask.kind = "confirm" => MFAEnabled(Edit(r, old).row)
         /\ MFAEnabled(old) => MFAEnabled(Edit(r, old).row) \/ Edit(r, old).after = "erase"
<1>1. CASE r.ask.kind \in {"password", "resetPassword"}
  BY <1>1, AskFields DEF Edit, ChangePassword, AdminResetPassword, Change, Row, Columns, MFAEnabled
<1>2. CASE r.ask.kind = "language"
  BY <1>2, AskFields DEF Edit, UpdateLanguage, Change, Row, Columns, MFAEnabled
<1>3. CASE r.ask.kind = "rename"
  BY <1>3, AskFields DEF Edit, RenameUser, Change, Row, Columns, MFAEnabled
<1>4. CASE r.ask.kind = "confirm"
  <2>1. r.ask.new \in Secret /\ r.ask.new # None BY <1>4, AskFields, NoneAssumption
  <2> QED BY <1>4, <2>1 DEF Edit, CompleteMFAEnrolment, Change, Row, Columns, MFAEnabled
<1>5. CASE r.ask.kind \in {"disable", "resetMFA"}
  BY <1>5 DEF Edit, DisableMFA, AdminResetMFA, Change, Row, Columns, MFAEnabled
<1>6. CASE r.ask.kind = "regenerate"
  BY <1>6 DEF Edit, RegenerateRecoveryCodes, Change, Row, Columns, MFAEnabled
<1>7. CASE r.ask.kind = "active"
  BY <1>7, AskFields DEF Edit, SetUserActive, Change, Row, Columns, MFAEnabled
<1> QED BY <1>1, <1>2, <1>3, <1>4, <1>5, <1>6, <1>7 DEF Edits, OwnEdits, TeamEdits

----------------------------------------------------------------------------
(* Steps that change no table, or only delete sessions.                    *)

\* A request that is over holds nothing.
LEMMA IdleFacts == Idle \in RequestState /\ Placed(Idle) /\ Sound(Idle) /\ Sound(Idle)'
<1>1. Idle \in RequestState BY DEF Idle, RequestState, Stages
<1>2. Placed(Idle) BY DEF Idle, Placed, Edits, OwnEdits, TeamEdits, Judging
<1>3. Sound(Idle) /\ Sound(Idle)' BY DEF Idle, Sound, Judging
<1> QED BY <1>1, <1>2, <1>3

\* A response leaves every jar with a session or with none.
LEMMA AnswerFacts ==
  ASSUME TypeOK, NEW b \in Browser, NEW jar \in Session \cup {"keep", "clear", "as it is"}, Answer(b, jar)
  PROVE  cookie' \in [Browser -> Session \cup {None}] /\ req' = [req EXCEPT ![b] = Idle]
<1> DEFINE r == [req[b] EXCEPT !.jar = IF jar = "as it is" THEN @ ELSE jar]
<1>1. req[b].jar \in {"keep", "clear"} /\ cookie[b] \in Session \cup {None} BY DEF TypeOK, RequestState
<1>2. r.jar \in Session \cup {"keep", "clear"} BY <1>1 DEF TypeOK, RequestState
<1> HIDE DEF r
<1>3. (CASE r.jar = "keep" -> cookie[b] [] r.jar = "clear" -> None [] OTHER -> r.jar) \in Session \cup {None}
  BY <1>1, <1>2
<1>4. Jar(b, r) \in [Browser -> Session \cup {None}] BY <1>3 DEF TypeOK, Jar
<1> QED BY <1>4 DEF Answer, Goto, r

\* The middlewares pass a request on with what it asks, or answer it.
LEMMA RequireAuthFacts ==
  ASSUME TypeOK, NEW b \in Browser, NEW r \in RequestState, r.self # None => r.sid \notin half,
         RequireAuth(b, r), req[b].jar \in {"keep", "clear"}
  PROVE  /\ cookie' \in [Browser -> Session \cup {None}]
         /\ \E e \in RequestState :
              req' = [req EXCEPT ![b] = e] /\ Placed(e) /\ Sound(e) /\ e.self \in {None, r.self}
<1>1. PICK k \in Ask :
        IF r.self # None \/ k.kind \in Public
        THEN /\ Goto(b, [r EXCEPT !.at = k.kind, !.ask = k,
                                  !.user = CASE k.kind \in OwnEdits  -> r.self
                                             [] k.kind \in TeamEdits -> k.user
                                             [] OTHER                -> None])
             /\ UNCHANGED cookie
        ELSE Answer(b, r.jar)
  BY DEF RequireAuth
<1>2. CASE r.self # None \/ k.kind \in Public
  <2> DEFINE u == CASE k.kind \in OwnEdits  -> r.self
                    [] k.kind \in TeamEdits -> k.user
                    [] OTHER                -> None
             e == [r EXCEPT !.at = k.kind, !.ask = k, !.user = u]
  <2>1. k.kind \in Public \cup Edits \cup {"create"} BY AskFields
  <2>2. OwnEdits \cap TeamEdits = {} /\ Public \cap Edits = {} BY DEF OwnEdits, TeamEdits, Public, Edits
  <2>3. u \in User \cup {None} /\ (k.kind \in Edits => u \in User)
    BY <1>2, <2>1, <2>2, AskFields DEF RequestState, Edits
  <2> HIDE DEF u
  <2>4. /\ e \in RequestState /\ e.at = k.kind /\ e.ask = k /\ e.user = u
        /\ e.self = r.self /\ e.sid = r.sid
    BY <2>1, <2>3 DEF RequestState, Stages
  <2>5. req' = [req EXCEPT ![b] = e] /\ UNCHANGED cookie BY <1>1, <1>2 DEF Goto, u
  <2> HIDE DEF e
  <2>6. Placed(e)
    BY <2>1, <2>3, <2>4, AskFields DEF Placed, Judging, Edits, OwnEdits, TeamEdits, Public
  <2>7. Sound(e) BY <2>1, <2>4 DEF Sound, Judging, Edits, OwnEdits, TeamEdits, Public
  <2> QED BY <2>4, <2>5, <2>6, <2>7 DEF TypeOK
<1>3. CASE ~(r.self # None \/ k.kind \in Public)
  BY <1>1, <1>3, AnswerFacts, IdleFacts DEF RequestState, Idle
<1> QED BY <1>2, <1>3

\* Sessions may go, but the tables of accounts and codes stay: then what holds of them still
\* holds, and what the other requests know of them.
LEMMA SessionsMayGo ==
  ASSUME IInv, NEW b \in Browser, NEW e \in RequestState, req' = [req EXCEPT ![b] = e],
         Placed(e), Sound(e), req[b].at # "erase", NEW ss, Delete(ss),
         UNCHANGED <<account, codes, ended, uses, issued, untidy>>,
         made' \in 0 .. MaxRequests, cookie' \in [Browser -> Session \cup {None}]
  PROVE  IInv'
<1>0. TypeOK /\ Tables /\ req \in [Browser -> RequestState] BY DEF IInv, TypeOK
<1>1. half' = half \ ss /\ gap' = gap \ ss /\ session' = [s \in Session |-> IF s \in ss THEN None ELSE session[s]]
  BY DEF Delete
<1>2. TypeOK' BY <1>0, <1>1 DEF TypeOK
<1>3. HalfIsPending' BY <1>0, <1>1 DEF Tables, HalfIsPending, TypeOK
<1>4. EndedIsOff' BY <1>0 DEF Tables, EndedIsOff, Exists
<1>5. DeactivationEndsSessions' BY <1>0, <1>1 DEF Tables, DeactivationEndsSessions
<1>6. CodesAreFresh' BY <1>0 DEF Tables, CodesAreFresh, CodeSpentOnce
<1>7. CodesHaveAFactor'
  <2>1. \A x \in Browser : req[x].at = "erase" => req'[x] = req[x] BY <1>0
  <2> QED BY <1>0, <2>1 DEF Tables, CodesHaveAFactor, Exists
<1>8. ASSUME NEW x, Sound(x) PROVE Sound(x)' BY <1>1, <1>8 DEF Sound, Exists, Active
<1>9. ASSUME NEW x \in Browser PROVE (Placed(req[x]) /\ Sound(req[x]))'
  <2>1. req'[x] = (IF x = b THEN e ELSE req[x]) BY <1>0
  <2>2. Placed(req'[x]) /\ Sound(req'[x]) BY <2>1 DEF IInv
  <2> QED BY <1>8, <2>2
<1> QED BY <1>2, <1>3, <1>4, <1>5, <1>6, <1>7, <1>9 DEF IInv, Tables

\* The same when no session goes.
LEMMA NothingGoes ==
  ASSUME IInv, NEW b \in Browser, NEW e \in RequestState, req' = [req EXCEPT ![b] = e],
         Placed(e), Sound(e), req[b].at # "erase", UNCHANGED <<rows, ghost>>,
         made' \in 0 .. MaxRequests, cookie' \in [Browser -> Session \cup {None}]
  PROVE  IInv'
<1>1. session = [s \in Session |-> session[s]] BY DEF IInv, TypeOK
<1>2. Delete({}) BY <1>1 DEF Delete, rows, ghost
<1> QED BY <1>2, SessionsMayGo DEF rows, ghost

\* A handler that stops.
LEMMA RefuseKeeps ==
  ASSUME IInv, NEW b \in Browser, Refuse(b), req[b].at # "erase", UNCHANGED made PROVE IInv'
<1>1. TypeOK /\ req[b].jar \in {"keep", "clear"} BY DEF IInv, TypeOK, RequestState
<1>2. cookie' \in [Browser -> Session \cup {None}] /\ req' = [req EXCEPT ![b] = Idle]
  BY <1>1, AnswerFacts DEF Refuse
<1> QED BY <1>1, <1>2, IdleFacts, NothingGoes DEF Refuse, TypeOK

\* A handler that goes on, with the same request and no table changed.
LEMMA GotoKeeps ==
  ASSUME IInv, NEW b \in Browser, NEW e \in RequestState, Goto(b, e), Placed(e), Sound(e),
         req[b].at # "erase", UNCHANGED <<rows, cookie, ghost, made>>
  PROVE  IInv'
<1>1. TypeOK BY DEF IInv
<1> QED BY <1>1, NothingGoes DEF Goto, TypeOK

\* What is known of a request.
LEMMA RequestFacts ==
  ASSUME IInv, NEW b \in Browser
  PROVE  /\ req[b] \in RequestState /\ Placed(req[b]) /\ Sound(req[b])
         /\ req[b].sid \in Session /\ session[req[b].sid] # None => session[req[b].sid] \in SessionRow
         /\ req[b].user \in User /\ account[req[b].user] # None => account[req[b].user] \in Row
BY DEF IInv, TypeOK

\* A request arrives with the cookie of its browser.
LEMMA ArriveKeeps == ASSUME IInv, NEW b \in Browser, Arrive(b) PROVE IInv'
<1> DEFINE e == [Idle EXCEPT !.at = "session", !.sid = cookie[b]]
<1>1. cookie[b] \in Session \cup {None} /\ made \in 0 .. MaxRequests /\ MaxRequests \in Nat
  BY BoundAssumption DEF IInv, TypeOK
<1>2. e \in RequestState /\ e.at = "session" /\ e.self = None
  BY <1>1, IdleFacts DEF RequestState, Stages, Idle
<1> HIDE DEF e
<1>3. Placed(e) /\ Sound(e)
  BY <1>2 DEF Placed, Sound, Judging, Edits, OwnEdits, TeamEdits
<1>4. req' = [req EXCEPT ![b] = e] /\ req[b].at # "erase" /\ made' \in 0 .. MaxRequests
  BY <1>1 DEF Arrive, Goto, e
<1> QED BY <1>2, <1>3, <1>4, NothingGoes DEF Arrive, IInv, TypeOK

\* The Auth middleware, first statement.
LEMMA AuthSessionKeeps == ASSUME IInv, NEW b \in Browser, AuthSession(b) PROVE IInv'
<1> DEFINE r == req[b]
<1>0. /\ TypeOK /\ r \in RequestState /\ Sound(r) /\ r.at = "session"
      /\ made \in 0 .. MaxRequests /\ session = [s \in Session |-> session[s]] /\ HalfIsPending
  BY RequestFacts DEF AuthSession, IInv, TypeOK, Tables
<1>1. UNCHANGED <<account, codes, made, ended, uses, issued, untidy>> BY DEF AuthSession
<1>2. ASSUME NEW q \in RequestState, RequireAuth(b, q), q.self = r.self, q.sid = r.sid,
             NEW ss, Delete(ss)
      PROVE  IInv'
  <2>1. q.self # None => q.sid \notin half BY <1>0, <1>2 DEF Sound
  <2>2. PICK e \in RequestState : req' = [req EXCEPT ![b] = e] /\ Placed(e) /\ Sound(e)
    BY <1>0, <1>2, <2>1, RequireAuthFacts DEF RequestState
  <2>3. cookie' \in [Browser -> Session \cup {None}]
    BY <1>0, <1>2, <2>1, RequireAuthFacts DEF RequestState
  <2> QED BY <1>0, <1>1, <1>2, <2>2, <2>3, SessionsMayGo
<1>3. UNCHANGED <<session, half, gap>> => Delete({}) BY <1>0 DEF Delete
<1>4. LET c == [r EXCEPT !.jar = "clear"]
      IN  c \in RequestState /\ c.self = r.self /\ c.sid = r.sid
  BY <1>0 DEF RequestState
<1>5. CASE Presented(r) # None /\ SessionActive(r.sid) /\ Goto(b, [r EXCEPT !.at = "user", !.user = session[r.sid].user])
           /\ UNCHANGED <<session, half, gap, cookie>>
  <2> DEFINE e == [r EXCEPT !.at = "user", !.user = session[r.sid].user]
  <2>1. r.sid \in Session /\ session[r.sid] \in SessionRow /\ ~session[r.sid].pending
    BY <1>0, <1>5, NoneAssumption DEF Presented, SessionActive, RequestState, TypeOK
  <2>2. r.sid \notin half BY <1>0, <2>1 DEF HalfIsPending
  <2>3. e \in RequestState /\ e.at = "user" /\ e.user \in User /\ e.sid = r.sid /\ e.self = r.self
    BY <1>0, <2>1 DEF RequestState, Stages, SessionRow
  <2> HIDE DEF e
  <2>4. Placed(e) /\ Sound(e)
    BY <2>1, <2>2, <2>3 DEF Placed, Sound, Judging, Edits, OwnEdits, TeamEdits
  <2>5. Goto(b, e) /\ UNCHANGED <<rows, cookie, ghost, made>> BY <1>1, <1>5 DEF e, rows, ghost
  <2> QED BY <1>0, <2>3, <2>4, <2>5, GotoKeeps
<1> QED BY <1>0, <1>2, <1>3, <1>4, <1>5 DEF AuthSession

\* ... and second statement.
LEMMA AuthUserKeeps == ASSUME IInv, NEW b \in Browser, AuthUser(b) PROVE IInv'
<1> DEFINE r == req[b]
           in == [r EXCEPT !.self = r.user]
           out == [r EXCEPT !.jar = "clear"]
<1>0. /\ TypeOK /\ r \in RequestState /\ Sound(r) /\ Placed(r) /\ r.at = "user"
      /\ made \in 0 .. MaxRequests /\ session = [s \in Session |-> session[s]]
  BY RequestFacts DEF AuthUser, IInv, TypeOK
<1>1. UNCHANGED <<account, codes, made, ended, uses, issued, untidy>> BY DEF AuthUser
<1>2. r.user \in User /\ r.sid \notin half BY <1>0 DEF Placed, Sound
<1>3. /\ in \in RequestState /\ in.sid = r.sid
      /\ out \in RequestState /\ out.sid = r.sid
  BY <1>0, <1>2 DEF RequestState
<1>4. ASSUME NEW q \in RequestState, RequireAuth(b, q), q.sid = r.sid, NEW ss, Delete(ss) PROVE IInv'
  <2>1. PICK e \in RequestState : req' = [req EXCEPT ![b] = e] /\ Placed(e) /\ Sound(e)
    BY <1>0, <1>2, <1>4, RequireAuthFacts DEF RequestState
  <2>2. cookie' \in [Browser -> Session \cup {None}]
    BY <1>0, <1>2, <1>4, RequireAuthFacts DEF RequestState
  <2> QED BY <1>0, <1>1, <1>4, <2>1, <2>2, SessionsMayGo
<1>5. UNCHANGED <<session, half, gap>> => Delete({}) BY <1>0 DEF Delete
<1> QED BY <1>3, <1>4, <1>5 DEF AuthUser

----------------------------------------------------------------------------
(* Signing in and out.                                                     *)

\* A handler that goes on to another place, with an account it knows.
LEMMA MoveKeeps ==
  ASSUME IInv, NEW b \in Browser, NEW e \in RequestState, Goto(b, e), e.self = req[b].self,
         e.sid = req[b].sid, e.ask = req[b].ask, e.user \in User,
         e.at \in {"issue", "factor", "list", "consume", "promote"},
         e.at # "issue" => e.sid \in Session, e.at \in {"list", "consume"} => e.ask.code \in Code,
         req[b].at # "erase", UNCHANGED <<rows, cookie, ghost, made>>
  PROVE  IInv'
<1>1. Placed(e) BY DEF Placed, Judging, Edits, OwnEdits, TeamEdits
<1>2. Sound(e) BY RequestFacts DEF Sound, Judging
<1> QED BY <1>1, <1>2, GotoKeeps

\* The password is right, and the account active, when it is read.
LEMMA LoginKeeps == ASSUME IInv, NEW b \in Browser, Login(b) PROVE IInv'
<1>0. TypeOK /\ req[b] \in RequestState /\ req[b].at = "login" /\ UNCHANGED made
  BY RequestFacts DEF Login, IInv
<1>1. ASSUME NEW u \in User, Exists(u),
             Goto(b, [req[b] EXCEPT !.at = "issue", !.user = u, !.row = account[u]]),
             UNCHANGED <<rows, cookie, ghost>>
      PROVE  IInv'
  <2> DEFINE e == [req[b] EXCEPT !.at = "issue", !.user = u, !.row = account[u]]
  <2>1. account[u] \in Row BY <1>0, <1>1 DEF TypeOK, Exists
  <2>2. /\ e \in RequestState /\ e.at = "issue" /\ e.user = u /\ e.self = req[b].self
        /\ e.sid = req[b].sid /\ e.ask = req[b].ask
    BY <1>0, <2>1 DEF RequestState, Stages
  <2> HIDE DEF e
  <2>3. Goto(b, e) BY <1>1 DEF e
  <2> QED BY <1>0, <1>1, <2>2, <2>3, MoveKeeps
<1> QED BY <1>0, <1>1, RefuseKeeps DEF Login

\* A place in the middle of the second factor.
LEMMA FactorMoves ==
  ASSUME IInv, NEW b \in Browser, req[b].at \in {"factor", "list"},
         NEW p \in {"list", "consume", "promote"}, p # "promote" => req[b].ask.code \in Code,
         Goto(b, [req[b] EXCEPT !.at = p]), UNCHANGED <<rows, cookie, ghost, made>>
  PROVE  IInv'
<1> DEFINE e == [req[b] EXCEPT !.at = p]
<1>0. req[b] \in RequestState /\ req[b].sid \in Session /\ req[b].user \in User
  BY RequestFacts DEF Placed
<1>1. /\ e \in RequestState /\ e.at = p /\ e.user = req[b].user /\ e.self = req[b].self
      /\ e.sid = req[b].sid /\ e.ask = req[b].ask
  BY <1>0 DEF RequestState, Stages
<1> HIDE DEF e
<1>2. Goto(b, e) BY DEF e
<1> QED BY <1>0, <1>1, <1>2, MoveKeeps

\* The page that asks for the code reads the session again.
LEMMA VerifyMFAKeeps == ASSUME IInv, NEW b \in Browser, VerifyMFA(b) PROVE IInv'
<1> DEFINE r == req[b]
<1>0. /\ TypeOK /\ r \in RequestState /\ r.at = "verify" /\ made \in 0 .. MaxRequests
      /\ session = [s \in Session |-> session[s]]
      /\ UNCHANGED <<account, codes, made, ended, uses, issued, untidy>>
  BY RequestFacts DEF VerifyMFA, IInv, TypeOK
<1>1. UNCHANGED <<session, half, gap>> => Delete({}) BY <1>0 DEF Delete
<1>2. ASSUME NEW jar \in Session \cup {"clear"}, Answer(b, jar), NEW ss, Delete(ss) PROVE IInv'
  <2>1. cookie' \in [Browser -> Session \cup {None}] /\ req' = [req EXCEPT ![b] = Idle]
    BY <1>0, <1>2, AnswerFacts
  <2> QED BY <1>0, <1>2, <2>1, IdleFacts, SessionsMayGo
<1>3. ASSUME Presented(r) # None, Goto(b, [r EXCEPT !.at = "factor", !.user = session[r.sid].user]),
             UNCHANGED <<cookie, session, half, gap>>
      PROVE  IInv'
  <2> DEFINE e == [r EXCEPT !.at = "factor", !.user = session[r.sid].user]
  <2>1. r.sid \in Session /\ session[r.sid] \in SessionRow
    BY <1>0, <1>3 DEF Presented, RequestState, TypeOK
  <2>2. /\ e \in RequestState /\ e.at = "factor" /\ e.user \in User /\ e.self = r.self
        /\ e.sid = r.sid /\ e.ask = r.ask
    BY <1>0, <2>1 DEF RequestState, Stages, SessionRow
  <2> HIDE DEF e
  <2>3. Goto(b, e) /\ UNCHANGED <<rows, cookie, ghost, made>> BY <1>0, <1>3 DEF e, rows, ghost
  <2> QED BY <1>0, <2>1, <2>2, <2>3, MoveKeeps
<1>4. Presented(r) # None => r.sid \in Session BY <1>0 DEF Presented, RequestState
<1> QED BY <1>0, <1>1, <1>2, <1>3, <1>4 DEF VerifyMFA

LEMMA CheckFactorKeeps == ASSUME IInv, NEW b \in Browser, CheckFactor(b) \/ ListHashes(b) PROVE IInv'
<1>1. CASE CheckFactor(b)
  <2>1. req[b].at = "factor" /\ UNCHANGED made BY <1>1 DEF CheckFactor
  <2> QED BY <1>1, <2>1, FactorMoves, RefuseKeeps DEF CheckFactor
<1>2. CASE ListHashes(b)
  <2>1. req[b].at = "list" /\ UNCHANGED made BY <1>2 DEF ListHashes
  <2>2. req[b].ask.code \in Code BY <2>1, RequestFacts DEF Placed
  <2> QED BY <1>2, <2>1, <2>2, FactorMoves, RefuseKeeps DEF ListHashes
<1> QED BY <1>1, <1>2

\* The page that asks for the code, and signing out.
LEMMA LogoutKeeps == ASSUME IInv, NEW b \in Browser, MFAPage(b) \/ Logout(b) PROVE IInv'
<1>1. CASE MFAPage(b) BY <1>1, RefuseKeeps DEF MFAPage
<1>2. CASE Logout(b)
  <2>1. TypeOK /\ made \in 0 .. MaxRequests /\ req[b].at = "logout"
    BY <1>2 DEF Logout, IInv, TypeOK
  <2>2. cookie' \in [Browser -> Session \cup {None}] /\ req' = [req EXCEPT ![b] = Idle]
    BY <1>2, <2>1, AnswerFacts DEF Logout
  <2> QED BY <1>2, <2>1, <2>2, IdleFacts, SessionsMayGo DEF Logout
<1> QED BY <1>1, <1>2

\* What the other requests know, and what they hold, after a step of one.
LEMMA OtherRequests ==
  ASSUME IInv, NEW b \in Browser, NEW e \in RequestState, req' = [req EXCEPT ![b] = e],
         Placed(e), Sound(e)', \A a \in Browser \ {b} : Sound(req[a])'
  PROVE  /\ req' \in [Browser -> RequestState]
         /\ \A a \in Browser : (Placed(req[a]) /\ Sound(req[a]))'
<1>1. \A a \in Browser : req'[a] = IF a = b THEN e ELSE req[a] BY DEF IInv, TypeOK
<1>2. req' \in [Browser -> RequestState] BY DEF IInv, TypeOK
<1>3. ASSUME NEW a \in Browser PROVE (Placed(req[a]) /\ Sound(req[a]))'
  <2>1. CASE a = b BY <1>1, <2>1
  <2>2. CASE a # b BY <1>1, <2>2 DEF IInv
  <2> QED BY <2>1, <2>2
<1> QED BY <1>2, <1>3

\* The new session is nobody's yet: no request under way holds its id.
LEMMA NewSessionKeeps == ASSUME IInv, NEW b \in Browser, NewSession(b) PROVE IInv'
<1> DEFINE r == req[b]
<1>0. /\ TypeOK /\ Tables /\ r \in RequestState /\ r.at = "issue" /\ r.user \in User
      /\ UNCHANGED <<account, codes, made, ended, uses, issued, untidy>>
  BY RequestFacts DEF NewSession, IInv, Placed
<1>1. PICK s \in FreshSession :
        /\ session' = [session EXCEPT ![s] =
             [user |-> r.user, pending |-> MFAEnabled(r.row), expired |-> FALSE]]
        /\ half' = IF MFAEnabled(r.row) THEN half \cup {s} ELSE half
        /\ gap' = IF account[r.user].active THEN gap ELSE gap \cup {s}
        /\ Answer(b, s)
  BY DEF NewSession
<1>2. s \in Session /\ session[s] = None /\ \A a \in Browser : req[a].sid # s
  BY DEF FreshSession
<1>3. cookie' \in [Browser -> Session \cup {None}] /\ req' = [req EXCEPT ![b] = Idle]
  BY <1>0, <1>1, <1>2, AnswerFacts
<1>4. MFAEnabled(r.row) \in BOOLEAN BY DEF MFAEnabled
<1> DEFINE new == [user |-> r.user, pending |-> MFAEnabled(r.row), expired |-> FALSE]
<1>5. new \in SessionRow BY <1>0, <1>4 DEF SessionRow, MFAEnabled
<1>6. session' = [session EXCEPT ![s] = new] BY <1>1
<1>7. new.user = r.user /\ new.pending = MFAEnabled(r.row) OBVIOUS
<1> HIDE DEF new
<1>8. new # None BY <1>5, NoneAssumption
<1>9. \A a \in Browser \ {b} : Sound(req[a])'
  <2>1. ASSUME NEW a \in Browser \ {b} PROVE Sound(req[a])'
    <3>1. req'[a] = req[a] /\ req[a].sid # s /\ Sound(req[a]) BY <1>0, <1>2, <1>3, RequestFacts DEF TypeOK
    <3>2. half' \subseteq half \cup {s} BY <1>1
    <3> QED BY <1>0, <3>1, <3>2 DEF Sound, Exists, Active
  <2> QED BY <2>1
<1>10. req' \in [Browser -> RequestState] /\ \A a \in Browser : (Placed(req[a]) /\ Sound(req[a]))'
  BY <1>3, <1>9, IdleFacts, OtherRequests
<1>11. TypeOK'
  <2>1. session' \in [Session -> SessionRow \cup {None}] BY <1>0, <1>5, <1>6 DEF TypeOK
  <2> QED BY <1>0, <1>1, <1>2, <1>3, <1>10, <2>1 DEF TypeOK
<1>12. HalfIsPending' BY <1>0, <1>1, <1>2, <1>8, <1>6, <1>7 DEF Tables, HalfIsPending, TypeOK
<1>13. EndedIsOff' BY <1>0 DEF Tables, EndedIsOff, Exists
<1>14. DeactivationEndsSessions'
  <2>1. ASSUME NEW t \in Session, session'[t] # None, session'[t].user \in ended PROVE t \in gap'
    <3>1. CASE t = s
      <4>1. r.user \in ended BY <1>0, <1>2, <1>6, <1>7, <2>1, <3>1 DEF TypeOK
      <4> QED BY <1>0, <1>1, <3>1, <4>1 DEF Tables, EndedIsOff
    <3>2. CASE t # s BY <1>0, <1>1, <1>6, <2>1, <3>2 DEF Tables, DeactivationEndsSessions, TypeOK
    <3> QED BY <3>1, <3>2
  <2> QED BY <1>0, <2>1 DEF DeactivationEndsSessions
<1>15. CodesAreFresh' BY <1>0 DEF Tables, CodesAreFresh, CodeSpentOnce
<1>16. CodesHaveAFactor'
  <2>1. \A x \in Browser : req[x].at = "erase" => req'[x] = req[x] BY <1>0, <1>3 DEF TypeOK
  <2> QED BY <1>0, <2>1 DEF Tables, CodesHaveAFactor, Exists
<1> QED BY <1>10, <1>11, <1>12, <1>13, <1>14, <1>15, <1>16 DEF IInv, Tables

\* A session row that stays, with the same holder, and is no more half open than it was.
LEMMA SessionMarked ==
  ASSUME IInv, NEW s \in Session, session[s] # None, NEW new \in SessionRow,
         session' = [session EXCEPT ![s] = new], new.user = session[s].user,
         half' \subseteq half, s \in half' => new.pending = session[s].pending,
         UNCHANGED <<account, codes, gap, ended, uses, issued, untidy>>
  PROVE  /\ session' \in [Session -> SessionRow \cup {None}]
         /\ HalfIsPending' /\ EndedIsOff' /\ DeactivationEndsSessions' /\ CodesAreFresh'
         /\ \A x : Sound(x) => Sound(x)'
<1>0. TypeOK /\ Tables BY DEF IInv
<1>1. new # None BY NoneAssumption
<1>2. session' \in [Session -> SessionRow \cup {None}] BY <1>0 DEF TypeOK
<1>3. HalfIsPending' BY <1>0, <1>1 DEF Tables, HalfIsPending, TypeOK
<1>4. EndedIsOff' BY <1>0 DEF Tables, EndedIsOff, Exists
<1>5. DeactivationEndsSessions' BY <1>0 DEF Tables, DeactivationEndsSessions, TypeOK
<1>6. CodesAreFresh' BY <1>0 DEF Tables, CodesAreFresh, CodeSpentOnce
<1>7. \A x : Sound(x) => Sound(x)' BY DEF Sound, Exists, Active
<1> QED BY <1>2, <1>3, <1>4, <1>5, <1>6, <1>7

\* The second factor is passed.
LEMMA PromoteKeeps == ASSUME IInv, NEW b \in Browser, Promote(b) PROVE IInv'
<1> DEFINE r == req[b]
<1>0. TypeOK /\ Tables /\ r \in RequestState /\ r.at = "promote" /\ r.sid \in Session /\ UNCHANGED made
  BY RequestFacts DEF Promote, IInv, Placed
<1>1. CASE session[r.sid] # None
  <2> DEFINE new == [session[r.sid] EXCEPT !.pending = FALSE, !.expired = FALSE]
  <2>1. session[r.sid] \in SessionRow BY <1>0, <1>1 DEF TypeOK
  <2>2. new \in SessionRow /\ new.user = session[r.sid].user BY <2>1 DEF SessionRow
  <2>3. session' = [session EXCEPT ![r.sid] = new] BY <1>0, <1>1 DEF Promote
  <2> HIDE DEF new
  <2>4. UNCHANGED <<account, codes, gap, ended, uses, issued, untidy>> /\ half' = half \ {r.sid} /\ Answer(b, r.sid)
    BY <1>1 DEF Promote
  <2>5. cookie' \in [Browser -> Session \cup {None}] /\ req' = [req EXCEPT ![b] = Idle]
    BY <1>0, <2>4, AnswerFacts
  <2>6. /\ session' \in [Session -> SessionRow \cup {None}]
        /\ HalfIsPending' /\ EndedIsOff' /\ DeactivationEndsSessions' /\ CodesAreFresh'
        /\ \A x : Sound(x) => Sound(x)'
    BY <1>0, <1>1, <2>2, <2>3, <2>4, SessionMarked
  <2>7. \A a \in Browser \ {b} : Sound(req[a])'
    <3>1. \A a \in Browser \ {b} : req'[a] = req[a] /\ Sound(req[a]) BY <1>0, <2>5, RequestFacts DEF TypeOK
    <3> QED BY <2>6, <3>1
  <2>8. req' \in [Browser -> RequestState] /\ \A a \in Browser : (Placed(req[a]) /\ Sound(req[a]))'
    BY <2>5, <2>7, IdleFacts, OtherRequests
  <2>9. CodesHaveAFactor'
    <3>1. \A x \in Browser : req[x].at = "erase" => req'[x] = req[x] BY <1>0, <2>5 DEF TypeOK
    <3> QED BY <1>0, <2>4, <3>1 DEF Tables, CodesHaveAFactor, Exists
  <2>10. TypeOK' BY <1>0, <2>4, <2>5, <2>6, <2>8 DEF TypeOK
  <2> QED BY <2>6, <2>8, <2>9, <2>10 DEF IInv, Tables
<1> QED BY <1>0, <1>1, RefuseKeeps DEF Promote

\* Time passes for a session.
LEMMA ExpireKeeps == ASSUME IInv, NEW s \in Session, Expire(s) PROVE IInv'
<1> DEFINE new == [session[s] EXCEPT !.expired = TRUE]
<1>0. TypeOK /\ Tables BY DEF IInv
<1>1. session[s] \in SessionRow BY <1>0 DEF Expire, TypeOK
<1>2. new \in SessionRow /\ new.user = session[s].user /\ new.pending = session[s].pending
  BY <1>1 DEF SessionRow
<1>3. session' = [session EXCEPT ![s] = new] BY DEF Expire
<1> HIDE DEF new
<1>4. UNCHANGED <<account, codes, gap, ended, uses, issued, untidy, cookie, req, made>> /\ half' = half
  BY DEF Expire, ghost
<1>5. /\ session' \in [Session -> SessionRow \cup {None}]
      /\ HalfIsPending' /\ EndedIsOff' /\ DeactivationEndsSessions' /\ CodesAreFresh'
      /\ \A x : Sound(x) => Sound(x)'
  BY <1>2, <1>3, <1>4, SessionMarked DEF Expire
<1>6. CodesHaveAFactor' BY <1>0, <1>4 DEF Tables, CodesHaveAFactor, Exists
<1>7. \A a \in Browser : (Placed(req[a]) /\ Sound(req[a]))' BY <1>4, <1>5 DEF IInv
<1>8. TypeOK' BY <1>0, <1>4, <1>5 DEF TypeOK
<1> QED BY <1>5, <1>6, <1>7, <1>8 DEF IInv, Tables

\* The daily purge.
LEMMA PurgeKeeps == ASSUME IInv, PurgeExpiredSessions PROVE IInv'
<1>0. TypeOK /\ Tables BY DEF IInv
<1>1. PICK old : Delete(old) BY DEF PurgeExpiredSessions
<1>2. UNCHANGED <<account, codes, cookie, req, made, ended, uses, issued, untidy>>
  BY DEF PurgeExpiredSessions
<1>3. /\ half' = half \ old /\ gap' = gap \ old
      /\ session' = [s \in Session |-> IF s \in old THEN None ELSE session[s]]
  BY <1>1 DEF Delete
<1>4. TypeOK' BY <1>0, <1>2, <1>3 DEF TypeOK
<1>5. HalfIsPending' BY <1>0, <1>3 DEF Tables, HalfIsPending, TypeOK
<1>6. EndedIsOff' /\ CodesAreFresh' /\ CodesHaveAFactor'
  BY <1>0, <1>2 DEF Tables, EndedIsOff, CodesAreFresh, CodeSpentOnce, CodesHaveAFactor, Exists
<1>7. DeactivationEndsSessions' BY <1>0, <1>2, <1>3 DEF Tables, DeactivationEndsSessions
<1>8. \A a \in Browser : (Placed(req[a]) /\ Sound(req[a]))'
  <2>1. \A a \in Browser : Placed(req[a]) /\ Sound(req[a]) BY DEF IInv
  <2> QED BY <1>2, <1>3, <2>1 DEF Sound, Exists, Active
<1> QED BY <1>4, <1>5, <1>6, <1>7, <1>8 DEF IInv, Tables

----------------------------------------------------------------------------
(* Recovery codes.                                                         *)

\* Nothing a request knows is about the codes.
LEMMA CodesAreApart ==
  ASSUME UNCHANGED <<account, half>>, NEW x, Sound(x) PROVE Sound(x)'
BY DEF Sound, Exists, Active

\* The delete decides who has used a code.
LEMMA ConsumeKeeps == ASSUME IInv, NEW b \in Browser, Consume(b) PROVE IInv'
<1> DEFINE r == req[b]
           u == r.user
           c == r.ask.code
<1>0. /\ TypeOK /\ Tables /\ r \in RequestState /\ r.at = "consume" /\ u \in User /\ c \in Code
      /\ r.sid \in Session /\ UNCHANGED made
  BY RequestFacts DEF Consume, IInv, Placed
<1>1. CASE c \in codes[u]
  <2>0. PICK e : e = [r EXCEPT !.at = "promote"] OBVIOUS
  <2>1. /\ codes' = [codes EXCEPT ![u] = @ \ {c}] /\ uses' = [uses EXCEPT ![c] = @ + 1] /\ Goto(b, e)
        /\ UNCHANGED <<account, session, cookie, half, gap, ended, issued, untidy>>
    BY <1>1, <2>0 DEF Consume
  <2>2. e \in RequestState /\ e.at = "promote" /\ e.user = u /\ e.self = r.self /\ e.sid = r.sid
    BY <1>0, <2>0 DEF RequestState, Stages
  <2>3. Placed(e) BY <1>0, <2>2 DEF Placed, Judging, Edits, OwnEdits, TeamEdits
  <2>4. Sound(e)' BY <1>0, <2>1, <2>2, RequestFacts DEF Sound, Judging
  <2>5. req' = [req EXCEPT ![b] = e] BY <2>1 DEF Goto
  <2>6. \A a \in Browser \ {b} : Sound(req[a])'
    BY <1>0, <2>1, <2>5, CodesAreApart, RequestFacts DEF TypeOK
  <2>7. req' \in [Browser -> RequestState] /\ \A a \in Browser : (Placed(req[a]) /\ Sound(req[a]))'
    BY <2>2, <2>3, <2>4, <2>5, <2>6, OtherRequests
  <2>8. TypeOK' BY <1>0, <2>1, <2>7 DEF TypeOK
  <2>9. HalfIsPending' /\ EndedIsOff' /\ DeactivationEndsSessions'
    BY <1>0, <2>1 DEF Tables, HalfIsPending, EndedIsOff, DeactivationEndsSessions, Exists
  <2>10. \A v \in User : codes'[v] \subseteq codes[v] /\ c \notin codes'[v]
    BY <1>0, <1>1, <2>1 DEF TypeOK, Tables, CodesAreFresh
  <2>11. uses[c] = 0 /\ c \in issued BY <1>0, <1>1 DEF Tables, CodesAreFresh
  <2>12. CodesAreFresh'
    <3>1. \A d \in Code \ {c} : uses'[d] = uses[d] BY <1>0, <2>1 DEF TypeOK
    <3>2. uses'[c] = 1 BY <1>0, <2>1, <2>11 DEF TypeOK
    <3>3. CodeSpentOnce' BY <1>0, <3>1, <3>2 DEF Tables, CodesAreFresh, CodeSpentOnce
    <3>4. \A v \in User : codes'[v] \subseteq issued' /\ \A d \in codes'[v] : uses'[d] = 0
      BY <1>0, <2>1, <2>10, <3>1 DEF Tables, CodesAreFresh, TypeOK
    <3>5. \A d \in Code \ issued' : uses'[d] = 0 BY <1>0, <2>1, <2>11, <3>1 DEF Tables, CodesAreFresh
    <3>6. \A v, w \in User : v # w => codes'[v] \cap codes'[w] = {}
      BY <1>0, <2>10 DEF Tables, CodesAreFresh
    <3> QED BY <3>3, <3>4, <3>5, <3>6 DEF CodesAreFresh
  <2>13. CodesHaveAFactor'
    <3>1. \A x \in Browser : req[x].at = "erase" => req'[x] = req[x] BY <1>0, <2>5 DEF TypeOK
    <3> QED BY <1>0, <2>1, <2>10, <3>1 DEF Tables, CodesHaveAFactor, Exists
  <2> QED BY <2>7, <2>8, <2>9, <2>12, <2>13 DEF IInv, Tables
<1> QED BY <1>0, <1>1, RefuseKeeps DEF Consume

\* Erasing leaves an account without codes.
LEMMA EraseCodesKeeps == ASSUME IInv, NEW b \in Browser, EraseCodes(b) PROVE IInv'
<1> DEFINE r == req[b]
           u == r.user
<1>0. /\ TypeOK /\ Tables /\ r \in RequestState /\ r.at = "erase" /\ u \in User /\ Placed(r) /\ Sound(r)
      /\ UNCHANGED <<account, session, made, ghost>> /\ codes' = [codes EXCEPT ![u] = {}]
  BY RequestFacts DEF EraseCodes, IInv, Placed, Judging
<1>1. /\ cookie' \in [Browser -> Session \cup {None}]
      /\ \E e \in RequestState : req' = [req EXCEPT ![b] = e] /\ Placed(e) /\ Sound(e)'
  <2>1. CASE r.ask.kind \in {"confirm", "regenerate"}
    <3>0. PICK e : e = [r EXCEPT !.at = "print"] OBVIOUS
    <3>1. /\ e \in RequestState /\ e.at = "print" /\ e.user = u /\ e.self = r.self /\ e.sid = r.sid
          /\ e.ask = r.ask /\ e.row = r.row /\ e.stale = r.stale
      BY <1>0, <3>0 DEF RequestState, Stages
    <3>2. req' = [req EXCEPT ![b] = e] /\ UNCHANGED cookie BY <2>1, <3>0 DEF EraseCodes, Goto
    <3>3. Placed(e) BY <1>0, <2>1, <3>1 DEF Placed, Judging, Edits, OwnEdits, TeamEdits
    <3>4. Sound(e) BY <1>0, <3>1 DEF Sound, Judging
    <3>5. Sound(e)' BY <1>0, <3>4, CodesAreApart DEF ghost
    <3> QED BY <1>0, <3>1, <3>2, <3>3, <3>5 DEF TypeOK
  <2>2. CASE r.ask.kind \notin {"confirm", "regenerate"}
    <3>1. Answer(b, r.jar) BY <2>2 DEF EraseCodes
    <3> QED BY <1>0, <3>1, AnswerFacts, IdleFacts DEF RequestState
  <2> QED BY <2>1, <2>2
<1>2. PICK e \in RequestState : req' = [req EXCEPT ![b] = e] /\ Placed(e) /\ Sound(e)'
  BY <1>1
<1>3. \A a \in Browser \ {b} : Sound(req[a])'
  BY <1>0, <1>2, CodesAreApart, RequestFacts DEF TypeOK, ghost
<1>4. req' \in [Browser -> RequestState] /\ \A a \in Browser : (Placed(req[a]) /\ Sound(req[a]))'
  BY <1>2, <1>3, OtherRequests
<1>5. \A v \in User : codes'[v] = IF v = u THEN {} ELSE codes[v] BY <1>0 DEF TypeOK
<1>6. TypeOK' BY <1>0, <1>1, <1>4 DEF TypeOK, ghost
<1>7. HalfIsPending' /\ EndedIsOff' /\ DeactivationEndsSessions'
  BY <1>0 DEF Tables, HalfIsPending, EndedIsOff, DeactivationEndsSessions, Exists, ghost
<1>8. CodesAreFresh' BY <1>0, <1>5 DEF Tables, CodesAreFresh, CodeSpentOnce, ghost
<1>9. CodesHaveAFactor'
  <2>1. \A x \in Browser \ {b} : req'[x] = req[x] BY <1>0, <1>2 DEF TypeOK
  <2> QED BY <1>0, <1>5, <2>1 DEF Tables, CodesHaveAFactor, Exists, ghost
<1> QED BY <1>4, <1>6, <1>7, <1>8, <1>9 DEF IInv, Tables

\* A printed code is new, and its account has a factor or is on record as untidy.
LEMMA InsertCodesKeeps == ASSUME IInv, NEW b \in Browser, InsertCodes(b) PROVE IInv'
<1> DEFINE r == req[b]
           u == r.user
<1>0. /\ TypeOK /\ Tables /\ r \in RequestState /\ r.at = "print" /\ u \in User /\ Placed(r) /\ Sound(r)
      /\ UNCHANGED <<made, account, session, half, gap, ended, uses>>
  BY RequestFacts DEF InsertCodes, IInv, Placed, Judging
<1>1. PICK c \in Code \ issued :
        codes' = [codes EXCEPT ![u] = @ \cup {c}] /\ issued' = issued \cup {c}
  BY DEF InsertCodes
<1>2. untidy' = (IF r.stale THEN untidy \cup {u} ELSE untidy) /\ Answer(b, r.jar) BY DEF InsertCodes
<1>3. cookie' \in [Browser -> Session \cup {None}] /\ req' = [req EXCEPT ![b] = Idle]
  BY <1>0, <1>2, AnswerFacts DEF RequestState
<1>4. \A a \in Browser \ {b} : Sound(req[a])'
  BY <1>0, <1>3, CodesAreApart, RequestFacts DEF TypeOK
<1>5. req' \in [Browser -> RequestState] /\ \A a \in Browser : (Placed(req[a]) /\ Sound(req[a]))'
  BY <1>3, <1>4, IdleFacts, OtherRequests
<1>6. \A v \in User : codes'[v] = IF v = u THEN codes[v] \cup {c} ELSE codes[v] BY <1>0, <1>1 DEF TypeOK
<1>7. TypeOK' BY <1>0, <1>1, <1>2, <1>3, <1>5 DEF TypeOK
<1>8. HalfIsPending' /\ EndedIsOff' /\ DeactivationEndsSessions'
  BY <1>0 DEF Tables, HalfIsPending, EndedIsOff, DeactivationEndsSessions, Exists
<1>9. CodesAreFresh'
  <2>1. uses[c] = 0 /\ \A v \in User : c \notin codes[v] BY <1>0 DEF Tables, CodesAreFresh
  <2> QED BY <1>0, <1>1, <1>6, <2>1 DEF Tables, CodesAreFresh, CodeSpentOnce
<1>10. CodesHaveAFactor'
  <2>1. \A x \in Browser : req[x].at = "erase" => req'[x] = req[x] BY <1>0, <1>3 DEF TypeOK
  <2>2. ~r.stale => Exists(u) /\ MFAEnabled(account[u]) BY <1>0 DEF Sound, Placed, Judging
  <2>3. ASSUME NEW v \in User \ untidy', codes'[v] # {}
        PROVE  \/ Exists(v) /\ MFAEnabled(account[v])
               \/ \E x \in Browser : req'[x].user = v /\ req'[x].at = "erase"
    <3>1. CASE v = u BY <1>2, <2>2, <2>3, <3>1
    <3>2. CASE v # u
      <4>1. v \notin untidy /\ codes[v] # {} BY <1>2, <1>6, <2>3, <3>2
      <4> QED BY <1>0, <2>1, <4>1 DEF Tables, CodesHaveAFactor
    <3> QED BY <3>1, <3>2
  <2> QED BY <1>0, <2>3 DEF CodesHaveAFactor, Exists
<1> QED BY <1>5, <1>7, <1>8, <1>9, <1>10 DEF IInv, Tables

\* A request cut short between the two tables is on record.
LEMMA AbortKeeps == ASSUME IInv, NEW b \in Browser, Abort(b) PROVE IInv'
<1> DEFINE r == req[b]
<1>0. /\ TypeOK /\ Tables /\ r \in RequestState /\ Placed(r)
      /\ UNCHANGED <<rows, made, half, gap, ended, uses, issued>>
  BY RequestFacts DEF Abort, IInv
<1>1. req' = [req EXCEPT ![b] = Idle] /\ cookie' \in {cookie, Jar(b, r)} BY DEF Abort, Goto
<1>2. untidy' = IF r.at \in {"erase", "print"} THEN untidy \cup {r.user} ELSE untidy BY DEF Abort
<1>3. r.at \in {"erase", "print"} => r.user \in User BY <1>0 DEF Placed, Judging
<1>4. cookie' \in [Browser -> Session \cup {None}]
  <2>1. (CASE r.jar = "keep" -> cookie[b] [] r.jar = "clear" -> None [] OTHER -> r.jar) \in Session \cup {None}
    BY <1>0 DEF TypeOK, RequestState
  <2> QED BY <1>0, <1>1, <2>1 DEF TypeOK, Jar
<1>5. \A a \in Browser \ {b} : Sound(req[a])'
  BY <1>0, <1>1, CodesAreApart, RequestFacts DEF TypeOK, rows
<1>6. req' \in [Browser -> RequestState] /\ \A a \in Browser : (Placed(req[a]) /\ Sound(req[a]))'
  BY <1>1, <1>5, IdleFacts, OtherRequests
<1>7. TypeOK' BY <1>0, <1>2, <1>3, <1>4, <1>6 DEF TypeOK, rows
<1>8. HalfIsPending' /\ EndedIsOff' /\ DeactivationEndsSessions'
  BY <1>0 DEF Tables, HalfIsPending, EndedIsOff, DeactivationEndsSessions, Exists, rows
<1>9. CodesAreFresh' BY <1>0 DEF Tables, CodesAreFresh, CodeSpentOnce, rows
<1>10. CodesHaveAFactor'
  <2>1. \A x \in Browser \ {b} : req'[x] = req[x] BY <1>0, <1>1 DEF TypeOK
  <2> QED BY <1>0, <1>2, <2>1 DEF Tables, CodesHaveAFactor, Exists, rows
<1> QED BY <1>6, <1>7, <1>8, <1>9, <1>10 DEF IInv, Tables

----------------------------------------------------------------------------
(* Accounts.                                                               *)

\* An account that was not there changes nothing that is known of the others.
LEMMA InsertRow ==
  ASSUME IInv, NEW b \in Browser, NEW u \in User, ~Exists(u), NEW new \in Row,
         account' = [account EXCEPT ![u] = new],
         NEW e \in RequestState, req' = [req EXCEPT ![b] = e], Placed(e), Sound(e), req[b].at # "erase",
         cookie' \in [Browser -> Session \cup {None}], UNCHANGED <<session, codes, ghost, made>>
  PROVE  IInv'
<1>0. TypeOK /\ Tables BY DEF IInv
<1>1. new # None BY NoneAssumption
<1>2. \A v \in User : account'[v] = IF v = u THEN new ELSE account[v] BY <1>0 DEF TypeOK
<1>3. ASSUME NEW x \in RequestState, Placed(x), Sound(x) PROVE Sound(x)'
  <2>1. x.at \in Judging => x.user \in User /\ x.user # u BY <1>3 DEF Placed, Sound
  <2>2. x.at \in Judging => account'[x.user] = account[x.user] /\ Exists(x.user)'
    BY <1>2, <1>3, <2>1 DEF Sound, Exists
  <2>3. \A v \in Active : v \in Active' BY <1>2 DEF Active, Exists
  <2> QED BY <1>3, <2>2, <2>3 DEF Sound, Judging, ghost
<1>4. \A a \in Browser \ {b} : Sound(req[a])' BY <1>0, <1>3, RequestFacts DEF TypeOK
<1>5. req' \in [Browser -> RequestState] /\ \A a \in Browser : (Placed(req[a]) /\ Sound(req[a]))'
  BY <1>3, <1>4, OtherRequests
<1>6. account' \in [User -> Row \cup {None}] BY <1>0 DEF TypeOK
<1>7. TypeOK' BY <1>0, <1>5, <1>6 DEF TypeOK, ghost
<1>8. EndedIsOff' BY <1>0, <1>1, <1>2 DEF Tables, EndedIsOff, Exists, TypeOK, ghost
<1>9. HalfIsPending' /\ DeactivationEndsSessions' /\ CodesAreFresh'
  BY <1>0 DEF Tables, HalfIsPending, DeactivationEndsSessions, CodesAreFresh, CodeSpentOnce, ghost
<1>10. CodesHaveAFactor'
  <2>1. \A x \in Browser : req[x].at = "erase" => req'[x] = req[x] /\ Exists(req[x].user)
    BY <1>0, RequestFacts DEF TypeOK, Sound, Judging
  <2>2. ASSUME NEW v \in User \ untidy, codes[v] # {}
        PROVE  \/ Exists(v)' /\ MFAEnabled(account'[v])
               \/ \E x \in Browser : req'[x].user = v /\ req'[x].at = "erase"
    <3>1. CASE v = u BY <1>0, <2>1, <2>2, <3>1 DEF Tables, CodesHaveAFactor
    <3>2. CASE v # u BY <1>0, <1>2, <2>1, <2>2, <3>2 DEF Tables, CodesHaveAFactor, Exists
    <3> QED BY <3>1, <3>2
  <2> QED BY <2>2 DEF CodesHaveAFactor, ghost
<1> QED BY <1>5, <1>7, <1>8, <1>9, <1>10 DEF IInv, Tables

\* A new account, from the team page or the first-run form.
LEMMA CreateUserKeeps ==
  ASSUME IInv, NEW b \in Browser, NEW next \in {"answer", "login"}, CreateUser(b, next),
         req[b].at \in {"create", "insert"}, UNCHANGED made
  PROVE  IInv'
<1> DEFINE r == req[b]
           k == r.ask
<1>0. TypeOK /\ r \in RequestState /\ k.name \in Name /\ k.password \in Password
  BY RequestFacts DEF IInv, Placed
<1>1. CASE ValidatePassword(k.password) /\ \A v \in User : Exists(v) => account[v].name # k.name
  <2>1. PICK u \in User : ~Exists(u) /\ account' = [account EXCEPT ![u] = NewRow(k.name, k.password)]
    BY <1>1 DEF CreateUser
  <2>2. NewRow(k.name, k.password) \in Row BY <1>0, LanguageAssumption DEF NewRow, Row
  <2>3. UNCHANGED <<session, codes, ghost>> BY <1>1 DEF CreateUser
  <2>4. CASE next = "answer"
    <3>1. Answer(b, r.jar) BY <1>1, <2>4 DEF CreateUser
    <3>2. cookie' \in [Browser -> Session \cup {None}] /\ req' = [req EXCEPT ![b] = Idle]
      BY <1>0, <3>1, AnswerFacts DEF RequestState
    <3> QED BY <2>1, <2>2, <2>3, <3>2, IdleFacts, InsertRow
  <2>5. CASE next = "login"
    <3>0. PICK e : e = [r EXCEPT !.at = "login"] OBVIOUS
    <3>1. req' = [req EXCEPT ![b] = e] /\ UNCHANGED cookie BY <1>1, <2>5, <3>0 DEF CreateUser, Goto
    <3>2. e \in RequestState /\ e.at = "login" /\ e.self = r.self /\ e.sid = r.sid
      BY <1>0, <3>0 DEF RequestState, Stages, Public
    <3>3. Placed(e) BY <3>2 DEF Placed, Judging, Edits, OwnEdits, TeamEdits
    <3>4. Sound(e) BY <3>2, RequestFacts DEF Sound, Judging
    <3>5. cookie \in [Browser -> Session \cup {None}] BY <1>0 DEF TypeOK
    <3> QED BY <2>1, <2>2, <2>3, <3>1, <3>2, <3>3, <3>4, <3>5, InsertRow
  <2> QED BY <2>4, <2>5
<1>2. CASE ~(ValidatePassword(k.password) /\ \A v \in User : Exists(v) => account[v].name # k.name)
  BY <1>2, RefuseKeeps DEF CreateUser
<1> QED BY <1>1, <1>2

LEMMA CreateKeeps == ASSUME IInv, NEW b \in Browser, CreateAccount(b) \/ FirstRunSetup(b) PROVE IInv'
<1>1. CASE CreateAccount(b) BY <1>1, CreateUserKeeps DEF CreateAccount
<1>2. CASE FirstRunSetup(b) /\ req[b].at = "insert"
  BY <1>2, CreateUserKeeps DEF FirstRunSetup
<1>3. ASSUME req[b].at = "setup", Goto(b, [req[b] EXCEPT !.at = "insert"]),
             UNCHANGED <<rows, cookie, ghost, made>>
      PROVE  IInv'
  <2>0. PICK e : e = [req[b] EXCEPT !.at = "insert"] OBVIOUS
  <2>1. /\ e \in RequestState /\ e.at = "insert" /\ e.ask = req[b].ask /\ e.self = req[b].self
        /\ e.sid = req[b].sid
    BY <2>0, RequestFacts DEF RequestState, Stages
  <2>2. Placed(e) /\ Sound(e)
    BY <1>3, <2>1, RequestFacts DEF Placed, Sound, Judging, Edits, OwnEdits, TeamEdits
  <2> QED BY <1>3, <2>0, <2>1, <2>2, GotoKeeps
<1>4. CASE FirstRunSetup(b) /\ req[b].at = "setup" BY <1>3, <1>4, RefuseKeeps DEF FirstRunSetup
<1> QED BY <1>1, <1>2, <1>4 DEF FirstRunSetup

\* The form is judged on the row as it is.
LEMMA ReadRowKeeps == ASSUME IInv, NEW b \in Browser, ReadRow(b) PROVE IInv'
<1> DEFINE r == req[b]
           u == r.user
<1>0. TypeOK /\ r \in RequestState /\ r.at \in Edits /\ r.ask.kind = r.at /\ UNCHANGED made /\ u \in User
  BY RequestFacts DEF ReadRow, IInv, Placed
<1>1. r.at # "erase" BY <1>0 DEF Edits, OwnEdits, TeamEdits
<1>2. CASE Exists(u) /\ Edit(r, account[u]).allowed
  <2>0. PICK e : e = [r EXCEPT !.row = account[u], !.at = Edit(r, account[u]).then] OBVIOUS
  <2>1. account[u] \in Row BY <1>0, <1>2, RequestFacts DEF Exists
  <2>2. r.ask \in Ask BY <1>0 DEF RequestState, NoAsk, Edits, OwnEdits, TeamEdits
  <2>3. /\ Edit(r, account[u]).then \in {"write", "erase", "count"}
        /\ Edit(r, account[u]).then = "erase" => r.ask.kind = "regenerate"
        /\ Edit(r, account[u]).then = "count" => r.ask.kind = "active" /\ ~r.ask.new
        /\ Edit(r, account[u]).then = "write" /\ r.ask.kind = "active" => r.ask.new
        /\ Edit(r, account[u]).allowed /\ r.ask.kind = "regenerate" => MFAEnabled(account[u])
    BY <1>0, <2>1, <2>2, EditFacts
  <2>4. /\ e \in RequestState /\ e.at = Edit(r, account[u]).then /\ e.row = account[u]
        /\ e.user = u /\ e.ask = r.ask /\ e.self = r.self /\ e.sid = r.sid
    BY <1>0, <2>0, <2>1, <2>3 DEF RequestState, Stages
  <2>5. Placed(e) BY <1>0, <2>1, <2>3, <2>4 DEF Placed, Judging, Edits, OwnEdits, TeamEdits
  <2>6. Sound(e) BY <1>2, <2>3, <2>4, RequestFacts DEF Sound, Judging
  <2>7. Goto(b, e) /\ UNCHANGED <<rows, cookie, ghost>> BY <1>2, <2>0 DEF ReadRow
  <2> QED BY <1>0, <1>1, <2>4, <2>5, <2>6, <2>7, GotoKeeps
<1>3. CASE ~(Exists(u) /\ Edit(r, account[u]).allowed)
  BY <1>0, <1>1, <1>3, RefuseKeeps DEF ReadRow
<1> QED BY <1>2, <1>3

\* More than one active account means one besides any given account.
LEMMA AnotherActive == ASSUME NEW u, ~(Cardinality(Active) <= 1) PROVE \E v \in Active : v # u
<1> SUFFICES ASSUME \A v \in Active : v = u PROVE Cardinality(Active) <= 1 OBVIOUS
<1>1. Active = {} \/ Active = {u} OBVIOUS
<1>2. Cardinality({}) = 0 /\ Cardinality({u}) = 1 BY FS_EmptySet, FS_Singleton
<1> QED BY <1>1, <1>2

\* Switching off an account goes on only if another is active.
LEMMA ActiveCountKeeps == ASSUME IInv, NEW b \in Browser, ActiveCount(b) PROVE IInv'
<1> DEFINE r == req[b]
<1>0. r \in RequestState /\ r.at = "count" /\ Placed(r) /\ Sound(r) /\ UNCHANGED made
  BY RequestFacts DEF ActiveCount
<1>1. CASE ~(Cardinality(Active) <= 1)
  <2>0. PICK e : e = [r EXCEPT !.at = "write"] OBVIOUS
  <2>1. /\ e \in RequestState /\ e.at = "write" /\ e.row = r.row /\ e.stale = r.stale
        /\ e.user = r.user /\ e.ask = r.ask /\ e.self = r.self /\ e.sid = r.sid
    BY <1>0, <2>0 DEF RequestState, Stages
  <2>2. Placed(e) BY <1>0, <2>1 DEF Placed, Judging, Edits, OwnEdits, TeamEdits
  <2>3. \E v \in Active : v # e.user BY <1>1, AnotherActive
  <2>4. Sound(e) BY <1>0, <2>1, <2>3 DEF Sound, Judging
  <2>5. Goto(b, e) /\ UNCHANGED <<rows, cookie, ghost>> BY <1>1, <2>0 DEF ActiveCount
  <2> QED BY <1>0, <2>1, <2>2, <2>4, <2>5, GotoKeeps
<1>2. CASE Cardinality(Active) <= 1 BY <1>0, <1>2, RefuseKeeps DEF ActiveCount
<1> QED BY <1>1, <1>2

\* What a write does to the account and to the requests: the writer ends or goes on to the
\* codes or the sessions; a request that has judged the row, or the active accounts, is stale.
LEMMA UpdateRowFacts ==
  ASSUME IInv, NEW b \in Browser, UpdateRow(b), ~NameTaken(Edit(req[b], req[b].row).row.name, req[b].user)
  PROVE  LET r == req[b]
             u == r.user
             new == Edit(r, r.row).row
             more == Edit(r, r.row).after
         IN  /\ u \in User /\ Exists(u) /\ r.row \in Row /\ new \in Row /\ r.ask \in Ask /\ r.ask.kind \in Edits
             /\ account' = [account EXCEPT ![u] = new]
             /\ req'[b] = IF more = "idle" THEN Idle ELSE [r EXCEPT !.at = more]
             /\ \A a \in Browser \ {b} :
                  \/ req'[a] = [req[a] EXCEPT !.stale = TRUE]
                  \/ /\ req'[a] = req[a]
                     /\ req[a].row = None \/ (req[a].user # u /\ req[a].ask.kind # "active")
             /\ DOMAIN req' = Browser /\ req' = [a \in Browser |-> req'[a]]
             /\ ended' = IF new.active THEN ended \ {u} ELSE ended
             /\ untidy' = IF r.stale THEN untidy \cup {u} ELSE untidy
             /\ UNCHANGED <<session, codes, half, gap, uses, issued, made>>
             /\ cookie' = IF more = "idle" THEN Jar(b, r) ELSE cookie
<1> DEFINE r == req[b]
           u == r.user
           new == Edit(r, r.row).row
           more == Edit(r, r.row).after
<1>0. req \in [Browser -> RequestState] /\ r \in RequestState /\ r.at = "write" /\ Placed(r) /\ Sound(r)
  BY RequestFacts DEF UpdateRow, IInv, TypeOK
<1>1. u \in User /\ Exists(u) /\ r.row \in Row /\ r.ask.kind \in Edits BY <1>0 DEF Placed, Sound, Judging
<1>2. r.ask \in Ask BY <1>0, <1>1 DEF RequestState, NoAsk, Edits, OwnEdits, TeamEdits
<1>3. new \in Row BY <1>1, <1>2, EditFacts
<1>4. /\ account' = [account EXCEPT ![u] = new]
      /\ req' = [Overtaken(b, u) EXCEPT ![b] = IF more = "idle" THEN Idle ELSE [r EXCEPT !.at = more]]
      /\ ended' = IF new.active THEN ended \ {u} ELSE ended
      /\ untidy' = IF r.stale THEN untidy \cup {u} ELSE untidy
      /\ UNCHANGED <<session, codes, half, gap, uses, issued, made>>
      /\ cookie' = IF more = "idle" THEN Jar(b, r) ELSE cookie
  BY DEF UpdateRow
<1> HIDE DEF new, more
<1>5. req'[b] = (IF more = "idle" THEN Idle ELSE [r EXCEPT !.at = more])
      /\ DOMAIN req' = Browser /\ req' = [a \in Browser |-> req'[a]]
  BY <1>4 DEF Overtaken
<1>6. \A a \in Browser \ {b} :
        req'[a] = IF req[a].row # None /\ (req[a].user = u \/ req[a].ask.kind = "active")
                  THEN [req[a] EXCEPT !.stale = TRUE] ELSE req[a]
  BY <1>4 DEF Overtaken
<1> QED BY <1>1, <1>2, <1>3, <1>4, <1>5, <1>6 DEF new, more

\* The update keeps the invariant: what it takes away from another request's knowledge, it
\* takes from one that is stale by then.
LEMMA UpdateRowKeeps == ASSUME IInv, NEW b \in Browser, UpdateRow(b) PROVE IInv'
<1> DEFINE r == req[b]
           u == r.user
           new == Edit(r, r.row).row
           more == Edit(r, r.row).after
<1>0. TypeOK /\ Tables /\ r \in RequestState /\ r.at = "write" /\ Placed(r) /\ Sound(r) /\ UNCHANGED made
  BY RequestFacts DEF UpdateRow, IInv
<1>1. CASE NameTaken(new.name, u) BY <1>0, <1>1, RefuseKeeps DEF UpdateRow
<1>2. CASE ~NameTaken(new.name, u)
  <2>1. /\ u \in User /\ Exists(u) /\ r.row \in Row /\ new \in Row /\ r.ask \in Ask /\ r.ask.kind \in Edits
        /\ account' = [account EXCEPT ![u] = new]
        /\ req'[b] = IF more = "idle" THEN Idle ELSE [r EXCEPT !.at = more]
        /\ \A a \in Browser \ {b} :
             \/ req'[a] = [req[a] EXCEPT !.stale = TRUE]
             \/ /\ req'[a] = req[a]
                /\ req[a].row = None \/ (req[a].user # u /\ req[a].ask.kind # "active")
        /\ DOMAIN req' = Browser /\ req' = [a \in Browser |-> req'[a]]
        /\ ended' = IF new.active THEN ended \ {u} ELSE ended
        /\ untidy' = IF r.stale THEN untidy \cup {u} ELSE untidy
        /\ UNCHANGED <<session, codes, half, gap, uses, issued, made>>
        /\ cookie' = IF more = "idle" THEN Jar(b, r) ELSE cookie
    BY <1>2, UpdateRowFacts
  <2>2. /\ more \in {"idle", "erase", "evict"}
        /\ r.ask.kind = "regenerate" => more = "idle"
        /\ r.ask.kind = "confirm" => MFAEnabled(new)
        /\ MFAEnabled(r.row) => MFAEnabled(new) \/ more = "erase"
    BY <2>1, EditFacts
  <2> HIDE DEF new, more
  <2>3. new # None /\ \A v \in User : account'[v] = IF v = u THEN new ELSE account[v]
    BY <1>0, <2>1, NoneAssumption DEF TypeOK
  <2>4. req'[b] \in RequestState /\ Placed(req'[b])
    <3>1. CASE more = "idle" BY <2>1, <3>1, IdleFacts
    <3>2. CASE more # "idle"
      <4>1. req'[b] = [r EXCEPT !.at = more] /\ more \in {"erase", "evict"} BY <2>1, <2>2, <3>2
      <4>2. req'[b] \in RequestState BY <1>0, <4>1 DEF RequestState, Stages
      <4>3. Placed(req'[b])
        BY <1>0, <2>1, <4>1 DEF RequestState, Placed, Judging, Edits, OwnEdits, TeamEdits
      <4> QED BY <4>2, <4>3
    <3> QED BY <3>1, <3>2
  <2>5. Sound(req[b])'
    <3>1. CASE more = "idle" BY <2>1, <3>1, IdleFacts
    <3>2. CASE more # "idle"
      <4>1. req'[b] = [r EXCEPT !.at = more] /\ more \in {"erase", "evict"} BY <2>1, <2>2, <3>2
      <4>2. /\ req'[b].at = more /\ req'[b].user = u /\ req'[b].ask = r.ask
            /\ req'[b].self = r.self /\ req'[b].sid = r.sid
        BY <1>0, <4>1 DEF RequestState
      <4>3. account'[u] = new BY <2>1, <2>3
      <4> QED BY <1>0, <2>1, <2>2, <2>3, <3>2, <4>1, <4>2, <4>3 DEF Sound, Exists
    <3> QED BY <3>1, <3>2
  <2>6. ASSUME NEW a \in Browser \ {b}
        PROVE  /\ req'[a] \in RequestState /\ Placed(req'[a]) /\ Sound(req[a])'
               /\ req'[a].at = req[a].at /\ req'[a].user = req[a].user
    <3>0. req[a] \in RequestState /\ Placed(req[a]) /\ Sound(req[a]) BY RequestFacts
    <3>1. req[a].at \in Judging => account'[req[a].user] # None
      BY <2>3, <3>0 DEF Placed, Sound, Exists, Judging
    <3>2. CASE req'[a] = [req[a] EXCEPT !.stale = TRUE]
      <4>1. /\ req'[a] \in RequestState /\ req'[a].at = req[a].at /\ req'[a].user = req[a].user
            /\ req'[a].ask = req[a].ask /\ req'[a].self = req[a].self /\ req'[a].sid = req[a].sid
            /\ req'[a].row = req[a].row /\ req'[a].stale = TRUE
        BY <3>0, <3>2 DEF RequestState
      <4>2. Placed(req'[a]) BY <3>0, <4>1 DEF Placed
      <4>3. Sound(req[a])' BY <2>1, <3>0, <3>1, <4>1 DEF Sound, Exists
      <4> QED BY <4>1, <4>2, <4>3
    <3>3. CASE req'[a] = req[a] /\ (req[a].row = None \/ (req[a].user # u /\ req[a].ask.kind # "active"))
      <4>1. req[a].at \in Judging => req[a].user \in User /\ req[a].user # u /\ req[a].ask.kind # "active"
        BY <3>0, <3>3, NoneAssumption DEF Placed
      <4>2. req[a].at \in Judging => account'[req[a].user] = account[req[a].user] BY <2>3, <4>1
      <4>3. Sound(req[a])' BY <2>1, <3>0, <3>1, <3>3, <4>1, <4>2 DEF Sound, Exists, Judging
      <4> QED BY <3>0, <3>3, <4>3
    <3> QED BY <2>1, <3>2, <3>3
  <2>7. \A a \in Browser : (Placed(req[a]) /\ Sound(req[a]))' BY <2>4, <2>5, <2>6
  <2>8. req' \in [Browser -> RequestState] BY <2>1, <2>4, <2>6
  <2>9. cookie' \in [Browser -> Session \cup {None}]
    <3>1. (CASE r.jar = "keep" -> cookie[b] [] r.jar = "clear" -> None [] OTHER -> r.jar) \in Session \cup {None}
      BY <1>0 DEF TypeOK, RequestState
    <3>2. Jar(b, r) \in [Browser -> Session \cup {None}] BY <1>0, <3>1 DEF TypeOK, Jar
    <3> QED BY <1>0, <2>1, <3>2 DEF TypeOK
  <2>10. account' \in [User -> Row \cup {None}] BY <1>0, <2>1 DEF TypeOK
  <2>11. TypeOK' BY <1>0, <2>1, <2>8, <2>9, <2>10 DEF TypeOK
  <2>12. EndedIsOff' BY <1>0, <2>1, <2>3 DEF Tables, EndedIsOff, Exists, TypeOK
  <2>13. HalfIsPending' /\ DeactivationEndsSessions' /\ CodesAreFresh'
    BY <1>0, <2>1 DEF Tables, HalfIsPending, DeactivationEndsSessions, CodesAreFresh, CodeSpentOnce
  <2>14. CodesHaveAFactor'
    <3>1. \A x \in Browser : req[x].at = "erase" => req'[x].at = "erase" /\ req'[x].user = req[x].user
      BY <1>0, <2>6
    <3>2. ASSUME NEW v \in User \ untidy', codes[v] # {}
          PROVE  \/ Exists(v)' /\ MFAEnabled(account'[v])
                 \/ \E x \in Browser : req'[x].user = v /\ req'[x].at = "erase"
      <4>1. CASE v # u
        <5>1. v \notin untidy /\ account'[v] = account[v] BY <2>1, <2>3, <3>2, <4>1
        <5> QED BY <1>0, <3>1, <3>2, <5>1 DEF Tables, CodesHaveAFactor, Exists
      <4>2. CASE v = u
        <5>1. v \notin untidy /\ ~r.stale BY <2>1, <3>2, <4>2
        <5>2. r.row = account[u] BY <1>0, <5>1 DEF Sound
        <5>3. CASE MFAEnabled(account[u])
          <6>1. CASE MFAEnabled(new) BY <2>3, <4>2, <6>1 DEF Exists
          <6>2. CASE more = "erase"
            <7>1. req'[b].at = "erase" /\ req'[b].user = u BY <1>0, <2>1, <6>2 DEF RequestState
            <7> QED BY <4>2, <7>1
          <6> QED BY <2>2, <5>2, <5>3, <6>1, <6>2
        <5>4. CASE ~MFAEnabled(account[u])
          BY <1>0, <3>1, <3>2, <4>2, <5>1, <5>4 DEF Tables, CodesHaveAFactor
        <5> QED BY <5>3, <5>4
      <4> QED BY <4>1, <4>2
    <3> QED BY <2>1, <3>2 DEF CodesHaveAFactor
  <2> QED BY <2>7, <2>11, <2>12, <2>13, <2>14 DEF IInv, Tables
<1> QED BY <1>1, <1>2

\* A deactivation ends by deleting every session of the account.
LEMMA EndSessionsKeeps == ASSUME IInv, NEW b \in Browser, EndSessions(b) PROVE IInv'
<1> DEFINE r == req[b]
           u == r.user
           old == {s \in Session : session[s] # None /\ session[s].user = u}
<1>0. /\ TypeOK /\ Tables /\ r \in RequestState /\ r.at = "evict" /\ u \in User /\ Exists(u)
      /\ UNCHANGED <<account, codes, made, uses, issued, untidy>>
      /\ ended' = IF account[u].active THEN ended ELSE ended \cup {u}
  BY RequestFacts DEF EndSessions, IInv, Placed, Sound, Judging
<1>1. cookie' \in [Browser -> Session \cup {None}] /\ req' = [req EXCEPT ![b] = Idle]
  BY <1>0, AnswerFacts DEF EndSessions, RequestState
<1>2. /\ half' = half \ old /\ gap' = gap \ old
      /\ session' = [s \in Session |-> IF s \in old THEN None ELSE session[s]]
  BY DEF EndSessions, Delete
<1>3. \A a \in Browser \ {b} : Sound(req[a])'
  <2>1. \A a \in Browser \ {b} : req'[a] = req[a] /\ Sound(req[a]) BY <1>0, <1>1, RequestFacts DEF TypeOK
  <2> QED BY <1>0, <1>2, <2>1 DEF Sound, Exists, Active
<1>4. req' \in [Browser -> RequestState] /\ \A a \in Browser : (Placed(req[a]) /\ Sound(req[a]))'
  BY <1>1, <1>3, IdleFacts, OtherRequests
<1>5. TypeOK' BY <1>0, <1>1, <1>2, <1>4 DEF TypeOK
<1>6. HalfIsPending' BY <1>0, <1>2 DEF Tables, HalfIsPending, TypeOK
<1>7. EndedIsOff' BY <1>0 DEF Tables, EndedIsOff, Exists
<1>8. DeactivationEndsSessions' BY <1>0, <1>2 DEF Tables, DeactivationEndsSessions
<1>9. CodesAreFresh' BY <1>0 DEF Tables, CodesAreFresh, CodeSpentOnce
<1>10. CodesHaveAFactor'
  <2>1. \A x \in Browser : req[x].at = "erase" => req'[x] = req[x] BY <1>0, <1>1 DEF TypeOK
  <2> QED BY <1>0, <2>1 DEF Tables, CodesHaveAFactor, Exists
<1> QED BY <1>4, <1>5, <1>6, <1>7, <1>8, <1>9, <1>10 DEF IInv, Tables

----------------------------------------------------------------------------
(* Every reachable state.                                                  *)

\* The tables the program starts with.
LEMMA InitKeeps == Init => IInv
<1> SUFFICES ASSUME Init PROVE IInv OBVIOUS
<1>1. PICK start \in Start :
        LET Holder(b) == start.holder[b]
            Protected == {b \in Browser : Holder(b) # None /\ MFAEnabled(start.account[Holder(b)])}
        IN
        /\ account = start.account
        /\ codes = start.codes
        /\ issued = UNION {codes[u] : u \in User}
        /\ cookie \in {c \in [Browser -> Session \cup {None}] :
             /\ \A b \in Browser : (c[b] = None) <=> (Holder(b) = None)
             /\ \A a, b \in Browser : a # b /\ c[a] = c[b] => c[a] = None}
        /\ half \in SUBSET {cookie[b] : b \in Protected}
        /\ session = [s \in Session |->
             IF \E b \in Browser : cookie[b] = s
             THEN [user |-> Holder(CHOOSE b \in Browser : cookie[b] = s),
                   pending |-> s \in half, expired |-> FALSE]
             ELSE None]
        /\ req = [b \in Browser |-> Idle]
        /\ made = 0
        /\ gap = {} /\ ended = {}
        /\ untidy = {u \in User : codes[u] # {} /\ (Exists(u) => ~MFAEnabled(account[u]))}
        /\ uses = [c \in Code |-> 0]
  BY DEF Init
<1>2. /\ start.account \in [User -> Row \cup {None}] /\ start.codes \in [User -> SUBSET Code]
      /\ start.holder \in [Browser -> User \cup {None}]
      /\ \A u, v \in User : u # v => start.codes[u] \cap start.codes[v] = {}
  BY StartAssumption
<1>3. half \subseteq {cookie[b] : b \in {x \in Browser : start.holder[x] # None}} BY <1>1
<1>4. half \subseteq Session BY <1>1, <1>3
<1>5. ASSUME NEW s \in Session
      PROVE  /\ session[s] \in SessionRow \cup {None}
             /\ s \in half => session[s] # None /\ session[s].pending
  <2>1. CASE \E b \in Browser : cookie[b] = s
    <3>0. PICK h : h = CHOOSE b \in Browser : cookie[b] = s OBVIOUS
    <3>1. h \in Browser /\ cookie[h] = s BY <2>1, <3>0
    <3>2. s # None BY NoneAssumption
    <3>3. start.holder[h] \in User BY <1>1, <1>2, <3>1, <3>2
    <3>4. PICK row : row = [user |-> start.holder[h], pending |-> s \in half, expired |-> FALSE] OBVIOUS
    <3>5. (s \in half) \in BOOLEAN OBVIOUS
    <3>6. row \in SessionRow /\ (s \in half => row.pending) BY <3>3, <3>4, <3>5 DEF SessionRow
    <3>7. session[s] = row BY <1>1, <2>1, <3>0, <3>4
    <3> QED BY <3>6, <3>7, NoneAssumption
  <2>2. CASE ~\E b \in Browser : cookie[b] = s BY <1>1, <1>3, <2>2
  <2> QED BY <2>1, <2>2
<1>6. session \in [Session -> SessionRow \cup {None}] BY <1>1, <1>5
<1>7. \A b \in Browser : req[b] = Idle BY <1>1
<1>8. issued \subseteq Code BY <1>1, <1>2
<1>9. TypeOK
  <2>1. 0 \in 0 .. MaxRequests BY BoundAssumption
  <2>2. req \in [Browser -> RequestState] BY <1>1, IdleFacts
  <2> QED BY <1>1, <1>2, <1>4, <1>6, <1>8, <2>1, <2>2 DEF TypeOK
<1>10. HalfIsPending BY <1>4, <1>5 DEF HalfIsPending
<1>11. EndedIsOff /\ DeactivationEndsSessions BY <1>1 DEF EndedIsOff, DeactivationEndsSessions
<1>12. CodesAreFresh
  <2>1. \A u \in User : codes[u] \subseteq issued BY <1>1
  <2> QED BY <1>1, <1>2, <2>1 DEF CodesAreFresh, CodeSpentOnce
<1>13. CodesHaveAFactor BY <1>1 DEF CodesHaveAFactor
<1>14. \A b \in Browser : Placed(req[b]) /\ Sound(req[b]) BY <1>7, IdleFacts
<1> QED BY <1>9, <1>10, <1>11, <1>12, <1>13, <1>14 DEF IInv, Tables

LEMMA NextKeeps == IInv /\ [Next]_vars => IInv'
<1> SUFFICES ASSUME IInv, [Next]_vars PROVE IInv' OBVIOUS
<1>1. CASE UNCHANGED vars
  BY <1>1 DEF vars, IInv, TypeOK, Tables, HalfIsPending, EndedIsOff, DeactivationEndsSessions,
              CodesAreFresh, CodeSpentOnce, CodesHaveAFactor, Placed, Sound, Exists, Active
<1>2. ASSUME NEW b \in Browser, Handle(b) PROVE IInv'
  BY <1>2, LoginKeeps, NewSessionKeeps, VerifyMFAKeeps, CheckFactorKeeps, ConsumeKeeps, PromoteKeeps,
     LogoutKeeps, CreateKeeps, ReadRowKeeps, ActiveCountKeeps, UpdateRowKeeps, EraseCodesKeeps,
     InsertCodesKeeps, EndSessionsKeeps DEF Handle
<1> QED BY <1>1, <1>2, ArriveKeeps, AuthSessionKeeps, AuthUserKeeps, AbortKeeps, ExpireKeeps,
           PurgeKeeps DEF Next

LEMMA Reachable == Spec => []IInv
BY InitKeeps, NextKeeps, PTL DEF Spec

\* Whatever the browsers submit, every column, cookie and request in progress holds one of
\* its values.
THEOREM AccountsTyped == Spec => []TypeOK
<1>1. IInv => TypeOK BY DEF IInv
<1> QED BY <1>1, Reachable, PTL

\* A recovery code is accepted once at most, however many sign-ins submit it at once and
\* wherever they are cut short: the delete in Consume is the check.
THEOREM CodesWorkOnce == Spec => []CodeSpentOnce
<1>1. IInv => CodeSpentOnce BY DEF IInv, Tables, CodesAreFresh
<1> QED BY <1>1, Reachable, PTL

\* No request ever acts for an account with a session that still owes its second factor.
THEOREM HalfOpenIsPowerless == Spec => []HalfSignedInDoesNothing
<1>1. IInv => HalfSignedInDoesNothing BY DEF IInv, Sound, HalfSignedInDoesNothing
<1> QED BY <1>1, Reachable, PTL

\* After a deactivation has ended, what sessions the account has were issued by a login that
\* overlapped with it.
THEOREM DeactivationIsFinal == Spec => []DeactivationEndsSessions
<1>1. IInv => DeactivationEndsSessions BY DEF IInv, Tables
<1> QED BY <1>1, Reachable, PTL

\* Codes are stored for an account with a second factor only, unless a change of the factor
\* was cut short between its two tables, met another, or is about to erase them.
THEOREM CodesFollowTheFactor == Spec => []CodesGoWithTheFactor
<1>1. IInv => CodesGoWithTheFactor BY DEF IInv, Tables, CodesHaveAFactor, CodesGoWithTheFactor
<1> QED BY <1>1, Reachable, PTL

----------------------------------------------------------------------------
(* What a step may never do.                                               *)

\* A step of one request moves no other, changes an account only to create it or to write a
\* form back, and makes its own request act for an account only in the Auth middleware.
LEMMA StepOfOne ==
  ASSUME IInv, NEW b \in Browser,
         Arrive(b) \/ AuthSession(b) \/ AuthUser(b) \/ Handle(b) \/ Abort(b)
  PROVE  /\ \A a \in Browser \ {b} : req'[a].at = req[a].at /\ req'[a].self = req[a].self
         /\ req'[b].self \in {None, req[b].self} \/ AuthUser(b)
         /\ account' # account => UpdateRow(b) \/ CreateAccount(b) \/ FirstRunSetup(b)
         /\ req[b].at = "write" => UpdateRow(b) \/ Abort(b)
<1> DEFINE Goal == /\ \A a \in Browser \ {b} : req'[a].at = req[a].at /\ req'[a].self = req[a].self
                   /\ req'[b].self \in {None, req[b].self} \/ AuthUser(b)
                   /\ account' # account => UpdateRow(b) \/ CreateAccount(b) \/ FirstRunSetup(b)
                   /\ req[b].at = "write" => UpdateRow(b) \/ Abort(b)
<1>0. TypeOK /\ req \in [Browser -> RequestState] /\ req[b] \in RequestState /\ Placed(req[b]) /\ Sound(req[b])
  BY RequestFacts DEF IInv, TypeOK
<1>1. ASSUME NEW e, req' = [req EXCEPT ![b] = e]
      PROVE  req'[b] = e /\ \A a \in Browser \ {b} : req'[a] = req[a]
  BY <1>0, <1>1
<1>2. \A p : [req[b] EXCEPT !.at = p].self = req[b].self BY <1>0 DEF RequestState
<1>3. ASSUME NEW jar \in Session \cup {"keep", "clear", "as it is"}, Answer(b, jar)
      PROVE  req'[b].self = None /\ \A a \in Browser \ {b} : req'[a] = req[a]
  <2>1. req' = [req EXCEPT ![b] = Idle] BY <1>0, <1>3, AnswerFacts
  <2> QED BY <1>1, <2>1 DEF Idle
<1>4. ASSUME Refuse(b)
      PROVE  account' = account /\ req'[b].self = None /\ \A a \in Browser \ {b} : req'[a] = req[a]
  BY <1>0, <1>3, <1>4 DEF Refuse, rows, RequestState
<1>5. CASE Arrive(b) BY <1>0, <1>5 DEF Arrive, Goto, Idle, rows
<1>6. CASE AuthSession(b)
  <2> DEFINE r == req[b]
  <2>1. ASSUME NEW q \in RequestState, RequireAuth(b, q), q.self = r.self, q.sid = r.sid
        PROVE  req'[b].self \in {None, r.self} /\ \A a \in Browser \ {b} : req'[a] = req[a]
    <3>1. q.self # None => q.sid \notin half BY <1>0, <2>1 DEF Sound
    <3>2. PICK e \in RequestState : req' = [req EXCEPT ![b] = e] /\ e.self \in {None, q.self}
      BY <1>0, <2>1, <3>1, RequireAuthFacts DEF RequestState
    <3> QED BY <1>1, <2>1, <3>2
  <2>2. LET c == [r EXCEPT !.jar = "clear"] IN c \in RequestState /\ c.self = r.self /\ c.sid = r.sid
    BY <1>0 DEF RequestState
  <2>3. CASE Goto(b, [r EXCEPT !.at = "user", !.user = session[r.sid].user])
    BY <1>0, <1>6, <2>3 DEF Goto, AuthSession, RequestState
  <2> QED BY <1>0, <1>6, <2>1, <2>2, <2>3 DEF AuthSession
<1>7. CASE AuthUser(b)
  <2> DEFINE r == req[b]
  <2>0. r.user \in User /\ r.sid \notin half BY <1>0, <1>7 DEF AuthUser, Placed, Sound
  <2>1. PICK q \in RequestState : RequireAuth(b, q) /\ q.sid = r.sid
    <3>1. LET i == [r EXCEPT !.self = r.user]
              o == [r EXCEPT !.jar = "clear"]
          IN  i \in RequestState /\ i.sid = r.sid /\ o \in RequestState /\ o.sid = r.sid
      BY <1>0, <2>0 DEF RequestState
    <3> QED BY <1>7, <3>1 DEF AuthUser
  <2>2. PICK e \in RequestState : req' = [req EXCEPT ![b] = e]
    BY <1>0, <2>0, <2>1, RequireAuthFacts DEF RequestState
  <2> QED BY <1>1, <1>7, <2>2 DEF AuthUser
<1>8. CASE Abort(b) BY <1>0, <1>8 DEF Abort, Goto, Idle, rows
<1>9. CASE Login(b)
  <2>1. ASSUME NEW u \in User, Goto(b, [req[b] EXCEPT !.at = "issue", !.user = u, !.row = account[u]]),
               UNCHANGED rows
        PROVE  Goal
    BY <1>0, <1>9, <2>1 DEF Login, Goto, RequestState, rows
  <2>2. CASE Refuse(b) BY <1>4, <1>9, <2>2 DEF Login
  <2> QED BY <1>9, <2>1, <2>2 DEF Login, rows
<1>10. CASE NewSession(b)
  <2>1. PICK s \in Session : Answer(b, s) BY <1>10 DEF NewSession, FreshSession
  <2> QED BY <1>3, <1>10, <2>1 DEF NewSession
<1>11. CASE VerifyMFA(b)
  <2>1. ASSUME Presented(req[b]) # None PROVE req[b].sid \in Session
    BY <1>0, <2>1 DEF Presented, RequestState
  <2>2. ASSUME Goto(b, [req[b] EXCEPT !.at = "factor", !.user = session[req[b].sid].user]) PROVE Goal
    BY <1>0, <1>11, <2>2 DEF Goto, RequestState, VerifyMFA
  <2>3. ASSUME NEW jar \in Session \cup {"clear"}, Answer(b, jar) PROVE Goal
    BY <1>3, <1>11, <2>3 DEF VerifyMFA
  <2> QED BY <1>11, <2>1, <2>2, <2>3 DEF VerifyMFA
<1>12. CASE CheckFactor(b) BY <1>0, <1>4, <1>12 DEF CheckFactor, Goto, RequestState, rows
<1>13. CASE ListHashes(b) BY <1>0, <1>4, <1>13 DEF ListHashes, Goto, RequestState, rows
<1>14. CASE Consume(b) BY <1>0, <1>4, <1>14 DEF Consume, Goto, RequestState
<1>15. CASE Promote(b)
  <2>1. req[b].sid \in Session BY <1>0, <1>15 DEF Promote, Placed
  <2> QED BY <1>3, <1>4, <1>15, <2>1 DEF Promote
<1>16. CASE MFAPage(b) BY <1>4, <1>16 DEF MFAPage
<1>17. CASE Logout(b) BY <1>3, <1>17 DEF Logout
<1>18. CASE CreateAccount(b) \/ FirstRunSetup(b)
  <2>1. CASE Refuse(b) BY <1>4, <1>18, <2>1 DEF CreateAccount, FirstRunSetup
  <2>2. CASE Answer(b, req[b].jar) BY <1>0, <1>3, <1>18, <2>2 DEF CreateAccount, FirstRunSetup, RequestState
  <2>3. ASSUME NEW p, Goto(b, [req[b] EXCEPT !.at = p]) PROVE Goal
    BY <1>0, <1>18, <2>3 DEF CreateAccount, FirstRunSetup, Goto, RequestState
  <2> QED BY <1>18, <2>1, <2>2, <2>3 DEF CreateAccount, FirstRunSetup, CreateUser
<1>19. CASE ReadRow(b)
  <2>1. req[b].at # "write" BY <1>19 DEF ReadRow, Edits, OwnEdits, TeamEdits
  <2>2. CASE Refuse(b) BY <1>4, <2>1, <2>2
  <2>3. ASSUME NEW p, NEW row, Goto(b, [req[b] EXCEPT !.row = row, !.at = p]), UNCHANGED rows PROVE Goal
    BY <1>0, <2>1, <2>3 DEF Goto, RequestState, rows
  <2> QED BY <1>19, <2>2, <2>3 DEF ReadRow
<1>20. CASE ActiveCount(b) BY <1>0, <1>4, <1>20 DEF ActiveCount, Goto, RequestState, rows
<1>21. CASE UpdateRow(b)
  <2>1. CASE NameTaken(Edit(req[b], req[b].row).row.name, req[b].user)
    BY <1>4, <1>21, <2>1 DEF UpdateRow
  <2>2. CASE ~NameTaken(Edit(req[b], req[b].row).row.name, req[b].user)
    <3>0. PICK p : p = Edit(req[b], req[b].row).after OBVIOUS
    <3>1. /\ req'[b] = IF p = "idle" THEN Idle ELSE [req[b] EXCEPT !.at = p]
          /\ \A a \in Browser \ {b} : req'[a] \in {req[a], [req[a] EXCEPT !.stale = TRUE]}
      BY <2>2, <1>21, <3>0, UpdateRowFacts
    <3>2. req'[b].self \in {None, req[b].self} BY <1>2, <3>1 DEF Idle
    <3>3. \A a \in Browser \ {b} : req'[a].at = req[a].at /\ req'[a].self = req[a].self
      BY <1>0, <3>1 DEF RequestState
    <3> QED BY <1>21, <3>2, <3>3
  <2> QED BY <2>1, <2>2
<1>22. CASE EraseCodes(b)
  <2>1. CASE Answer(b, req[b].jar) BY <1>0, <1>3, <1>22, <2>1 DEF EraseCodes, RequestState
  <2>2. CASE Goto(b, [req[b] EXCEPT !.at = "print"]) BY <1>0, <1>22, <2>2 DEF EraseCodes, Goto, RequestState
  <2> QED BY <1>22, <2>1, <2>2 DEF EraseCodes
<1>23. CASE InsertCodes(b) \/ EndSessions(b)
  BY <1>0, <1>3, <1>23 DEF InsertCodes, EndSessions, RequestState
<1> QED BY <1>5, <1>6, <1>7, <1>8, <1>9, <1>10, <1>11, <1>12, <1>13, <1>14, <1>15, <1>16, <1>17,
           <1>18, <1>19, <1>20, <1>21, <1>22, <1>23 DEF Handle

\* The steps of time move no request and change no account.
LEMMA TimeMovesNobody ==
  ASSUME (\E s \in Session : Expire(s)) \/ PurgeExpiredSessions PROVE UNCHANGED <<req, account>>
BY DEF Expire, PurgeExpiredSessions

\* The Auth middleware lets a request act only for an account that is on.
LEMMA LetInIsOn ==
  ASSUME IInv, NEW b \in Browser, AuthUser(b) PROVE req'[b].self \in {None, req[b].self} \/ req'[b].self \notin ended
<1> DEFINE r == req[b]
<1>0. TypeOK /\ r \in RequestState /\ r.user \in User /\ r.sid \notin half /\ EndedIsOff
  BY RequestFacts DEF AuthUser, Placed, Sound, IInv, Tables
<1>1. \E q \in RequestState : /\ RequireAuth(b, q) /\ q.sid = r.sid
                              /\ q.self \in {None, r.self} \/ (q.self = r.user /\ account[r.user].active)
  <2>1. LET i == [r EXCEPT !.self = r.user]
            o == [r EXCEPT !.jar = "clear"]
        IN  /\ i \in RequestState /\ i.sid = r.sid /\ i.self = r.user
            /\ o \in RequestState /\ o.sid = r.sid /\ o.self = r.self
    BY <1>0 DEF RequestState
  <2> QED BY <2>1 DEF AuthUser
<1>2. PICK q \in RequestState : /\ RequireAuth(b, q) /\ q.sid = r.sid
                                /\ q.self \in {None, r.self} \/ (q.self = r.user /\ account[r.user].active)
  BY <1>1
<1>3. PICK e \in RequestState : req' = [req EXCEPT ![b] = e] /\ e.self \in {None, q.self}
  BY <1>0, <1>2, RequireAuthFacts DEF RequestState
<1>4. req'[b] = e BY <1>0, <1>3 DEF TypeOK
<1>5. account[r.user].active => r.user \notin ended BY <1>0 DEF EndedIsOff
<1> QED BY <1>2, <1>3, <1>4, <1>5

\* Nobody is let in for an account whose deactivation has ended, with whatever session the
\* browser holds: the account is read after the session, on every request.
THEOREM SwitchedOffIsOut == Spec => SwitchedOffStaysOut
<1>1. ASSUME IInv, Next, NEW b \in Browser, req[b].self = None, req'[b].self # None
      PROVE  req'[b].self \notin ended
  <2>1. CASE \E a \in Browser : Arrive(a) \/ AuthSession(a) \/ AuthUser(a) \/ Handle(a) \/ Abort(a)
    <3>1. PICK a \in Browser : Arrive(a) \/ AuthSession(a) \/ AuthUser(a) \/ Handle(a) \/ Abort(a)
      BY <2>1
    <3>2. AuthUser(b) BY <1>1, <3>1, StepOfOne
    <3> QED BY <1>1, <3>2, LetInIsOn
  <2>2. CASE (\E s \in Session : Expire(s)) \/ PurgeExpiredSessions BY <1>1, <2>2, TimeMovesNobody
  <2> QED BY <1>1, <2>1, <2>2 DEF Next
<1>2. IInv /\ [Next]_vars =>
        [\A b \in Browser : req[b].self = None /\ req'[b].self # None => req'[b].self \notin ended]_vars
  BY <1>1
<1> QED BY <1>2, Reachable, PTL DEF Spec, SwitchedOffStaysOut

\* A form that nobody overtook changes its own column and no other, although the update
\* writes every column of the copy back.
THEOREM OwnColumnOnly == Spec => OnlyTheColumnAsked
<1>1. ASSUME IInv, Next, NEW b \in Browser, NEW u \in User,
             req[b].at = "write", ~req[b].stale, req[b].user = u, account'[u] # account[u], req'[b].at # "write",
             NEW c \in DOMAIN account[u] \ Columns(req[b].ask.kind)
      PROVE  account'[u][c] = account[u][c]
  <2>1. ~((\E s \in Session : Expire(s)) \/ PurgeExpiredSessions) BY <1>1, TimeMovesNobody
  <2>2. PICK a \in Browser : Arrive(a) \/ AuthSession(a) \/ AuthUser(a) \/ Handle(a) \/ Abort(a)
    BY <1>1, <2>1 DEF Next
  <2>3. a = b BY <1>1, <2>2, StepOfOne
  <2>4. UpdateRow(b) BY <1>1, <2>2, <2>3, StepOfOne DEF Abort, rows
  <2>5. ~NameTaken(Edit(req[b], req[b].row).row.name, req[b].user)
    BY <1>1, <2>4 DEF UpdateRow, Refuse, rows
  <2>6. /\ req[b].row \in Row /\ req[b].ask \in Ask /\ req[b].ask.kind \in Edits
        /\ account' = [account EXCEPT ![u] = Edit(req[b], req[b].row).row]
    BY <1>1, <2>4, <2>5, UpdateRowFacts
  <2>7. account'[u] = Edit(req[b], req[b].row).row BY <1>1, <2>6 DEF IInv, TypeOK
  <2>8. req[b].row = account[u] BY <1>1, RequestFacts DEF Sound
  <2> QED BY <1>1, <2>6, <2>7, <2>8, EditFacts
<1>2. IInv /\ [Next]_vars =>
        [\A b \in Browser, u \in User :
           req[b].at = "write" /\ ~req[b].stale /\ req[b].user = u /\ account'[u] # account[u]
             /\ req'[b].at # "write"
           => \A c \in DOMAIN account[u] \ Columns(req[b].ask.kind) : account'[u][c] = account[u][c]]_vars
  BY <1>1
<1> QED BY <1>2, Reachable, PTL DEF Spec, OnlyTheColumnAsked

\* The last active account is switched off only by a request that another overtook: whoever
\* counted the active accounts as they still are leaves one besides the account it switches off.
THEOREM LockoutIsARace == Spec => LockoutNeedsARace
<1>1. ASSUME IInv, Next, Active # {}, Active' = {}
      PROVE  \E b \in Browser : req[b].at = "write" /\ req[b].stale
  <2>0. TypeOK BY <1>1 DEF IInv
  <2>1. account' # account BY <1>1 DEF Active, Exists
  <2>2. PICK b \in Browser : Arrive(b) \/ AuthSession(b) \/ AuthUser(b) \/ Handle(b) \/ Abort(b)
    BY <1>1, <2>1, TimeMovesNobody DEF Next
  <2>3. UpdateRow(b) \/ CreateAccount(b) \/ FirstRunSetup(b) BY <1>1, <2>1, <2>2, StepOfOne
  <2>4. PICK v \in Active : TRUE BY <1>1
  <2>5. ASSUME NEW next, CreateUser(b, next) PROVE FALSE
    <3>0. PICK u \in User : ~Exists(u) /\ \E new : account' = [account EXCEPT ![u] = new]
      BY <2>1, <2>5 DEF CreateUser, Refuse, rows
    <3>1. PICK new : ~Exists(u) /\ account' = [account EXCEPT ![u] = new] BY <3>0
    <3>2. v \in User /\ v # u BY <2>4, <3>1 DEF Active
    <3>3. account'[v] = account[v] BY <2>0, <3>1, <3>2 DEF TypeOK
    <3> QED BY <1>1, <2>4, <3>3 DEF Active, Exists
  <2>6. UpdateRow(b)
    <3>1. account' = account \/ (\E next : CreateUser(b, next)) \/ UpdateRow(b)
      BY <2>3 DEF CreateAccount, FirstRunSetup, Refuse, rows
    <3> QED BY <2>1, <2>5, <3>1
  <2> DEFINE r == req[b]
             u == r.user
             new == Edit(r, r.row).row
  <2>7. ~NameTaken(new.name, u) BY <2>1, <2>6 DEF UpdateRow, Refuse, rows
  <2>8. /\ u \in User /\ Exists(u) /\ r.row \in Row /\ new \in Row /\ r.ask \in Ask /\ r.ask.kind \in Edits
        /\ account' = [account EXCEPT ![u] = new]
    BY <1>1, <2>6, <2>7, UpdateRowFacts
  <2>9. \A w \in User : account'[w] = IF w = u THEN new ELSE account[w] BY <2>0, <2>8 DEF TypeOK
  <2>10. r.ask.kind = "active" => new.active = r.ask.new BY <2>8, EditFacts
  <2>11. r.ask.kind # "active" => new.active = r.row.active BY <2>8, EditFacts
  <2> HIDE DEF new
  <2>12. new # None BY <2>8, NoneAssumption
  <2>13. ~new.active /\ \A w \in Active : w = u BY <1>1, <2>8, <2>9, <2>12 DEF Active, Exists
  <2>14. r.at = "write" BY <2>6 DEF UpdateRow
  <2>15. ASSUME ~r.stale PROVE FALSE
    <3>1. r.row = account[u] /\ Sound(r) BY <1>1, <2>14, <2>15, RequestFacts DEF Sound
    <3>2. v = u /\ account[u].active BY <2>4, <2>13 DEF Active
    <3>3. r.ask.kind = "active" /\ ~r.ask.new BY <2>10, <2>11, <2>13, <3>1, <3>2
    <3> QED BY <2>13, <2>14, <2>15, <3>1, <3>3 DEF Sound
  <2> QED BY <2>14, <2>15
<1>2. IInv /\ [Next]_vars =>
        [Active # {} /\ Active' = {} => \E b \in Browser : req[b].at = "write" /\ req[b].stale]_vars
  BY <1>1
<1> QED BY <1>2, Reachable, PTL DEF Spec, LockoutNeedsARace
=============================================================================
