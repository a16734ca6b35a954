------------------------------ MODULE Accounts ------------------------------
(***************************************************************************)
(* Accounts, sessions and the optional second factor: what the browsers of *)
(* one team do to the tables users, sessions and mfa_recovery_codes.       *)
(*                                                                         *)
(* Every request first passes the Auth middleware, which resolves the      *)
(* cookie, and then runs one handler.  No handler opens a transaction, so  *)
(* each SQL statement is one action and what an earlier statement returned *)
(* stays in the request's record.  A request may be cut short between any  *)
(* two statements (the 30 second timeout, a client that leaves, a failing  *)
(* database).                                                              *)
(*                                                                         *)
(* The password and the authenticator code are abstracted to the secret    *)
(* they are made from: a code is right when it comes from the row's secret *)
(* inside the accepted window.  mfa_enabled, mfa_secret and                *)
(* mfa_enrolled_at are only ever written together and are one field.       *)
(***************************************************************************)
EXTENDS Naturals, FiniteSets

CONSTANTS
  User,         \* account ids
  Browser,      \* cookie jars; each has one request under way
  Session,      \* session ids
  Name,         \* usernames, compared without case
  Password,
  Weak,         \* passwords ValidatePassword refuses
  Secret,       \* authenticator secrets
  Code,         \* recovery codes
  Language,
  Ask,          \* the requests the browsers make
  Start,        \* what the tables may hold when the program starts: accounts,
                \* their recovery codes and whose sessions the browsers hold
  None,         \* no row, no value
  MaxRequests   \* bound: requests ever made

OwnEdits  == {"password", "language", "confirm", "disable", "regenerate"}
TeamEdits == {"rename", "resetPassword", "resetMFA", "active"}
Edits     == OwnEdits \cup TeamEdits

\* What the forms submit.  Every record says what it asks for in "kind".
SignInAsks ==
  [kind : {"login", "setup"}, name : Name, password : Password]
  \cup [kind : {"mfaPage", "logout"}]
  \cup [kind : {"verify"}, code : Secret \cup Code]

AccountAsks ==
  [kind : {"password"}, old : Password, new : Password]
  \cup [kind : {"language"}, new : Language]
  \cup [kind : {"confirm"}, new : Secret, code : Secret]
  \cup [kind : {"disable", "regenerate"}, old : Password]

UserAsks ==
  [kind : {"create"}, name : Name, password : Password]
  \cup [kind : {"rename"}, user : User, new : Name]
  \cup [kind : {"resetPassword"}, user : User, new : Password]
  \cup [kind : {"resetMFA"}, user : User]
  \cup [kind : {"active"}, user : User, new : BOOLEAN]

AllAsks == SignInAsks \cup AccountAsks \cup UserAsks

ASSUME AskAssumption   == Ask \subseteq AllAsks
ASSUME TokenAssumption == Secret \cap Code = {} /\ Weak \subseteq Password
ASSUME BoundAssumption == MaxRequests \in Nat

VARIABLES
  account,   \* [User -> a users row, or None]
  session,   \* [Session -> a sessions row, or None]
  codes,     \* [User -> the unused recovery codes stored for it]
  cookie,    \* [Browser -> the session its cookie names, or None]
  req,       \* [Browser -> its request under way]
  made,      \* requests made so far
  \* What happened, which the program does not store:
  half,      \* sessions opened by a password and still without a second factor
  gap,       \* sessions issued to an account that had been switched off
  ended,     \* accounts whose deactivation has run to its end
  uses,      \* [Code -> how often it was accepted]
  issued,    \* recovery codes ever printed
  untidy     \* accounts whose second factor was left half changed, or changed by two at once

rows  == <<account, session, codes>>
ghost == <<half, gap, ended, uses, issued, untidy>>
vars  == <<account, session, codes, cookie, req, made, half, gap, ended, uses, issued, untidy>>

Row == [name : Name, password : Password, active : BOOLEAN,
        secret : Secret \cup {None}, language : Language]

SessionRow == [user : User, pending : BOOLEAN, expired : BOOLEAN]

ASSUME NoneAssumption ==
  None \notin User \cup Session \cup Secret \cup Code \cup {"keep", "clear"} \cup Row \cup SessionRow
ASSUME LanguageAssumption == Language # {}

NewRow(n, p) ==
  [name |-> n, password |-> p, active |-> TRUE, secret |-> None,
   language |-> CHOOSE l \in Language : TRUE]

NoAsk == [kind |-> "none"]
Idle  == [at |-> "idle", ask |-> NoAsk, sid |-> None, self |-> None,
          user |-> None, row |-> None, jar |-> "keep", stale |-> FALSE]

Exists(u)     == account[u] # None
MFAEnabled(r) == r.secret # None
Active        == {u \in User : Exists(u) /\ account[u].active}
NameTaken(n, u) == \E v \in User \ {u} : Exists(v) /\ account[v].name = n

ASSUME StartAssumption ==
  Start \subseteq {s \in [account : [User -> Row \cup {None}], codes : [User -> SUBSET Code],
                          holder : [Browser -> User \cup {None}]] :
                     /\ \A b \in Browser : s.holder[b] # None => s.account[s.holder[b]] # None
                     /\ \A u, v \in User : u # v => s.codes[u] \cap s.codes[v] = {}}

\* Accounts, codes and sessions outlive the process: it starts with any of them,
\* a session whose holder has a second factor with or without its code still due.
\* The codes are random, so no two accounts share one; those of an account without
\* a second factor were left behind by a change cut short before.
Init ==
  \E start \in Start :
    LET Holder(b) == start.holder[b]
        Protected == {b \in Browser : Holder(b) # None /\ MFAEnabled(start.account[Holder(b)])}
    IN
    /\ account = start.account
    /\ codes = start.codes
    /\ issued = UNION {codes[u] : u \in User}
    /\ cookie \in {c \in [Browser -> Session \cup {None}] :
         /\ \A b \in Browser : (c[b] = None) <=> (Holder(b) = None)
         /\ \A a, b \in Browser : a # b /\ c[a] = c[b] => c[a] = None}
    /\ half \in SUBSET {cookie[b] : b \in Protected}
    /\ session = [s \in Session |->
         IF \E b \in Browser : cookie[b] = s
         THEN [user |-> Holder(CHOOSE b \in Browser : cookie[b] = s),
               pending |-> s \in half, expired |-> FALSE]
         ELSE None]
    /\ req = [b \in Browser |-> Idle]
    /\ made = 0
    /\ gap = {} /\ ended = {}
    /\ untidy = {u \in User : codes[u] # {} /\ (Exists(u) => ~MFAEnabled(account[u]))}
    /\ uses = [c \in Code |-> 0]

(***************************************************************************)
(* A request's life                                                        *)
(***************************************************************************)
Goto(b, r) == req' = [req EXCEPT ![b] = r]

Jar(b, r) == [cookie EXCEPT ![b] = CASE r.jar = "keep"  -> @
                                     [] r.jar = "clear" -> None
                                     [] OTHER           -> r.jar]

\* The response: its Set-Cookie headers are obeyed in order, the last one wins.
Answer(b, jar) ==
  /\ cookie' = Jar(b, [req[b] EXCEPT !.jar = IF jar = "as it is" THEN @ ELSE jar])
  /\ Goto(b, Idle)

\* Only a handler inside the authenticated group needs a user.
Public == {"login", "setup", "mfaPage", "verify", "logout"}

Arrive(b) ==
  /\ req[b].at = "idle" /\ made < MaxRequests
  /\ Goto(b, [Idle EXCEPT !.at = "session", !.sid = cookie[b]])
  /\ made' = made + 1
  /\ UNCHANGED <<rows, cookie, ghost>>

\* From the Auth middleware to RequireAuth, and on to the handler.  Nothing before
\* looks at what was asked, so it is chosen here.
RequireAuth(b, r) ==
  \E k \in Ask :
    IF r.self # None \/ k.kind \in Public
    THEN /\ Goto(b, [r EXCEPT !.at = k.kind, !.ask = k,
                              !.user = CASE k.kind \in OwnEdits  -> r.self
                                         [] k.kind \in TeamEdits -> k.user
                                         [] OTHER                -> None])
         /\ UNCHANGED cookie
    ELSE Answer(b, r.jar)

Delete(ss) ==
  /\ session' = [s \in Session |-> IF s \in ss THEN None ELSE session[s]]
  /\ half' = half \ ss /\ gap' = gap \ ss

\* The row the cookie names.
Presented(r) == IF r.sid = None THEN None ELSE session[r.sid]

\* Mutant: whether the code is still due does not matter.
UnexpiredOnly(s) == ~session[s].expired

SessionActive(s) == ~session[s].pending /\ ~session[s].expired

\* Authenticate, first statement: the session row.
AuthSession(b) ==
  LET r == req[b] IN
  /\ r.at = "session"
  /\ \/ /\ r.sid = None
        /\ RequireAuth(b, r) /\ UNCHANGED <<session, half, gap>>
     \/ /\ r.sid # None /\ Presented(r) = None
        /\ RequireAuth(b, [r EXCEPT !.jar = "clear"]) /\ UNCHANGED <<session, half, gap>>
     \/ /\ Presented(r) # None /\ ~SessionActive(r.sid)
        /\ Delete(IF session[r.sid].expired THEN {r.sid} ELSE {})
        /\ RequireAuth(b, [r EXCEPT !.jar = "clear"])
     \/ /\ Presented(r) # None /\ SessionActive(r.sid)
        /\ Goto(b, [r EXCEPT !.at = "user", !.user = session[r.sid].user])
        /\ UNCHANGED <<session, half, gap, cookie>>
  /\ UNCHANGED <<account, codes, made, ended, uses, issued, untidy>>

\* Mutant: a deactivated account is let in.
AuthAnyUser(b) ==
  LET r == req[b] IN
  /\ r.at = "user"
  /\ RequireAuth(b, [r EXCEPT !.self = r.user])
  /\ UNCHANGED <<account, codes, made, session, ghost>>

\* Authenticate, second statement: the session's account, which must be active.
AuthUser(b) ==
  LET r == req[b] IN
  /\ r.at = "user"
  /\ IF account[r.user].active
     THEN RequireAuth(b, [r EXCEPT !.self = r.user]) /\ UNCHANGED <<session, half, gap>>
     ELSE RequireAuth(b, [r EXCEPT !.jar = "clear"]) /\ Delete({r.sid})
  /\ UNCHANGED <<account, codes, made, ended, uses, issued, untidy>>

(***************************************************************************)
(* Signing in and out                                                      *)
(***************************************************************************)
Refuse(b) == Answer(b, req[b].jar) /\ UNCHANGED <<rows, ghost>>

Login(b) ==
  LET r == req[b]
      Right(u) == /\ Exists(u) /\ account[u].name = r.ask.name
                  /\ account[u].password = r.ask.password /\ account[u].active
  IN
  /\ r.at = "login" /\ UNCHANGED made
  /\ \/ \E u \in User : /\ Right(u)
                        /\ Goto(b, [r EXCEPT !.at = "issue", !.user = u, !.row = account[u]])
                        /\ UNCHANGED <<rows, cookie, ghost>>
     \/ ~ (\E u \in User : Right(u)) /\ Refuse(b)

\* A random id: nobody has seen it before.
FreshSession == {s \in Session : /\ session[s] = None
                                 /\ \A b \in Browser : cookie[b] # s /\ req[b].sid # s}

NewSession(b) ==
  LET r == req[b] IN
  /\ r.at = "issue"
  /\ \E s \in FreshSession :
       /\ session' = [session EXCEPT ![s] =
            [user |-> r.user, pending |-> MFAEnabled(r.row), expired |-> FALSE]]
       /\ half' = IF MFAEnabled(r.row) THEN half \cup {s} ELSE half
       /\ gap' = IF account[r.user].active THEN gap ELSE gap \cup {s}
       /\ Answer(b, s)
  /\ UNCHANGED <<account, codes, made, ended, uses, issued, untidy>>

\* VerifyMFA reads the session again.
VerifyMFA(b) ==
  LET r == req[b] IN
  /\ r.at = "verify" /\ UNCHANGED <<account, codes, made, ended, uses, issued, untidy>>
  /\ \/ /\ Presented(r) = None
        /\ Answer(b, "clear") /\ UNCHANGED <<session, half, gap>>
     \/ /\ Presented(r) # None
        /\ CASE ~session[r.sid].pending -> Answer(b, r.sid) /\ UNCHANGED <<session, half, gap>>
             [] session[r.sid].pending /\ session[r.sid].expired -> Answer(b, "clear") /\ Delete({r.sid})
             [] OTHER -> /\ Goto(b, [r EXCEPT !.at = "factor", !.user = session[r.sid].user])
                         /\ UNCHANGED <<cookie, session, half, gap>>

\* An authenticator code is checked against the row; anything else may be a recovery code.
CheckFactor(b) ==
  LET r == req[b]
      secret == account[r.user].secret
  IN
  /\ r.at = "factor" /\ UNCHANGED made
  /\ CASE secret # None /\ r.ask.code = secret ->
            Goto(b, [r EXCEPT !.at = "promote"]) /\ UNCHANGED <<rows, cookie, ghost>>
       [] secret # None /\ r.ask.code \in Code ->
            Goto(b, [r EXCEPT !.at = "list"]) /\ UNCHANGED <<rows, cookie, ghost>>
       [] OTHER -> Refuse(b)

ListHashes(b) ==
  LET r == req[b] IN
  /\ r.at = "list" /\ UNCHANGED made
  /\ IF r.ask.code \in codes[r.user]
     THEN Goto(b, [r EXCEPT !.at = "consume"]) /\ UNCHANGED <<rows, cookie, ghost>>
     ELSE Refuse(b)

\* Mutant: a DELETE that finds no row counts as a success.
ConsumeAnyway(b) ==
  LET r == req[b] IN
  /\ r.at = "consume" /\ UNCHANGED made
  /\ codes' = [codes EXCEPT ![r.user] = @ \ {r.ask.code}]
  /\ uses' = [uses EXCEPT ![r.ask.code] = @ + 1]
  /\ Goto(b, [r EXCEPT !.at = "promote"])
  /\ UNCHANGED <<account, session, cookie, half, gap, ended, issued, untidy>>

\* The DELETE is the check: whoever finds no row has lost the race.
Consume(b) ==
  LET r == req[b] IN
  /\ r.at = "consume" /\ UNCHANGED made
  /\ IF r.ask.code \in codes[r.user]
     THEN /\ codes' = [codes EXCEPT ![r.user] = @ \ {r.ask.code}]
          /\ uses' = [uses EXCEPT ![r.ask.code] = @ + 1]
          /\ Goto(b, [r EXCEPT !.at = "promote"])
          /\ UNCHANGED <<account, session, cookie, half, gap, ended, issued, untidy>>
     ELSE Refuse(b)

Promote(b) ==
  LET r == req[b] IN
  /\ r.at = "promote" /\ UNCHANGED made
  /\ IF session[r.sid] # None
     THEN /\ session' = [session EXCEPT ![r.sid].pending = FALSE, ![r.sid].expired = FALSE]
          /\ half' = half \ {r.sid}
          /\ Answer(b, r.sid)
          /\ UNCHANGED <<account, codes, gap, ended, uses, issued, untidy>>
     ELSE Refuse(b)

\* The page that asks for the code, or the way back to the password form.
MFAPage(b) == req[b].at = "mfaPage" /\ Refuse(b) /\ UNCHANGED made

Logout(b) ==
  /\ req[b].at = "logout"
  /\ Delete(IF req[b].sid = None THEN {} ELSE {req[b].sid})
  /\ Answer(b, "clear")
  /\ UNCHANGED <<account, codes, made, ended, uses, issued, untidy>>

(***************************************************************************)
(* Accounts                                                                *)
(***************************************************************************)
ValidatePassword(p) == p \notin Weak

\* One INSERT; the index on lower(username) decides who gets the name.
CreateUser(b, next) ==
  LET k == req[b].ask IN
  IF ValidatePassword(k.password) /\ \A v \in User : Exists(v) => account[v].name # k.name
  THEN /\ \E u \in User : /\ ~Exists(u)
                          /\ account' = [account EXCEPT ![u] = NewRow(k.name, k.password)]
       /\ IF next = "answer" THEN Answer(b, req[b].jar)
                             ELSE Goto(b, [req[b] EXCEPT !.at = next]) /\ UNCHANGED cookie
       /\ UNCHANGED <<session, codes, ghost>>
  ELSE Refuse(b)

CreateAccount(b) == req[b].at = "create" /\ CreateUser(b, "answer") /\ UNCHANGED made

\* The first account is created only if none was counted, and is then signed in.
FirstRunSetup(b) ==
  /\ UNCHANGED made
  /\ \/ /\ req[b].at = "setup"
        /\ IF \E u \in User : Exists(u)
           THEN Refuse(b)
           ELSE Goto(b, [req[b] EXCEPT !.at = "insert"]) /\ UNCHANGED <<rows, cookie, ghost>>
     \/ req[b].at = "insert" /\ CreateUser(b, "login")

\* One operator per change of an account, on the row it was read from: whether it
\* goes through, the row it writes back, the steps after the read and after the write.
Change(allowed, row, then, after) ==
  [allowed |-> allowed, row |-> row, then |-> then, after |-> after]

ChangePassword(r, row) ==
  Change(row.password = r.ask.old /\ ValidatePassword(r.ask.new),
         [row EXCEPT !.password = r.ask.new], "write", "idle")

UpdateLanguage(r, row) == Change(TRUE, [row EXCEPT !.language = r.ask.new], "write", "idle")

\* Mutant: a renamed account is built afresh.
RenamedAfresh(r, row) == Change(TRUE, NewRow(r.ask.new, row.password), "write", "idle")

RenameUser(r, row) == Change(TRUE, [row EXCEPT !.name = r.ask.new], "write", "idle")

AdminResetPassword(r, row) ==
  Change(ValidatePassword(r.ask.new), [row EXCEPT !.password = r.ask.new], "write", "idle")

\* The code proves that the secret is in an authenticator before it is stored.
CompleteMFAEnrolment(r, row) ==
  Change(~MFAEnabled(row) /\ r.ask.code = r.ask.new, [row EXCEPT !.secret = r.ask.new], "write", "erase")

DisableMFA(r, row) ==
  Change(MFAEnabled(row) /\ row.password = r.ask.old, [row EXCEPT !.secret = None], "write", "erase")

\* Mutant: an empty text is stored for "no secret".
ResetBlank(r, row) == Change(MFAEnabled(row), [row EXCEPT !.secret = ""], "write", "erase")

AdminResetMFA(r, row) == Change(MFAEnabled(row), [row EXCEPT !.secret = None], "write", "erase")

RegenerateRecoveryCodes(r, row) == Change(MFAEnabled(row) /\ row.password = r.ask.old, row, "erase", "idle")

\* Nobody switches off their own account.
SetUserActive(r, row) ==
  Change(row.active # r.ask.new /\ (r.ask.new \/ r.user # r.self), [row EXCEPT !.active = r.ask.new],
         IF r.ask.new THEN "write" ELSE "count", IF r.ask.new THEN "idle" ELSE "evict")

Edit(r, row) ==
  CASE r.ask.kind = "password"      -> ChangePassword(r, row)
    [] r.ask.kind = "language"      -> UpdateLanguage(r, row)
    [] r.ask.kind = "rename"        -> RenameUser(r, row)
    [] r.ask.kind = "resetPassword" -> AdminResetPassword(r, row)
    [] r.ask.kind = "confirm"       -> CompleteMFAEnrolment(r, row)
    [] r.ask.kind = "disable"       -> DisableMFA(r, row)
    [] r.ask.kind = "resetMFA"      -> AdminResetMFA(r, row)
    [] r.ask.kind = "regenerate"    -> RegenerateRecoveryCodes(r, row)
    [] r.ask.kind = "active"        -> SetUserActive(r, row)

ReadRow(b) ==
  LET r == req[b] IN
  /\ r.at \in Edits /\ UNCHANGED made
  /\ IF Exists(r.user) /\ Edit(r, account[r.user]).allowed
     THEN /\ Goto(b, [r EXCEPT !.row = account[r.user], !.at = Edit(r, account[r.user]).then])
          /\ UNCHANGED <<rows, cookie, ghost>>
     ELSE Refuse(b)

\* Mutant: off by one, since the acting account is thought to be among them.
CountNobody(b) ==
  /\ req[b].at = "count" /\ UNCHANGED made
  /\ IF Cardinality(Active) < 1
     THEN Refuse(b)
     ELSE Goto(b, [req[b] EXCEPT !.at = "write"]) /\ UNCHANGED <<rows, cookie, ghost>>

\* At least one account must stay active.
ActiveCount(b) ==
  /\ req[b].at = "count" /\ UNCHANGED made
  /\ IF Cardinality(Active) <= 1
     THEN Refuse(b)
     ELSE Goto(b, [req[b] EXCEPT !.at = "write"]) /\ UNCHANGED <<rows, cookie, ghost>>

\* Requests that judged a row of u, or counted the active accounts, before this write.
Overtaken(b, u) ==
  [a \in Browser |->
    IF a # b /\ req[a].row # None /\ (req[a].user = u \/ req[a].ask.kind = "active")
    THEN [req[a] EXCEPT !.stale = TRUE] ELSE req[a]]

\* The UPDATE writes every column from the copy.
UpdateRow(b) ==
  LET r == req[b]
      new == Edit(r, r.row).row
      more == Edit(r, r.row).after
  IN
  /\ r.at = "write" /\ UNCHANGED made
  /\ IF NameTaken(new.name, r.user)
     THEN Refuse(b)
     ELSE /\ account' = [account EXCEPT ![r.user] = new]
          /\ req' = [Overtaken(b, r.user) EXCEPT ![b] = IF more = "idle" THEN Idle ELSE [r EXCEPT !.at = more]]
          /\ cookie' = IF more = "idle" THEN Jar(b, r) ELSE cookie
          /\ ended' = IF new.active THEN ended \ {r.user} ELSE ended
          /\ untidy' = IF r.stale THEN untidy \cup {r.user} ELSE untidy
          /\ UNCHANGED <<session, codes, half, gap, uses, issued>>

\* Mutant: only a new set replaces the old one.
EraseForNewOnly(b) ==
  LET r == req[b] IN
  /\ r.at = "erase" /\ UNCHANGED made
  /\ IF r.ask.kind \in {"confirm", "regenerate"}
     THEN /\ codes' = [codes EXCEPT ![r.user] = {}]
          /\ Goto(b, [r EXCEPT !.at = "print"]) /\ UNCHANGED cookie
     ELSE Answer(b, r.jar) /\ UNCHANGED codes
  /\ UNCHANGED <<account, session, ghost>>

\* Replace, first statement: no code is left ...
EraseCodes(b) ==
  LET r == req[b] IN
  /\ r.at = "erase" /\ UNCHANGED made
  /\ codes' = [codes EXCEPT ![r.user] = {}]
  /\ IF r.ask.kind \in {"confirm", "regenerate"}
     THEN Goto(b, [r EXCEPT !.at = "print"]) /\ UNCHANGED cookie
     ELSE Answer(b, r.jar)
  /\ UNCHANGED <<account, session, ghost>>

\* ... and then the new ones.
InsertCodes(b) ==
  LET r == req[b] IN
  /\ r.at = "print" /\ UNCHANGED made
  /\ \E c \in Code \ issued :
       codes' = [codes EXCEPT ![r.user] = @ \cup {c}] /\ issued' = issued \cup {c}
  /\ untidy' = IF r.stale THEN untidy \cup {r.user} ELSE untidy
  /\ Answer(b, r.jar)
  /\ UNCHANGED <<account, session, half, gap, ended, uses>>

\* Mutant: the cookies are left to expire.
EndNoSession(b) ==
  LET r == req[b] IN
  /\ r.at = "evict" /\ UNCHANGED made
  /\ ended' = IF account[r.user].active THEN ended ELSE ended \cup {r.user}
  /\ Answer(b, r.jar)
  /\ UNCHANGED <<rows, half, gap, uses, issued, untidy>>

\* DeleteByUser: a deactivation ends with the account's sessions.
EndSessions(b) ==
  LET r == req[b] IN
  /\ r.at = "evict" /\ UNCHANGED made
  /\ Delete({s \in Session : session[s] # None /\ session[s].user = r.user})
  /\ ended' = IF account[r.user].active THEN ended ELSE ended \cup {r.user}
  /\ Answer(b, r.jar)
  /\ UNCHANGED <<account, codes, uses, issued, untidy>>

(***************************************************************************)
(* Time and failure                                                        *)
(***************************************************************************)
Expire(s) ==
  /\ session[s] # None /\ ~session[s].expired
  /\ session' = [session EXCEPT ![s].expired = TRUE]
  /\ UNCHANGED <<account, codes, cookie, req, made, ghost>>

PurgeExpiredSessions ==
  LET old == {s \in Session : session[s] # None /\ session[s].expired} IN
  /\ old # {} /\ Delete(old)
  /\ UNCHANGED <<account, codes, cookie, req, made, ended, uses, issued, untidy>>

\* The request is given up between two statements; its response may be lost too.
Abort(b) ==
  LET r == req[b] IN
  /\ r.at # "idle"
  /\ cookie' \in {cookie, Jar(b, r)}
  /\ Goto(b, Idle)
  /\ untidy' = IF r.at \in {"erase", "print"} THEN untidy \cup {r.user} ELSE untidy
  /\ UNCHANGED <<rows, made, half, gap, ended, uses, issued>>

Handle(b) ==
  \/ Login(b) \/ NewSession(b) \/ VerifyMFA(b) \/ CheckFactor(b) \/ ListHashes(b) \/ Consume(b)
  \/ Promote(b) \/ MFAPage(b) \/ Logout(b) \/ CreateAccount(b) \/ FirstRunSetup(b)
  \/ ReadRow(b) \/ ActiveCount(b) \/ UpdateRow(b) \/ EraseCodes(b) \/ InsertCodes(b) \/ EndSessions(b)

Next ==
  \/ \E b \in Browser : Arrive(b) \/ AuthSession(b) \/ AuthUser(b) \/ Handle(b) \/ Abort(b)
  \/ \E s \in Session : Expire(s)
  \/ PurgeExpiredSessions

Spec == Init /\ [][Next]_vars

(***************************************************************************)
(* Properties                                                              *)
(***************************************************************************)
Stages == {"idle", "session", "user", "issue", "factor", "list", "consume", "promote", "insert",
           "count", "write", "erase", "print", "evict", "create"} \cup Public \cup Edits

RequestState == [at : Stages, ask : Ask \cup {NoAsk}, sid : Session \cup {None},
                 self : User \cup {None}, user : User \cup {None},
                 row : Row \cup {None}, jar : {"keep", "clear"}, stale : BOOLEAN]

\* Every column, cookie and request in progress holds one of its values.
TypeOK ==
  /\ account \in [User -> Row \cup {None}]
  /\ session \in [Session -> SessionRow \cup {None}]
  /\ codes \in [User -> SUBSET Code]
  /\ cookie \in [Browser -> Session \cup {None}]
  /\ req \in [Browser -> RequestState]
  /\ made \in 0 .. MaxRequests
  /\ half \subseteq Session /\ gap \subseteq Session /\ ended \subseteq User /\ untidy \subseteq User
  /\ issued \subseteq Code /\ uses \in [Code -> Nat]

\* A recovery code works once and only once (README.md:553), however many
\* sign-ins submit it together: the DELETE in Consume decides.
CodeSpentOnce == \A c \in Code : uses[c] <= 1

\* A session pending MFA authorises nothing (README.md:552): whoever acts for an
\* account with a session opened by its password alone had no second factor then.
HalfSignedInDoesNothing ==
  \A b \in Browser : req[b].self # None => req[b].sid \notin half

\* Once a deactivation has run to its end, the only sessions the account can
\* still hold were issued by a login that had read the row before it
\* (SetUserActive's DeleteByUser, and the gap Authenticate speaks of).
DeactivationEndsSessions ==
  \A s \in Session : session[s] # None /\ session[s].user \in ended => s \in gap

\* ... and those open nothing: nobody is let in for an account that was
\* switched off, with whatever session.
SwitchedOffStaysOut ==
  [][\A b \in Browser : req[b].self = None /\ req'[b].self # None => req'[b].self \notin ended]_vars

\* Recovery codes go with the second factor they were printed for, as long as no
\* change of it was cut short between its two tables or made by two requests at once.
CodesGoWithTheFactor ==
  \A u \in User \ untidy :
    codes[u] # {} /\ (\A b \in Browser : req[b].user = u => req[b].at \notin {"erase", "print"})
      => Exists(u) /\ MFAEnabled(account[u])

Columns(k) ==
  CASE k = "rename"                        -> {"name"}
    [] k \in {"password", "resetPassword"} -> {"password"}
    [] k = "language"                      -> {"language"}
    [] k = "active"                        -> {"active"}
    [] OTHER                               -> {"secret"}

\* A form changes its own column and no other, although Update writes them all:
\* what else changes is lost to another request that wrote the row in between.
OnlyTheColumnAsked ==
  [][\A b \in Browser, u \in User :
       req[b].at = "write" /\ ~req[b].stale /\ req[b].user = u /\ account'[u] # account[u]
         /\ req'[b].at # "write"
       => \A c \in DOMAIN account[u] \ Columns(req[b].ask.kind) : account'[u][c] = account[u][c]]_vars

\* Nobody is left to sign in only if two requests raced: one that judged the rows
\* as they are never switches off the last active account.
LockoutNeedsARace ==
  [][Active # {} /\ Active' = {} => \E b \in Browser : req[b].at = "write" /\ req[b].stale]_vars

\* The half-finished login keeps its short-lived cookie (handler/auth.go:94) while
\* the page that asks for the code is shown.
CodePromptKeepsTheCookie ==
  [][\A b \in Browser :
       req[b].at = "mfaPage" /\ req'[b].at = "idle" /\ Presented(req[b]) # None
         /\ session[req[b].sid].pending /\ ~session[req[b].sid].expired
       => cookie'[b] = cookie[b]]_vars
=============================================================================
