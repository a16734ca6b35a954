---------------------------- MODULE MCAccounts ----------------------------
(* Accounts on a small team: ann signs in with her password alone, bob has *)
(* a second factor and one unused recovery code and holds a session in     *)
(* both browsers; or there is no account yet.                              *)
EXTENDS Accounts, TLC

Person(name, secret) ==
  [name |-> name, password |-> "p1", active |-> TRUE, secret |-> secret, language |-> "en"]

Team  == [account |-> [u \in User |-> CASE u = "ann" -> Person("a", None)
                                        [] u = "bob" -> Person("b", "otp")
                                        [] OTHER     -> None],
          codes   |-> [u \in User |-> IF u = "bob" THEN {"k1"} ELSE {}],
          holder  |-> [b \in Browser |-> "bob"]]
Empty == [account |-> [u \in User |-> None], codes |-> [u \in User |-> {}],
          holder  |-> [b \in Browser |-> None]]

TeamOrEmpty == {Team, Empty}
TeamOnly    == {Team}

Switch(u, x) == [kind |-> "active", user |-> u, new |-> x]

Chores ==
  {[kind |-> "login", name |-> n, password |-> "p1"] : n \in {"a", "b"}}
  \cup {[kind |-> "verify", code |-> c] : c \in {"otp", "k1"}}
  \cup {[kind |-> k] : k \in {"mfaPage", "logout"}}
  \cup {[kind |-> k, name |-> "c", password |-> "p1"] : k \in {"setup", "create"}}
  \cup {[kind |-> k, old |-> "p1"] : k \in {"disable", "regenerate"}}
  \cup {Switch("ann", FALSE), Switch("ann", TRUE), Switch("bob", FALSE)}
  \cup {[kind |-> "rename", user |-> "bob", new |-> "c"], [kind |-> "resetMFA", user |-> "bob"],
        [kind |-> "password", old |-> "p1", new |-> "p2"],
        [kind |-> "resetPassword", user |-> "ann", new |-> "p2"], [kind |-> "language", new |-> "id"],
        [kind |-> "confirm", new |-> "otp", code |-> "otp"]}

\* Session ids and browsers are interchangeable: no action and no property names one.
AnyName == Permutations(Session) \cup Permutations(Browser)
=============================================================================
