----------------------------- MODULE MCAuthRoutes ----------------------------
(* Values of AuthRoutes' constants for TLC. *)
EXTENDS AuthRoutes

Ask(op, a, ip, valid, t, by) ==
  [op |-> op, account |-> a, ip |-> ip, valid |-> valid, token |-> t, by |-> by]

Login(a, ip) == Ask("login", a, ip, TRUE, NoToken, NoAccount)
Guess(a, ip) == Ask("login", a, ip, FALSE, NoToken, NoAccount)
Join(a, ip) == Ask("register", a, ip, TRUE, NoToken, NoAccount)
Refresh(t) == Ask("refresh", "somchai", "home", TRUE, t, NoAccount)
Leave(t) == Ask("logout", "somchai", "home", TRUE, t, NoAccount)
Staff(op, a, by) == Ask(op, a, "home", TRUE, NoToken, by)

MCAccounts == {"guest", "newcomer", "somchai", "anong"}
MCMembers == {"guest", "somchai", "anong"}
MCOld == [t \in {11} |-> "somchai"]

\* Guesses at two accounts from two addresses.
GuessLoads == {<<Guess("guest", "home"), Guess("guest", ip), end>> :
                  ip \in {"home", "cafe"},
                  end \in {Guess("guest", "cafe"), Guess("anong", "home"),
                           Login("guest", "home")}}
              \cup {<<Guess("guest", "home"), Guess("somchai", "home"),
                      Guess("anong", "home")>>}

\* Registrations from one address, and staff accounts with one email.
JoinLoads == {<<Join("newcomer", "home"), Join("newcomer", "home"), end>> :
                  end \in {Join("guest", "home"), Join("guest", "cafe"),
                           Guess("newcomer", "home")}}
             \cup {<<Staff("create", "newcomer", "anong"),
                     Staff("create", "newcomer", "somchai"), end>> :
                  end \in {Login("newcomer", "home"), Staff("create", "somchai", "anong")}}

\* A token that is presented again and again, and a token made from it.
TokenLoads == {<<Refresh(11), Refresh(11), end>> :
                  end \in {Refresh(1), Refresh(NoToken), Leave(1), Leave(11)}}

\* A staff account that is disabled and enabled while it logs in and refreshes.
StaffLoads == {<<begin, Staff("disable", "somchai", "anong"), end>> :
                  begin \in {Refresh(11), Login("somchai", "home")},
                  end \in {Refresh(11), Refresh(1), Staff("enable", "somchai", "anong"),
                           Staff("disable", "somchai", "somchai")}}

MCLoads == GuessLoads \cup JoinLoads \cup TokenLoads \cup StaffLoads
=============================================================================
