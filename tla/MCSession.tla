------------------------------ MODULE MCSession ------------------------------
(* A small instance of Session for TLC.                                      *)
EXTENDS Session, TLC

CONSTANTS admin, desk

First == [user |-> admin, iat |-> 0]

\* An administrator has just signed in; users may sign up.
Administrator == [phone |-> "n1", password |-> "p0", refresh |-> First, roles |-> {"staff"},
                  deleted |-> FALSE, asked |-> "n1", seen |-> {}]

OneUser == [x \in Users |-> IF x = admin THEN Administrator ELSE Absent]

\* In one browser; the others have no cookies.
OneSignedIn == [c \in Clients |-> IF c = desk THEN [access |-> First, refresh |-> First]
                                              ELSE EmptyJar]

\* Nothing tells two requests apart.
Symmetric == Permutations(Requests)

\* Take and give the role, change the password, and change the number.
Edits == {[roles |-> {}], [roles |-> {"staff"}], [password |-> "p1"], [phone |-> "n2"]}

=============================================================================
