------------------------------ MODULE MCWebHub ------------------------------
(* One or two connections of one user, and how many requests each of them may *)
(* send.                                                                      *)
EXTENDS WebHub, TLC

CONSTANTS c1, c2, alice

OneUserOf  == [c \in Conns |-> alice]
Swap       == Permutations({c1, c2})

AllAndOne == {"all", alice}

AnyOne    == {{}} \cup {{c} : c \in Conns}

NoRequests  == [c \in Conns |-> 0]
OneRequest  == [c \in Conns |-> 1]
TwoRequests == [c \in Conns |-> 2]
=============================================================================
