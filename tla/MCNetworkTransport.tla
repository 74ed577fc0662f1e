------------------------- MODULE MCNetworkTransport -------------------------
(* Instances of NetworkTransport for model checking. *)
EXTENDS NetworkTransport, TLC

\* What the clients send: anything, or one of them anything and the others requests
\* without a body, which they pipeline to keep the handler from it.
Anything == [c \in Conns |-> Tokens]
OneAnything ==
  LET one == CHOOSE c \in Conns : TRUE
  IN  [c \in Conns |-> IF c = one THEN Tokens ELSE {"get"}]

\* list order is the order of acceptance, so connections are interchangeable.
Symmetric == Permutations(Conns)
=============================================================================
