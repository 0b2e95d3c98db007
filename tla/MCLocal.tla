------------------------------ MODULE MCLocal ------------------------------
(* Instances of LocalServer for TLC. *)
EXTENDS LocalServer, TLC

CONSTANTS p1, p2, clientA, clientB, tab1, tab2, old, t1, t2, t3, t4

TwoInvocations == {p1, p2}
OneClient      == {clientA}
TwoClients     == {clientA, clientB}
OneUser        == {tab1}
TwoUsers       == {tab1, tab2}
FiveTokens     == {old, t1, t2, t3, t4}

OldFile == {[token |-> old, url |-> "other", by |-> None]}
AnyFile == OldFile \cup {None}

Interchange == Permutations(Tokens \ {old}) \cup Permutations(Invocations) \cup Permutations(Clients)
=============================================================================
