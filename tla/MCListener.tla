----------------------------- MODULE MCListener -----------------------------
EXTENDS Listener

MCOrder == [p \in Proc |-> CASE p = "p1" -> 1 [] p = "p2" -> 2 [] p = "p3" -> 3]
=============================================================================
