--------------------------- MODULE MCAuthSession ----------------------------
(* One principal, three sessions and token pairs, two workers. *)
EXTENDS AuthSession, TLC

CONSTANTS s1, s2, s3, p1, p2, p3, w1, w2

MCSession == {s1, s2, s3}
MCToken == {p1, p2, p3}
MCWorker == {w1, w2}

Symmetry == Permutations(Session) \cup Permutations(Token) \cup Permutations(Worker)
=============================================================================
