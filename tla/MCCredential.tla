---------------------------- MODULE MCCredential ----------------------------
(* Small instances of Credential for TLC.                                  *)
EXTENDS Credential, TLC

CONSTANTS t1, t2, t3, g1, g2, o1, o2

\* Tokens, login and logout goroutines are interchangeable.
Symmetry == Permutations({t1, t2, t3}) \union Permutations({g1, g2})
            \union Permutations({o1, o2})
=============================================================================
