------------------------------ MODULE MCScreen ------------------------------
(* Small instances of Screen for TLC.                                      *)
EXTENDS Screen

CONSTANTS a, b, c

\* A session that is renewed, or rounded, then a root token, then a session
\* whose end stays as it is.
MCEnds == [s \in Sessions |-> CASE s = 1 -> {5, 7} [] s = 2 -> {0} [] s = 3 -> {9}]

\* Too many for the submenu, with one policy named twice; and two answers that
\* differ in the name of their only policy.
MCAnswers ==
    {[policies |-> <<"default", a>>, identity_policies |-> <<b, a, c>>],
     [policies |-> <<"default", a>>, identity_policies |-> <<>>],
     [policies |-> <<"default">>, identity_policies |-> <<b>>]}
=============================================================================
