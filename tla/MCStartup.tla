----------------------------- MODULE MCStartup -----------------------------
(* Small instances of Startup for TLC.                                     *)
EXTENDS Startup, TLC

\* Started from the desktop, and from a shell with VAULT_ADDR.
MCEnvironments == {Empty, [Empty EXCEPT !.addr = CHOOSE a \in Good : TRUE]}

\* No file, one that is of no use, and one with each kind of contents that
\* Load tells apart.
MCWritten ==
    {Absent, Unreadable, [addr |-> NoAddr, rest |-> Refused]} \union
    {f \in FileConfigs : f.rest \in Settings /\ f.addr \in Bad \union {NoAddr}}
=============================================================================
