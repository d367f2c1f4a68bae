------------------------------ MODULE MCPoller ------------------------------
(* Small instances of Poller for TLC.                                      *)
EXTENDS Poller

CONSTANTS t1, t2, a1, a2

\* Both sessions belong to a1.
MCHomeOne == [t \in {t1, t2} |-> a1]

\* One session for each of two servers.
MCHomeTwo == [t \in {t1, t2} |-> IF t = t1 THEN a1 ELSE a2]

\* t1 expires inside the horizon, t2 later; t2 may be a root token.
MCExpiresAt == [t \in {t1, t2} |-> IF t = t1 THEN 3 ELSE 20]

MCSkews == {-2, 0}
=============================================================================
