----------------------------- MODULE MCAuthFlow -----------------------------
(* Small instances of AuthFlow for TLC.                                    *)
EXTENDS AuthFlow
=============================================================================
