------------------------------- MODULE MCKyc -------------------------------
(* Small instances of Kyc; people and reasons are model values.            *)
EXTENDS Kyc

\* "both" is an analyst and a compliance officer at once.
CONSTANTS ann, cleo, both
=============================================================================
