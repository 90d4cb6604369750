--------------------------- MODULE MCCompanionLink ---------------------------
(* CompanionLink for TLC: small bounds, each large enough for the case it   *)
(* stands for (see README.md).                                             *)
EXTENDS CompanionLink

=============================================================================
