------------------------------- MODULE MCTerm -------------------------------
(* Three of the four handled signals: SetupStdin treats them alike.        *)
EXTENDS Terminal

MCHandled == <<"SIGINT", "SIGTERM", "SIGHUP">>
=============================================================================
