----------------------------- MODULE MCService -----------------------------
(* Model values of the configuration MCService.                            *)
EXTENDS Service, TLC

CONSTANTS c1, c2, c3

\* One item inside the warning window from the start, one that enters it
\* while the service runs.
MCDeadline == "certificate" :> 1 @@ "secret" :> 2

=============================================================================
