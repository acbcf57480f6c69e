---------------------------- MODULE MCSmarthost ----------------------------
(* Model values of the configurations MCSmarthost*.                        *)
EXTENDS Smarthost, TLC

CONSTANTS w1, w2

\* The workers are interchangeable; every property checked is safety.
Alike == Permutations({w1, w2})

\* One route of each kind of session the loader accepts.
LoaderRoutes ==
  {[tls |-> "none", auth |-> "none"], [tls |-> "implicit", auth |-> "login"],
   [tls |-> "starttls", auth |-> "xoauth2"]}

=============================================================================
