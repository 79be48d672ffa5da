------------------------------ MODULE MCIntake ------------------------------
(* Two candidate lists: every route once, and two names that normalise to    *)
(* the same comparison key.                                                  *)
EXTENDS Intake

CONSTANTS acme, beta, corp

Of(k, r) == [key |-> k, route |-> r]

MCKeys == {acme, beta, corp}
MCSources ==
    { << Of(acme, "AUTO_CONFIRM"), Of(beta, "INVESTIGATE") >>,
      << Of(acme, "INVESTIGATE"), Of(corp, "DISCARD"), Of(acme, "AUTO_CONFIRM") >> }

=============================================================================
