--------------------------- MODULE MCSubscriptions ---------------------------
(***************************************************************************)
(* One or two payments of two days each, a trial of one day, and a day of    *)
(* grace and of retention.                                                   *)
(***************************************************************************)
EXTENDS Subscriptions

MCDuration == [p \in Payment |-> 2]
=============================================================================
