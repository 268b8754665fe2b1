-------------------------- MODULE MCEngineRecovery --------------------------
(***************************************************************************)
(* Model-checking instance of EngineRecovery: two orders made at once, one *)
(* before or behind the other, of which one is a stop order.               *)
(***************************************************************************)
EXTENDS EngineRecovery

MCWorkloads == {[made |-> <<1, 1, 3>>, stops |-> {1}], [made |-> <<1, 2, 2>>, stops |-> {3}]}
=============================================================================
