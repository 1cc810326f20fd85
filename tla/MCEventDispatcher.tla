-------------------------- MODULE MCEventDispatcher --------------------------
(***************************************************************************)
(* Two API instances dispatching to two handlers while two sessions write; *)
(* the second handler fails for ever on the last event.                    *)
(***************************************************************************)
EXTENDS EventDispatcher

MCPoison == {<<2, 3>>}
=============================================================================
