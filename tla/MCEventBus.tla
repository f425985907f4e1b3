----------------------------- MODULE MCEventBus -----------------------------
(* EventBus for TLC: two handlers registered in the order the list keeps   *)
(* them, and a third one that is registered later.                         *)
EXTENDS EventBus

CONSTANTS h1, h2, h3

MCHandler == {h1, h2, h3}
MCInitial == <<h1, h2>>
=============================================================================
