---------------------------- MODULE MCBridgeControl ----------------------------
(* Instances of BridgeControl for TLC.                                     *)
EXTENDS BridgeControl

CONSTANTS test, update
=============================================================================
