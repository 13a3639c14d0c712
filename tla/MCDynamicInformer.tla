-------------------------- MODULE MCDynamicInformer --------------------------
(* Instances of DynamicInformer for TLC.                                   *)
EXTENDS DynamicInformer

CONSTANTS imc, broker

MCKinds == {imc, broker}
MCOrder == <<imc, broker>>

MCOneKind == {imc}
MCOneOrder == <<imc>>
=============================================================================
