---------------------------- MODULE MCScaleHandler ----------------------------
(* Instances of ScaleHandler for TLC: brokers, of two classes, with the    *)
(* class filter, and in-memory channels, without.                          *)
EXTENDS ScaleHandler

CONSTANTS a, b

MCNames == {a, b}
MCBrokerClasses == {"mt", "kafka"}
MCChannelClasses == {"imc"}
=============================================================================
