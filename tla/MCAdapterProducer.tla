------------------------- MODULE MCAdapterProducer --------------------------
(* A small instance of AdapterProducer for TLC: its sets consist of model  *)
(* values, which the configuration names.                                  *)
EXTENDS AdapterProducer, TLC
=============================================================================
