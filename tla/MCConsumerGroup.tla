-------------------------- MODULE MCConsumerGroup ---------------------------
(* Small instances of ConsumerGroup for TLC: its sets consist of model     *)
(* values, which the configurations name.                                  *)
EXTENDS ConsumerGroup, TLC
=============================================================================
