-------------------------- MODULE MCRabbitConsumer --------------------------
(* Small instances of RabbitConsumer for TLC: its sets consist of model    *)
(* values, which the configurations name.                                  *)
EXTENDS RabbitConsumer, TLC
=============================================================================
