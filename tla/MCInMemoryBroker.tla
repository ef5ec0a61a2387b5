-------------------------- MODULE MCInMemoryBroker --------------------------
(* Small instances of InMemoryBroker for TLC: its sets consist of model    *)
(* values, which the configurations name.                                  *)
EXTENDS InMemoryBroker, TLC
=============================================================================
