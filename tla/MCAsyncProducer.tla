-------------------------- MODULE MCAsyncProducer --------------------------
(* Small instances of AsyncProducer for TLC.                               *)
EXTENDS AsyncProducer, TLC
=============================================================================
