-------------------------- MODULE MCBatchConsumer --------------------------
(* Small instances of BatchConsumer for TLC.                               *)
EXTENDS BatchConsumer, TLC

\* Messages, Start calls, Stop calls and Flush calls are interchangeable.
Symmetry == Permutations(Msg) \cup Permutations(Loop) \cup Permutations(Stopper)
                \cup Permutations(Flusher)
=============================================================================
