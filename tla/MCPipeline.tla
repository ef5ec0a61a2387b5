----------------------------- MODULE MCPipeline -----------------------------
(* A small instance of Pipeline for TLC.                                   *)
EXTENDS Pipeline, TLC

\* Two calls of Send with the same message, as after an error.
MCMsg == {1, 2}
MCPassed == [m \in MCMsg |-> "msg"]

\* lz4 with only a CompressFunc, and snappy with only a DecompressFunc.  To Send
\* gzip is like the first and a compressor without functions like the second.
MCCompressor ==
    {[alg |-> "lz4",    compress |-> TRUE,  decompress |-> FALSE],
     [alg |-> "snappy", compress |-> FALSE, decompress |-> TRUE]}
=============================================================================
