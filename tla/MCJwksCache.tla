---------------------------- MODULE MCJwksCache ----------------------------
(* Two threads and one kid, published and withdrawn at any time: while it  *)
(* is not published it is a kid no document holds, and each thread may     *)
(* hold a document from either side of a rotation.                         *)
EXTENDS JwksCache

CONSTANTS a, b, signing

MCThreads == {a, b}
MCKids == {signing}
\* The process starts when the machine does: an empty cache looks fresh to it.
MCBootTimes == {0}

============================================================================
