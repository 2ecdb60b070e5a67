---------------------------- MODULE MCStreamPipe ----------------------------
(* Six chunks, the fifth of which alone reaches the writable's mark.        *)
EXTENDS StreamPipe
MCSize == [c \in Chunks |-> IF c = 5 THEN 3 ELSE 1]
=============================================================================
