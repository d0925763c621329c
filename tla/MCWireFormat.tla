---------------------------- MODULE MCWireFormat ----------------------------
(* Sizes at the boundaries of a word and of the buffer: nothing, one byte,  *)
(* one word, a byte more, and a part that takes several doublings.          *)
EXTENDS WireFormat

CONSTANTS Sizes, MaxParts, MaxMessages

BoundedSeq(S, lo, hi) == UNION {[1..n -> S] : n \in lo..hi}

MCInputs == BoundedSeq(BoundedSeq(Sizes, 1, MaxParts), 0, MaxMessages)

=============================================================================
