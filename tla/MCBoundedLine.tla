---------------------------- MODULE MCBoundedLine ----------------------------
(* BoundedLine on every stream of a few bytes. *)
EXTENDS BoundedLine

CONSTANT MaxBytes   \* longest stream considered

AllStreams == UNION {[1..n -> Bytes] : n \in 0..MaxBytes}
=============================================================================
