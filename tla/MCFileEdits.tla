----------------------------- MODULE MCFileEdits -----------------------------
(* Files of up to four characters, a line or its end each, for TLC. *)
EXTENDS FileEdits

Upto(S, n) == UNION {[1..k -> S] : k \in 0..n}

Texts == Upto({"a", "n"}, 4)

ShortPieces == Upto({"a", "n"}, 2)
=============================================================================
