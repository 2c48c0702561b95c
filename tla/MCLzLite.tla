---------------------------- MODULE MCLzLite ------------------------------
EXTENDS LzLite, SequencesExt
(* Every block of up to nine bytes over two values; runs of one byte,      *)
(* whose matches are longer than their offset; and blocks whose match lies *)
(* as far back as an offset reaches, and one byte further.                 *)
Short == UNION {[1 .. n -> {0, 3}] : n \in 0 .. 9}
Run(n) == [i \in 1 .. n |-> 3]
Far(n) == <<1, 2, 3>> \o [i \in 1 .. n |-> i % 2] \o <<1, 2, 3, 2>>
MCInputs  == Short \cup {Run(n) : n \in 10 .. 14} \cup {Far(n) : n \in 8 .. 14}
MCWindows == {1, 5, MaxOffset}

(* A hash without collisions, one with some, and one with nothing else. *)
Triples == Byte \X Byte \X Byte
MCSlots == 0 .. 63
MCHashes == {[t \in Triples |-> t[1] * 16 + t[2] * 4 + t[3]],
             [t \in Triples |-> (t[1] + t[2] + t[3]) % 3],
             [t \in Triples |-> 0]}

(* All short byte strings, and longer ones that begin with extended lengths *)
(* and an overlapping match, each with any end.                            *)
Starts == {<<3, 3, 0, 1, 2, 1>>, <<3, 0, 1, 1, 0, 3, 0>>, <<2, 1, 1, 2, 2, 0>>}
MCDamaged == BoundedSeq(Byte, 5) \cup {s \o x : s \in Starts, x \in BoundedSeq(Byte, 3)}
=============================================================================
