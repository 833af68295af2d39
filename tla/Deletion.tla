------------------------------- MODULE Deletion -------------------------------
(***************************************************************************)
(* The sequence arithmetic ddmin is built from (src/src/reprosieve/        *)
(* ddmin.py): how a sequence is cut into parts and what is left of it when *)
(* one part is deleted.  Offsets are Python's: the part [start, end) holds *)
(* the elements start+1 .. end of a TLA+ sequence.                         *)
(***************************************************************************)
EXTENDS Integers, Sequences

Larger(a, b) == IF a >= b THEN a ELSE b
Smaller(a, b) == IF a <= b THEN a ELSE b

\* current[:start] + current[end:]
Without(seq, start, end) == SubSeq(seq, 1, start) \o SubSeq(seq, end + 1, Len(seq))

\* The number of parts a scan cuts `length' items into.
Parts(length, granularity) == Smaller(granularity, length)

\* A mutant of Width: one wide part too many.
WidthOffByOne(length, parts, index) ==
    (length \div parts) + (IF index <= length % parts THEN 1 ELSE 0)

\* The width of part `index' (counted from 0): the first length % parts parts
\* are one wider than the others.
Width(length, parts, index) ==
    (length \div parts) + (IF index < length % parts THEN 1 ELSE 0)

\* `seq' with its i-th item deleted, the final-granularity deletion.
WithoutItem(seq, i) == Without(seq, i - 1, i)
===============================================================================
