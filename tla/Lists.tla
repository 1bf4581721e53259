------------------------------- MODULE Lists -------------------------------
(* Finite sequences as the lists and arrays of the code. *)
EXTENDS Integers, Sequences

Elements(q) == {q[i] : i \in 1 .. Len(q)}

Last(q) == q[Len(q)]

\* Written out, and not taken from SequencesExt, of which every proof about a
\* module that extends it would carry along the whole.
RemoveAt(q, i) == SubSeq(q, 1, i - 1) \o SubSeq(q, i + 1, Len(q))

NoDuplicates(q) == \A i, j \in 1 .. Len(q) : q[i] = q[j] => i = j
============================================================================
