--------------------------- MODULE PyCollections ---------------------------
(***************************************************************************)
(* Python's dict, OrderedDict and bounded list, as the backend uses them.  *)
(* A dict is a function on the keys it holds.  The order of an OrderedDict *)
(* is the sequence of its keys, oldest first.                              *)
(***************************************************************************)
EXTENDS Integers, FiniteSets, SequencesExt

(* d[key] = value *)
With(d, key, value) ==
    [k \in DOMAIN d \cup {key} |-> IF k = key THEN value ELSE d[k]]

(* d.pop(key, None) *)
Without(d, key) == Restrict(d, DOMAIN d \ {key})

(* keep the n newest elements: list[-n:], or popitem(last=False) while len > n *)
Newest(seq, n) ==
    IF Len(seq) > n THEN SubSeq(seq, Len(seq) - n + 1, Len(seq)) ELSE seq

Position(seq, e) == CHOOSE i \in DOMAIN seq : seq[i] = e

(* insert or move_to_end *)
MoveToEnd(seq, e) ==
    IF \E i \in DOMAIN seq : seq[i] = e
    THEN Append(RemoveAt(seq, Position(seq, e)), e)
    ELSE Append(seq, e)
=============================================================================
