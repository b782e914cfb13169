--------------------------- MODULE KeyedSequence ---------------------------
(***************************************************************************)
(* What an Anything of array type promises (foundation/base/Anything.h):   *)
(* a sequence of elements that are read and written by position, of which  *)
(* some have a key and are found by it as well.  No two have the same key. *)
(***************************************************************************)
EXTENDS Integers, Sequences, SequencesExt

CONSTANTS
  Keys, NoKey,   \* integers in the order of the strings; NoKey, "", is the smallest
  Values, Null

VARIABLE seq

Blank   == [key |-> NoKey, val |-> Null]

Positions(k) == {i \in 1 .. Len(seq) : seq[i].key = k}

Init == seq = << >>

\* any[k] = v
Put(k, v) ==
  seq' = IF Positions(k) = {} THEN Append(seq, [key |-> k, val |-> v])
         ELSE [i \in 1 .. Len(seq) |-> IF i \in Positions(k) THEN [key |-> k, val |-> v] ELSE seq[i]]

\* any[i] = v; positions that did not exist are filled with Null.
SetAt(i, v) ==
  seq' = [j \in 1 .. (IF i > Len(seq) THEN i ELSE Len(seq)) |->
            LET old == IF j <= Len(seq) THEN seq[j] ELSE Blank
            IN  IF j = i THEN [old EXCEPT !.val = v] ELSE old]

\* any.Remove(i)
RemoveIndex(i) == i \in 1 .. Len(seq) /\ seq' = RemoveAt(seq, i)

\* any.insert(pos, n, v)
Insert(pos, n, v) ==
  /\ n > 0
  /\ seq' = SubSeq(seq, 1, pos - 1) \o [i \in 1 .. n |-> [key |-> NoKey, val |-> v]]
              \o SubSeq(seq, pos, Len(seq))

\* any.SortByKey(): the order of the keys; equal ones stay in their order.
\* Also the reverse order.
Sort(up) ==
  LET Before(x, y) == IF up THEN x.key < y.key ELSE y.key < x.key IN
  \E p \in [1 .. Len(seq) -> 1 .. Len(seq)] :
    /\ \A i, j \in 1 .. Len(seq) :
         i < j => \/ Before(seq[p[i]], seq[p[j]])
                  \/ seq[p[i]].key = seq[p[j]].key /\ p[i] < p[j]
    /\ seq' = [i \in 1 .. Len(seq) |-> seq[p[i]]]

Next ==
  \/ \E k \in Keys, v \in Values : Put(k, v)
  \/ \E i \in 1 .. Len(seq) : RemoveIndex(i)
  \/ \E i \in 1 .. Len(seq'), v \in Values : SetAt(i, v)
  \/ \E i \in 1 .. Len(seq) + 1, v \in Values : Insert(i, Len(seq') - Len(seq), v)
  \/ \E up \in BOOLEAN : Sort(up)

Spec == Init /\ [][Next]_seq
=============================================================================
