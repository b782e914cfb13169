------------------------------ MODULE AnyArray ------------------------------
(***************************************************************************)
(* AnyArrayImpl of foundation/base/AnyImpls.cpp, the array that is behind  *)
(* every Anything with more than one element: cells in buffers, a table of *)
(* indices that gives the cells their order and remembers the free ones    *)
(* (AnyIndTable), and a hash table with open addressing from the keys to   *)
(* positions (AnyKeyTable).  The operations are those of Anything.cpp.     *)
(*                                                                         *)
(* The four parts are fields of one record; an operator that changes some  *)
(* of them takes a record and gives the new one.  Positions and cells      *)
(* count from 0 as in the code.  Of fIndexTable the part below fInd->fSize *)
(* is kept and of fEmptyTable the part from there on: the rest is written  *)
(* before it is read.                                                      *)
(***************************************************************************)
EXTENDS Integers, Sequences, SequencesExt

CONSTANTS
  Keys, NoKey,       \* integers in the order of the strings; NoKey is ""
  Values, Null,
  Hash,              \* IFAHash, as a function of the keys
  ARRAY_BUF_SIZE,    \* 4 in the code
  InitCapacity,      \* fCapacity of a new array, 4 in the code
  cInitCapacity,     \* of a new hash table, 17 in the code
  MaxSize,           \* bound: elements
  MaxGap,            \* bound: how far behind the end an element is set
  MaxInsert          \* bound: elements inserted by one call

ASSUME KeysOrdered == Keys \subseteq Int /\ NoKey \in Int /\ \A k \in Keys : NoKey < k
ASSUME Sizes == /\ {ARRAY_BUF_SIZE, InitCapacity, cInitCapacity} \subseteq Nat \ {0}
                /\ InitCapacity % ARRAY_BUF_SIZE = 0
ASSUME HashType == Hash \in [Keys -> Nat]

VARIABLE arr

Blank == [key |-> NoKey, val |-> Null]
Empty   == -1    \* in fHashTable: never used
Deleted == -2    \* in fHashTable: the key was removed
Missing == -1    \* what a search for a key returns

\* fCapacity of the array, of the index table and of the hash table.
Capacity(a)    == Len(a.fContents)
IndSize(a)     == Len(a.fIndexTable)
IndCapacity(a) == IndSize(a) + Len(a.fEmptyTable)

\* Tables are sequences; position i of the code is i + 1.
Cell(a, i) == a.fContents[a.fIndexTable[i + 1] + 1]

-----------------------------------------------------------------------------
(* AnyKeyTable                                                             *)

\* IFANextPrime
IFANextPrime(x) ==
  LET prime(p) == p % 2 = 1 /\ \A d \in 2 .. p - 1 : p % d # 0
      from     == IF x <= 3 THEN 3 ELSE x
  IN  CHOOSE p \in from .. 2 * from : prime(p) /\ \A q \in from .. p - 1 : ~prime(q)

\* InitTable
InitTable(cap) ==
  [i \in 1 .. IFANextPrime(IF cap < cInitCapacity THEN cInitCapacity ELSE cap) |-> Empty]

Threshold(h) == (3 * Len(h)) \div 4

\* Mutant: the search ends at a deleted entry.
Stops_AtDeleted(a, h, k, append, i) ==
  \/ h[i + 1] \in {Empty, Deleted}
  \/ h[i + 1] >= 0 /\ Cell(a, h[i + 1]).key = k

\* Whether the search for k in table h ends at entry i.
Stops(a, h, k, append, i) ==
  \/ h[i + 1] = Empty
  \/ h[i + 1] = Deleted /\ append
  \/ h[i + 1] >= 0 /\ Cell(a, h[i + 1]).key = k

\* DoHash: the entries from the hash value on, around the end of the table.
DoHash(a, h, k, append) ==
  LET entry(n) == (Hash[k] + n) % Len(h)
      ends     == {n \in 0 .. Len(h) - 1 : Stops(a, h, k, append, entry(n))}
  IN  IF ends = {} THEN Missing ELSE entry(CHOOSE n \in ends : \A m \in ends : n <= m)

\* At and AnyArrayImpl::FindIndex; without fKeys the table is << >>.
FindIndex(a, k) ==
  LET i == IF a.fHashTable = << >> THEN Missing ELSE DoHash(a, a.fHashTable, k, FALSE)
  IN  IF i = Missing THEN Missing ELSE a.fHashTable[i + 1]

\* Rehash: the entries of h in a table of capacity cap.
Rehash(a, h, cap) ==
  FoldLeft(LAMBDA g, slot :
             IF slot < 0 THEN g
             ELSE [g EXCEPT ![DoHash(a, g, Cell(a, slot).key, FALSE) + 1] = slot],
           InitTable(cap), h)

\* Append: key k gets position at in table h.
AppendKey(a, h, k, at) ==
  LET g == IF a.fSize > Threshold(h) THEN Rehash(a, h, 2 * Len(h)) ELSE h
  IN  [g EXCEPT ![DoHash(a, g, k, TRUE) + 1] = at]

\* Update(fromIndex), after position from was removed.
UpdateRemoved(h, from) ==
  [i \in 1 .. Len(h) |-> IF h[i] = from THEN Deleted ELSE IF h[i] > from THEN h[i] - 1 ELSE h[i]]

\* Update(fromIndex, size), after size positions were inserted at from.
UpdateInserted(h, from, size) ==
  [i \in 1 .. Len(h) |-> IF h[i] >= from THEN h[i] + size ELSE h[i]]

-----------------------------------------------------------------------------
(* AnyIndTable                                                             *)

\* At: position slot gets its cell, and so do the ones before it.  Expand
\* doubles the table or more; cells that were freed are used first.
IntAt(a, slot) ==
  LET cap    == IndCapacity(a)
      newCap == IF slot < cap THEN cap ELSE IF slot >= 2 * cap THEN 2 * slot ELSE 2 * cap
      empty  == a.fEmptyTable \o [i \in 1 .. newCap - cap |-> cap + i - 1]
      more   == slot + 1 - IndSize(a)
  IN  IF more <= 0 THEN a
      ELSE [a EXCEPT !.fIndexTable = @ \o SubSeq(empty, 1, more),
                     !.fEmptyTable = SubSeq(empty, more + 1, Len(empty))]

\* Mutant: the cell is not remembered.
IndRemove_Forget(a, slot) ==
  [a EXCEPT !.fEmptyTable = <<IndSize(a) - 1>> \o @, !.fIndexTable = RemoveAt(@, slot + 1)]

\* Remove: the cell is remembered where the table ends now.
IndRemove(a, slot) ==
  [a EXCEPT !.fEmptyTable = <<a.fIndexTable[slot + 1]>> \o @, !.fIndexTable = RemoveAt(@, slot + 1)]

\* InsertReserve: the last size cells go to position pos (std::rotate).
IndInsert(a, pos, size) ==
  LET t == a.fIndexTable
      n == IndSize(a) - size
  IN  [a EXCEPT !.fIndexTable = SubSeq(t, 1, pos) \o SubSeq(t, n + 1, n + size) \o SubSeq(t, pos + 1, n)]

-----------------------------------------------------------------------------
(* AnyArrayImpl                                                            *)

\* AdjustCapacity
AdjustCapacity(cap) == ((cap + ARRAY_BUF_SIZE - 1) \div ARRAY_BUF_SIZE) * ARRAY_BUF_SIZE

\* Expand: new buffers with initialised cells.
Expand(a, newsize) ==
  LET cap == AdjustCapacity(IF newsize > 2 * Capacity(a) THEN newsize ELSE 2 * Capacity(a))
  IN  [a EXCEPT !.fContents = @ \o [i \in 1 .. cap - Capacity(a) |-> Blank]]

\* At(slot): the array as it is when the element at slot exists.
At(a, slot) ==
  LET b == [a EXCEPT !.fSize = IF slot + 1 > @ THEN slot + 1 ELSE @]
  IN  IntAt(IF b.fSize > a.fSize /\ b.fSize >= Capacity(a) THEN Expand(b, b.fSize) ELSE b, slot)

\* An assignment to the element at slot, which exists.
SetValue(a, slot, v) == [a EXCEPT !.fContents[a.fIndexTable[slot + 1] + 1].val = v]

\* At(key) for a key that does not exist: the hash table, the index, the key
\* of the cell, and only then the array grows.  A cell behind the buffers is
\* not there to be changed.
AtNewKey(a, k) ==
  LET h == AppendKey(a, IF a.fHashTable = << >> THEN InitTable(cInitCapacity) ELSE a.fHashTable, k, a.fSize)
      b == IntAt([a EXCEPT !.fHashTable = h], a.fSize)
      c == b.fIndexTable[a.fSize + 1] + 1
  IN  At(IF c <= Capacity(b) THEN [b EXCEPT !.fContents[c].key = k] ELSE b, a.fSize)

\* Remove
RemoveSlot(a, slot) ==
  LET b == [a EXCEPT !.fContents[a.fIndexTable[slot + 1] + 1] = Blank]
  IN  [IndRemove(b, slot) EXCEPT !.fHashTable = UpdateRemoved(@, slot), !.fSize = @ - 1]

\* InsertReserve
InsertReserve(a, pos, size) ==
  [IndInsert(At(a, a.fSize + size - 1), pos, size) EXCEPT !.fHashTable = UpdateInserted(@, pos, size)]

\* AnyIntKeyCompare and AnyIntReverseKeyCompare: cell c is before cell d.
Before(a, up, c, d) ==
  LET key(x) == a.fContents[x + 1].key
  IN  IF up THEN key(c) < key(d) ELSE key(d) < key(c)

\* Mutant: of two equal elements the one of the upper half is taken.
Merge_Unstable(a, up, t, lo, m, hi) ==
  LET step(s, i) ==
        IF s.k > m THEN s
        ELSE IF s.j <= hi /\ ~Before(a, up, t[s.k], s.t[s.j])
             THEN [s EXCEPT !.t[i] = s.t[s.j], !.j = @ + 1]
             ELSE [s EXCEPT !.t[i] = t[s.k], !.k = @ + 1]
  IN  FoldLeft(step, [t |-> t, k |-> lo, j |-> m + 1], [i \in 1 .. hi - lo + 1 |-> lo + i - 1]).t

\* MergeByComparer: lo .. m and m + 1 .. hi of t are in order.  k walks the
\* copy of the lower half, which is t itself, and j the upper half.
Merge(a, up, t, lo, m, hi) ==
  LET step(s, i) ==
        IF s.k > m THEN s
        ELSE IF s.j <= hi /\ Before(a, up, s.t[s.j], t[s.k])
             THEN [s EXCEPT !.t[i] = s.t[s.j], !.j = @ + 1]
             ELSE [s EXCEPT !.t[i] = t[s.k], !.k = @ + 1]
  IN  FoldLeft(step, [t |-> t, k |-> lo, j |-> m + 1], [i \in 1 .. hi - lo + 1 |-> lo + i - 1]).t

\* MergeSortByComparer; sort[lo, hi] is the table with lo .. hi in order.
MergeSort(a, up) ==
  LET t == a.fIndexTable
      sort[lo \in 1 .. Len(t), hi \in 0 .. Len(t)] ==
        LET m == (lo + hi) \div 2 IN
        IF lo >= hi THEN t
        ELSE Merge(a, up, [i \in 1 .. Len(t) |-> IF i <= m THEN sort[lo, m][i] ELSE sort[m + 1, hi][i]],
                   lo, m, hi)
  IN  IF t = << >> THEN t ELSE sort[1, Len(t)]

\* RecreateKeyTable
RecreateKeyTable(a) ==
  IF a.fHashTable = << >> THEN a
  ELSE [a EXCEPT !.fHashTable =
          FoldLeft(LAMBDA h, i : IF Cell(a, i).key = NoKey THEN h ELSE AppendKey(a, h, Cell(a, i).key, i),
                   [i \in 1 .. Len(a.fHashTable) |-> Empty], [i \in 1 .. a.fSize |-> i - 1])]

-----------------------------------------------------------------------------
\* AnyArrayImpl's constructor.
Init ==
  arr = [fSize       |-> 0,
         fContents   |-> [i \in 1 .. InitCapacity |-> Blank],
         fIndexTable |-> << >>,
         fEmptyTable |-> [i \in 1 .. InitCapacity |-> i - 1],
         fHashTable  |-> << >>]

\* any[k] = v
Put(k, v) ==
  LET i == FindIndex(arr, k) IN
  \/ /\ i = Missing /\ arr.fSize < MaxSize
     /\ arr' = SetValue(AtNewKey(arr, k), arr.fSize, v)
  \/ i # Missing /\ arr' = SetValue(At(arr, i), i, v)

\* any[i] = v, any.Append(v)
SetAt(i, v) == i < MaxSize /\ arr' = SetValue(At(arr, i), i, v)

\* any.Remove(i)
RemoveIndex(i) == i < arr.fSize /\ arr' = RemoveSlot(arr, i)

\* any.Remove(k)
RemoveKey(k) == FindIndex(arr, k) # Missing /\ arr' = RemoveSlot(arr, FindIndex(arr, k))

\* any.insert(pos, n, v) before the end
Insert(pos, n, v) ==
  /\ pos < arr.fSize /\ arr.fSize + n <= MaxSize
  /\ arr' = FoldLeft(LAMBDA a, i : SetValue(a, i, v), InsertReserve(arr, pos, n), [i \in 1 .. n |-> pos + i - 1])

\* any.SortByKey(), any.SortReverseByKey()
Sort(up) == arr' = RecreateKeyTable([arr EXCEPT !.fIndexTable = MergeSort(arr, up)])

Next ==
  \/ \E k \in Keys, v \in Values : Put(k, v)
  \/ \E i \in 0 .. arr.fSize + MaxGap, v \in Values : SetAt(i, v)
  \/ \E i \in 0 .. MaxSize - 1 : RemoveIndex(i)
  \/ \E k \in Keys : RemoveKey(k)
  \/ \E i \in 0 .. MaxSize - 1, n \in 1 .. MaxInsert, v \in Values : Insert(i, n, v)
  \/ \E up \in BOOLEAN : Sort(up)

Spec == Init /\ [][Next]_arr

-----------------------------------------------------------------------------
\* The search by key finds every key at its position and no other one,
\* whatever was removed, inserted, sorted and rehashed before (FindIndex).
KeysFound ==
  \A k \in Keys :
    LET at == {i \in 0 .. arr.fSize - 1 : Cell(arr, i).key = k}
    IN  IF at = {} THEN FindIndex(arr, k) = Missing ELSE at = {FindIndex(arr, k)}

\* The cells that are free and known to be free.
FreeCells == Range(arr.fEmptyTable)

\* Every cell is used by one position or free, never both, never twice; used
\* ones exist, and free ones are blank, so that no old key or value reappears.
CellsExact ==
  /\ IndSize(arr) = arr.fSize
  /\ Range(arr.fIndexTable) \cup FreeCells = 0 .. IndCapacity(arr) - 1
  /\ Range(arr.fIndexTable) \subseteq 0 .. Capacity(arr) - 1
  /\ Range(arr.fIndexTable) \cap FreeCells = {}
  /\ \A c \in FreeCells : c < Capacity(arr) => arr.fContents[c + 1] = Blank

\* At(key) names the cell of a new element before the array grows; it has to
\* exist by then: Contains asserts of every cell "at >= 0 && at < fCapacity".
NextCellExists == IntAt(arr, arr.fSize).fIndexTable[arr.fSize + 1] < Capacity(arr)

Keyed == INSTANCE KeyedSequence WITH seq <- [i \in 1 .. arr.fSize |-> Cell(arr, i - 1)]

\* The array is the sequence of keyed elements that Anything promises.
Refinement == Keyed!Spec
=============================================================================
