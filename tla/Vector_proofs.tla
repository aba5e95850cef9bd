--------------------------- MODULE Vector_proofs ---------------------------
(***************************************************************************)
(* A vector is a list, for every set of elements and every size it starts  *)
(* from, as long as vector_insert_at gets no index past the end.           *)
(***************************************************************************)
EXTENDS Vector, SequenceTheorems, TLAPS

(* What a cell holds, and the list that is in the cells in use.            *)
Cell == Elem \cup {Junk}
InUse(e, n) == [i \in 1 .. n |-> e[i - 1]]

-----------------------------------------------------------------------------
(* Arrays and lists *)

(* The cells in use are a list with the same elements, shifted by one.     *)
LEMMA InUseProperties ==
  ASSUME NEW n \in Nat, NEW e, \A i \in Cells(n) : e[i] \in Cell
  PROVE  /\ InUse(e, n) \in Seq(Cell)
         /\ Len(InUse(e, n)) = n
         /\ \A i \in 1 .. n : InUse(e, n)[i] = e[i - 1]
<1>1. \A i \in 1 .. n : e[i - 1] \in Cell
  BY DEF Cells
<1>2. InUse(e, n) \in [1 .. n -> Cell]
  BY <1>1 DEF InUse
<1>3. QED
  BY <1>2 DEF InUse

(* memmove() keeps the array an array, and says what each cell holds.      *)
LEMMA MovedProperties ==
  ASSUME NEW size \in Nat, NEW e \in [Cells(size) -> Cell],
         NEW to \in Nat, NEW from \in Nat, NEW n \in Int
  PROVE  /\ Moved(e, to, from, n) \in [Cells(size) -> Cell]
         /\ \A i \in Cells(size) :
              Moved(e, to, from, n)[i] = IF to <= i /\ i < to + n THEN At(e, i - to + from) ELSE e[i]
<1>1. \A i \in Int : At(e, i) \in Cell
  BY DEF At, Cell
<1>2. \A i \in Cells(size) : i - to + from \in Int
  BY DEF Cells
<1>3. QED
  BY <1>1, <1>2 DEF Moved

(* realloc() to at least as many cells keeps all of them.                  *)
LEMMA ReallocProperties ==
  ASSUME NEW size \in Nat, NEW e \in [Cells(size) -> Cell], NEW n \in Nat
  PROVE  /\ Realloc(e, n) \in [Cells(n) -> Cell]
         /\ \A i \in Cells(n) : i < size => Realloc(e, n)[i] = e[i]
  BY DEF Realloc, At, Cells, Cell

(* The room that is made is enough for one more element.                   *)
LEMMA RoomSuffices ==
  ASSUME TypeOK, NEW size \in Nat
  PROVE  /\ Room(size) \in Nat \ {0}
         /\ Room(size) >= num_alloc_elems
         /\ Room(size) >= num_elems + 1
  BY DEF TypeOK, Room, Grown, HasSpace

(* InsertAt shifts what is at the index and after it up by one.            *)
LEMMA InsertAtProperties ==
  ASSUME NEW S, NEW s \in Seq(S), NEW i \in 1 .. Len(s) + 1, NEW x \in S
  PROVE  /\ L!InsertAt(s, i, x) \in Seq(S)
         /\ Len(L!InsertAt(s, i, x)) = Len(s) + 1
         /\ \A j \in 1 .. Len(s) + 1 :
              L!InsertAt(s, i, x)[j] = IF j < i THEN s[j] ELSE IF j = i THEN x ELSE s[j - 1]
<1> DEFINE before == SubSeq(s, 1, i - 1)
           after == SubSeq(s, i, Len(s))
           head == before \o <<x>>
<1>1. before \in Seq(S) /\ Len(before) = i - 1 /\ \A j \in 1 .. i - 1 : before[j] = s[j]
  BY SubSeqProperties
<1>2. after \in Seq(S) /\ Len(after) = Len(s) - i + 1 /\ \A j \in 1 .. Len(s) - i + 1 : after[j] = s[i + j - 1]
  BY SubSeqProperties
<1>3. L!InsertAt(s, i, x) = head \o after
  BY DEF L!InsertAt
<1> HIDE DEF before, after
<1>4. head \in Seq(S) /\ Len(head) = i /\ head[i] = x /\ \A j \in 1 .. i - 1 : head[j] = s[j]
  <2>1. i - 1 \in Nat /\ <<x>> \in Seq(S) /\ Len(<<x>>) = 1 /\ <<x>>[1] = x
    OBVIOUS
  <2>2. /\ head \in Seq(S)
        /\ Len(head) = (i - 1) + 1
        /\ \A j \in 1 .. (i - 1) + 1 : head[j] = IF j <= i - 1 THEN before[j] ELSE <<x>>[j - (i - 1)]
    BY <1>1, <2>1, ConcatProperties
  <2> HIDE DEF head
  <2>3. Len(head) = i /\ i \in 1 .. (i - 1) + 1 /\ i - (i - 1) = 1 /\ ~(i <= i - 1)
    BY <2>2
  <2>4. head[i] = x
    BY <2>1, <2>2, <2>3
  <2>5. ASSUME NEW j \in 1 .. i - 1 PROVE head[j] = s[j]
    BY <1>1, <2>2
  <2>6. QED
    BY <2>2, <2>3, <2>4, <2>5
<1> HIDE DEF head
<1>5. /\ head \o after \in Seq(S)
      /\ Len(head \o after) = Len(s) + 1
      /\ \A j \in 1 .. Len(s) + 1 : (head \o after)[j] = IF j <= i THEN head[j] ELSE after[j - i]
  <2>1. i + (Len(s) - i + 1) = Len(s) + 1
    OBVIOUS
  <2>2. QED
    BY <1>2, <1>4, <2>1, ConcatProperties
<1>6. ASSUME NEW j \in 1 .. Len(s) + 1, j > i
      PROVE  after[j - i] = s[j - 1]
  <2>1. j - i \in 1 .. Len(s) - i + 1 /\ i + (j - i) - 1 = j - 1
    BY <1>6
  <2>2. QED
    BY <1>2, <2>1
<1>7. QED
  BY <1>3, <1>4, <1>5, <1>6

(* RemoveAt shifts what is after the index down by one.                    *)
LEMMA RemoveAtProperties ==
  ASSUME NEW S, NEW s \in Seq(S), NEW i \in 1 .. Len(s)
  PROVE  /\ L!RemoveAt(s, i) \in Seq(S)
         /\ Len(L!RemoveAt(s, i)) = Len(s) - 1
         /\ \A j \in 1 .. Len(s) - 1 : L!RemoveAt(s, i)[j] = IF j < i THEN s[j] ELSE s[j + 1]
<1> DEFINE before == SubSeq(s, 1, i - 1)
           after == SubSeq(s, i + 1, Len(s))
<1>1. before \in Seq(S) /\ Len(before) = i - 1 /\ \A j \in 1 .. i - 1 : before[j] = s[j]
  BY SubSeqProperties
<1>2. after \in Seq(S) /\ Len(after) = Len(s) - i /\ \A j \in 1 .. Len(s) - i : after[j] = s[i + j]
  BY SubSeqProperties
<1>3. L!RemoveAt(s, i) = before \o after
  BY DEF L!RemoveAt
<1> HIDE DEF before, after
<1>4. /\ before \o after \in Seq(S)
      /\ Len(before \o after) = Len(s) - 1
  BY <1>1, <1>2
<1>5. ASSUME NEW j \in 1 .. Len(s) - 1
      PROVE  (before \o after)[j] = IF j < i THEN s[j] ELSE s[j + 1]
  <2>1. CASE j < i
    BY <1>1, <1>2, <2>1
  <2>2. CASE ~(j < i)
    <3>1. (before \o after)[j] = after[j - (i - 1)]
      BY <1>1, <1>2, <2>2
    <3>2. after[j - (i - 1)] = s[i + (j - (i - 1))]
      BY <1>2, <2>2
    <3>3. i + (j - (i - 1)) = j + 1
      OBVIOUS
    <3>4. QED
      BY <3>1, <3>2, <3>3, <2>2
  <2>3. QED
    BY <2>1, <2>2
<1>6. QED
  BY <1>3, <1>4, <1>5

(* The cells in use are the list whose elements they hold.                 *)
LEMMA SameList ==
  ASSUME NEW size \in Nat, NEW e \in [Cells(size) -> Cell], NEW n \in 0 .. size,
         NEW t \in Seq(Cell), Len(t) = n, \A i \in 1 .. n : t[i] = e[i - 1]
  PROVE  InUse(e, n) = t
<1>1. n \in Nat /\ \A i \in Cells(n) : e[i] \in Cell
  BY DEF Cells
<1>2. /\ InUse(e, n) \in Seq(Cell)
      /\ Len(InUse(e, n)) = n
      /\ \A i \in 1 .. n : InUse(e, n)[i] = e[i - 1]
  BY <1>1, InUseProperties
<1> HIDE DEF InUse
<1>3. QED
  BY <1>2, SeqEqual

-----------------------------------------------------------------------------
(* Each call: it leaves an array with the same room as cells, and the list *)
(* in it is the one asked for.                                             *)

Now == InUse(elems, num_elems)

(* What is known of the list before the call.                              *)
LEMMA NowProperties ==
  ASSUME TypeOK
  PROVE  /\ num_elems \in Nat
         /\ num_alloc_elems \in Nat
         /\ elems \in [Cells(num_alloc_elems) -> Cell]
         /\ \A i \in Cells(num_elems) : i \in Cells(num_alloc_elems) /\ elems[i] \in Cell
         /\ Now \in Seq(Cell)
         /\ Len(Now) = num_elems
         /\ \A i \in 1 .. num_elems : Now[i] = elems[i - 1]
<1>1. num_elems \in Nat /\ num_alloc_elems \in Nat /\ num_elems <= num_alloc_elems
  BY DEF TypeOK
<1>2. elems \in [Cells(num_alloc_elems) -> Cell]
  BY DEF TypeOK, Cell
<1>3. \A i \in Cells(num_elems) : i \in Cells(num_alloc_elems) /\ elems[i] \in Cell
  BY <1>1, <1>2 DEF Cells
<1>4. QED
  BY <1>1, <1>2, <1>3, InUseProperties DEF Now

(* It is enough to know, after a call, the array and which list is in it.  *)
LEMMA AfterCall ==
  ASSUME NEW size \in Nat \ {0}, num_alloc_elems' = size,
         elems' \in [Cells(size) -> Cell],
         NEW n \in 0 .. size, num_elems' = n,
         overrun' \in BOOLEAN,
         NEW t \in Seq(Cell), Len(t) = n,
         \A i \in 1 .. n : t[i] = elems'[i - 1]
  PROVE  TypeOK' /\ Now' = t
<1>1. TypeOK'
  BY DEF TypeOK, Cell
<1>2. InUse(elems', num_elems') = t
  BY SameList
<1>3. QED
  BY <1>1, <1>2 DEF Now

(* vector_push *)
LEMMA PushAppends ==
  ASSUME TypeOK, NEW x \in Elem, vector_push(x)
  PROVE  TypeOK' /\ Now' = Append(Now, x) /\ ~overrun'
<1> DEFINE room == Room(0)
           e == Realloc(elems, room)
<1>1. /\ room \in Nat \ {0} /\ room >= num_alloc_elems /\ room >= num_elems + 1
      /\ num_elems \in Nat /\ num_alloc_elems \in Nat /\ num_elems <= num_alloc_elems
  BY RoomSuffices DEF TypeOK
<1>2. /\ num_alloc_elems' = room
      /\ elems' = [e EXCEPT ![num_elems] = x]
      /\ num_elems' = num_elems + 1
      /\ overrun' = (num_elems + 1 > room)
  BY DEF vector_push
<1> HIDE DEF room
<1>3. e \in [Cells(room) -> Cell] /\ \A i \in Cells(room) : i < num_alloc_elems => e[i] = elems[i]
  BY <1>1, NowProperties, ReallocProperties
<1> HIDE DEF e
<1>4. num_elems \in Cells(room) /\ x \in Cell
  BY <1>1 DEF Cells, Cell
<1>5. /\ elems' \in [Cells(room) -> Cell]
      /\ num_elems + 1 \in 0 .. room
      /\ ~overrun' /\ overrun' \in BOOLEAN
  <2>1. elems' \in [Cells(room) -> Cell]
    BY <1>2, <1>3, <1>4
  <2>2. num_elems + 1 \in 0 .. room
    BY <1>1
  <2>3. (num_elems + 1 > room) = FALSE
    BY <1>1
  <2>4. overrun' = FALSE
    BY <1>2, <2>3
  <2>5. QED
    BY <2>1, <2>2, <2>4
<1>6. /\ Append(Now, x) \in Seq(Cell)
      /\ Len(Append(Now, x)) = num_elems + 1
      /\ \A i \in 1 .. num_elems : Append(Now, x)[i] = Now[i]
      /\ Append(Now, x)[num_elems + 1] = x
  BY <1>2, <1>4, NowProperties, AppendProperties
<1>7. ASSUME NEW i \in 1 .. num_elems + 1
      PROVE  Append(Now, x)[i] = elems'[i - 1]
  <2>1. CASE i = num_elems + 1
    BY <1>1, <1>2, <1>3, <1>4, <1>6, <2>1
  <2>2. CASE i # num_elems + 1
    <3>1. i \in 1 .. num_elems /\ i - 1 \in Cells(room) /\ i - 1 < num_alloc_elems /\ i - 1 # num_elems
      BY <1>1, <2>2 DEF Cells
    <3>2. elems'[i - 1] = elems[i - 1]
      BY <1>2, <1>3, <3>1
    <3>3. QED
      BY <1>6, <3>1, <3>2, NowProperties
  <2>3. QED
    BY <2>1, <2>2
<1>8. QED
  BY <1>1, <1>2, <1>5, <1>6, <1>7, AfterCall

(* vector_insert with an index *)
LEMMA InsertSets ==
  ASSUME TypeOK, NEW x \in Elem, NEW i \in Index, vector_insert(x, i)
  PROVE  /\ TypeOK' /\ ~overrun'
         /\ Now' = IF i < Len(Now) THEN L!ReplaceAt(Now, i + 1, x) ELSE Now
<1>1. /\ num_elems \in Nat /\ num_alloc_elems \in Nat \ {0} /\ num_elems <= num_alloc_elems
      /\ i \in Nat
  BY DEF TypeOK, Index
<1>2. /\ elems' = IF i < num_elems THEN [elems EXCEPT ![i] = x] ELSE elems
      /\ overrun' = FALSE
      /\ num_elems' = num_elems
      /\ num_alloc_elems' = num_alloc_elems
  BY DEF vector_insert, Inbounds
<1>3. x \in Cell
  BY DEF Cell
<1>4. elems' \in [Cells(num_alloc_elems) -> Cell] /\ num_elems \in 0 .. num_alloc_elems /\ overrun' \in BOOLEAN
  <2>1. elems' \in [Cells(num_alloc_elems) -> Cell]
    BY <1>2, <1>3, NowProperties
  <2>2. num_elems \in 0 .. num_alloc_elems
    BY <1>1
  <2>3. overrun' \in BOOLEAN
    BY <1>2
  <2>4. QED
    BY <2>1, <2>2, <2>3
<1>5. CASE i < num_elems
  <2> DEFINE t == [Now EXCEPT ![i + 1] = x]
  <2>1. /\ t \in Seq(Cell) /\ Len(t) = num_elems
        /\ \A j \in 1 .. num_elems : t[j] = IF j = i + 1 THEN x ELSE Now[j]
    BY <1>1, <1>3, <1>5, NowProperties
  <2> HIDE DEF t
  <2>2. ASSUME NEW j \in 1 .. num_elems PROVE t[j] = elems'[j - 1]
    <3>1. j - 1 \in Cells(num_elems) /\ (j = i + 1 <=> j - 1 = i)
      BY <1>1 DEF Cells
    <3>2. j - 1 \in Cells(num_alloc_elems)
      BY <3>1, NowProperties
    <3>3. QED
      BY <1>2, <1>5, <2>1, <3>1, <3>2, NowProperties
  <2>3. TypeOK' /\ Now' = t
    BY <1>1, <1>2, <1>4, <2>1, <2>2, AfterCall
  <2>4. QED
    BY <1>2, <1>5, <2>3, NowProperties DEF L!ReplaceAt, t
<1>6. CASE ~(i < num_elems)
  <2>1. \A j \in 1 .. num_elems : Now[j] = elems'[j - 1]
    BY <1>2, <1>6, NowProperties
  <2>2. Now \in Seq(Cell) /\ Len(Now) = num_elems
    BY NowProperties
  <2>3. TypeOK' /\ Now' = Now
    BY <1>1, <1>2, <1>4, <2>1, <2>2, AfterCall
  <2>4. QED
    BY <1>2, <1>6, <2>2, <2>3
<1>7. QED
  BY <1>5, <1>6
(* vector_insert_at: any index leaves an array, one up to the end the list *)
(* with the element inserted.                                              *)
LEMMA InsertAtKeepsArray ==
  ASSUME TypeOK, NEW x \in Elem, NEW i \in Nat, vector_insert_at(x, i)
  PROVE  TypeOK' /\ ~overrun'
<1> DEFINE room == Room(0)
           e == Realloc(elems, room)
           n == IF i < num_elems THEN TailFrom(i) ELSE 0
           moved == Moved(e, i + 1, i, n)
<1>1. /\ room \in Nat \ {0} /\ room >= num_alloc_elems /\ room >= num_elems + 1
      /\ num_elems \in Nat /\ num_alloc_elems \in Nat
  BY RoomSuffices DEF TypeOK
<1>2. /\ num_alloc_elems' = room
      /\ elems' = IF i < num_elems + 1 THEN [moved EXCEPT ![i] = x] ELSE moved
      /\ num_elems' = num_elems + 1
      /\ overrun' = MoveOverruns(room, i + 1, i, n)
  BY DEF vector_insert_at
<1>3. n \in Nat /\ (n > 0 => i + 1 + n <= room)
  BY <1>1 DEF TailFrom
<1> HIDE DEF room, n
<1>4. e \in [Cells(room) -> Cell]
  BY <1>1, NowProperties, ReallocProperties
<1> HIDE DEF e
<1>5. moved \in [Cells(room) -> Cell]
  BY <1>1, <1>3, <1>4, MovedProperties
<1> HIDE DEF moved
<1>6. elems' \in [Cells(room) -> Cell]
  BY <1>2, <1>5 DEF Cell
<1>7. MoveOverruns(room, i + 1, i, n) = FALSE
  BY <1>1, <1>3 DEF MoveOverruns
<1>8. overrun' = FALSE
  BY <1>2, <1>7
<1>9. num_elems + 1 \in 0 .. room
  BY <1>1
<1>10. QED
  BY <1>1, <1>2, <1>6, <1>8, <1>9 DEF TypeOK, Cell

LEMMA InsertAtInserts ==
  ASSUME TypeOK, NEW x \in Elem, NEW i \in Index, vector_insert_at(x, i)
  PROVE  Now' = L!InsertAt(Now, i + 1, x)
<1> DEFINE room == Room(0)
           e == Realloc(elems, room)
           n == IF i < num_elems THEN TailFrom(i) ELSE 0
           moved == Moved(e, i + 1, i, n)
           t == L!InsertAt(Now, i + 1, x)
<1>1. /\ room \in Nat \ {0} /\ room >= num_alloc_elems /\ room >= num_elems + 1
      /\ num_elems \in Nat /\ num_alloc_elems \in Nat /\ num_elems <= num_alloc_elems
      /\ i \in Nat /\ i <= num_elems
  BY RoomSuffices DEF TypeOK, Index
<1>2. /\ num_alloc_elems' = room
      /\ elems' = [moved EXCEPT ![i] = x]
      /\ num_elems' = num_elems + 1
  BY <1>1 DEF vector_insert_at
<1>3. n = num_elems - i
  BY <1>1 DEF TailFrom
<1> HIDE DEF room, n
<1>4. e \in [Cells(room) -> Cell] /\ \A j \in Cells(room) : j < num_alloc_elems => e[j] = elems[j]
  BY <1>1, NowProperties, ReallocProperties
<1> HIDE DEF e
<1>5. /\ moved \in [Cells(room) -> Cell]
      /\ \A j \in Cells(room) :
           moved[j] = IF i + 1 <= j /\ j < i + 1 + n THEN At(e, j - (i + 1) + i) ELSE e[j]
  BY <1>1, <1>3, <1>4, MovedProperties
<1> HIDE DEF moved
<1>6. x \in Cell /\ i + 1 \in 1 .. num_elems + 1 /\ i \in Cells(room)
  BY <1>1 DEF Cell, Cells
<1>7. /\ t \in Seq(Cell)
      /\ Len(t) = num_elems + 1
      /\ \A j \in 1 .. num_elems + 1 :
           t[j] = IF j < i + 1 THEN Now[j] ELSE IF j = i + 1 THEN x ELSE Now[j - 1]
  <2>1. Now \in Seq(Cell) /\ Len(Now) = num_elems
    BY NowProperties
  <2>2. i + 1 \in 1 .. Len(Now) + 1
    BY <1>6, <2>1
  <2>3. /\ t \in Seq(Cell)
        /\ Len(t) = Len(Now) + 1
        /\ \A j \in 1 .. Len(Now) + 1 :
             t[j] = IF j < i + 1 THEN Now[j] ELSE IF j = i + 1 THEN x ELSE Now[j - 1]
    <3> DEFINE k == i + 1
    <3>1. k \in 1 .. Len(Now) + 1
      BY <2>2
    <3> HIDE DEF k
    <3>2. /\ L!InsertAt(Now, k, x) \in Seq(Cell)
          /\ Len(L!InsertAt(Now, k, x)) = Len(Now) + 1
          /\ \A j \in 1 .. Len(Now) + 1 :
               L!InsertAt(Now, k, x)[j] = IF j < k THEN Now[j] ELSE IF j = k THEN x ELSE Now[j - 1]
      <4>1. x \in Cell /\ Now \in Seq(Cell)
        BY <1>6, <2>1
      <4>2. QED
        BY <3>1, <4>1, InsertAtProperties
    <3>3. QED
      BY <3>2 DEF k
  <2>4. QED
    BY <2>1, <2>3
<1> HIDE DEF t
<1>8. ASSUME NEW j \in 1 .. num_elems + 1 PROVE t[j] = elems'[j - 1]
  <2>1. j - 1 \in Cells(room) /\ j - 1 \in Int
    BY <1>1 DEF Cells
  <2>2. CASE j < i + 1
    <3>1. j \in 1 .. num_elems /\ j - 1 < num_alloc_elems /\ j - 1 # i /\ ~(i + 1 <= j - 1)
      BY <1>1, <2>2
    <3>2. elems'[j - 1] = elems[j - 1]
      BY <1>2, <1>4, <1>5, <2>1, <3>1
    <3>3. QED
      BY <1>7, <2>2, <3>1, <3>2, NowProperties
  <2>3. CASE j = i + 1
    <3>1. j - 1 = i
      BY <1>1, <2>3
    <3>2. QED
      BY <1>1, <1>2, <1>5, <1>6, <1>7, <2>3, <3>1
  <2>4. CASE j > i + 1
    <3>1. /\ j - 1 \in 1 .. num_elems /\ j - 1 # i /\ i + 1 <= j - 1 /\ j - 1 < i + 1 + n
          /\ (j - 1) - (i + 1) + i = (j - 1) - 1
          /\ (j - 1) - 1 \in Cells(room) /\ (j - 1) - 1 < num_alloc_elems
          /\ ~(j < i + 1) /\ j # i + 1
      BY <1>1, <1>3, <2>4 DEF Cells
    <3>2. elems'[j - 1] = At(e, (j - 1) - 1)
      BY <1>2, <1>5, <2>1, <3>1
    <3>3. At(e, (j - 1) - 1) = elems[(j - 1) - 1]
      BY <1>4, <3>1 DEF At
    <3>4. t[j] = Now[j - 1] /\ Now[j - 1] = elems[(j - 1) - 1]
      BY <1>7, <3>1, NowProperties
    <3>5. QED
      BY <3>2, <3>3, <3>4
  <2>5. QED
    BY <1>1, <2>2, <2>3, <2>4
<1>9. TypeOK'
  BY <1>1, InsertAtKeepsArray
<1>10. elems' \in [Cells(room) -> Cell] /\ num_elems + 1 \in 0 .. room /\ overrun' \in BOOLEAN
  <2>1. elems' \in [Cells(room) -> Cell]
    BY <1>2, <1>5, <1>6
  <2>2. num_elems + 1 \in 0 .. room
    BY <1>1
  <2>3. overrun' \in BOOLEAN
    BY <1>9 DEF TypeOK
  <2>4. QED
    BY <2>1, <2>2, <2>3
<1>11. Now' = t
  BY <1>1, <1>2, <1>7, <1>8, <1>10, AfterCall
<1>12. QED
  BY <1>11 DEF t
(* vector_unshift *)
LEMMA UnshiftPrepends ==
  ASSUME TypeOK, NEW x \in Elem, vector_unshift(x)
  PROVE  TypeOK' /\ ~overrun' /\ Now' = <<x>> \o Now
<1> DEFINE room == Room(num_elems + 1)
           e == Realloc(elems, room)
           moved == Moved(e, 1, 0, num_elems)
           t == <<x>> \o Now
<1>1. num_elems \in Nat /\ num_alloc_elems \in Nat /\ num_elems <= num_alloc_elems
  BY DEF TypeOK
<1>2. room \in Nat \ {0} /\ room >= num_alloc_elems /\ room >= num_elems + 1
  BY <1>1, RoomSuffices
<1>3. /\ num_alloc_elems' = room
      /\ elems' = [moved EXCEPT ![0] = x]
      /\ num_elems' = num_elems + 1
      /\ overrun' = MoveOverruns(room, 1, 0, num_elems)
  BY DEF vector_unshift
<1> HIDE DEF room
<1>4. e \in [Cells(room) -> Cell] /\ \A j \in Cells(room) : j < num_alloc_elems => e[j] = elems[j]
  BY <1>1, <1>2, NowProperties, ReallocProperties
<1> HIDE DEF e
<1>5. /\ moved \in [Cells(room) -> Cell]
      /\ \A j \in Cells(room) :
           moved[j] = IF 1 <= j /\ j < 1 + num_elems THEN At(e, j - 1 + 0) ELSE e[j]
  BY <1>1, <1>2, <1>4, MovedProperties
<1> HIDE DEF moved
<1>6. x \in Cell /\ <<x>> \in Seq(Cell) /\ Len(<<x>>) = 1 /\ <<x>>[1] = x /\ 0 \in Cells(room)
  BY <1>2 DEF Cell, Cells
<1>7. /\ t \in Seq(Cell)
      /\ Len(t) = 1 + num_elems
      /\ \A j \in 1 .. 1 + num_elems : t[j] = IF j <= 1 THEN <<x>>[j] ELSE Now[j - 1]
  <2>1. Now \in Seq(Cell) /\ Len(Now) = num_elems
    BY NowProperties
  <2>2. QED
    BY <1>6, <2>1, ConcatProperties
<1> HIDE DEF t
<1>8. ASSUME NEW j \in 1 .. num_elems + 1 PROVE t[j] = elems'[j - 1]
  <2>1. j - 1 \in Cells(room)
    BY <1>1, <1>2 DEF Cells
  <2>2. CASE j = 1
    BY <1>1, <1>3, <1>5, <1>6, <1>7, <2>2
  <2>3. CASE j # 1
    <3>1. /\ j - 1 \in 1 .. num_elems /\ 1 <= j - 1 /\ j - 1 < 1 + num_elems
          /\ (j - 1) - 1 + 0 = (j - 1) - 1
          /\ (j - 1) - 1 \in Cells(room) /\ (j - 1) - 1 < num_alloc_elems
          /\ ~(j <= 1) /\ j \in 1 .. 1 + num_elems
      BY <1>1, <1>2, <2>3 DEF Cells
    <3>2. elems'[j - 1] = At(e, (j - 1) - 1)
      BY <1>3, <1>5, <2>1, <3>1
    <3>3. At(e, (j - 1) - 1) = elems[(j - 1) - 1]
      BY <1>4, <3>1 DEF At
    <3>4. t[j] = Now[j - 1] /\ Now[j - 1] = elems[(j - 1) - 1]
      BY <1>7, <3>1, NowProperties
    <3>5. QED
      BY <3>2, <3>3, <3>4
  <2>4. QED
    BY <2>2, <2>3
<1>9. overrun' = FALSE
  <2>1. MoveOverruns(room, 1, 0, num_elems) = FALSE
    BY <1>1, <1>2 DEF MoveOverruns
  <2>2. QED
    BY <1>3, <2>1
<1>10. elems' \in [Cells(room) -> Cell] /\ num_elems + 1 \in 0 .. room
  <2>1. elems' \in [Cells(room) -> Cell]
    BY <1>3, <1>5, <1>6
  <2>2. num_elems + 1 \in 0 .. room
    BY <1>1, <1>2
  <2>3. QED
    BY <2>1, <2>2
<1>11. overrun' \in BOOLEAN /\ Len(t) = num_elems + 1
  <2>1. Len(t) = num_elems + 1
    BY <1>1, <1>7
  <2>2. QED
    BY <1>9, <2>1
<1>12. TypeOK' /\ Now' = t
  BY <1>2, <1>3, <1>7, <1>8, <1>10, <1>11, AfterCall
<1>13. QED
  BY <1>9, <1>12 DEF t

(* vector_pop *)
LEMMA PopTakesTheLast ==
  ASSUME TypeOK, vector_pop
  PROVE  /\ TypeOK' /\ ~overrun'
         /\ Now # <<>>
         /\ out' = <<Now[Len(Now)]>>
         /\ Now' = SubSeq(Now, 1, Len(Now) - 1)
<1> DEFINE t == SubSeq(Now, 1, num_elems - 1)
<1>1. /\ num_elems \in Nat /\ num_alloc_elems \in Nat \ {0} /\ num_elems <= num_alloc_elems
      /\ num_elems > 0
  BY DEF TypeOK, vector_pop
<1>2. /\ out' = <<elems[num_elems - 1]>>
      /\ num_elems' = num_elems - 1
      /\ overrun' = FALSE
      /\ elems' = elems
      /\ num_alloc_elems' = num_alloc_elems
  BY DEF vector_pop
<1>3. /\ Now \in Seq(Cell) /\ Len(Now) = num_elems
      /\ \A i \in 1 .. num_elems : Now[i] = elems[i - 1]
      /\ elems \in [Cells(num_alloc_elems) -> Cell]
  BY NowProperties
<1>4. /\ t \in Seq(Cell)
      /\ Len(t) = num_elems - 1
      /\ \A i \in 1 .. num_elems - 1 : t[i] = Now[i]
  BY <1>1, <1>3, SubSeqProperties
<1> HIDE DEF t
<1>5. \A i \in 1 .. num_elems - 1 : t[i] = elems'[i - 1]
  BY <1>1, <1>2, <1>3, <1>4
<1>6. num_elems - 1 \in 0 .. num_alloc_elems /\ overrun' \in BOOLEAN
  <2>1. num_elems - 1 \in 0 .. num_alloc_elems
    BY <1>1
  <2>2. QED
    BY <1>2, <2>1
<1>7. elems' \in [Cells(num_alloc_elems) -> Cell]
  BY <1>2, <1>3
<1>8. TypeOK' /\ Now' = t
  BY <1>1, <1>2, <1>4, <1>5, <1>6, <1>7, AfterCall
<1>9. Now # <<>> /\ Now[num_elems] = elems[num_elems - 1]
  BY <1>1, <1>3
<1>10. QED
  BY <1>2, <1>3, <1>8, <1>9 DEF t

(* vector_shift *)
LEMMA ShiftTakesTheFirst ==
  ASSUME TypeOK, vector_shift
  PROVE  /\ TypeOK' /\ ~overrun'
         /\ Now # <<>>
         /\ out' = <<Now[1]>>
         /\ Now' = SubSeq(Now, 2, Len(Now))
<1> DEFINE t == SubSeq(Now, 2, num_elems)
           moved == Moved(elems, 0, 1, num_elems - 1)
<1>1. /\ num_elems \in Nat /\ num_alloc_elems \in Nat \ {0} /\ num_elems <= num_alloc_elems
      /\ num_elems > 0
  BY DEF TypeOK, vector_shift
<1>2. /\ out' = <<elems[0]>>
      /\ elems' = moved
      /\ num_elems' = num_elems - 1
      /\ overrun' = MoveOverruns(num_alloc_elems, 0, 1, num_elems - 1)
      /\ num_alloc_elems' = num_alloc_elems
  BY DEF vector_shift, ShiftLength
<1>3. /\ Now \in Seq(Cell) /\ Len(Now) = num_elems
      /\ \A i \in 1 .. num_elems : Now[i] = elems[i - 1]
      /\ elems \in [Cells(num_alloc_elems) -> Cell]
  BY NowProperties
<1>4. /\ moved \in [Cells(num_alloc_elems) -> Cell]
      /\ \A i \in Cells(num_alloc_elems) :
           moved[i] = IF 0 <= i /\ i < 0 + (num_elems - 1) THEN At(elems, i - 0 + 1) ELSE elems[i]
  <2>1. num_elems - 1 \in Int
    BY <1>1
  <2>2. QED
    BY <1>1, <1>3, <2>1, MovedProperties
<1> HIDE DEF moved
<1>5. /\ t \in Seq(Cell)
      /\ Len(t) = num_elems - 1
      /\ \A i \in 1 .. num_elems - 1 : t[i] = Now[i + 1]
  <2>1. \A i \in 2 .. num_elems : Now[i] \in Cell
    BY <1>1, <1>3
  <2>2. /\ t \in Seq(Cell)
        /\ Len(t) = IF 2 <= num_elems THEN num_elems - 2 + 1 ELSE 0
        /\ \A i \in 1 .. num_elems - 2 + 1 : t[i] = Now[2 + i - 1]
    BY <1>1, <2>1, SubSeqProperties
  <2> HIDE DEF t
  <2>3. Len(t) = num_elems - 1
    BY <1>1, <2>2
  <2>4. ASSUME NEW i \in 1 .. num_elems - 1 PROVE t[i] = Now[i + 1]
    <3>1. i \in 1 .. num_elems - 2 + 1 /\ 2 + i - 1 = i + 1
      BY <1>1
    <3>2. QED
      BY <2>2, <3>1
  <2>5. QED
    BY <2>2, <2>3, <2>4
<1> HIDE DEF t
<1>6. ASSUME NEW i \in 1 .. num_elems - 1 PROVE t[i] = elems'[i - 1]
  <2>1. /\ i - 1 \in Cells(num_alloc_elems) /\ 0 <= i - 1 /\ i - 1 < 0 + (num_elems - 1)
        /\ (i - 1) - 0 + 1 = i /\ i \in Cells(num_alloc_elems)
        /\ i + 1 \in 1 .. num_elems /\ (i + 1) - 1 = i
    BY <1>1 DEF Cells
  <2>2. elems'[i - 1] = elems[i]
    BY <1>2, <1>3, <1>4, <2>1 DEF At
  <2>3. t[i] = elems[i]
    BY <1>3, <1>5, <2>1
  <2>4. QED
    BY <2>2, <2>3
<1>7. overrun' = FALSE
  <2>1. MoveOverruns(num_alloc_elems, 0, 1, num_elems - 1) = FALSE
    BY <1>1 DEF MoveOverruns
  <2>2. QED
    BY <1>2, <2>1
<1>8. num_elems - 1 \in 0 .. num_alloc_elems /\ overrun' \in BOOLEAN
  <2>1. num_elems - 1 \in 0 .. num_alloc_elems
    BY <1>1
  <2>2. QED
    BY <1>7, <2>1
<1>9. elems' \in [Cells(num_alloc_elems) -> Cell]
  BY <1>2, <1>4
<1>10. TypeOK' /\ Now' = t
  BY <1>1, <1>2, <1>5, <1>6, <1>8, <1>9, AfterCall
<1>11. Now # <<>> /\ Now[1] = elems[0]
  <2>1. 1 \in 1 .. num_elems /\ 1 - 1 = 0
    BY <1>1
  <2>2. QED
    BY <1>1, <1>3, <2>1
<1>12. QED
  BY <1>2, <1>3, <1>7, <1>10, <1>11 DEF t
(* vector_remove: what it moves from past the list stays past the list.    *)
LEMMA RemoveDeletes ==
  ASSUME TypeOK, NEW i \in Index, vector_remove(i)
  PROVE  /\ TypeOK'
         /\ Now' = IF i < Len(Now) THEN L!RemoveAt(Now, i + 1) ELSE Now
         /\ overrun' => num_elems + 2 > num_alloc_elems
<1> DEFINE n == IF i < num_elems THEN num_elems - i + 1 ELSE 0
           moved == Moved(elems, i, i + 1, n)
<1>1. /\ num_elems \in Nat /\ num_alloc_elems \in Nat \ {0} /\ num_elems <= num_alloc_elems
      /\ i \in Nat /\ i <= num_elems
  BY DEF TypeOK, Index
<1>2. /\ elems' = moved
      /\ num_elems' = IF i < num_elems THEN num_elems - 1 ELSE num_elems
      /\ overrun' = MoveOverruns(num_alloc_elems, i, i + 1, n)
      /\ num_alloc_elems' = num_alloc_elems
  BY DEF vector_remove, Inbounds
<1>3. /\ Now \in Seq(Cell) /\ Len(Now) = num_elems
      /\ \A j \in 1 .. num_elems : Now[j] = elems[j - 1]
      /\ elems \in [Cells(num_alloc_elems) -> Cell]
  BY NowProperties
<1>4. n \in Nat /\ (i < num_elems => n = num_elems - i + 1) /\ (~(i < num_elems) => n = 0)
  BY <1>1
<1> HIDE DEF n
<1>5. /\ moved \in [Cells(num_alloc_elems) -> Cell]
      /\ \A j \in Cells(num_alloc_elems) :
           moved[j] = IF i <= j /\ j < i + n THEN At(elems, j - i + (i + 1)) ELSE elems[j]
  <2> DEFINE k == i + 1
  <2>1. k \in Nat /\ i \in Nat /\ n \in Int /\ num_alloc_elems \in Nat
    BY <1>1, <1>4
  <2>2. elems \in [Cells(num_alloc_elems) -> Cell]
    BY <1>3
  <2> HIDE DEF k
  <2>3. /\ Moved(elems, i, k, n) \in [Cells(num_alloc_elems) -> Cell]
        /\ \A j \in Cells(num_alloc_elems) :
             Moved(elems, i, k, n)[j] = IF i <= j /\ j < i + n THEN At(elems, j - i + k) ELSE elems[j]
    BY <2>1, <2>2, MovedProperties
  <2>4. QED
    BY <2>3 DEF k
<1> HIDE DEF moved
<1>6. MoveOverruns(num_alloc_elems, i, i + 1, n) \in BOOLEAN
      /\ (MoveOverruns(num_alloc_elems, i, i + 1, n) => num_elems + 2 > num_alloc_elems)
  <2>1. MoveOverruns(num_alloc_elems, i, i + 1, n) \in BOOLEAN
    BY DEF MoveOverruns
  <2>2. MoveOverruns(num_alloc_elems, i, i + 1, n) => num_elems + 2 > num_alloc_elems
    BY <1>1, <1>4 DEF MoveOverruns
  <2>3. QED
    BY <2>1, <2>2
<1>7. overrun' \in BOOLEAN /\ (overrun' => num_elems + 2 > num_alloc_elems)
  BY <1>2, <1>6
<1>8. elems' \in [Cells(num_alloc_elems) -> Cell]
  BY <1>2, <1>5
<1>9. CASE i < num_elems
  <2> DEFINE t == L!RemoveAt(Now, i + 1)
             k == i + 1
  <2>1. k \in 1 .. Len(Now)
    BY <1>1, <1>3, <1>9
  <2> HIDE DEF k
  <2>2. /\ L!RemoveAt(Now, k) \in Seq(Cell)
        /\ Len(L!RemoveAt(Now, k)) = Len(Now) - 1
        /\ \A j \in 1 .. Len(Now) - 1 : L!RemoveAt(Now, k)[j] = IF j < k THEN Now[j] ELSE Now[j + 1]
    <3>1. Now \in Seq(Cell)
      BY <1>3
    <3>2. QED
      BY <2>1, <3>1, RemoveAtProperties
  <2>3. /\ t \in Seq(Cell)
        /\ Len(t) = num_elems - 1
        /\ \A j \in 1 .. num_elems - 1 : t[j] = IF j < i + 1 THEN Now[j] ELSE Now[j + 1]
    BY <1>3, <2>2 DEF k
  <2> HIDE DEF t
  <2>4. ASSUME NEW j \in 1 .. num_elems - 1 PROVE t[j] = elems'[j - 1]
    <3>1. CASE j < i + 1
      <4>1. j - 1 \in Cells(num_alloc_elems) /\ ~(i <= j - 1) /\ j \in 1 .. num_elems
        BY <1>1, <3>1 DEF Cells
      <4>2. elems'[j - 1] = elems[j - 1]
        BY <1>2, <1>5, <4>1
      <4>3. QED
        BY <1>3, <2>3, <3>1, <4>1, <4>2
    <3>2. CASE ~(j < i + 1)
      <4>1. /\ j - 1 \in Cells(num_alloc_elems) /\ i <= j - 1 /\ j - 1 < i + n
            /\ (j - 1) - i + (i + 1) = j /\ j \in Cells(num_alloc_elems)
            /\ j + 1 \in 1 .. num_elems /\ (j + 1) - 1 = j
        BY <1>1, <1>4, <1>9, <3>2 DEF Cells
      <4>2. elems'[j - 1] = elems[j]
        BY <1>2, <1>3, <1>5, <4>1 DEF At
      <4>3. Now[j + 1] = elems[j]
        BY <1>3, <4>1
      <4>4. QED
        BY <2>3, <3>2, <4>2, <4>3
    <3>3. QED
      BY <3>1, <3>2
  <2>5. num_elems - 1 \in 0 .. num_alloc_elems /\ num_elems' = num_elems - 1
    BY <1>1, <1>2, <1>9
  <2>6. TypeOK' /\ Now' = t
    BY <1>1, <1>2, <1>7, <1>8, <2>3, <2>4, <2>5, AfterCall
  <2>7. QED
    BY <1>3, <1>7, <1>9, <2>6 DEF t
<1>10. CASE ~(i < num_elems)
  <2>1. ASSUME NEW j \in 1 .. num_elems PROVE Now[j] = elems'[j - 1]
    <3>1. j - 1 \in Cells(num_alloc_elems) /\ ~(i <= j - 1 /\ j - 1 < i + n)
      BY <1>1, <1>4, <1>10 DEF Cells
    <3>2. elems'[j - 1] = elems[j - 1]
      BY <1>2, <1>5, <3>1
    <3>3. QED
      BY <1>3, <3>2
  <2>2. num_elems \in 0 .. num_alloc_elems /\ num_elems' = num_elems
    BY <1>1, <1>2, <1>10
  <2>3. TypeOK' /\ Now' = Now
    BY <1>1, <1>2, <1>3, <1>7, <1>8, <2>1, <2>2, AfterCall
  <2>4. QED
    BY <1>3, <1>7, <1>10, <2>3
<1>11. QED
  BY <1>9, <1>10

(* vector_remove_all *)
LEMMA RemoveAllClears ==
  ASSUME TypeOK, vector_remove_all
  PROVE  TypeOK' /\ ~overrun' /\ Now' = <<>>
<1>1. /\ num_alloc_elems' = VECTOR_INIT_SIZE
      /\ elems' = Realloc(elems, VECTOR_INIT_SIZE)
      /\ num_elems' = 0
      /\ overrun' = FALSE
  BY DEF vector_remove_all
<1>2. elems' \in [Cells(VECTOR_INIT_SIZE) -> Cell]
  BY <1>1, SizeAssumption, NowProperties, ReallocProperties
<1>3. 0 \in 0 .. VECTOR_INIT_SIZE
  BY SizeAssumption
<1>4. overrun' \in BOOLEAN
  BY <1>1
<1>5. <<>> \in Seq(Cell) /\ Len(<<>>) = 0
  OBVIOUS
<1>6. VECTOR_INIT_SIZE \in Nat \ {0}
  BY SizeAssumption
<1>7. \A i \in 1 .. 0 : <<>>[i] = elems'[i - 1]
  OBVIOUS
<1>8. TypeOK' /\ Now' = <<>>
  BY <1>1, <1>2, <1>3, <1>4, <1>5, <1>6, <1>7, AfterCall
<1>9. QED
  BY <1>1, <1>8

(* vector_transpose *)
LEMMA TransposeSwaps ==
  ASSUME TypeOK, NEW i \in Index, NEW j \in Index, vector_transpose(i, j)
  PROVE  /\ TypeOK' /\ ~overrun'
         /\ i < Len(Now) /\ j < Len(Now)
         /\ Now' = [Now EXCEPT ![i + 1] = Now[j + 1], ![j + 1] = Now[i + 1]]
<1> DEFINE t == [Now EXCEPT ![i + 1] = Now[j + 1], ![j + 1] = Now[i + 1]]
<1>1. /\ num_elems \in Nat /\ num_alloc_elems \in Nat \ {0} /\ num_elems <= num_alloc_elems
      /\ i \in Nat /\ i < num_elems /\ j \in Nat /\ j < num_elems
  BY DEF TypeOK, Index, vector_transpose, Inbounds
<1>2. /\ elems' = [elems EXCEPT ![i] = elems[j], ![j] = elems[i]]
      /\ overrun' = FALSE
      /\ num_elems' = num_elems
      /\ num_alloc_elems' = num_alloc_elems
  BY DEF vector_transpose
<1>3. /\ Now \in Seq(Cell) /\ Len(Now) = num_elems
      /\ \A k \in 1 .. num_elems : Now[k] = elems[k - 1]
      /\ elems \in [Cells(num_alloc_elems) -> Cell]
  BY NowProperties
<1>4. i \in Cells(num_alloc_elems) /\ j \in Cells(num_alloc_elems)
  BY <1>1 DEF Cells
<1>5. i + 1 \in 1 .. num_elems /\ j + 1 \in 1 .. num_elems
      /\ Now[i + 1] = elems[i] /\ Now[j + 1] = elems[j]
  <2>1. i + 1 \in 1 .. num_elems /\ j + 1 \in 1 .. num_elems /\ (i + 1) - 1 = i /\ (j + 1) - 1 = j
    BY <1>1
  <2>2. QED
    BY <1>3, <2>1
<1>6. /\ t \in Seq(Cell) /\ Len(t) = num_elems
      /\ \A k \in 1 .. num_elems :
           t[k] = IF k = j + 1 THEN Now[i + 1] ELSE IF k = i + 1 THEN Now[j + 1] ELSE Now[k]
  BY <1>3, <1>5
<1> HIDE DEF t
<1>7. elems' \in [Cells(num_alloc_elems) -> Cell]
  BY <1>2, <1>3, <1>4
<1>8. ASSUME NEW k \in 1 .. num_elems PROVE t[k] = elems'[k - 1]
  <2>1. k - 1 \in Cells(num_alloc_elems) /\ (k = j + 1 <=> k - 1 = j) /\ (k = i + 1 <=> k - 1 = i)
    BY <1>1 DEF Cells
  <2>2. elems'[k - 1] = IF k - 1 = j THEN elems[i] ELSE IF k - 1 = i THEN elems[j] ELSE elems[k - 1]
    BY <1>2, <1>3, <1>4, <2>1
  <2>3. QED
    BY <1>3, <1>5, <1>6, <2>1, <2>2
<1>9. num_elems \in 0 .. num_alloc_elems
  BY <1>1
<1>10. overrun' \in BOOLEAN
  BY <1>2
<1>11. TypeOK' /\ Now' = t
  BY <1>1, <1>2, <1>6, <1>7, <1>8, <1>9, <1>10, AfterCall
<1>12. QED
  BY <1>1, <1>2, <1>3, <1>11 DEF t

(* vector_get *)
LEMMA GetReads ==
  ASSUME TypeOK, NEW i \in Index, vector_get(i)
  PROVE  /\ TypeOK' /\ ~overrun'
         /\ Now' = Now
         /\ out' = IF i < Len(Now) THEN <<Now[i + 1]>> ELSE <<>>
<1>1. /\ out' = IF i < num_elems THEN <<elems[i]>> ELSE <<>>
      /\ overrun' = FALSE
      /\ UNCHANGED array
  BY DEF vector_get, Inbounds
<1>2. /\ elems' = elems
      /\ num_elems' = num_elems
      /\ num_alloc_elems' = num_alloc_elems
  BY <1>1 DEF array
<1>3. num_elems \in Nat /\ i \in Nat /\ i + 1 \in Nat /\ (i + 1) - 1 = i
      /\ (i < num_elems => i + 1 \in 1 .. num_elems)
  BY DEF TypeOK, Index
<1>4. Len(Now) = num_elems /\ (i < num_elems => Now[i + 1] = elems[i])
  BY <1>3, NowProperties
<1>5. TypeOK'
  BY <1>1, <1>2 DEF TypeOK
<1>6. Now' = Now
  BY <1>2 DEF Now, InUse
<1>7. QED
  BY <1>1, <1>4, <1>5, <1>6
-----------------------------------------------------------------------------
(* The theorems *)

LEMMA InitType == vector_init => TypeOK
<1> SUFFICES ASSUME vector_init PROVE TypeOK
  OBVIOUS
<1>1. num_alloc_elems \in Nat \ {0} /\ num_elems \in 0 .. num_alloc_elems
  BY SizeAssumption DEF vector_init
<1>2. elems \in [Cells(num_alloc_elems) -> Elem \cup {Junk}]
  BY DEF vector_init
<1>3. overrun \in BOOLEAN
  BY DEF vector_init
<1>4. QED
  BY <1>1, <1>2, <1>3 DEF TypeOK

(* Each call keeps the types, and none but vector_remove overruns.         *)
LEMMA CallKeepsArray ==
  ASSUME TypeOK, Next
  PROVE  /\ TypeOK'
         /\ overrun' => (\E i \in Index : vector_remove(i)) /\ num_elems + 2 > num_alloc_elems
<1> USE DEF Next
<1>1. CASE \E x \in Elem : vector_push(x)
  BY <1>1, PushAppends
<1>2. CASE \E x \in Elem : vector_unshift(x)
  BY <1>2, UnshiftPrepends
<1>3. CASE \E x \in Elem : \E i \in Index : vector_insert(x, i)
  BY <1>3, InsertSets
<1>4. CASE \E x \in Elem : \E i \in Index \cup InsertPast : vector_insert_at(x, i)
  <2>1. Index \cup InsertPast \subseteq Nat
    BY PastAssumption DEF Index, TypeOK
  <2>2. QED
    BY <1>4, <2>1, InsertAtKeepsArray
<1>5. CASE vector_pop
  BY <1>5, PopTakesTheLast
<1>6. CASE vector_shift
  BY <1>6, ShiftTakesTheFirst
<1>7. CASE vector_remove_all
  BY <1>7, RemoveAllClears
<1>8. CASE \E i \in Index : vector_remove(i)
  BY <1>8, RemoveDeletes
<1>9. CASE \E i \in Index : vector_get(i)
  BY <1>9, GetReads
<1>10. CASE \E i, j \in Index : vector_transpose(i, j)
  BY <1>10, TransposeSwaps
<1>11. QED
  BY <1>1, <1>2, <1>3, <1>4, <1>5, <1>6, <1>7, <1>8, <1>9, <1>10

LEMMA StutterKeepsType == TypeOK /\ UNCHANGED vars => TypeOK'
  BY DEF TypeOK, vars, array

(* The array always has a cell for every index, and room for what is in    *)
(* use, whatever indices are given to vector_insert_at.                    *)
THEOREM TypeCorrect == Spec => []TypeOK
<1>1. TypeOK /\ [Next]_vars => TypeOK'
  BY CallKeepsArray, StutterKeepsType
<1>2. QED
  BY <1>1, InitType, PTL DEF Spec

(* No call but vector_remove touches memory past the array, and it only    *)
(* where at most one cell is free.                                         *)
THEOREM OnlyRemoveEverOverruns == Spec => OnlyRemoveOverruns
<1>1. TypeOK /\ [Next]_vars =>
        [overrun' => /\ \E i \in Index : vector_remove(i)
                     /\ num_elems + 2 > num_alloc_elems]_vars
  BY CallKeepsArray
<1>2. QED
  BY <1>1, TypeCorrect, PTL DEF Spec, OnlyRemoveOverruns

(* With no index past the end, the cells in use are at all times the list  *)
(* that the calls made so far describe, and hand out what is in it.        *)
THEOREM ImplementsTheList ==
  ASSUME InsertPast = {}
  PROVE  Spec => ImplementsList
<1>1. vector_init => L!Init
  <2>1. [i \in 1 .. 0 |-> elems[i - 1]] = <<>>
    OBVIOUS
  <2>2. QED
    BY <2>1 DEF vector_init, L!Init
<1>2. ASSUME TypeOK, Next PROVE L!Next
  <2>1. L!Index = Index
    <3>1. Len(Now) = num_elems
      BY <1>2, NowProperties
    <3>2. QED
      BY <3>1 DEF L!Index, Index, Now, InUse
  <2>2. ASSUME NEW x \in Elem, vector_push(x) PROVE L!Next
    <3>1. L!Push(x)
      BY <1>2, <2>2, PushAppends DEF L!Push, L!Called, vector_push, Called, Now, InUse
    <3>2. QED
      BY <3>1 DEF L!Next
  <2>3. ASSUME NEW x \in Elem, vector_unshift(x) PROVE L!Next
    <3>1. L!Unshift(x)
      BY <1>2, <2>3, UnshiftPrepends DEF L!Unshift, L!Called, vector_unshift, Called, Now, InUse
    <3>2. QED
      BY <3>1 DEF L!Next
  <2>4. ASSUME NEW x \in Elem, NEW i \in Index, vector_insert(x, i) PROVE L!Next
    <3>1. L!Set(i, x)
      BY <1>2, <2>4, InsertSets DEF L!Set, L!Called, vector_insert, Called, Now, InUse
    <3>2. QED
      BY <2>1, <3>1 DEF L!Next
  <2>5. ASSUME NEW x \in Elem, NEW i \in Index, vector_insert_at(x, i) PROVE L!Next
    <3>1. L!Insert(i, x)
      BY <1>2, <2>5, InsertAtInserts DEF L!Insert, L!Called, vector_insert_at, Called, Now, InUse
    <3>2. QED
      BY <2>1, <3>1 DEF L!Next
  <2>6. ASSUME vector_pop PROVE L!Next
    <3>1. L!Pop
      BY <1>2, <2>6, PopTakesTheLast DEF L!Pop, vector_pop, Now, InUse
    <3>2. QED
      BY <3>1 DEF L!Next
  <2>7. ASSUME vector_shift PROVE L!Next
    <3>1. L!Shift
      BY <1>2, <2>7, ShiftTakesTheFirst DEF L!Shift, vector_shift, Now, InUse
    <3>2. QED
      BY <3>1 DEF L!Next
  <2>8. ASSUME vector_remove_all PROVE L!Next
    <3>1. L!RemoveAll
      BY <1>2, <2>8, RemoveAllClears DEF L!RemoveAll, L!Called, vector_remove_all, Called, Now, InUse
    <3>2. QED
      BY <3>1 DEF L!Next
  <2>9. ASSUME NEW i \in Index, vector_remove(i) PROVE L!Next
    <3>1. L!Delete(i)
      BY <1>2, <2>9, RemoveDeletes DEF L!Delete, L!Called, vector_remove, Called, Now, InUse
    <3>2. QED
      BY <2>1, <3>1 DEF L!Next
  <2>10. ASSUME NEW i \in Index, vector_get(i) PROVE L!Next
    <3>1. L!Get(i)
      BY <1>2, <2>10, GetReads DEF L!Get, vector_get, Now, InUse
    <3>2. QED
      BY <2>1, <3>1 DEF L!Next
  <2>11. ASSUME NEW i \in Index, NEW j \in Index, vector_transpose(i, j) PROVE L!Next
    <3>1. L!Transpose(i, j)
      BY <1>2, <2>11, TransposeSwaps DEF L!Transpose, L!Called, vector_transpose, Called, Now, InUse
    <3>2. QED
      BY <2>1, <3>1 DEF L!Next
  <2>12. QED
    BY <1>2, <2>2, <2>3, <2>4, <2>5, <2>6, <2>7, <2>8, <2>9, <2>10, <2>11 DEF Next
<1>3. UNCHANGED vars => UNCHANGED L!vars
  BY DEF vars, array, L!vars
<1>4. QED
  BY <1>1, <1>2, <1>3, TypeCorrect, PTL DEF Spec, ImplementsList, L!Spec
=============================================================================
