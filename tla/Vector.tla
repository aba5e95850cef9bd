------------------------------- MODULE Vector -------------------------------
(***************************************************************************)
(* networking/vector.c: an array of num_alloc_elems cells of which the     *)
(* first num_elems are in use.  server.c keeps its connections in one.     *)
(*                                                                         *)
(* Addresses are indices: a cell that was never written, or that lies      *)
(* beyond the array, reads as Junk; a block that is moved over the end of  *)
(* the array is an overrun.                                                *)
(***************************************************************************)
EXTENDS Integers

CONSTANTS
  Elem,              (* the elements                                       *)
  Junk,              (* what memory holds that nobody wrote                *)
  VECTOR_INIT_SIZE,  (* cells of a new vector                              *)
  MaxAlloc,          (* bound: cells of a vector that has grown            *)
  InsertPast         (* indices beyond the end that vector_insert_at gets  *)

ASSUME JunkAssumption == Junk \notin Elem
ASSUME SizeAssumption == VECTOR_INIT_SIZE \in Nat \ {0} /\ MaxAlloc \in Nat
ASSUME PastAssumption == InsertPast \subseteq Nat

VARIABLES
  elems,            (* v->elems, one cell for each index                   *)
  num_elems,        (* v->num_elems                                        *)
  num_alloc_elems,  (* v->num_alloc_elems                                  *)
  overrun,          (* whether the last call touched memory past the array *)
  call, out         (* history: the last call and what it handed out       *)

array == <<elems, num_elems, num_alloc_elems>>
vars == <<array, overrun, call, out>>

Cells(n) == 0 .. n - 1

(* vector_init, as server_create calls it: no initial size, no free_func.  *)
vector_init ==
  /\ elems = [i \in Cells(VECTOR_INIT_SIZE) |-> Junk]
  /\ num_elems = 0
  /\ num_alloc_elems = VECTOR_INIT_SIZE
  /\ overrun = FALSE
  /\ call = <<"init">>
  /\ out = <<>>

HasSpace_late == num_elems <= num_alloc_elems
HasSpace == num_elems + 1 <= num_alloc_elems
Inbounds(i) == i < num_elems

At(e, i) == IF i \in DOMAIN e THEN e[i] ELSE Junk

(* memmove() of n cells, and whether it stays inside the array.            *)
Moved(e, to, from, n) ==
  [i \in DOMAIN e |-> IF to <= i /\ i < to + n THEN At(e, i - to + from) ELSE e[i]]
MoveOverruns(size, to, from, n) == n > 0 /\ (to + n > size \/ from + n > size)

(* realloc() keeps what fits; vector_grow asks for more room.              *)
Realloc(e, n) == [i \in Cells(n) |-> At(e, i)]
Grown(size) == IF size > num_alloc_elems THEN size ELSE 2 * num_alloc_elems
Room(size) == IF HasSpace THEN num_alloc_elems ELSE Grown(size)

Called(c) == call' = c /\ out' = <<>>

-----------------------------------------------------------------------------
(* vector_insert without an index: at the end.                             *)
vector_push(x) ==
  /\ Called(<<"push", x>>)
  /\ Room(0) <= MaxAlloc
  /\ num_alloc_elems' = Room(0)
  /\ elems' = [Realloc(elems, Room(0)) EXCEPT ![num_elems] = x]
  /\ num_elems' = num_elems + 1
  /\ overrun' = (num_elems + 1 > Room(0))

vector_insert(x, i) ==
  /\ Called(<<"set", i, x>>)
  /\ elems' = IF Inbounds(i) THEN [elems EXCEPT ![i] = x] ELSE elems
  /\ overrun' = FALSE
  /\ UNCHANGED <<num_elems, num_alloc_elems>>

(* Makes room, counts the element, and leaves it to vector_insert to write *)
(* it, which checks the index against the count it already has.            *)
TailFrom_short(i) == num_elems - i - 1
TailFrom(i) == num_elems - i

vector_insert_at(x, i) ==
  /\ Called(<<"insert_at", i, x>>)
  /\ Room(0) <= MaxAlloc
  /\ num_alloc_elems' = Room(0)
  /\ LET e == Realloc(elems, Room(0))
         n == IF i < num_elems THEN TailFrom(i) ELSE 0
         moved == Moved(e, i + 1, i, n)
     IN /\ elems' = IF i < num_elems + 1 THEN [moved EXCEPT ![i] = x] ELSE moved
        /\ overrun' = MoveOverruns(Room(0), i + 1, i, n)
  /\ num_elems' = num_elems + 1

vector_unshift(x) ==
  /\ Called(<<"unshift", x>>)
  /\ Room(num_elems + 1) <= MaxAlloc
  /\ num_alloc_elems' = Room(num_elems + 1)
  /\ LET e == Realloc(elems, Room(num_elems + 1))
     IN /\ elems' = [Moved(e, 1, 0, num_elems) EXCEPT ![0] = x]
        /\ overrun' = MoveOverruns(Room(num_elems + 1), 1, 0, num_elems)
  /\ num_elems' = num_elems + 1

(* Neither this nor vector_shift tests for an empty vector: it is up to    *)
(* the caller.                                                             *)
vector_pop ==
  /\ call' = <<"pop">>
  /\ num_elems > 0
  /\ out' = <<elems[num_elems - 1]>>
  /\ num_elems' = num_elems - 1
  /\ overrun' = FALSE
  /\ UNCHANGED <<elems, num_alloc_elems>>

ShiftLength_before == num_elems
ShiftLength == num_elems - 1

vector_shift ==
  /\ call' = <<"shift">>
  /\ num_elems > 0
  /\ out' = <<elems[0]>>
  /\ elems' = Moved(elems, 0, 1, ShiftLength)
  /\ num_elems' = num_elems - 1
  /\ overrun' = MoveOverruns(num_alloc_elems, 0, 1, ShiftLength)
  /\ UNCHANGED num_alloc_elems

(* Moves two cells more than there are elements after the index.           *)
vector_remove(i) ==
  /\ Called(<<"remove", i>>)
  /\ LET n == IF Inbounds(i) THEN num_elems - i + 1 ELSE 0
     IN /\ elems' = Moved(elems, i, i + 1, n)
        /\ overrun' = MoveOverruns(num_alloc_elems, i, i + 1, n)
  /\ num_elems' = IF Inbounds(i) THEN num_elems - 1 ELSE num_elems
  /\ UNCHANGED num_alloc_elems

vector_remove_all ==
  /\ Called(<<"remove_all">>)
  /\ num_elems' = 0
  /\ num_alloc_elems' = VECTOR_INIT_SIZE
  /\ elems' = Realloc(elems, VECTOR_INIT_SIZE)
  /\ overrun' = FALSE

(* No test of the indices, either.                                         *)
vector_transpose(i, j) ==
  /\ Called(<<"transpose", i, j>>)
  /\ Inbounds(i) /\ Inbounds(j)
  /\ elems' = [elems EXCEPT ![i] = elems[j], ![j] = elems[i]]
  /\ overrun' = FALSE
  /\ UNCHANGED <<num_elems, num_alloc_elems>>

vector_get(i) ==
  /\ call' = <<"get", i>>
  /\ out' = IF Inbounds(i) THEN <<elems[i]>> ELSE <<>>
  /\ overrun' = FALSE
  /\ UNCHANGED array

Index == 0 .. num_elems

Next ==
  \/ \E x \in Elem : \/ vector_push(x) \/ vector_unshift(x)
                     \/ \E i \in Index : vector_insert(x, i)
                     \/ \E i \in Index \cup InsertPast : vector_insert_at(x, i)
  \/ vector_pop \/ vector_shift \/ vector_remove_all
  \/ \E i \in Index : vector_remove(i) \/ vector_get(i)
  \/ \E i, j \in Index : vector_transpose(i, j)

Spec == vector_init /\ [][Next]_vars

-----------------------------------------------------------------------------
(* Properties *)

(* The array has a cell for every index, and what is in use fits into it.  *)
TypeOK ==
  /\ num_alloc_elems \in Nat \ {0}
  /\ num_elems \in 0 .. num_alloc_elems
  /\ elems \in [Cells(num_alloc_elems) -> Elem \cup {Junk}]
  /\ overrun \in BOOLEAN

(* No call touches memory past the array.                                  *)
StaysInside == ~overrun

(* The one call that ever touches memory past the array is vector_remove,  *)
(* with at most one free cell left behind the last element.                *)
OnlyRemoveOverruns ==
  [][overrun' => /\ \E i \in Index : vector_remove(i)
                 /\ num_elems + 2 > num_alloc_elems]_vars

L == INSTANCE List WITH list <- [i \in 1 .. num_elems |-> elems[i - 1]]

(* Whatever is moved to and fro, the cells in use are the list that the    *)
(* calls ask for: an overrun of vector_remove never shows in it.           *)
ImplementsList == L!Spec
=============================================================================
