--------------------------------- MODULE Buffer ---------------------------------
(***************************************************************************)
(* Buffer: objects that own one allocation each, with a logical size and a *)
(* capacity.  Objects are constructed, copied, moved, assigned, appended   *)
(* to one another and destroyed in any order.  The heap is explicit: an    *)
(* allocation has bytes, and freeing one that is gone is recorded.         *)
(***************************************************************************)
EXTENDS Integers, Sequences, FiniteSets, Functions

CONSTANTS
  Objects,       \* Buffer objects
  Chunks,        \* what is appended: sequences of bytes
  MaxLen         \* bound on a buffer's capacity

VARIABLES
  obj,           \* [Objects -> [data, size, alloc, mark]] or Gone
  heap,          \* the live allocations: a function from addresses to bytes
  freed,         \* history: TRUE once an address was freed that was not live
  text           \* history: what each object should hold, Undefined where it may be anything

vars == <<obj, heap, freed, text>>

nullptr == 0
Undefined == 0       \* a byte nobody wrote
Gone == [data |-> nullptr, size |-> 0, alloc |-> -1, mark |-> 0]
npos == -1
Alive(o) == obj[o] # Gone
Addrs == 1..(Cardinality(Objects) + 1)

Undef(n) == [i \in 1..n |-> Undefined]
Fresh(h) == CHOOSE a \in Addrs : a \notin DOMAIN h /\ \A b \in Addrs \ DOMAIN h : a <= b
With(h, a, bytes) == [x \in DOMAIN h \cup {a} |-> IF x = a THEN bytes ELSE h[x]]
Without(h, a) == Restrict(h, DOMAIN h \ {a})

Init ==
  /\ obj = [o \in Objects |-> Gone]
  /\ heap = <<>>
  /\ freed = FALSE
  /\ text = [o \in Objects |-> <<>>]

-----------------------------------------------------------------------------
(* What an object answers.                                                 *)

data(o) == IF obj[o].data = nullptr THEN <<>> ELSE heap[obj[o].data]
toString(o) == SubSeq(data(o), 1, obj[o].size)
equals(o, str) == Len(str) = obj[o].size /\ toString(o) = str
charAt(o, pos) == IF pos >= obj[o].size THEN npos ELSE data(o)[pos + 1]
find(o, chr) ==
  LET at == {n \in 0..(obj[o].size - 1) : data(o)[n + 1] = chr}
  IN IF at = {} THEN npos ELSE CHOOSE n \in at : \A m \in at : n <= m
remaining(o) == obj[o].alloc - obj[o].size

-----------------------------------------------------------------------------
(* Construction and destruction.                                           *)

Default(o) ==
  /\ ~Alive(o)
  /\ obj' = [obj EXCEPT ![o] = [data |-> nullptr, size |-> 0, alloc |-> 0, mark |-> 0]]
  /\ text' = [text EXCEPT ![o] = <<>>]
  /\ UNCHANGED <<heap, freed>>

\* Buffer(data, size) and Buffer(string); malloc(0) is not null.
FromData(o, bytes) ==
  /\ ~Alive(o)
  /\ LET a == Fresh(heap)
     IN /\ heap' = With(heap, a, bytes)
        /\ obj' = [obj EXCEPT ![o] = [data |-> a, size |-> Len(bytes), alloc |-> Len(bytes), mark |-> 0]]
  /\ text' = [text EXCEPT ![o] = bytes]
  /\ UNCHANGED freed

\* Buffer(size): the memory is not initialised.
Sized(o, n) ==
  /\ ~Alive(o)
  /\ LET a == Fresh(heap)
     IN /\ heap' = With(heap, a, Undef(n))
        /\ obj' = [obj EXCEPT ![o] = [data |-> a, size |-> n, alloc |-> n, mark |-> 0]]
  /\ text' = [text EXCEPT ![o] = Undef(n)]
  /\ UNCHANGED freed

\* The copy constructor keeps neither the capacity nor the mark, which it leaves
\* uninitialised.
Copy(o, p) ==
  /\ ~Alive(o) /\ Alive(p)
  /\ \E mark \in {0, 1} :
       LET a == Fresh(heap)
       IN /\ heap' = With(heap, a, toString(p))
          /\ obj' = [obj EXCEPT ![o] = [data |-> a, size |-> obj[p].size, alloc |-> obj[p].size, mark |-> mark]]
  /\ text' = [text EXCEPT ![o] = text[p]]
  /\ UNCHANGED freed

\* Mutant: the source keeps its pointer.
Move_shared(o, p) ==
  /\ ~Alive(o) /\ Alive(p)
  /\ obj' = [obj EXCEPT ![o] = [obj[p] EXCEPT !.mark = 0], ![p] = [@ EXCEPT !.size = 0, !.alloc = 0]]
  /\ text' = [text EXCEPT ![o] = text[p], ![p] = <<>>]
  /\ UNCHANGED <<heap, freed>>

\* The move constructor: the source keeps its mark.
Move(o, p) ==
  /\ ~Alive(o) /\ Alive(p)
  /\ obj' = [obj EXCEPT ![o] = [obj[p] EXCEPT !.mark = 0],
                        ![p] = [@ EXCEPT !.data = nullptr, !.size = 0, !.alloc = 0]]
  /\ text' = [text EXCEPT ![o] = text[p], ![p] = <<>>]
  /\ UNCHANGED <<heap, freed>>

\* free() of an object's allocation, if it has one.
Freed(o) == IF obj[o].data = nullptr THEN heap ELSE Without(heap, obj[o].data)
BadFree(o) == obj[o].data # nullptr /\ obj[o].data \notin DOMAIN heap

Destroy(o) ==
  /\ Alive(o)
  /\ heap' = Freed(o)
  /\ freed' = (freed \/ BadFree(o))
  /\ obj' = [obj EXCEPT ![o] = Gone]
  /\ text' = [text EXCEPT ![o] = <<>>]

\* operator=, from another object: assigning a buffer to itself frees what it copies.
CopyAssign(o, p) ==
  /\ Alive(o) /\ Alive(p) /\ o # p
  /\ LET h == Freed(o)
         a == Fresh(h)
     IN /\ heap' = With(h, a, toString(p))
        /\ obj' = [obj EXCEPT ![o] = [@ EXCEPT !.data = a, !.size = obj[p].size, !.alloc = obj[p].size]]
  /\ freed' = (freed \/ BadFree(o))
  /\ text' = [text EXCEPT ![o] = text[p]]

MoveAssign(o, p) ==
  /\ Alive(o) /\ Alive(p) /\ o # p
  /\ heap' = Freed(o)
  /\ freed' = (freed \/ BadFree(o))
  /\ obj' = [obj EXCEPT ![o] = obj[p], ![p] = [data |-> nullptr, size |-> 0, alloc |-> 0, mark |-> 0]]
  /\ text' = [text EXCEPT ![o] = text[p], ![p] = <<>>]

-----------------------------------------------------------------------------
(* Growing and shrinking.  An object and the heap after reserve().         *)

\* realloc() keeps the bytes that fit; realloc(p, 0) frees p and is null, which raises.
reserve(o, n) ==
  LET a == obj[o].data
      alloc == obj[o].alloc + n
  IN CASE a = nullptr -> [heap |-> With(heap, Fresh(heap), Undef(alloc)),
                          obj |-> [obj[o] EXCEPT !.data = Fresh(heap), !.alloc = alloc]]
       [] a # nullptr /\ alloc = 0 -> [heap |-> Without(heap, a), obj |-> [obj[o] EXCEPT !.data = nullptr]]
       [] OTHER -> [heap |-> With(heap, a, heap[a] \o Undef(n)), obj |-> [obj[o] EXCEPT !.alloc = alloc]]

Reserve(o, n) ==
  /\ Alive(o) /\ obj[o].alloc + n <= MaxLen
  /\ LET r == reserve(o, n)
     IN /\ heap' = r.heap
        /\ obj' = [obj EXCEPT ![o] = r.obj]
  /\ UNCHANGED <<freed, text>>

Unchanged(o) == [heap |-> heap, obj |-> obj[o]]

\* append(), of bytes, a string, a character or another buffer: room for exactly what
\* is missing, then the copy.
Append_(o, bytes, meant) ==
  /\ Alive(o) /\ obj[o].size + Len(bytes) <= MaxLen
  /\ LET size == obj[o].size + Len(bytes)
         r == IF size > obj[o].alloc THEN reserve(o, size - obj[o].alloc) ELSE Unchanged(o)
         a == r.obj.data
         put(old) == [i \in 1..Len(old) |->
                        IF i > obj[o].size /\ i <= size THEN bytes[i - obj[o].size] ELSE old[i]]
     IN /\ heap' = IF bytes = <<>> THEN r.heap ELSE With(r.heap, a, put(r.heap[a]))
        /\ obj' = [obj EXCEPT ![o] = [r.obj EXCEPT !.size = size]]
  /\ text' = [text EXCEPT ![o] = @ \o meant]
  /\ UNCHANGED freed

AppendBuffer(o, p) == Alive(p) /\ o # p /\ Append_(o, toString(p), text[p])

\* truncate() raises beyond the size.
Truncate(o, n) ==
  /\ Alive(o) /\ n <= obj[o].size
  /\ obj' = [obj EXCEPT ![o].size = n]
  /\ text' = [text EXCEPT ![o] = SubSeq(@, 1, n)]
  /\ UNCHANGED <<heap, freed>>

\* resize() shows what was in the memory before.
Resize(o, n) ==
  /\ Alive(o) /\ n <= MaxLen
  /\ LET r == IF n > obj[o].alloc THEN reserve(o, n - obj[o].alloc) ELSE Unchanged(o)
     IN /\ heap' = r.heap
        /\ obj' = [obj EXCEPT ![o] = [r.obj EXCEPT !.size = n]]
  /\ text' = [text EXCEPT ![o] = SubSeq(@ \o Undef(n), 1, n)]
  /\ UNCHANGED freed

Clear(o) ==
  /\ Alive(o)
  /\ obj' = [obj EXCEPT ![o].size = 0, ![o].mark = 0]
  /\ text' = [text EXCEPT ![o] = <<>>]
  /\ UNCHANGED <<heap, freed>>

SetMark(o, n) ==
  /\ Alive(o)
  /\ obj' = [obj EXCEPT ![o].mark = n]
  /\ UNCHANGED <<heap, freed, text>>

Next ==
  \E o \in Objects :
    \/ Default(o) \/ Destroy(o) \/ Clear(o) \/ SetMark(o, 1)
    \/ \E bytes \in Chunks : FromData(o, bytes) \/ Append_(o, bytes, bytes)
    \/ \E n \in 0..2 : Sized(o, n) \/ Reserve(o, n) \/ Truncate(o, n) \/ Resize(o, n)
    \/ \E p \in Objects : Copy(o, p) \/ Move(o, p) \/ CopyAssign(o, p) \/ MoveAssign(o, p) \/ AppendBuffer(o, p)

Spec == Init /\ [][Next]_vars

-----------------------------------------------------------------------------
\* After any sequence of copies, moves, assignments and growth, every buffer holds the
\* bytes put into it and answers from them, within an allocation of its own that is as
\* large as it says; every other allocation was freed, once.
BuffersHold ==
  /\ ~freed
  /\ DOMAIN heap = {obj[o].data : o \in Objects} \ {nullptr}
  /\ \A o, p \in Objects : o # p /\ obj[o].data # nullptr => obj[o].data # obj[p].data
  /\ \A o \in Objects : Alive(o) =>
       /\ obj[o].alloc = Len(data(o)) /\ remaining(o) >= 0
       /\ Len(toString(o)) = Len(text[o])
       /\ \A i \in 1..Len(text[o]) : text[o][i] # Undefined => charAt(o, i - 1) = text[o][i]
       /\ (\A i \in 1..Len(text[o]) : text[o][i] # Undefined) => equals(o, text[o])
       /\ \A c \in {text[o][i] : i \in 1..Len(text[o])} \ {Undefined} :
            find(o, c) # npos /\ toString(o)[find(o, c) + 1] = c
=============================================================================
