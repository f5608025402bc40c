--------------------------------- MODULE RefCount --------------------------------
(***************************************************************************)
(* RefCounted objects, the AutoRefs that count them and the Options that   *)
(* hold an AutoRef in place.  A cell is an Option<AutoRef<T>>: empty, a    *)
(* null reference or a reference.  A cell belongs to one thread at a time; *)
(* the objects are shared, and what their atomic counters do is one step   *)
(* each, so that an assignment, which drops the old reference before it    *)
(* counts the new one, takes two.                                          *)
(***************************************************************************)
EXTENDS Integers, FiniteSets

CONSTANTS
  Users, Cells, Objects,
  NoRef, Null,
  MaxRaw          \* a bound on the released pointers of an object

ASSUME RefCountAssumption ==
  /\ IsFiniteSet(Cells)
  /\ NoRef \notin Objects /\ Null \notin Objects /\ NoRef # Null
  /\ MaxRaw \in Nat

VARIABLES
  cell,           \* [Cells -> [by, ref]]: its thread; NoRef when empty, Null or an object
  count,          \* [Objects -> refcount_]
  alive,          \* [Objects -> "unborn", "alive" or "deleted"]
  raw,            \* [Objects -> Nat]: pointers release() handed out, each with a count
  rest,           \* [Users -> [at, to, from]]: the rest of an operation
  dangling        \* history: a deleted object was used

refVars == <<cell, count, alive, raw, rest, dangling>>

NoRest == [at |-> "idle", to |-> NoRef, from |-> NoRef]
Holds(c) == cell[c].ref \in Objects

RefInit ==
  /\ cell \in [Cells -> [by : Users, ref : {NoRef}]]
  /\ count = [o \in Objects |-> 0] /\ alive = [o \in Objects |-> "unborn"]
  /\ raw = [o \in Objects |-> 0] /\ rest = [t \in Users |-> NoRest] /\ dangling = FALSE

\* The rest of an operation is about two cells.
RefTypeOK ==
  /\ cell \in [Cells -> [by : Users, ref : Objects \cup {NoRef, Null}]]
  /\ count \in [Objects -> Nat] /\ raw \in [Objects -> Nat]
  /\ alive \in [Objects -> {"unborn", "alive", "deleted"}]
  /\ rest \in [Users -> {NoRest} \cup [at : {"copy", "move"}, to : Cells, from : Cells]]
  /\ dangling \in BOOLEAN

Mine(t, c) == rest[t] = NoRest /\ cell[c].by = t

\* incRef() and decRef(): the last reference deletes the object.
incRef(o) == count' = [count EXCEPT ![o] = @ + 1]
decRef(o) ==
  /\ count' = [count EXCEPT ![o] = @ - 1]
  /\ alive' = IF count[o] = 1 THEN [alive EXCEPT ![o] = "deleted"] ELSE alive
Uses(os) == dangling' = (dangling \/ \E o \in os : alive[o] = "deleted")

-----------------------------------------------------------------------------
(* AutoRef.                                                                *)

\* mkRef(new T): the object starts uncounted.
mkRef(t, c, o) ==
  /\ Mine(t, c) /\ cell[c].ref = NoRef /\ alive[o] = "unborn"
  /\ alive' = [alive EXCEPT ![o] = "alive"] /\ incRef(o) /\ Uses({o})
  /\ cell' = [cell EXCEPT ![c].ref = o] /\ UNCHANGED <<raw, rest>>
mkNull(t, c) ==
  /\ Mine(t, c) /\ cell[c].ref = NoRef
  /\ cell' = [cell EXCEPT ![c].ref = Null] /\ UNCHANGED <<count, alive, raw, rest, dangling>>

\* The copy constructor, into an empty cell; also AutoRef(other.get()).
copy(t, c, d) ==
  /\ Mine(t, c) /\ Mine(t, d) /\ cell[c].ref = NoRef /\ cell[d].ref # NoRef
  /\ cell' = [cell EXCEPT ![c].ref = cell[d].ref]
  /\ IF Holds(d) THEN incRef(cell[d].ref) /\ Uses({cell[d].ref}) ELSE UNCHANGED <<count, dangling>>
  /\ UNCHANGED <<alive, raw, rest>>

\* The move constructor: the reference changes hands, the other one is null.
moveRef_keeps(c, d) == [cell EXCEPT ![c].ref = cell[d].ref]
moveRef(c, d) == [cell EXCEPT ![c].ref = cell[d].ref, ![d].ref = Null]
move(t, c, d) ==
  /\ Mine(t, c) /\ Mine(t, d) /\ cell[c].ref = NoRef /\ cell[d].ref # NoRef
  /\ cell' = moveRef(c, d) /\ UNCHANGED <<count, alive, raw, rest, dangling>>

\* release() gives the pointer and its count away; the caller counts it down itself.
release(t, c) ==
  /\ Mine(t, c) /\ Holds(c) /\ raw[cell[c].ref] < MaxRaw
  /\ raw' = [raw EXCEPT ![cell[c].ref] = @ + 1]
  /\ cell' = [cell EXCEPT ![c].ref = Null] /\ UNCHANGED <<count, alive, rest, dangling>>
decReleased(o) ==
  /\ raw[o] > 0 /\ raw' = [raw EXCEPT ![o] = @ - 1]
  /\ decRef(o) /\ Uses({o}) /\ UNCHANGED <<cell, rest>>

\* The destructor of an AutoRef.
drop(c) ==
  IF Holds(c) THEN decRef(cell[c].ref) /\ Uses({cell[c].ref}) ELSE UNCHANGED <<count, alive, dangling>>

\* operator=, of AutoRef and of a full Option alike: the old reference is dropped first.
\* Assigning a cell to itself is left to its callers: for the last reference the object
\* would be deleted before it is counted again.
assign(t, c, d) ==
  /\ Mine(t, c) /\ Mine(t, d) /\ c # d /\ cell[c].ref # NoRef /\ cell[d].ref # NoRef
  /\ drop(c) /\ cell' = [cell EXCEPT ![c].ref = Null]
  /\ rest' = [rest EXCEPT ![t] = [at |-> "copy", to |-> c, from |-> d]] /\ UNCHANGED raw
assignCopies(t) ==
  /\ rest[t].at = "copy" /\ rest' = [rest EXCEPT ![t] = NoRest]
  /\ LET o == cell[rest[t].from].ref IN
     /\ cell' = [cell EXCEPT ![rest[t].to].ref = o]
     /\ IF o \in Objects THEN incRef(o) /\ Uses({o}) ELSE UNCHANGED <<count, dangling>>
  /\ UNCHANGED <<alive, raw>>

-----------------------------------------------------------------------------
(* Option.                                                                 *)

\* ~Option(), and the assignment of an empty Option.
clear(t, c) ==
  /\ Mine(t, c) /\ cell[c].ref # NoRef /\ drop(c)
  /\ cell' = [cell EXCEPT ![c].ref = NoRef] /\ UNCHANGED <<raw, rest>>

\* The moves empty the other Option, whose moved-from AutoRef is null by then.
moveOption(t, c, d) ==
  /\ Mine(t, c) /\ Mine(t, d) /\ c # d /\ cell[c].ref = NoRef /\ cell[d].ref # NoRef
  /\ cell' = [moveRef(c, d) EXCEPT ![d].ref = NoRef] /\ UNCHANGED <<count, alive, raw, rest, dangling>>
moveAssign(t, c, d) ==
  /\ Mine(t, c) /\ Mine(t, d) /\ c # d /\ cell[c].ref # NoRef /\ cell[d].ref # NoRef
  /\ drop(c) /\ cell' = [cell EXCEPT ![c].ref = NoRef]
  /\ rest' = [rest EXCEPT ![t] = [at |-> "move", to |-> c, from |-> d]] /\ UNCHANGED raw
moveAssignMoves(t) ==
  /\ rest[t].at = "move" /\ rest' = [rest EXCEPT ![t] = NoRest]
  /\ cell' = [moveRef(rest[t].to, rest[t].from) EXCEPT ![rest[t].from].ref = NoRef]
  /\ UNCHANGED <<count, alive, raw, dangling>>

\* A cell is handed to another thread, through a queue or a captured copy; a thread
\* looks at an object through *, -> or get().
give(t, u, c) ==
  /\ Mine(t, c) /\ u # t /\ cell' = [cell EXCEPT ![c].by = u]
  /\ UNCHANGED <<count, alive, raw, rest, dangling>>
use(t, c) ==
  /\ Mine(t, c) /\ Holds(c) /\ Uses({cell[c].ref}) /\ UNCHANGED <<cell, count, alive, raw, rest>>

RefNext ==
  \/ \E t \in Users, c \in Cells :
       \/ mkNull(t, c) \/ release(t, c) \/ clear(t, c) \/ use(t, c)
       \/ \E o \in Objects : mkRef(t, c, o)
       \/ \E u \in Users : give(t, u, c)
       \/ \E d \in Cells :
            copy(t, c, d) \/ move(t, c, d) \/ assign(t, c, d) \/ moveOption(t, c, d) \/ moveAssign(t, c, d)
  \/ \E t \in Users : assignCopies(t) \/ moveAssignMoves(t)
  \/ \E o \in Objects : decReleased(o)

RefSpec == RefInit /\ [][RefNext]_refVars

-----------------------------------------------------------------------------

\* An object is deleted with its last reference and not before, whichever threads drop
\* theirs, move them or are in the middle of an assignment: the counter is the number
\* of cells and released pointers that refer to it, and nobody touches it afterwards.
RefsCounted ==
  /\ ~dangling
  /\ \A o \in Objects :
       /\ count[o] = raw[o] + Cardinality({c \in Cells : cell[c].ref = o})
       /\ (alive[o] = "alive") <=> (count[o] > 0)
=================================================================================
