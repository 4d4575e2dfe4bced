------------------------------ MODULE Allocator ------------------------------
(***************************************************************************)
(* What an allocator promises its user (hw3/include/sfmm.h:211-264): every *)
(* region that is handed out is large enough, aligned and apart from all   *)
(* others, and stays what it is until the user gives it back.  Nothing is  *)
(* promised any more after a write through an uninitialised pointer.       *)
(***************************************************************************)
EXTENDS Integers, FiniteSets

VARIABLES
    region,     \* region[b]: what the user has at block b: bytes, alignment, rows
    trusted

vars == <<region, trusted>>

InUse == DOMAIN region
Without(b) == [x \in InUse \ {b} |-> region[x]]

Init == region = [x \in {} |-> x] /\ trusted = TRUE

Fits(b, r) == /\ 8 * (Cardinality(r.rows) - 1) >= r.bytes
              /\ (8 * (b + 1)) % r.align = 0

\* Block b is handed out while the user keeps the others.
HandOut(kept, b) ==
    /\ DOMAIN region' = DOMAIN kept \cup {b}
    /\ Fits(b, region'[b])
    /\ \A x \in DOMAIN kept : /\ region'[x] = kept[x]
                              /\ region'[b].rows \cap kept[x].rows = {}

\* sf_malloc and sf_memalign.
Allocate == \E b \in DOMAIN region' \ InUse : HandOut(region, b)

\* sf_free.
Free == \E b \in InUse : region' = Without(b)

\* sf_realloc: within the same block, or in another one while the old one is there.
Shrink == \E b \in InUse \cap DOMAIN region' :
    HandOut(Without(b), b) /\ region'[b].rows \subseteq region[b].rows

Move == \E b \in InUse, c \in DOMAIN region' \ InUse :
    HandOut(Without(b), c) /\ region'[c].rows \cap region[b].rows = {}

Fault == trusted' = FALSE /\ region' = [x \in {} |-> x]

Next == \/ UNCHANGED trusted /\ (Allocate \/ Free \/ Shrink \/ Move)
        \/ Fault

Spec == Init /\ [][Next]_vars
=============================================================================
