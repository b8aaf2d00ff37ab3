------------------------------- MODULE Allocator -------------------------------
(***************************************************************************)
(* What malloc and free promise: regions of the heap that are handed out   *)
(* overlap no region in use, and a region in use stays until it is freed.  *)
(***************************************************************************)
EXTENDS Naturals

CONSTANT Size   \* bytes of the heap

VARIABLE regions    \* the regions in use, as [from, to) intervals

Intervals == [from : 0 .. Size, to : 0 .. Size]

Disjoint(r, q) == r.to <= q.from \/ q.to <= r.from

Init == regions = {}

Allocate(r) ==
    /\ r.from <= r.to
    /\ \A q \in regions : Disjoint(r, q)
    /\ regions' = regions \cup {r}

Release(r) ==
    /\ r \in regions
    /\ regions' = regions \ {r}

Next == \E r \in Intervals : Allocate(r) \/ Release(r)

Spec == Init /\ [][Next]_regions
=============================================================================
