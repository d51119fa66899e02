------------------------------- MODULE OidTree -------------------------------
(***************************************************************************)
(* oid.py: a tree is a set of OIDs frozen into a sorted list, searched by  *)
(* bisection.                                                              *)
(***************************************************************************)
EXTENDS Integers, Sequences, FiniteSets, SequencesExt

(* Lexicographic order of tuples of numbers: a prefix comes first. *)
Before(a, b) ==
  \/ IsStrictPrefix(a, b)
  \/ \E i \in DOMAIN a \cap DOMAIN b :
       /\ a[i] < b[i]
       /\ \A j \in 1..(i - 1) : a[j] = b[j]

(* freeze: the OID with i - 1 others before it is the i-th.  The mutant     *)
(* leaves them as the builders register them, port by port.                 *)
MutantSorted(tree) ==
  LET Earlier(x, o) == Last(x) < Last(o) \/ (Last(x) = Last(o) /\ Before(x, o)) IN
  [i \in 1..Cardinality(tree) |->
     CHOOSE o \in tree : Cardinality({x \in tree : Earlier(x, o)}) = i - 1]
Sorted(tree) ==
  [i \in 1..Cardinality(tree) |->
     CHOOSE o \in tree : Cardinality({x \in tree : Before(x, o)}) = i - 1]

(* Python's bisect: how many elements of the list are below, or not above,  *)
(* the OID.                                                                 *)
BisectLeft(list, oid) == Cardinality({i \in DOMAIN list : Before(list[i], oid)})
BisectRight(list, oid) == Cardinality({i \in DOMAIN list : ~Before(oid, list[i])})

EndOfMib == <<>>

(* get_next: the OID after this one, EndOfMib if there is none.  The mutant *)
(* takes the index for that of the OID itself.                              *)
MutantGetNext(tree, oid) ==
  LET list == Sorted(tree)  idx == BisectRight(list, oid) + 1 IN
  IF idx >= Len(list) THEN EndOfMib ELSE list[idx + 1]
GetNext(tree, oid) ==
  LET list == Sorted(tree)  idx == BisectRight(list, oid) IN
  IF idx >= Len(list) THEN EndOfMib ELSE list[idx + 1]

(* has_descendants; the mutant takes whatever follows for a descendant.     *)
MutantHasDescendants(tree, prefix) ==
  LET list == Sorted(tree) IN BisectLeft(list, prefix) < Len(list)
HasDescendants(tree, prefix) ==
  LET list == Sorted(tree)  idx == BisectLeft(list, prefix) IN
  idx < Len(list) /\ IsPrefix(prefix, list[idx + 1])
=============================================================================
