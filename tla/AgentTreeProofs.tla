---------------------------- MODULE AgentTreeProofs ----------------------------
(***************************************************************************)
(* Walks and GETs against a tree that is swapped under them, for any ports,*)
(* layouts and OIDs asked for.  What the searches return is OidTreeProofs' *)
(* subject; here, what of it outlives the steps between: a walk owes only  *)
(* OIDs after the one it has got to (WalkInv), and unless poll_once was    *)
(* replacing the switch, the OID of a request is one of the tree's and the *)
(* tree is that of the switch's ports (RequestInv, TreeInv).               *)
(***************************************************************************)
EXTENDS AgentTree, OidTreeProofs

TreeInv ==
  /\ layout \in Layouts /\ poll \in {"idle", "replaced"}
  /\ \E l \in Layouts : l.ports = signature /\ tree = Oids(l)
  /\ poll = "idle" => signature = layout.ports

WalkInv ==
  /\ walking \in BOOLEAN /\ at \in Universe \cup {EndOfMib} /\ owed \subseteq tree
  /\ walking /\ request = "none" => \A x \in owed : Before(at, x)
  /\ walking /\ request # "none" =>
       /\ request \in {"next", "checked"} /\ oid \in Universe /\ Before(at, oid)
       /\ \A x \in owed : x = oid \/ Before(oid, x)

RequestInv ==
  /\ request \in {"none", "next", "checked", "missed", "parent"}
  /\ reply \in {"value", "default", "blank", "error", "no_instance", "no_object", "end"}
  /\ oid \in Universe \cup Asked \cup {EndOfMib} /\ stale \in BOOLEAN
  /\ request # "none" /\ ~stale => poll = "idle"
  /\ request \in {"next", "checked"} /\ ~stale => oid \in tree
  /\ request = "checked" => OfPort(oid)
  /\ request = "parent" => Len(oid) > 1

Inv == TreeInv /\ WalkInv /\ RequestInv
-----------------------------------------------------------------------------
(* The OIDs of a tree. *)
LEMMA LayoutIs ==
  ASSUME NEW l \in Layouts
  PROVE  /\ l.ports \in [Ports -> Kinds] /\ l.options \in Options
         /\ l.options.uplink \in Ports \cup {0} /\ There(l) \subseteq Ports
         /\ \A p \in There(l) : p \in Nat /\ l.ports[p] # "absent"
<1>1. l.ports \in [Ports -> Kinds] /\ l.options \in Options
  BY DEF Layouts
<1>2. l.options \in Optional
  BY <1>1, OptionsAssumption
<1> QED
  BY <1>1, <1>2, PortsAreNumbers DEF Optional, There

LEMMA RowsFinite ==
  ASSUME NEW S \in SUBSET Ports, NEW c \in Nat
  PROVE  IsFiniteSet({<<c, 1, p>> : p \in S})
<1> DEFINE R == {<<c, 1, p>> : p \in S}  f == [p \in S |-> <<c, 1, p>>]
<1>1. f \in [S -> R] /\ \A r \in R : \E p \in S : f[p] = r
  OBVIOUS
<1> HIDE DEF f, R
<1>2. f \in Surjection(S, R)
  BY <1>1, Fun_IsSurj
<1>3. IsFiniteSet(S)
  BY PortsAreNumbers, FS_Subset
<1>4. IsFiniteSet(R)
  BY <1>2, <1>3, FS_Surjection
<1> QED
  BY <1>4 DEF R

LEMMA OidsIs ==
  ASSUME NEW l \in Layouts, NEW o \in Oids(l)
  PROVE  /\ o \in Oid /\ o # EndOfMib
         /\ OfPort(o) => PortOf(o) \in Ports /\ l.ports[PortOf(o)] # "absent"
<1>1. \/ o = Scalar
      \/ \E c \in 2..5 : \E p \in There(l) : o = <<c, 1, p>>
      \/ o = <<6, 1, 1>>
      \/ \E p \in Ports : o = <<7, 1, p>>
      \/ o = <<8, 1, 0>>
  <2>1. \/ o = Scalar \/ o \in IfRows(l) \/ o \in StpRows(l) \/ o \in PoeRows(l)
        \/ o \in CageRows(l) \/ o \in SensorRow(l) \/ o \in NeighbourRow(l)
        \/ o \in FlowScalar(l)
    BY DEF Oids, OptionalOids
  <2>2. ASSUME o \in IfRows(l) PROVE \E p \in There(l) : o = <<2, 1, p>>
    BY <2>2 DEF IfRows
  <2>3. ASSUME o \in StpRows(l) PROVE \E p \in There(l) : o = <<3, 1, p>>
    BY <2>3 DEF StpRows
  <2>4. ASSUME o \in PoeRows(l) PROVE \E p \in There(l) : o = <<4, 1, p>>
    BY <2>4 DEF PoeRows
  <2>5. ASSUME o \in CageRows(l) PROVE \E p \in There(l) : o = <<5, 1, p>>
    BY <2>5 DEF CageRows
  <2>6. ASSUME o \in SensorRow(l) PROVE o = <<6, 1, 1>>
    BY <2>6 DEF SensorRow
  <2>7. ASSUME o \in NeighbourRow(l) PROVE \E p \in Ports : o = <<7, 1, p>>
    BY <2>7, LayoutIs DEF NeighbourRow
  <2>8. ASSUME o \in FlowScalar(l) PROVE o = <<8, 1, 0>>
    BY <2>8 DEF FlowScalar
  <2>9. 2 \in 2..5 /\ 3 \in 2..5 /\ 4 \in 2..5 /\ 5 \in 2..5
    OBVIOUS
  <2> QED
    BY <2>1, <2>2, <2>3, <2>4, <2>5, <2>6, <2>7, <2>8, <2>9
<1>2. CASE o = Scalar
  BY <1>2 DEF Scalar, EndOfMib, Oid, OfPort
<1>3. ASSUME NEW c \in Nat, NEW p \in Nat, o = <<c, 1, p>>
      PROVE  o \in Oid /\ o # EndOfMib /\ o[1] = c /\ o[3] = p
  BY <1>3 DEF EndOfMib, Oid
<1>4. \A p \in Ports : p \in Nat
  BY PortsAreNumbers
<1>5. ASSUME NEW c \in 2..5, NEW p \in There(l), o = <<c, 1, p>>
      PROVE  /\ o \in Oid /\ o # EndOfMib
             /\ PortOf(o) \in Ports /\ l.ports[PortOf(o)] # "absent"
  BY <1>3, <1>5, LayoutIs DEF PortOf
<1>6. CASE o = <<6, 1, 1>>
  BY <1>3, <1>6 DEF OfPort
<1>7. ASSUME NEW p \in Ports, o = <<7, 1, p>> PROVE o \in Oid /\ o # EndOfMib /\ ~OfPort(o)
  BY <1>3, <1>4, <1>7 DEF OfPort
<1>8. CASE o = <<8, 1, 0>>
  BY <1>3, <1>8 DEF OfPort
<1> QED
  BY <1>1, <1>2, <1>5, <1>6, <1>7, <1>8

LEMMA OidsFinite ==
  ASSUME NEW l \in Layouts
  PROVE  IsFiniteSet(Oids(l))
<1>1. There(l) \in SUBSET Ports /\ {l.options.uplink} \ {0} \in SUBSET Ports
  BY LayoutIs
<1>2. IsFiniteSet(IfRows(l))
  BY <1>1, RowsFinite DEF IfRows
<1>3. IsFiniteSet(StpRows(l))
  BY <1>1, RowsFinite, FS_EmptySet DEF StpRows
<1>4. IsFiniteSet(PoeRows(l))
  <2> DEFINE Q == {q \in There(l) : l.ports[q] = "poe"}
  <2>1. Q \in SUBSET Ports
    BY <1>1
  <2> HIDE DEF Q
  <2>2. IsFiniteSet({<<4, 1, p>> : p \in Q})
    BY <2>1, RowsFinite
  <2> QED
    BY <2>2 DEF PoeRows, Q
<1>5. IsFiniteSet(CageRows(l))
  <2> DEFINE Q == {q \in There(l) : l.ports[q] = "sfp"}
  <2>1. Q \in SUBSET Ports
    BY <1>1
  <2> HIDE DEF Q
  <2>2. IsFiniteSet({<<5, 1, p>> : p \in Q})
    BY <2>1, RowsFinite
  <2> QED
    BY <2>2 DEF CageRows, Q
<1>6. IsFiniteSet(SensorRow(l)) /\ IsFiniteSet(FlowScalar(l)) /\ IsFiniteSet({Scalar})
  BY FS_EmptySet, FS_Singleton DEF SensorRow, FlowScalar
<1>7. IsFiniteSet(NeighbourRow(l))
  BY <1>1, RowsFinite DEF NeighbourRow
<1>8. IsFiniteSet(OptionalOids(l))
  BY <1>6, <1>7, FS_Union DEF OptionalOids
<1> DEFINE A == {Scalar} \cup IfRows(l)  B == StpRows(l) \cup PoeRows(l)
           C == CageRows(l) \cup OptionalOids(l)
<1>9. IsFiniteSet(A) /\ IsFiniteSet(B) /\ IsFiniteSet(C)
  BY <1>2, <1>3, <1>4, <1>5, <1>6, <1>8, FS_Union
<1>10. Oids(l) = A \cup (B \cup C)
  BY DEF Oids
<1> HIDE DEF A, B, C
<1> QED
  BY <1>9, <1>10, FS_Union

LEMMA UniverseIs == Universe \subseteq Oid /\ EndOfMib \notin Universe /\ EndOfMib \in Oid
<1>1. ASSUME NEW o \in Universe PROVE o \in Oid /\ o # EndOfMib
  <2>1. PICK l \in Layouts : o \in Oids(l)
    BY DEF Universe
  <2> QED
    BY <2>1, OidsIs
<1>2. EndOfMib \in Oid
  BY DEF EndOfMib, Oid
<1> QED
  BY <1>1, <1>2

LEMMA TreeIs ==
  ASSUME TreeInv
  PROVE  /\ tree \in SUBSET Oid /\ IsFiniteSet(tree) /\ EndOfMib \notin tree
         /\ tree \subseteq Universe
         /\ poll = "idle" => \A o \in tree : OfPort(o) => Present(o)
<1>1. PICK l \in Layouts : l.ports = signature /\ tree = Oids(l)
  BY DEF TreeInv
<1>2. poll = "idle" => l.ports = layout.ports
  BY <1>1 DEF TreeInv
<1>3. tree \subseteq Universe
  BY <1>1 DEF Universe
<1>4. IsFiniteSet(tree)
  BY <1>1, OidsFinite
<1>5. \A o \in tree : OfPort(o) => l.ports[PortOf(o)] # "absent"
  BY <1>1, OidsIs
<1> QED
  BY <1>2, <1>3, <1>4, <1>5, UniverseIs DEF Present

LEMMA FirstBefore ==
  ASSUME NEW o \in Oid, o # EndOfMib
  PROVE  Before(EndOfMib, o)
<1>1. EndOfMib \in Oid /\ ~Differs(o, EndOfMib, 1)
  BY DEF Differs, EndOfMib, Oid
<1>2. ASSUME NEW i \in Nat PROVE ~Differs(o, EndOfMib, i)
  BY DEF Differs, EndOfMib
<1> QED
  BY <1>1, <1>2, BeforeTotal, BeforeIs
-----------------------------------------------------------------------------
(* The answer to a request. *)
LEMMA ReplyIs ==
  ASSUME NEW what, Reply(what)
  PROVE  /\ request' = "none" /\ reply' = what /\ oid' = EndOfMib /\ stale' = FALSE
         /\ UNCHANGED serving
         /\ \/ walking /\ what # "error" /\ walking' = walking /\ at' = oid /\ owed' = owed \ {oid}
            \/ walking' = FALSE /\ at' = EndOfMib /\ owed' = {}
BY DEF Reply, EndWalk

Replies == {"value", "default", "blank", "error", "no_instance", "no_object"}

LEMMA Answered ==
  ASSUME Inv, request # "none", NEW what \in Replies, Reply(what)
  PROVE  Inv'
<1>1. TreeInv'
  BY ReplyIs DEF Inv, TreeInv, serving, Oids, OptionalOids, Layouts
<1>2. RequestInv'
  BY ReplyIs DEF RequestInv, Replies
<1>3. WalkInv'
  <2>1. CASE walking /\ walking' = walking /\ at' = oid /\ owed' = owed \ {oid}
    <3>1. request' = "none" /\ tree' = tree
      BY ReplyIs DEF serving
    <3>2. oid \in Universe /\ \A x \in owed : x = oid \/ Before(oid, x)
      BY <2>1 DEF Inv, WalkInv
    <3> QED
      BY <2>1, <3>1, <3>2 DEF Inv, WalkInv
  <2>2. CASE walking' = FALSE /\ at' = EndOfMib /\ owed' = {}
    BY <2>2 DEF WalkInv
  <2> QED
    BY <2>1, <2>2, ReplyIs
<1> QED
  BY <1>1, <1>2, <1>3 DEF Inv
-----------------------------------------------------------------------------
(* What each action preserves. *)
LEMMA PollStep == ASSUME Inv, ReplaceSwitch \/ Refresh PROVE Inv'
<1>1. CASE ReplaceSwitch
  <2>1. /\ poll' = "replaced" /\ layout' \in Layouts /\ stale' = (request # "none")
        /\ UNCHANGED <<signature, tree, request, oid, reply, walking, at, owed>>
    BY <1>1 DEF ReplaceSwitch, walk
  <2>2. TreeInv'
    BY <2>1 DEF Inv, TreeInv
  <2>3. WalkInv'
    BY <2>1 DEF Inv, WalkInv
  <2>4. RequestInv'
    BY <2>1 DEF Inv, RequestInv
  <2> QED
    BY <2>2, <2>3, <2>4 DEF Inv
<1>2. CASE Refresh
  <2>1. /\ poll = "replaced" /\ poll' = "idle" /\ owed' = owed \cap tree'
        /\ UNCHANGED <<layout, request, oid, reply, walking, at, stale>>
        /\ \/ layout.ports = signature /\ UNCHANGED <<signature, tree>>
           \/ signature' = layout.ports /\ tree' = Oids(layout)
    BY <1>2 DEF Refresh, Signature
  <2>2. TreeInv'
    BY <2>1 DEF Inv, TreeInv
  <2>3. WalkInv'
    BY <2>1 DEF Inv, WalkInv
  <2>4. RequestInv'
    BY <2>1 DEF Inv, RequestInv
  <2> QED
    BY <2>2, <2>3, <2>4 DEF Inv
<1> QED
  BY <1>1, <1>2

(* What GETNEXT finds: the next OID, behind which all that is owed lies. *)
LEMMA Found ==
  ASSUME Inv, Find
  PROVE  /\ request = "none" /\ walking /\ UNCHANGED serving
         /\ \/ /\ owed = {} /\ walking' = FALSE /\ at' = EndOfMib /\ owed' = {} /\ reply' = "end"
               /\ UNCHANGED <<request, oid, stale>>
            \/ /\ oid' \in tree /\ Before(at, oid')
               /\ \A x \in owed : x = oid' \/ Before(oid', x)
               /\ request' = "next" /\ stale' = (poll = "replaced")
               /\ UNCHANGED <<walking, at, owed, reply>>
<1> DEFINE next == GetNext(tree, at)
<1>1. /\ request = "none" /\ walking /\ UNCHANGED serving
      /\ \/ /\ next = EndOfMib /\ walking' = FALSE /\ at' = EndOfMib /\ owed' = {}
            /\ reply' = "end" /\ UNCHANGED <<request, oid, stale>>
         \/ /\ next # EndOfMib /\ oid' = next /\ request' = "next"
            /\ stale' = (poll = "replaced") /\ UNCHANGED <<walking, at, owed, reply>>
  BY DEF Find, EndWalk, walk
<1>2. at \in Oid /\ owed \subseteq tree /\ \A x \in owed : Before(at, x)
  BY <1>1, UniverseIs DEF Inv, WalkInv
<1>3. tree \in SUBSET Oid /\ IsFiniteSet(tree) /\ EndOfMib \notin tree
  BY TreeIs DEF Inv
<1>4. \/ next = EndOfMib /\ \A x \in tree : ~Before(at, x)
      \/ /\ next \in tree /\ Before(at, next)
         /\ \A x \in tree : Before(at, x) => x = next \/ Before(next, x)
  BY <1>2, <1>3, GetNextIs
<1> HIDE DEF next
<1>5. CASE next = EndOfMib
  <2>1. owed = {}
    BY <1>2, <1>3, <1>4, <1>5
  <2> QED
    BY <1>1, <1>5, <2>1
<1>6. CASE next # EndOfMib
  BY <1>1, <1>2, <1>4, <1>6
<1> QED
  BY <1>5, <1>6

LEMMA RequestStep ==
  ASSUME Inv, BeginWalk \/ Find \/ (\E o \in Asked : Get(o)) PROVE Inv'
<1>1. CASE BeginWalk
  <2>1. /\ request = "none" /\ walking' = TRUE /\ at' = EndOfMib /\ owed' = tree
        /\ UNCHANGED <<serving, request, oid, reply, stale>>
    BY <1>1 DEF BeginWalk
  <2>2. TreeInv'
    BY <2>1 DEF Inv, TreeInv, serving
  <2>3. \A x \in tree : Before(EndOfMib, x)
    BY TreeIs, FirstBefore DEF Inv
  <2>4. WalkInv'
    BY <2>1, <2>3 DEF WalkInv, serving
  <2>5. RequestInv'
    BY <2>1 DEF Inv, RequestInv, serving
  <2> QED
    BY <2>2, <2>4, <2>5 DEF Inv
<1>2. CASE Find
  <2>1. TreeInv'
    BY <1>2, Found DEF Inv, TreeInv, serving
  <2>2. tree \subseteq Universe /\ poll \in {"idle", "replaced"}
    BY TreeIs DEF Inv, TreeInv
  <2>3. WalkInv'
    BY <1>2, Found, <2>2 DEF Inv, WalkInv, serving
  <2>4. RequestInv'
    BY <1>2, Found, <2>2 DEF Inv, RequestInv, serving
  <2> QED
    BY <2>1, <2>3, <2>4 DEF Inv
<1>3. ASSUME NEW o \in Asked, Get(o) PROVE Inv'
  <2>1. /\ request = "none" /\ ~walking /\ oid' = o /\ stale' = (poll = "replaced")
        /\ \/ o \in tree /\ request' = "next"
           \/ o \notin tree /\ request' = "missed"
        /\ UNCHANGED <<serving, reply, walking, at, owed>>
    BY <1>3 DEF Get, walk
  <2>2. TreeInv'
    BY <2>1 DEF Inv, TreeInv, serving
  <2>3. WalkInv'
    BY <2>1 DEF Inv, WalkInv, serving
  <2>4. RequestInv'
    BY <2>1 DEF Inv, TreeInv, RequestInv, serving
  <2> QED
    BY <2>2, <2>3, <2>4 DEF Inv
<1> QED
  BY <1>1, <1>2, <1>3

(* A request that goes on to its next look. *)
LEMMA GoesOn ==
  ASSUME Inv, request # "none", UNCHANGED <<serving, oid, reply, walk, stale>>,
         \/ request = "next" /\ request' = "checked" /\ OfPort(oid)
         \/ request = "missed" /\ request' = "parent" /\ Len(oid) > 1
  PROVE  Inv'
<1>1. TreeInv'
  BY DEF Inv, TreeInv, serving
<1>2. WalkInv'
  BY DEF Inv, WalkInv, serving, walk
<1>3. RequestInv'
  BY DEF Inv, RequestInv, serving, OfPort
<1> QED
  BY <1>1, <1>2, <1>3 DEF Inv

(* What two searches tell of an OID that is not in the tree. *)
LEMMA ObjectIs ==
  ASSUME Inv
  PROVE  /\ oid \in Oid /\ Len(oid) \in Nat
         /\ HasDescendants(tree, oid) => IsObject(tree, oid)
         /\ Len(oid) <= 1 /\ ~HasDescendants(tree, oid) => ~IsObject(tree, oid)
         /\ Len(oid) > 1 => (HasDescendants(tree, Front(oid)) <=> IsObject(tree, oid))
<1>1. oid \in Oid
  BY AskedAreOids, UniverseIs DEF Inv, RequestInv, Oid
<1>2. tree \in SUBSET Oid /\ IsFiniteSet(tree) /\ Len(oid) \in Nat
  BY <1>1, TreeIs, OidIs DEF Inv
<1>3. HasDescendants(tree, oid) <=> \E x \in tree : IsPrefix(oid, x)
  BY <1>1, <1>2, HasDescendantsIs
<1>4. ASSUME Len(oid) > 1 PROVE HasDescendants(tree, Front(oid)) <=> IsObject(tree, oid)
  <2>1. /\ Front(oid) \in Oid /\ Len(Front(oid)) = Len(oid) - 1
        /\ \A i \in 1..(Len(oid) - 1) : Front(oid)[i] = oid[i]
    BY <1>1, <1>2, <1>4 DEF Front, Oid
  <2>2. HasDescendants(tree, Front(oid)) <=> \E x \in tree : IsPrefix(Front(oid), x)
    BY <1>2, <2>1, HasDescendantsIs
  <2>3. ASSUME NEW x \in tree, IsPrefix(oid, x) PROVE IsPrefix(Front(oid), x)
    <3>1. x \in Oid /\ Len(x) \in Nat
      BY <1>2, OidIs
    <3>2. Len(oid) <= Len(x) /\ \A i \in 1..Len(oid) : oid[i] = x[i]
      BY <1>1, <2>3, <3>1, PrefixIs DEF Oid
    <3>3. Len(Front(oid)) <= Len(x) /\ \A i \in 1..Len(Front(oid)) : Front(oid)[i] = x[i]
      BY <1>2, <2>1, <3>1, <3>2
    <3> QED
      BY <2>1, <3>1, <3>3, PrefixIs DEF Oid
  <2> QED
    BY <1>4, <2>2, <2>3 DEF IsObject
<1> QED
  BY <1>1, <1>2, <1>3, <1>4 DEF IsObject

(* What is answered, and when. *)
LEMMA Answers ==
  ASSUME Inv, CheckPort \/ ReadPort \/ ReadOther \/ Classify \/ ClassifyParent
  PROVE  \/ /\ request # "none" /\ UNCHANGED <<serving, oid, reply, walk, stale>>
            /\ \/ request = "next" /\ request' = "checked" /\ OfPort(oid)
               \/ request = "missed" /\ request' = "parent" /\ Len(oid) > 1
         \/ \E what \in Replies :
              /\ Reply(what) /\ request # "none"
              /\ what \in {"default", "error"} =>
                   request \in {"next", "checked"} /\ OfPort(oid) /\ ~Present(oid)
              /\ request \in {"missed", "parent"} =>
                   (what = "no_instance" <=> IsObject(tree, oid))
<1>1. CASE CheckPort
  BY <1>1 DEF CheckPort, Replies
<1>2. CASE ReadPort
  BY <1>2 DEF ReadPort, Replies, Inv, RequestInv
<1>3. CASE ReadOther
  BY <1>3 DEF ReadOther, Replies
<1>4. CASE Classify
  BY <1>4, ObjectIs DEF Classify, Replies
<1>5. CASE ClassifyParent
  BY <1>5, ObjectIs DEF ClassifyParent, Replies, Inv, RequestInv
<1> QED
  BY <1>1, <1>2, <1>3, <1>4, <1>5

LEMMA InvInit == Init => Inv
<1> SUFFICES ASSUME Init PROVE Inv
  OBVIOUS
<1>1. TreeInv
  BY DEF Init, TreeInv, Signature
<1>2. WalkInv
  BY DEF Init, WalkInv
<1>3. RequestInv
  BY DEF Init, RequestInv
<1> QED
  BY <1>1, <1>2, <1>3 DEF Inv

LEMMA InvStep == Inv /\ [Next]_vars => Inv'
<1> SUFFICES ASSUME Inv, [Next]_vars PROVE Inv'
  OBVIOUS
<1>1. CASE ReplaceSwitch \/ Refresh
  BY <1>1, PollStep
<1>2. CASE BeginWalk \/ Find \/ (\E o \in Asked : Get(o))
  BY <1>2, RequestStep
<1>3. CASE CheckPort \/ ReadPort \/ ReadOther \/ Classify \/ ClassifyParent
  BY <1>3, Answers, GoesOn, Answered
<1>4. CASE UNCHANGED vars
  <2>1. TreeInv'
    BY <1>4 DEF Inv, TreeInv, vars, serving
  <2>2. WalkInv'
    BY <1>4 DEF Inv, WalkInv, vars, serving, walk
  <2>3. RequestInv'
    BY <1>4 DEF Inv, RequestInv, vars, serving
  <2> QED
    BY <2>1, <2>2, <2>3 DEF Inv
<1> QED
  BY <1>1, <1>2, <1>3, <1>4 DEF Next

LEMMA InvHolds == Spec => []Inv
  BY InvInit, InvStep, PTL DEF Spec
-----------------------------------------------------------------------------
(* The type invariant: every OID found is one that some layout has.         *)
THEOREM TypeCorrect == Spec => []TypeOK
<1>1. Inv => TypeOK
  <2> SUFFICES ASSUME Inv PROVE TypeOK
    OBVIOUS
  <2>1. signature \in [Ports -> Kinds]
    BY LayoutIs DEF Inv, TreeInv
  <2>2. tree \subseteq Universe
    BY TreeIs DEF Inv
  <2> QED
    BY <2>1, <2>2 DEF Inv, TreeInv, WalkInv, RequestInv, TypeOK
<1> QED
  BY <1>1, InvHolds, PTL

(* Between two polls the rows are those of the switch's ports, for any      *)
(* layouts and however they change (SwitchAgent.refresh).                   *)
THEOREM FollowsPorts == Spec => []TreeFollowsPorts
<1>1. Inv => TreeFollowsPorts
  <2> SUFFICES ASSUME Inv, poll = "idle" PROVE \E o \in Options : tree = Oids([layout EXCEPT !.options = o])
    BY DEF TreeFollowsPorts
  <2>1. PICK l \in Layouts : l.ports = layout.ports /\ tree = Oids(l)
    BY DEF Inv, TreeInv
  <2>2. l = [layout EXCEPT !.options = l.options] /\ l.options \in Options
    BY <2>1 DEF Inv, TreeInv, Layouts
  <2> QED
    BY <2>1, <2>2
<1> QED
  BY <1>1, InvHolds, PTL

(* A walk that reaches the end has returned all that was there throughout,  *)
(* for any tree and however often it was swapped (read_next_variables).     *)
THEOREM WalksAreComplete == Spec => WalkIsComplete
<1>1. Inv /\ [Next]_vars => [walking /\ reply' = "end" /\ ~walking' => owed = {}]_vars
  <2> SUFFICES ASSUME Inv, Next, walking, reply' = "end", ~walking' PROVE owed = {}
    OBVIOUS
  <2>1. CASE ReplaceSwitch \/ Refresh \/ BeginWalk \/ (\E o \in Asked : Get(o))
    BY <2>1 DEF ReplaceSwitch, Refresh, BeginWalk, Get, walk
  <2>2. CASE Find
    BY <2>2, Found
  <2>3. CASE CheckPort \/ ReadPort \/ ReadOther \/ Classify \/ ClassifyParent
    BY <2>3, Answers, ReplyIs DEF Replies, walk
  <2> QED
    BY <2>1, <2>2, <2>3 DEF Next
<1> QED
  BY <1>1, InvHolds, PTL DEF Spec, WalkIsComplete

(* And it has returned them in ascending order. *)
THEOREM WalksAscend == Spec => WalkAscends
<1>1. Inv /\ [Next]_vars => [at' \notin {at, EndOfMib} => Before(at, at')]_vars
  <2> SUFFICES ASSUME Inv, Next, at' # at, at' # EndOfMib PROVE Before(at, at')
    OBVIOUS
  <2>1. CASE ReplaceSwitch \/ Refresh \/ BeginWalk \/ (\E o \in Asked : Get(o))
    BY <2>1 DEF ReplaceSwitch, Refresh, BeginWalk, Get, walk
  <2>2. CASE Find
    BY <2>2, Found
  <2>3. CASE CheckPort \/ ReadPort \/ ReadOther \/ Classify \/ ClassifyParent
    <3>1. PICK what \in Replies : Reply(what) /\ request # "none"
      BY <2>3, Answers DEF walk
    <3>2. walking /\ at' = oid
      BY <3>1, ReplyIs
    <3> QED
      BY <3>1, <3>2 DEF Inv, WalkInv
  <2> QED
    BY <2>1, <2>2, <2>3 DEF Next
<1> QED
  BY <1>1, InvHolds, PTL DEF Spec, WalkAscends

(* A provider misses its port only if poll_once was replacing the switch.   *)
THEOREM FailsWhenStale == Spec => FailsOnlyWhenStale
<1>1. Inv /\ [Next]_vars =>
        [request' = "none" /\ reply' \in {"default", "error"} => request = "none" \/ stale]_vars
  <2> SUFFICES ASSUME Inv, Next, request' = "none", reply' \in {"default", "error"},
                      request # "none", ~stale
               PROVE  FALSE
    OBVIOUS
  <2>1. CASE ReplaceSwitch \/ Refresh \/ BeginWalk \/ (\E o \in Asked : Get(o))
    BY <2>1 DEF ReplaceSwitch, Refresh, BeginWalk, Get
  <2>2. CASE Find
    BY <2>2, Found
  <2>3. CASE CheckPort \/ ReadPort \/ ReadOther \/ Classify \/ ClassifyParent
    <3>1. PICK what \in Replies :
            /\ Reply(what)
            /\ what \in {"default", "error"} =>
                 request \in {"next", "checked"} /\ OfPort(oid) /\ ~Present(oid)
      BY <2>3, Answers
    <3>2. request \in {"next", "checked"} /\ OfPort(oid) /\ ~Present(oid)
      BY <3>1, ReplyIs
    <3>3. poll = "idle" /\ oid \in tree
      BY <3>2 DEF Inv, RequestInv
    <3> QED
      BY <3>2, <3>3, TreeIs DEF Inv
  <2> QED
    BY <2>1, <2>2, <2>3 DEF Next
<1> QED
  BY <1>1, InvHolds, PTL DEF Spec, FailsOnlyWhenStale

(* noSuchInstance if and only if the OID names an object of the tree, for   *)
(* any OID (read_variables, has_descendants).                               *)
THEOREM NoSuchRight == Spec => NoSuchIsRight
<1>1. Inv /\ [Next]_vars =>
        [(request \in {"missed", "parent"}) /\ request' = "none" =>
           (reply' = "no_instance" <=> IsObject(tree, oid))]_vars
  <2> SUFFICES ASSUME Inv, Next, request \in {"missed", "parent"}, request' = "none"
               PROVE  reply' = "no_instance" <=> IsObject(tree, oid)
    OBVIOUS
  <2>1. CASE ReplaceSwitch \/ Refresh \/ BeginWalk \/ (\E o \in Asked : Get(o))
    BY <2>1 DEF ReplaceSwitch, Refresh, BeginWalk, Get
  <2>2. CASE Find
    BY <2>2, Found
  <2>3. CASE CheckPort \/ ReadPort \/ ReadOther \/ Classify \/ ClassifyParent
    BY <2>3, Answers, ReplyIs
  <2> QED
    BY <2>1, <2>2, <2>3 DEF Next
<1> QED
  BY <1>1, InvHolds, PTL DEF Spec, NoSuchIsRight
=============================================================================
