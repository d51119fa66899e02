------------------------------ MODULE AgentTree ------------------------------
(***************************************************************************)
(* One agent's tree while the poll thread changes the port layout under    *)
(* the event loop that answers the manager (agent.py, tree_builder.py,     *)
(* mibs/).  poll_once replaces ctx.switch and then refreshes the agent;    *)
(* the tree's providers look their port up in ctx.switch when they are     *)
(* called, and look it up twice.                                           *)
(***************************************************************************)
EXTENDS OidTree

CONSTANTS Ports,       \* port numbers the switch may have
          Kinds,       \* what a port may be: "absent", of "copper", with "poe" or "sfp"
          Options,     \* what else the switch may report
          Asked        \* OIDs the manager may GET

(* Whether spanning tree is on, there is a temperature (in the optional     *)
(* detail only) or a flow control setting; and the local port of the        *)
(* uplink, 0 for none.                                                      *)
Optional == [groups : SUBSET {"stp", "sensor", "flow"}, uplink : Ports \cup {0}]

ASSUME PortsAreNumbers == Ports \subseteq Nat \ {0} /\ IsFiniteSet(Ports)
ASSUME KindsAssumption == Kinds \subseteq {"absent", "copper", "poe", "sfp"}
ASSUME OptionsAssumption == Options \subseteq Optional
ASSUME AskedAreOids == Asked \subseteq Seq(Nat)

(* What the shape of the tree depends on. *)
Layouts == [ports : [Ports -> Kinds], options : Options]
There(l) == {p \in Ports : l.ports[p] # "absent"}

(* port_signature: number, is_sfp and poe_capable of every port, and nothing*)
(* else.  The mutants watch the numbers of the ports only, and what STP     *)
(* reports as well.                                                         *)
MutantNumbers(l) == [p \in Ports |-> IF l.ports[p] = "absent" THEN "absent" ELSE "poe"]
MutantWithStp(l) == [p \in Ports |-> IF "stp" \in l.options.groups THEN "stp" ELSE l.ports[p]]
Signature(l) == l.ports

(* build_tree: a scalar, and a column of each table.  ifTable has a row for *)
(* every port, as have those of the ports in the BRIDGE, LLDP, ENTITY and   *)
(* vendor MIBs; pethPsePortTable for those with PoE; entPhysicalTable has a *)
(* module for each cage, whose rows in fwPortTable are longer;              *)
(* dot1dStpPortTable has its rows if spanning tree is on, entPhySensorTable *)
(* one for a temperature, lldpRemTable one under the port of the uplink;    *)
(* fwSwitch has a scalar for flow control.                                  *)
Scalar == <<1, 0>>
IfRows(l) == {<<2, 1, p>> : p \in There(l)}
StpRows(l) == IF "stp" \in l.options.groups THEN {<<3, 1, p>> : p \in There(l)} ELSE {}
PoeRows(l) == {<<4, 1, p>> : p \in {q \in There(l) : l.ports[q] = "poe"}}
CageRows(l) == {<<5, 1, p>> : p \in {q \in There(l) : l.ports[q] = "sfp"}}
SensorRow(l) == IF "sensor" \in l.options.groups THEN {<<6, 1, 1>>} ELSE {}
NeighbourRow(l) == {<<7, 1, p>> : p \in {l.options.uplink} \ {0}}
FlowScalar(l) == IF "flow" \in l.options.groups THEN {<<8, 1, 0>>} ELSE {}

OptionalOids(l) == SensorRow(l) \cup NeighbourRow(l) \cup FlowScalar(l)
Oids(l) ==
  UNION {{Scalar}, IfRows(l), StpRows(l), PoeRows(l), CageRows(l), OptionalOids(l)}

VARIABLES
  layout,     \* ctx.switch, as far as the tree depends on it
  signature,  \* SwitchAgent._signature
  tree,       \* the OIDs of the tree the controller serves
  poll,       \* poll_once: "idle", "replaced" (ctx.switch is new, the agent is not)
  request,    \* the request being answered: "none", "next" (its OID is found),
              \* "checked" (its port was there), "missed" (a GET of an OID not in the tree),
              \* "parent" (nor is any under it)
  oid,        \* the OID it is about
  reply,      \* the last reply: "value", "default" (of a port that is gone), "blank" (of
              \* anything else that is), "error", "no_instance", "no_object", "end"
  walking,    \* the manager is walking the tree
  at,         \* the OID its walk has got to
  owed,       \* the OIDs in the tree throughout the walk that it has not returned yet
  stale       \* poll_once was between the two while the request was answered

serving == <<layout, signature, tree, poll>>
walk == <<walking, at, owed>>
vars == <<serving, request, oid, reply, walk, stale>>

Universe == UNION {Oids(l) : l \in Layouts}

TypeOK ==
  /\ layout \in Layouts /\ signature \in [Ports -> Kinds]
  /\ tree \subseteq Universe
  /\ poll \in {"idle", "replaced"}
  /\ request \in {"none", "next", "checked", "missed", "parent"}
  /\ oid \in Universe \cup Asked \cup {EndOfMib}
  /\ reply \in {"value", "default", "blank", "error", "no_instance", "no_object", "end"}
  /\ walking \in BOOLEAN
  /\ at \in Universe \cup {EndOfMib} /\ owed \subseteq Universe
  /\ stale \in BOOLEAN

Init ==
  /\ layout \in Layouts
  /\ signature = Signature(layout) /\ tree = Oids(layout) /\ poll = "idle"
  /\ request = "none" /\ oid = EndOfMib /\ reply = "end"
  /\ walking = FALSE /\ at = EndOfMib /\ owed = {}
  /\ stale = FALSE
-----------------------------------------------------------------------------
(* The poll thread. *)

ReplaceSwitch ==
  /\ poll = "idle"
  /\ layout' \in Layouts
  /\ poll' = "replaced"
  /\ stale' = (request # "none")
  /\ UNCHANGED <<signature, tree, request, oid, reply, walk>>

(* The tree is rebuilt when the signature has changed. *)
Refresh ==
  /\ poll = "replaced"
  /\ poll' = "idle"
  /\ IF Signature(layout) = signature
       THEN UNCHANGED <<signature, tree>>
       ELSE signature' = Signature(layout) /\ tree' = Oids(layout)
  /\ owed' = owed \cap tree'
  /\ UNCHANGED <<layout, request, oid, reply, walking, at, stale>>
-----------------------------------------------------------------------------
(* A walk is over. *)
EndWalk == walking' = FALSE /\ at' = EndOfMib /\ owed' = {}

(* The manager walks: GETNEXT after GETNEXT, each of the OID before.        *)

BeginWalk ==
  /\ request = "none" /\ ~walking
  /\ walking' = TRUE /\ at' = EndOfMib /\ owed' = tree
  /\ UNCHANGED <<serving, request, oid, reply, stale>>

(* read_next_variables finds the next OID in the tree it has at hand. *)
Find ==
  /\ request = "none" /\ walking
  /\ LET next == GetNext(tree, at) IN
     IF next = EndOfMib
       THEN EndWalk /\ reply' = "end" /\ UNCHANGED <<request, oid, stale>>
       ELSE /\ oid' = next /\ request' = "next"
            /\ stale' = (poll = "replaced")
            /\ UNCHANGED <<walk, reply>>
  /\ UNCHANGED serving

(* Each provider is bound to its own port; the mutant's closures all look   *)
(* up the last one of the loop that made them.                              *)
MutantPortOf(o) == CHOOSE p \in Ports : \A q \in Ports : q <= p
PortOf(o) == o[3]
Present(o) == layout.ports[PortOf(o)] # "absent"

(* The optional ones are not about a port: a temperature that is gone is 0, *)
(* an uplink without one; the row of an uplink that has moved tells of the  *)
(* new one under the old port.                                              *)
OfPort(o) == o[1] \in 2..5
Blank(o) ==
  CASE o[1] = 6 -> "sensor" \notin layout.options.groups
    [] o[1] = 7 -> layout.options.uplink = 0
    [] o[1] = 8 -> "flow" \notin layout.options.groups
    [] OTHER -> FALSE

(* The request is answered; a walk takes note of the OID.  An error ends it.*)
Reply(what) ==
  /\ request' = "none" /\ reply' = what
  /\ oid' = EndOfMib /\ stale' = FALSE
  /\ IF walking /\ what # "error"
       THEN at' = oid /\ owed' = owed \ {oid} /\ UNCHANGED walking
       ELSE EndWalk
  /\ UNCHANGED serving

(* "x(f()) if f() else default": the first f() ... *)
CheckPort ==
  /\ request = "next" /\ OfPort(oid)
  /\ IF Present(oid)
       THEN request' = "checked" /\ UNCHANGED <<serving, oid, reply, walk, stale>>
       ELSE Reply("default")

(* ... and the second, on which None has no attribute. *)
ReadPort ==
  /\ request = "checked"
  /\ Reply(IF Present(oid) THEN "value" ELSE "error")
ReadOther ==
  /\ request = "next" /\ ~OfPort(oid)
  /\ Reply(IF Blank(oid) THEN "blank" ELSE "value")
-----------------------------------------------------------------------------
(* The manager asks for one OID, between walks. *)

Get(o) ==
  /\ request = "none" /\ ~walking
  /\ oid' = o
  /\ request' = IF o \in tree THEN "next" ELSE "missed"
  /\ stale' = (poll = "replaced")
  /\ UNCHANGED <<serving, reply, walk>>

(* self.tree is read again, and then once more, to tell an OID that names a *)
(* real object, an interior node or a column with other instances, from one *)
(* that does not.                                                           *)
Classify ==
  /\ request = "missed"
  /\ IF HasDescendants(tree, oid) THEN Reply("no_instance")
     ELSE IF Len(oid) <= 1 THEN Reply("no_object")
     ELSE request' = "parent" /\ UNCHANGED <<serving, oid, reply, walk, stale>>

ClassifyParent ==
  /\ request = "parent"
  /\ Reply(IF HasDescendants(tree, Front(oid)) THEN "no_instance" ELSE "no_object")

Next ==
  \/ ReplaceSwitch \/ Refresh
  \/ BeginWalk \/ Find \/ CheckPort \/ ReadPort \/ ReadOther
  \/ (\E o \in Asked : Get(o)) \/ Classify \/ ClassifyParent

Spec == Init /\ [][Next]_vars
-----------------------------------------------------------------------------
(* Correctness. *)

(* A walk that reaches the end of the MIB has returned every OID that was   *)
(* there throughout, however often the tree was swapped under it.           *)
WalkIsComplete == [][walking /\ reply' = "end" /\ ~walking' => owed = {}]_vars

(* And it has returned them in ascending order, none twice.                 *)
WalkAscends == [][at' \notin {at, EndOfMib} => Before(at, at')]_vars

(* Between two polls the rows are those of the ports the switch reports.   *)
TreeFollowsPorts ==
  poll = "idle" => \E o \in Options : tree = Oids([layout EXCEPT !.options = o])

(* "The dot1dStp group is only instantiated when STP is actually enabled on *)
(* the switch": between two polls there is no row of it while STP is off.   *)
StpOnlyWhenEnabled ==
  poll = "idle" /\ "stp" \notin layout.options.groups
    => \A p \in Ports : <<3, 1, p>> \notin tree

(* A request fails, or is given a default value for a port that is gone,    *)
(* only if poll_once was replacing ctx.switch at some moment of it.         *)
FailsOnlyWhenStale ==
  [][request' = "none" /\ reply' \in {"default", "error"} => request = "none" \/ stale]_vars

(* An OID that names an object is never reported as noSuchObject, which     *)
(* would make the manager drop the object, and noSuchInstance is only       *)
(* reported of one that does: against the set of OIDs, not the search.      *)
IsObject(t, o) ==
  \E x \in t : IsPrefix(o, x) \/ (Len(o) > 1 /\ IsPrefix(Front(o), x))
NoSuchIsRight ==
  [][(request \in {"missed", "parent"}) /\ request' = "none" =>
       (reply' = "no_instance" <=> IsObject(tree, oid))]_vars
=============================================================================
