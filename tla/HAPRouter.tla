------------------------------ MODULE HAPRouter ------------------------------
(***************************************************************************)
(* The addressing of HAPLib: HAPPath (a bounded list of hops) and HAPRouter *)
(* (one node's parent, its child table and the routing decision).  Both are *)
(* pure: they keep no timers and touch no radio, so they are operators over *)
(* a path, over a child table and over a router record.                     *)
(*                                                                          *)
(* A child table is a function from Index to a child record, or NoChild.    *)
(* The operators read only the record's mac; each module that uses a table  *)
(* adds the fields it needs.  A router is a record with a parent (NoNode    *)
(* when hasParent_ is false) and a child table.                             *)
(***************************************************************************)
EXTENDS Integers, Sequences, FiniteSets

CONSTANTS Node,         \* the devices, named by their MAC address
          NoNode,       \* the zero MAC
          NoChild,      \* an index that is not in use
          MaxDepth,     \* HAP_MAX_DEPTH
          MaxChildren,  \* HAP_MAX_CHILDREN
          MaxHop        \* HAPPath::kMaxHop

ASSUME RouterAssumption ==
  /\ NoNode \notin Node
  /\ MaxDepth \in Nat
  /\ MaxChildren \in Nat \ {0}
  /\ MaxHop \in Nat
  /\ MaxChildren =< MaxHop

-----------------------------------------------------------------------------
(* HAPPath *)

Hop  == 1 .. MaxHop
Path == {p \in Seq(Hop) : Len(p) =< MaxDepth}

PathIsFull(p) == Len(p) >= MaxDepth

\* Mutant: the far end of the path is dropped.
ShiftLast(p) == SubSeq(p, 1, Len(p) - 1)

\* shift() and prepend() of a path for which they return true.
Shift(p)      == Tail(p)
Prepend(h, p) == <<h>> \o p

-----------------------------------------------------------------------------
(* The child table *)

Index == 1 .. MaxChildren

EmptyTable == [i \in Index |-> NoChild]

Used(table)   == {i \in Index : table[i] # NoChild}
Macs(table)   == {table[i].mac : i \in Used(table)}
IndicesOf(table, m) == {i \in Used(table) : table[i].mac = m}

\* childByMac(): the child's index, 0 when the address is no child.
ChildByMac(table, m) ==
  IF IndicesOf(table, m) = {} THEN 0 ELSE CHOOSE i \in IndicesOf(table, m) : TRUE

ChildCapacity(r) == IF r.parent # NoNode THEN MaxChildren - 1 ELSE MaxChildren

TableIsFull(r) == Cardinality(Used(r.children)) >= ChildCapacity(r)

\* The lowest index not in use, 0 when the node is full.
FreeChildIndex(r) ==
  IF TableIsFull(r) THEN 0
  ELSE CHOOSE i \in Index \ Used(r.children) :
         \A j \in Index \ Used(r.children) : i =< j

\* What addChild() accepts, and the table it leaves.
MayAddChild(r, i, m) ==
  /\ ~TableIsFull(r)
  /\ i \in Index
  /\ r.children[i] = NoChild
  /\ IndicesOf(r.children, m) = {}

AddChild(table, i, c)   == [table EXCEPT ![i] = c]
RemoveChild(table, i)   == [table EXCEPT ![i] = NoChild]

-----------------------------------------------------------------------------
(* Routing.  A decision carries the frame as the router rewrote it, the     *)
(* child it goes to or that failed (0 for none), and the reason of a drop.  *)

Decision(action, f, i, reason) ==
  [action |-> action, frame |-> f, child |-> i, reason |-> reason]

Drop(f, i, reason) == Decision("Drop", f, i, reason)

\* Mutant: the diagnosis does not say which hop failed.
ResolveNamingNoHop(r, f) ==
  IF f.dest = <<>> THEN Decision("Deliver", f, 0, "Ok")
  ELSE LET i == Head(f.dest) IN
       IF i \notin Used(r.children) THEN Drop(f, 0, "NoSuchChild")
       ELSE Decision("ToChild", [f EXCEPT !.dest = Shift(@)], i, "Ok")

ResolveDownstream(r, f) ==
  IF f.dest = <<>> THEN Decision("Deliver", f, 0, "Ok")
  ELSE LET i == Head(f.dest) IN
       IF i \notin Used(r.children) THEN Drop(f, i, "NoSuchChild")
       ELSE Decision("ToChild", [f EXCEPT !.dest = Shift(@)], i, "Ok")

\* Mutant: only a frame that is forwarded gets its hop.
RouteUpstreamAtRoot(r, f, i) ==
  IF PathIsFull(f.src) THEN Drop(f, i, "BadRequest")
  ELSE IF r.parent # NoNode THEN Decision("ToParent", [f EXCEPT !.src = Prepend(i, @)], 0, "Ok")
  ELSE Decision("Deliver", f, 0, "Ok")

\* An upstream frame that child i handed over.
RouteUpstream(r, f, i) ==
  IF PathIsFull(f.src) THEN Drop(f, i, "BadRequest")
  ELSE Decision(IF r.parent # NoNode THEN "ToParent" ELSE "Deliver",
                [f EXCEPT !.src = Prepend(i, @)], 0, "Ok")

Route(r, f, from) ==
  LET fromParent == r.parent # NoNode /\ from = r.parent
      sender     == ChildByMac(r.children, from)
  IN  IF ~fromParent /\ sender = 0 THEN Drop(f, 0, "NotBound")
      ELSE IF f.upstream
           THEN IF sender = 0 THEN Drop(f, 0, "BadRequest")
                ELSE RouteUpstream(r, f, sender)
           ELSE IF ~fromParent THEN Drop(f, 0, "BadRequest")
                ELSE ResolveDownstream(r, f)
=============================================================================
