------------------------------ MODULE HAPLinks ------------------------------
(***************************************************************************)
(* The wires one node holds, as operators on the sequence of its links.     *)
(* A link runs from an output to an input; both are downward paths from the *)
(* node, the empty path being the node itself.                              *)
(***************************************************************************)
EXTENDS HAPClasses, SequencesExt

CONSTANTS Instances,  \* the classes of the node's instances, in order
          MaxLinks,   \* HAP_MAX_LINKS
          LinksPerPage

ASSUME LinksAssumption ==
  /\ Instances \in Seq(ClassId)
  /\ MaxLinks \in Nat \ {0} /\ LinksPerPage \in Nat \ {0}

LinkId == 0 .. MaxLinks - 1

Ref(path, class, inst, port) ==
  [path |-> path, class |-> class, inst |-> inst, port |-> port]

PortRef   == [path : Seq(Nat), class : STRING, inst : Nat, port : Nat]
LinkSpecs == [id : Nat, src : PortRef, dst : PortRef]

HasInstance(ref) == ref.inst + 1 \in DOMAIN Instances /\ Instances[ref.inst + 1] = ref.class

\* The node's own ports of one direction.
LocalPorts(dir) ==
  UNION {{Ref(<<>>, Instances[k], k - 1, p.id) : p \in PortsOf(Instances[k], dir)} :
           k \in DOMAIN Instances}

\* An end of a link on this node has to exist; one below is taken on trust.
ValidateLocal(ref, dir) ==
  CASE ref.path # <<>>                      -> "Ok"
    [] ~HasInstance(ref)                    -> "NoSuchClass"
    [] ~HasPort(ref.class, dir, ref.port)   -> "NoSuchPort"
    [] OTHER                                -> "Ok"

\* Mutant: a link that overwrites its slot is not looked at.
InputIsTakenBelow(links, dst, except) ==
  \E k \in DOMAIN links : links[k].id < except /\ links[k].dst = dst

InputIsTaken(links, dst, except) ==
  \E k \in DOMAIN links : links[k].id # except /\ links[k].dst = dst

SetResult(links, spec) ==
  LET classes == ValidateLink(spec.src, spec.dst)
      source  == ValidateLocal(spec.src, "Out")
      dest    == ValidateLocal(spec.dst, "In")
  IN  CASE spec.id \notin LinkId                        -> "BadRequest"
        [] classes # "Ok"                               -> classes
        [] source # "Ok"                                -> source
        [] dest # "Ok"                                  -> dest
        [] InputIsTaken(links, spec.dst, spec.id)       -> "InputBusy"
        [] OTHER                                        -> "Ok"

\* The slot is overwritten where it is, or taken at the end.  Every id below
\* MaxLinks has room, so that NoLinkSlot cannot happen.
SetLink(links, spec) ==
  IF SetResult(links, spec) # "Ok" THEN links
  ELSE IF \E k \in DOMAIN links : links[k].id = spec.id
       THEN [k \in DOMAIN links |-> IF links[k].id = spec.id THEN spec ELSE links[k]]
       ELSE Append(links, spec)

AllLinks == 255  \* kAllLinks

ClearResult(links, id) ==
  IF id = AllLinks \/ \E k \in DOMAIN links : links[k].id = id THEN "Ok" ELSE "NoLinkSlot"

ClearLink(links, id) ==
  IF id = AllLinks THEN <<>> ELSE RemoveFirstMatch(links, LAMBDA l : l.id = id)

ListPageCount(links) ==
  IF links = <<>> THEN 1 ELSE (Len(links) + LinksPerPage - 1) \div LinksPerPage

ListPage(links, page) ==
  SubSeq(links, page * LinksPerPage + 1,
         IF Len(links) < (page + 1) * LinksPerPage THEN Len(links)
         ELSE (page + 1) * LinksPerPage)
=============================================================================
