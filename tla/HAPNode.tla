------------------------------ MODULE HAPNode -------------------------------
(***************************************************************************)
(* What a node says of itself (HAPNode): its descriptor, the number that    *)
(* stands for it, the pages it is told in, and the answers to a read, a     *)
(* write and a rename.  Its names are the only part that changes: a record  *)
(* of the node's name and of each instance's.                               *)
(***************************************************************************)
EXTENDS HAPFrame, HAPLinks, HAPCrc16

CONSTANTS DeviceType, Capabilities,
          Interval,       \* reportIntervalSec
          Firmware,       \* firmwareVersion
          NodeNames,      \* what the node may be called ...
          InstanceNames   \* ... and each of its instances

ASSUME NodeAssumption ==
  /\ Len(Instances) =< MaxInstances
  /\ DOMAIN InstanceNames = DOMAIN Instances

AllNames ==
  {n \in [name : NodeNames,
          instances : [DOMAIN Instances -> UNION Range(InstanceNames)]] :
     \A k \in DOMAIN Instances : n.instances[k] \in InstanceNames[k]}

\* Instance k is at position k + 1.
InstanceFlags(class) == IF IsWritable(class) THEN 1 ELSE 0

PrimaryType(class) ==
  CASE HasPort(class, "Out", 0) -> ValueType(class, "Out", 0)
    [] HasPort(class, "In", 0)  -> ValueType(class, "In", 0)
    [] OTHER                    -> "Null"

Describe(called, k) ==
  [class |-> Instances[k], inst |-> k - 1, flags |-> InstanceFlags(Instances[k]),
   type |-> PrimaryType(Instances[k]), name |-> called.instances[k]]

Descriptors(called) == [k \in DOMAIN Instances |-> Describe(called, k)]

-----------------------------------------------------------------------------
(* The revision: a checksum over everything a master would keep. *)

RevisionBytes(called) ==
  <<DeviceType, Capabilities>> \o called.name
    \o FlattenSeq([k \in DOMAIN Instances |->
         LET d == Describe(called, k)
         IN  <<ClassCode[d.class], d.inst, d.flags, TypeCode[d.type]>> \o d.name])

Revisions == Table([called \in AllNames |-> Crc16Update(CrcInit, RevisionBytes(called))])

DescriptorRev(called) == Revisions[called]

-----------------------------------------------------------------------------
(* Paging: as many descriptors to a page as the node's own name leaves room  *)
(* for, in order.                                                            *)

DescribeFixed == 5
TrailerSize   == 2
AnnounceFixed == 9

\* Mutant: the node's name is not paid for.
BudgetUnnamed(called, fixed) == MaxPayload - fixed - 1

Budget(called, fixed) == MaxPayload - (fixed + 1 + Len(called.name))

SizeOf(called, k) == 5 + Len(called.instances[k])

SizeOfAll(called, from, to) ==
  LET sum[k \in from - 1 .. to] == IF k < from THEN 0 ELSE sum[k - 1] + SizeOf(called, k)
  IN  sum[to]

\* Instance k, on the last page if there is room for it and else on a page of its own.
PlaceOn(called, slices, k, budget) ==
  IF slices # <<>> /\ SizeOfAll(called, Last(slices).first + 1, k) =< budget
  THEN [slices EXCEPT ![Len(slices)].count = @ + 1]
  ELSE Append(slices, [first |-> k - 1, count |-> 1])

\* A descriptor too large for any page ends them; there is always one.
Slices(called, fixed) ==
  LET budget == Budget(called, fixed)
      placed == Max({n \in 0 .. Len(Instances) :
                       \A k \in 1 .. n : SizeOf(called, k) =< budget})
      slices[k \in 0 .. placed] ==
        IF k = 0 THEN <<>> ELSE PlaceOn(called, slices[k - 1], k, budget)
  IN  IF placed = 0 THEN <<[first |-> 0, count |-> 0]>> ELSE slices[placed]

OnPage(called, slice) ==
  [j \in 1 .. slice.count |-> Describe(called, slice.first + j)]

\* One page, or nothing for a page past the last.
FillDescribe(called, page) ==
  LET slices == Slices(called, DescribeFixed + TrailerSize) IN
  IF page >= Len(slices) THEN <<>>
  ELSE <<[type |-> "DescribeResponse", rev |-> DescriptorRev(called),
          count |-> Len(Instances), page |-> page, pages |-> Len(slices),
          name |-> called.name, items |-> OnPage(called, slices[page + 1]),
          trailer |-> <<Interval>>]>>

FillAnnounce(called, page) ==
  LET slices == Slices(called, AnnounceFixed) IN
  IF page >= Len(slices) THEN <<>>
  ELSE <<[type |-> "BindAnnounce", deviceType |-> DeviceType,
          capabilities |-> Capabilities, interval |-> Interval,
          rev |-> DescriptorRev(called), count |-> Len(Instances), page |-> page,
          pages |-> Len(slices), name |-> called.name,
          items |-> OnPage(called, slices[page + 1])]>>

-----------------------------------------------------------------------------
(* Answering.  Ports travel in the order the class lists them. *)

OutPorts(k) ==
  SetToSortSeq({Ref(<<>>, Instances[k], k - 1, p.id) : p \in PortsOf(Instances[k], "Out")},
               LAMBDA a, b : a.port < b.port)

ValueEntry(ref, out) ==
  [class |-> ref.class, inst |-> ref.inst, port |-> ref.port, value |-> out[ref]]

Values(type, called, out, ports) ==
  LET items == [j \in 1 .. Min({Len(ports), MaxEntries}) |-> ValueEntry(ports[j], out)]
  IN  [type |-> type, rev |-> DescriptorRev(called), count |-> Len(items), items |-> items]

FillReport(called, out) ==
  Values("Report", called, out, FlattenSeq([k \in DOMAIN Instances |-> OutPorts(k)]))

\* The instances a read asks for, up to the first that has not the port it names:
\* there it ends.  It is refused then, and when nothing of the name is there, but
\* the refusal is not passed on: the answer carries what was found before it.
AskedFor(request) ==
  LET Matches(k) == /\ request.class \in {"Any", Instances[k]}
                    /\ request.inst \in {AnyOf, k - 1}
      Has(k)     == request.port = AnyOf \/ HasPort(Instances[k], "Out", request.port)
      Before(k)  == \A j \in 1 .. k : Matches(j) => Has(j)
  IN  SelectSeq([k \in DOMAIN Instances |-> k], LAMBDA k : Matches(k) /\ Before(k))

Read(request, called, out) ==
  Values("ReadResponse", called, out,
         SelectSeq(FlattenSeq([j \in DOMAIN AskedFor(request) |->
                                 OutPorts(AskedFor(request)[j])]),
                   LAMBDA ref : request.port \in {AnyOf, ref.port}))

WriteResult(request) ==
  LET class == request.class IN
  CASE ~HasInstance(request)                                 -> "NoSuchClass"
    [] ~HasPort(class, "In", request.port) /\ HasPort(class, "Out", request.port)
                                                             -> "NotWritable"
    [] ~HasPort(class, "In", request.port)                   -> "NoSuchPort"
    [] ~Fits(request.value, ValueType(class, "In", request.port)) -> "BadValue"
    [] OTHER                                                 -> "Ok"

NodeTarget     == 0
InstanceTarget == 1

RenameResult(request) ==
  IF request.target = NodeTarget \/ HasInstance(request) THEN "Ok" ELSE "NoSuchClass"

Rename(called, request) ==
  CASE RenameResult(request) # "Ok"    -> called
    [] request.target = NodeTarget     -> [called EXCEPT !.name = request.name]
    [] OTHER                           -> [called EXCEPT !.instances[request.inst + 1] =
                                                          request.name]
=============================================================================
