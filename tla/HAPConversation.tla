-------------------------- MODULE HAPConversation ---------------------------
(***************************************************************************)
(* A root and one of its children in conversation: every request of         *)
(* HAPStack::handleRequest() and what handleUpstreamNews() makes of the     *)
(* answers, over a radio that loses either.  Frames carry bytes, written by *)
(* one build and read by another; the root keeps a copy of the child's      *)
(* descriptor, page by page, and the revision it last heard.                *)
(*                                                                          *)
(* Sequence numbers, routing and sleep are HAPStack's, time and measuring   *)
(* HAPDevice's, intervals and identities HAPMaster's.  Both ends have the   *)
(* stack's own code; what the root asks, and when, is its application's.    *)
(***************************************************************************)
EXTENDS HAPNode, HAPMessageTypes

CONSTANTS MaxName,     \* HAP_MAX_NAME_LEN in the child's build ...
          PeerName,    \* ... and in the root's
          FactoryNames, \* what the firmware calls the child and its instances
          Shown,       \* what each of its out ports reads
          Agendas,     \* what the root may ask: one set of requests or another
          CanUpdate,   \* the application took the OTA hook
          MaxUp,       \* answers on their way (bound)
          MaxRenames   \* renames asked for (bound)

Ins == LocalPorts("In")
NoPolicy == [interval |-> 0, deadband |-> Null]

ASSUME ConversationAssumption ==
  /\ MaxName \in Nat /\ PeerName \in Nat /\ MaxName =< PeerName
  /\ FactoryNames \in AllNames
  /\ LinksPerPage = (MaxPayload - 3) \div (1 + 2 * (1 + MaxDepth + 3))
  /\ MaxUp \in Nat \ {0} /\ MaxRenames \in Nat

VARIABLES names,    \* the child's names, in memory ...
          saved,    \* ... and the file, empty until something is renamed
          input,    \* the value of each of its in ports
          policy,   \* the policy of each of its out ports
          links,    \* its links
          copy,     \* what the root's model keeps of the child
          heard,    \* history: the pages the copy was put together from
          down,     \* the request on its way, if there is one
          up,       \* the answers and reports on theirs
          renames,  \* renames asked for so far
          agenda    \* what the root asks of this child

node == <<names, saved, input, policy, links>>
root == <<copy, heard>>
air  == <<down, up>>
vars == <<node, root, air, renames, agenda>>

-----------------------------------------------------------------------------
(* Frames.  Nothing changes a frame on its way: it is what its sender meant  *)
(* and what its bytes read as at the other end.                              *)

\* A code nobody knows: a message of a later version.
CodeOf(m) == IF m.type \in DOMAIN MessageCode THEN MessageCode[m.type] ELSE 127

Bytes(m, flags, maxName) ==
  EncodeFrame([code |-> CodeOf(m), flags |-> flags, seq |-> 0, dest |-> <<>>, src |-> <<>>,
               payload |-> IF m.type \in DOMAIN Layout THEN Encode(m, maxName).bytes
                           ELSE <<>>])

\* A frame whose header is wrong is nobody's.
Understood(bytes, maxName) ==
  LET frame == DecodeFrame(bytes)
      known == {type \in DOMAIN MessageCode : MessageCode[type] = frame.code}
  IN  CASE frame.error # "None" -> [ok |-> FALSE, m |-> [type |-> "None"]]
        [] frame.error = "None" /\ known = {} -> [ok |-> TRUE, m |-> [type |-> "Unknown"]]
        [] OTHER -> Decode(CHOOSE type \in known : TRUE, frame.payload, maxName)

\* What a build of names no longer than this makes of any bytes.
ReadBy ==
  [maxName \in {MaxName, PeerName} |-> [bytes \in Seq(0 .. 255) |-> Understood(bytes, maxName)]]

Sent(m, flags, writer, reader) ==
  [meant |-> m, read |-> ReadBy[reader][Bytes(m, flags, writer)]]

\* What is read of the first frame, if it is one of some types.
First(frames, types) ==
  IF frames = <<>> THEN {} ELSE {r \in {Head(frames).read} : r.m.type \in types}

-----------------------------------------------------------------------------
(* The child. *)

\* loadNames(): an empty name in the file is none at all.
Kept(file, factory) == IF file = <<>> THEN factory ELSE file

\* Mutant: the node's own name alone is read back.
LoadNodeName(file) ==
  IF file = <<>> THEN FactoryNames
  ELSE [FactoryNames EXCEPT !.name = Kept(file[1].name, @)]

LoadNames(file) ==
  IF file = <<>> THEN FactoryNames
  ELSE [name |-> Kept(file[1].name, FactoryNames.name),
        instances |-> [k \in DOMAIN Instances |->
                         Kept(file[1].instances[k], FactoryNames.instances[k])]]

Unwritten == [i \in Ins |-> Null]
Default   == [p \in DOMAIN Shown |-> NoPolicy]

PortOf(request) == Ref(<<>>, request.class, request.inst, request.port)

\* A request the child has received: what it read of it, and whether that was all.
Request(type) == First(down, {type})

Answer(answers) ==
  /\ Len(up) + Len(answers) =< MaxUp  \* bound
  /\ down' = <<>>
  /\ up' = up \o [k \in DOMAIN answers |-> Sent(answers[k], Upstream, MaxName, PeerName)]
  /\ UNCHANGED <<root, renames, agenda>>

\* What changes nothing: a ping, a description, a read, a list of links, and
\* what the child has never heard of.
Told(m) ==
  CASE m.type = "Ping"             -> <<[type |-> "Pong", rev |-> DescriptorRev(names)]>>
    [] m.type = "DescribeRequest"  -> FillDescribe(names, m.page)
    [] m.type = "ReadRequest"      -> <<Read(m, names, Shown)>>
    [] m.type = "ListLinksRequest" ->
         IF m.page >= ListPageCount(links) THEN <<>>
         ELSE <<[type |-> "ListLinksResponse", count |-> Len(links), page |-> m.page,
                 pages |-> ListPageCount(links), items |-> ListPage(links, m.page)]>>
    [] m.type = "Unknown"          ->
         <<[type |-> "Nack", seq |-> 0, reason |-> "Unsupported"]>>

Questions == {"Ping", "DescribeRequest", "ReadRequest", "ListLinksRequest", "Unknown"}

Tell == \E q \in First(down, Questions) :
  /\ Answer(Told(q.m))
  /\ UNCHANGED node

\* The answer carries what the port holds now.
TakeWrite == \E q \in Request("WriteRequest") :
  /\ LET result == WriteResult(q.m)
         port   == PortOf(q.m)
         taken  == IF result = "Ok" THEN [input EXCEPT ![port] = q.m.value] ELSE input
     IN  /\ input' = taken
         /\ Answer(<<[type |-> "WriteResponse", result |-> result, class |-> q.m.class,
                      inst |-> q.m.inst, port |-> q.m.port,
                      value |-> IF port \in Ins THEN taken[port] ELSE Null]>>)
  /\ UNCHANGED <<names, saved, policy, links>>

\* Renamed, written to the file, and only then answered.
TakeName == \E q \in Request("SetNameRequest") :
  /\ names' = Rename(names, q.m)
  /\ saved' = IF RenameResult(q.m) = "Ok" THEN <<names'>> ELSE saved
  /\ Answer(<<[type |-> "SetNameResponse", result |-> RenameResult(q.m),
               rev |-> DescriptorRev(names')]>>)
  /\ UNCHANGED <<input, policy, links>>

TakePolicy == \E q \in Request("SetPolicyRequest") :
  /\ LET known == PortOf(q.m) \in DOMAIN Shown
         set   == [interval |-> q.m.interval, deadband |-> q.m.deadband]
         told  == IF known THEN set ELSE NoPolicy
     IN  /\ policy' = IF known THEN [policy EXCEPT ![PortOf(q.m)] = set] ELSE policy
         /\ Answer(<<[type |-> "SetPolicyResponse",
                      result |-> IF known THEN "Ok" ELSE "NoSuchPort",
                      class |-> q.m.class, inst |-> q.m.inst, port |-> q.m.port,
                      interval |-> told.interval, deadband |-> told.deadband]>>)
  /\ UNCHANGED <<names, saved, input, links>>

\* A link whose path is no path is refused for what could be read of it.
TakeLink == \E q \in Request("SetLinkRequest") :
  /\ LET spec == [id |-> q.m.id, src |-> q.m.src, dst |-> q.m.dst] IN
       /\ links' = IF q.ok THEN SetLink(links, spec) ELSE links
       /\ Answer(<<[type |-> "SetLinkResponse", id |-> q.m.id,
                    result |-> IF q.ok THEN SetResult(links, spec) ELSE "BadRequest"]>>)
  /\ UNCHANGED <<names, saved, input, policy>>

TakeClear == \E q \in Request("ClearLinkRequest") :
  /\ links' = IF q.ok THEN ClearLink(links, q.m.id) ELSE links
  /\ Answer(<<[type |-> "ClearLinkResponse",
               result |-> IF q.ok THEN ClearResult(links, q.m.id) ELSE "BadRequest"]>>)
  /\ UNCHANGED <<names, saved, input, policy>>

\* A question for the version is answered; an update is the application's, once
\* it has been agreed to.
IsQueryOnly(flags) == BitOf(flags, 1) = 1  \* HAPOtaFlags::QueryOnly

TakeOta == \E q \in Request("OtaRequest"), agreed \in {"Ok", "Busy"} :
  /\ agreed # "Ok" => q.ok /\ CanUpdate /\ ~IsQueryOnly(q.m.flags)
  /\ Answer(<<[type |-> "OtaResponse", name |-> Firmware,
               result |-> CASE ~q.ok      -> "BadRequest"
                            [] ~CanUpdate -> "Unsupported"
                            [] OTHER      -> agreed]>>)
  /\ UNCHANGED node

\* HAPReporter::fillReport(): a port that never had a reading is left out.
ReportOf(called) ==
  LET items == SelectSeq(FillReport(called, Shown).items, LAMBDA e : e.value # Null)
  IN  [FillReport(called, Shown) EXCEPT !.items = items, !.count = Len(items)]

\* The report of the child under any of its names.  What it shows fits a frame.
Reports == Table([n \in AllNames |-> Sent(ReportOf(n), Upstream, MaxName, PeerName)])
ASSUME ReportsFit ==
  \A n \in AllNames : Reports[n] = [meant |-> ReportOf(n),
                                    read |-> [ok |-> TRUE, m |-> ReportOf(n)]]

\* The reporter's decision; see HAPDevice.
SendReport ==
  /\ Len(up) < MaxUp  \* bound
  /\ up' = Append(up, Reports[names])
  /\ UNCHANGED <<node, root, down, renames, agenda>>

\* Power goes and comes back: the names come from the file, the rest from nowhere.
Restart ==
  /\ names' = LoadNames(saved)
  /\ input' = Unwritten /\ policy' = Default /\ links' = <<>>
  /\ down' = <<>>
  /\ UNCHANGED <<saved, root, up, renames, agenda>>

-----------------------------------------------------------------------------
(* The root. *)

Unheard == [rev |-> 0, next |-> 0, pages |-> 1]
Blank   == [rev |-> 0, described |-> FALSE, cachedRev |-> 0, name |-> <<>>,
            instances |-> <<>>, values |-> <<>>]

NeedsDescribe == ~copy.described \/ copy.cachedRev # copy.rev

\* Mutant: what is full takes more.
AllOf(n, s) == s

\* What is full takes no more.
UpTo(n, s) == SubSeq(s, 1, Min({n, Len(s)}))

\* Mutant: what a report is a report of goes unnoticed.
NoteValues(m) == [copy EXCEPT !.values = UpTo(MaxEntries, m.items)]

NoteReport(m) == [copy EXCEPT !.rev = m.rev, !.values = UpTo(MaxEntries, m.items)]

\* Mutant: the first page is added to what is there.
AddTo(m) == copy.instances

\* Page 0 starts the list of instances again; later pages add to it.
ListBefore(m) == IF m.page = 0 THEN <<>> ELSE copy.instances

NoteDescribe(m) ==
  LET last == m.page + 1 >= m.pages IN
  [copy EXCEPT !.rev = m.rev, !.name = m.name,
     !.instances = UpTo(MaxInstances, ListBefore(m) \o m.items),
     !.described = last \/ (m.page # 0 /\ @),
     !.cachedRev = IF last THEN m.rev ELSE @]

NotePong(m) == [copy EXCEPT !.rev = m.rev]

\* Every page so far came once, in its place and of one revision.
InPlace(m) == m.page = heard.next /\ m.rev = heard.rev

Heard(m) ==
  CASE m.page = 0   -> [rev |-> m.rev, next |-> 1, pages |-> m.pages]
    [] m.page # 0 /\ InPlace(m) -> [heard EXCEPT !.next = @ + 1]
    [] OTHER        -> Unheard

\* What changes something asks to be acknowledged.
FlagsOf(m) ==
  IF m.type \in {"Ping", "DescribeRequest", "ReadRequest", "ListLinksRequest"} THEN 0
  ELSE AckRequested

\* As it leaves the root, and as it is read by the child.
Asked(m) == Sent(m, FlagsOf(m), PeerName, MaxName)

\* A description is asked for by the number of its page, and a rename leaves the
\* child with names it may have.
ASSUME RequestsAssumption ==
  \A a \in Agendas : \A m \in a :
    LET q == Asked(m).read.m IN
    /\ q.type = "DescribeRequest" => q.page \in Nat
    /\ q.type = "SetNameRequest" => \A n \in AllNames : Rename(n, q) \in AllNames

\* A request goes to the child whatever else is going on.  This build's own root
\* has no call that clears or lists links or starts an update: those, and a code
\* nobody knows, come from another.
Ask(m) ==
  /\ down = <<>>
  /\ m.type = "SetNameRequest" => renames < MaxRenames  \* bound
  /\ renames' = IF m.type = "SetNameRequest" THEN renames + 1 ELSE renames
  /\ down' = <<Asked(m)>>
  /\ UNCHANGED <<node, root, up, agenda>>

Answers(types) == First(up, types)

Took == up' = Tail(up) /\ UNCHANGED <<node, down, renames, agenda>>

HearValues == \E a \in Answers({"Report", "ReadResponse"}) :
  /\ copy' = IF a.ok THEN NoteReport(a.m) ELSE copy
  /\ Took /\ UNCHANGED heard

HearPage == \E a \in Answers({"DescribeResponse"}) :
  /\ copy' = IF a.ok THEN NoteDescribe(a.m) ELSE copy
  /\ heard' = IF a.ok THEN Heard(a.m) ELSE heard
  /\ Took

HearPong == \E a \in Answers({"Pong"}) :
  /\ copy' = NotePong(a.m)
  /\ Took /\ UNCHANGED heard

\* Of every other answer this part of the model keeps that there was one.
Others == DOMAIN MessageCode \ {"Report", "ReadResponse", "DescribeResponse", "Pong"}
HearOther ==
  /\ Answers(Others) # {}
  /\ Took /\ UNCHANGED root

LoseRequest == down # <<>> /\ down' = <<>> /\ UNCHANGED <<node, root, up, renames, agenda>>
LoseAnswer  == up # <<>> /\ Took /\ UNCHANGED root

-----------------------------------------------------------------------------
Init ==
  /\ names = FactoryNames /\ saved = <<>>
  /\ input = Unwritten /\ policy = Default /\ links = <<>>
  /\ copy = Blank /\ heard = Unheard
  /\ down = <<>> /\ up = <<>>
  /\ renames = 0
  /\ agenda \in Agendas

Hear == HearValues \/ HearPage \/ HearPong \/ HearOther

Next ==
  \/ \E m \in agenda : Ask(m)
  \/ Tell \/ TakeWrite \/ TakeName \/ TakePolicy \/ TakeLink \/ TakeClear \/ TakeOta
  \/ SendReport \/ Restart
  \/ Hear \/ LoseRequest \/ LoseAnswer

Spec == Init /\ [][Next]_vars

\* The child reports again and again, and not all of its reports are lost.
Fairness == WF_vars(Hear) /\ SF_vars(SendReport) /\ SF_vars(HearValues)

FairSpec == Spec /\ Fairness

-----------------------------------------------------------------------------
(* Properties *)

TypeOK ==
  /\ names \in AllNames
  /\ Len(saved) =< 1 /\ Range(saved) \subseteq AllNames
  /\ \A i \in Ins : Fits(input[i], ValueType(i.class, "In", i.port))
  /\ Len(links) =< MaxLinks
  /\ copy.rev \in 0 .. 65535 /\ copy.cachedRev \in 0 .. 65535
  /\ Len(copy.instances) =< MaxInstances /\ Len(copy.values) =< MaxEntries
  /\ Len(down) =< 1 /\ Len(up) =< MaxUp

\* Whatever the node sends its root - an answer, a page, a report - the root reads
\* whole and as it was meant: none outgrows its frame, whatever its names have
\* become.
MeaningSurvives ==
  \A frame \in Range(up) : frame.read = [ok |-> TRUE, m |-> frame.meant]

\* The pages of a description and of an announcement are the descriptors, all of
\* them, in order and once, and say how many of them there are.
PagesOf(n) ==
  {[k \in 1 .. FillDescribe(n, 0)[1].pages + 1 |-> FillDescribe(n, k - 1)],
   [k \in 1 .. FillAnnounce(n, 0)[1].pages + 1 |-> FillAnnounce(n, k - 1)]}

Tiles(n, pages) ==
  LET page == FlattenSeq(pages) IN
  /\ Last(pages) = <<>> /\ Len(page) = page[1].pages
  /\ FlattenSeq([k \in DOMAIN page |-> page[k].items]) = Descriptors(n)
  /\ \A k \in DOMAIN page : Encode(page[k], MaxName).ok /\ page[k].page = k - 1

PagesTile == \A pages \in PagesOf(names) : Tiles(names, pages)

\* A copy put together from every page, in order and of one revision, is the
\* child as it was at that revision, whatever it became between two pages.
Whole == heard.next = heard.pages
CopyOf(n) == copy.name = n.name /\ copy.instances = Descriptors(n)

CopyWasTrue ==
  Whole => /\ copy.described /\ copy.cachedRev = heard.rev
           /\ \E n \in AllNames : DescriptorRev(n) = heard.rev /\ CopyOf(n)

\* A name is cut to what a build has room for, and never inside a character.
Width(byte) == CASE byte < 128           -> 1
                 [] IsContinuation(byte) -> 0
                 [] byte \in 192 .. 223  -> 2
                 [] byte \in 224 .. 239  -> 3
                 [] OTHER                -> 4
WholeText(text) ==
  LET Begins(k) == k \in DOMAIN text => ~IsContinuation(text[k]) IN
  /\ Begins(1)
  /\ \A k \in DOMAIN text :
       Begins(k) => /\ \A j \in k + 1 .. k + Width(text[k]) - 1 : ~Begins(j)
                    /\ Begins(k + Width(text[k]))

IsName(text) == WholeText(text) /\ Len(text) =< MaxName

NamesAreText == \A text \in {names.name} \cup Range(names.instances) : IsName(text)

\* The child is what its last answer to a rename says it is, for as long as that
\* answer is on its way: power that goes meanwhile takes nothing back.
RenameAnswersOnTheirWay ==
  {k \in DOMAIN up : up[k].meant.type = "SetNameResponse"}

AnsweredRenameIsKept ==
  RenameAnswersOnTheirWay # {} =>
    up[Max(RenameAnswersOnTheirWay)].meant.rev = DescriptorRev(names)

\* In the end a root with a whole copy that is no longer true knows that it has
\* to ask, whatever was lost: every report says what it is a report of.
ChangeIsNoticed == <>[](Whole /\ ~CopyOf(names) => NeedsDescribe)

-----------------------------------------------------------------------------
(* What the comments say, and the code does otherwise *)

\* Only a complete descriptor counts as described.
DescribedIsWhole == copy.described => Len(copy.instances) >= Len(Instances)

-----------------------------------------------------------------------------
(* What the theorems ask of the constants, and of no state: each theorem says *)
(* which of it.  MCHAPConversation's constants are such.                      *)

\* A node whose identity fits the fields it travels in, and whose names and values
\* leave an answer its room: what a shipped build has.
NodeFits ==
  /\ DeviceType \in Byte /\ Capabilities \in Byte /\ Interval \in Half
  /\ IsText(Firmware, MaxName)
  /\ \A name \in NodeNames : IsText(name, MaxName)
  /\ \A k \in DOMAIN Instances : \A name \in InstanceNames[k] : IsText(name, MaxName)
  /\ MaxLinks =< 255 /\ LinksPerPage =< MaxPage
  /\ 11 =< MaxPayload /\ 8 + MaxText =< MaxPayload /\ 10 + MaxName =< MaxPayload

\* A root asks what its own build can spell in a frame, or something of a later
\* version.
RequestsAreMessages ==
  \A a \in Agendas : \A m \in a :
    \/ m = [type |-> "Unknown"]
    \/ IsMessage(m, PeerName) /\ Encode(m, PeerName).ok

\* What is written whole and read as it was.
IsKept(m) == IsMessage(m, MaxName) /\ Encode(m, MaxName).ok

\* What the child measures fits the frames that report it.
MeasuresFit ==
  \A n \in AllNames :
    /\ IsKept(ReportOf(n))
    /\ \A a \in Agendas : \A m \in a :
         Asked(m).read.m.type = "ReadRequest" => IsKept(Read(Asked(m).read.m, n, Shown))

\* Every descriptor has room on a page of its own, whatever the names.
DescriptorsFit ==
  \A n \in AllNames : \A k \in DOMAIN Instances :
    SizeOf(n, k) =< Budget(n, DescribeFixed + TrailerSize)

\* An announcement has room for every descriptor on a page of its own too.
AnnouncementsFit ==
  \A n \in AllNames : \A k \in DOMAIN Instances : SizeOf(n, k) =< Budget(n, AnnounceFixed)

\* The checksum tells the node's names apart.
RevisionsDiffer ==
  \A m, n \in AllNames : DescriptorRev(m) = DescriptorRev(n) => m = n

\* The file takes an empty name for none at all, so that a name which a root
\* empties is the factory's again once power has gone: none is emptied that the
\* firmware had not left empty.
NoneEmptied ==
  \A n \in AllNames :
    /\ n.name = <<>> => FactoryNames.name = <<>>
    /\ \A k \in DOMAIN Instances :
         n.instances[k] = <<>> => FactoryNames.instances[k] = <<>>

AllNamed(n) == IsName(n.name) /\ \A k \in DOMAIN Instances : IsName(n.instances[k])

\* The firmware's names are whole characters the build has room for, and a root
\* asks for whole characters, whatever room its own build has.
NamesGivenAreText ==
  /\ AllNamed(FactoryNames)
  /\ \A a \in Agendas : \A m \in a : m.type = "SetNameRequest" => WholeText(m.name)
=============================================================================
