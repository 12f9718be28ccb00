# HAPLib in TLA+

HAPLib is a small home-automation protocol over ESP-NOW: devices form a tree, a
report climbs from a sensor to the root, a command descends along a path of child
indices, and a parent holds a frame for a child that is asleep. This directory
specifies the parts of the library in which several devices, or a device and its
radio, a power cut or a user, can meet in an order nobody wrote a test for.

## The system

| Part | State it keeps | Operations | Hard because | Correct when |
| --- | --- | --- | --- | --- |
| `HAPPath` | up to 5 hops | `shift`, `prepend`, `append` | the limit on depth is the only loop guard | a climbing path is the way back |
| `HAPRouter` | parent, child table | `route`, `resolveDownstream`, `addChild`, `removeChild`, `freeChildIndex` | decides on the sender's address alone, over tables that may be half made | nothing is delivered to the wrong node; a refusal names the right hop |
| `HAPStack` | router, binder, queue, window, links, model, `seq_` | `onFrame`, `send*`, `request*`, `flushQueue`, `bound`, `childBound`, `factoryReset`, `begin` | every handler ends by flushing a queue; restarts forget the queue and the counter | commands run at most once, in order, and are answered truthfully |
| `HAPQueue` | one frame per child | `push`, `peek`, `pop`, `clear`, `expire` | one slot, refused sends | nothing is reordered, doubled or replaced |
| `HAPListenWindow` | open or not | `open`, `extend`, `maySleep` | races the answer | a prompt answer finds the node awake |
| `HAPBinder` | state, pending child, key | `listen`, `announce`, three handlers, `notifySent`, `update` | loss, timeouts, keys switching between two packets, a report from another task, power cuts | both ends agree on index and key; a child keeps its index |
| `HAPITransport` (`HAPLoopback`, `HAPEspNow`) | peers with keys, receive queue | `send`, `broadcast`, `addPeer`, `removePeer` | six encrypted peers, silent discards | - |
| `HAPStore` | `bind.json`, `children.json`, names, model, retained mirror | `save*`, `load*`, `clearAll` | power lost between a packet and its record | a restart brings back what was agreed |
| `HAPLinks`, `HAPClasses` | 16 wires; the catalogue of classes | `set`, `clear`, `deliver`, `fillList`; `validateLink` | slots are overwritten, an end below the node is taken on trust, a source is a path relative to the node | one driver to an input, one link to a slot, one kind at both ends; a wire carries its source's values only |
| `HAPModel` | remote nodes, presence, descriptors | `note*`, `sweepOffline`, `nextDescribeNeeded` | three messages move one interval, pages arrive one by one | a node that obeys is not called offline |
| `HAPReporter` | a policy for each port, with what it last said and when | `begin`, `setPolicy`, `isDue`, `nextDueInMs`, `fillReport`, `markReported` | thresholds, minimum intervals, refused reports, wrap-around of milliseconds | no news is swallowed, no interval passes in silence, a sleeper misses nothing |
| `HAPNode`, `HAPInstance` | names, ports, values, the age of inputs | `publish`, `read`, `write`, `rename`, `fillDescribe`, `fillAnnounce`, `descriptorRev` | pages depend on a name that changes between two of them; ages wrap | pages cover every instance once; every change changes the revision; an input goes stale on time |
| `HAPFrame`, `HAPCodec`, `HAPMessages`, `HAPCrc16` | none | encode, decode | names are cut in bytes, between builds of different sizes; a writer that overflows says so to nobody | what is meant is what is read |

The parts interact by direct calls on the main loop: the transport's receive
callback is `HAPStack::onFrame`, which asks the binder first, then the router, then
forwards, delivers or refuses, and always ends by flushing what it holds for the
sender. `HAPStack::update` drives the binder's timeouts and the node's reports. One
call comes from elsewhere: the radio's send report reaches `HAPBinder::notifySent`
on the Wi-Fi task.

## The modules

| Module | Models | State |
| --- | --- | --- |
| `HAPRouter` | `HAPPath`, `HAPRouter` | none: operators over a path, a child table and a router |
| `HAPStack` | a network of `HAPStack`, with `HAPQueue`, `HAPListenWindow` and the delivering half of `HAPLinks` | bindings (fixed), frames in the air, queues, windows, counters |
| `HAPCommands` | nothing in the code: what the library promises about a command | each command's fate, and the slot that holds it |
| `HAPBinder` | a network of `HAPBinder`, the radio's peer tables, what `HAPStack` and `HAPStore` do around a bind | one record per device, packets in the air |
| `HAPModel` | `HAPModel`, and the file `HAPStore` keeps it in | none: operators over a table of entries |
| `HAPMaster` | a root's `HAPStack` with its model, child table and files, against devices with a `HAPReporter` | the two tables, the model file, each device's place, policy and clock, frames in flight |
| `HAPClasses` | `HAPClasses`, the kinds and values of `HAP.h` | none: the catalogue and its rules |
| `HAPLinks` | `HAPLinks` | none: operators over a sequence of links |
| `HAPDevice` | one node's `HAPInstance`s, `HAPReporter` and wires, and the part of `HAPStack` that drives them | ports, inputs, policies, links, a clock that wraps |
| `HAPCodec`, `HAPCrc16` | `HAPCodec`, `HAPCrc16` | none: a writer and a reader of bytes; a checksum |
| `HAPMessages`, `HAPFrame` | `HAPMessages`, `HAPFrame` | none: each message's layout, the frame around it |
| `HAPMessageTypes` | what the fields of a message may hold | none: the predicate `IsMessage`, which the theorems and the instance share |
| `HAPNode` | `HAPNode`, what `HAPInstance` says of itself | none: operators over a node's names |
| `HAPConversation` | `handleRequest` of a child and `handleUpstreamNews` of its root, with the names file | the child's names, inputs, policies, links, the root's copy, the frames between them |
| `MCHAPStack`, `MCHAPBinder`, `MCHAPMaster`, `MCHAPDevice`, `MCHAPConversation` | small instances | - |
| `HAPStackProofs`, `HAPStackCommandsProofs` | the theorems about `HAPStack`: paths; the fate of a command, and the refinement, on top of them | - |
| `HAPBinderProofs`, `HAPMasterProofs`, `HAPDeviceProofs`, `HAPConversationProofs` | the theorems about `HAPBinder`, `HAPMaster`, `HAPDevice` and `HAPConversation` | - |
| `HAPCodecProofs` | the theorems about `HAPCodec`, `HAPMessages` and `HAPFrame`; `HAPConversationProofs` extends it | - |
| `LeastNatural` | one theorem the others use: a set of natural numbers has a least element | - |

`HAPStack` and `HAPBinder` extend `HAPRouter`; `HAPMaster` extends `HAPModel`;
`HAPDevice` extends `HAPLinks` over `HAPClasses`; `HAPConversation` extends
`HAPMessageTypes` and `HAPNode`, which puts `HAPFrame` over `HAPMessages` over `HAPCodec`,
`HAPLinks` and `HAPCrc16` together. `HAPStack` instantiates `HAPCommands`.

### HAPStack

`air[a][b]` is the sequence of frames on their way from `a` to `b`; the radio neither
reorders nor duplicates between two devices. `onFrame` is one action for each of the
router's decisions (`PassToParent`, `PassToChild`, `DeliverRequest`, `DeliverNews`,
`DropFrame`), each with all the calls of its branch: `PassToParent` feeds the wires,
whose writes are routed and queued in the same step, forwards the frame and flushes
what waits for the sender. The flush may be refused by the radio, and then the frame
stays. The handlers are operators from a state record to the next one, so that an
action composes them in the order the code calls them.

All requests are a `WriteRequest`, all unasked notices a `Report`, since the stack
routes, queues and answers them alike; a payload is abstracted to the number of the
command it carries. A battery node hears only while its window is open; it opens on
a report, and closes at any time (`Doze`), or, with `Prompt`, not while a frame is
on the hop to its parent. `NotHeard` loses a frame, `Reboot` restarts a node: the
bindings come back, the queue, the window and the counter do not. Wires are those
that cross the radio, at most one for each source path.

`cmds`, `ran`, `refused` and `answers` only record what happened; nothing but the
bound `MaxCmds` reads them.

`ImplementsCommands` is the refinement of `HAPCommands`: a command's fate is read
off the place its frame is in. A step of the abstract specification handles one
command (`Handle`: passes it on, runs it, refuses it, holds it in a free slot, or
drops one that was travelling), releases one from its slot (`Release`), does both to two
different commands, since the frame handled wakes what is held for its sender
(`HandleAndRelease`), or forgets all that one node holds when it restarts (`Forget`). A
command that ran, was refused or was lost has no step left.

### HAPBinder

A device is one record: the binder's state machine and its pending child, the two
tables, the radio's peers and their keys, the acceptances whose send report is still
to come, and what is saved. A random link key is the next number. A sealed packet is
heard only by a device that holds the sender under the same key, a plain one by any
device that holds the sender without a key, a broadcast by all: the rules
`HAPLoopback` states as those of the radio. Time is not measured: a window, a dwell,
the key-switch timeout and the confirmation timeout may each expire whenever it
runs, and the user may open or close a window, announce again or reset a node at any
point. A channel the two ends do not share is one more loss. Power may be lost
between any two steps (`Restart`), and inside the two handlers that tell the other
end before they save (`HandleAccept`, `HandleConfirm`). A restart loads as many of
the saved children as fit beside the parent; which ones depends on the order of the
file, which is left open.

The send report is a step of its own, so it may come late, after the acceptance was
abandoned and another one made. It is atomic with respect to the handlers: the
unsynchronised access of `HAPEspNow::handleSend` inside a handler is below this model.

### HAPModel and HAPMaster

A model is a function from paths to entries, and an entry what tells a device and its
life: MAC, interval, silence, verdict. `HAPMaster` puts it in a root's hands. `Bind`
is a device's handshake seen from above (`childBound`, `announceChild`, and `bound`
with its notices of the children a controller already had); each device has an
itinerary, so that it may be reset and bound elsewhere. Nobody tells the parent it leaves:
a controller's child table is whoever ever bound below it (`Adopted`, read off the
itineraries), and what the controller announces once it has a parent (`News`) is that table,
children that left included. So an index is never given to a second device, and is
given back to its own (`ItineraryAssumption`). `Hasty` names the devices that may leave a
controller before that one has a parent, which is when its announcement is late enough to
be wrong; the runs that check the picture have none, and `MasterStale` has the leaf.
`Receive` is `handleUpstreamNews` with `adoptPolicy` and `adoptDescribe`. Each handler saves the
child table, then changes the model, then saves that; `Adopt` does all of it, or loses
power after the first save and comes back through `Boot`, which is `begin()`: the
model file, the child table over it, orphans dropped.

The clock is in units of the shortest interval. It moves (`Tick`) when nothing is in
flight and no device owes a report, since frames take milliseconds and intervals
seconds; `Sweep` comes at any time, so it races the third report. A report may also go
out before it is due, because a value moved. `Ask` is the application's: a policy for
a port that exists or does not, or a description.

Left out: descriptors and values, which are `HAPConversation`'s; pings (to the model, a
report without values); several ports with different intervals and the battery node's
minimum, which are `HAPDevice`'s; `announceReportInterval()`, devices that restart, a
controller that dies.

### HAPLinks and HAPDevice

`HAPDevice` is one node and its main loop. `Loop` is a pass: `update()`, and
`sendReport()` when a report is due and there is a parent, in the code's order - feed
the node's own wires from what the report carries (`deliverLink`), give the frame to
the radio, and mark the ports as reported only if the radio took it (`taken`). Between
two passes a driver publishes (`Publish`, a missing reading included), a master writes
an input (`Write`), a child's report climbs through and feeds the wires it is the
source of (`HearChild`), and requests set a policy or install and clear links. `Bind`
and `FactoryReset` give and take the parent; `Restart` forgets everything but the
parent, because links and policies live in memory alone.

Time is `now`, one tick a pass, modulo `Wrap`; all ages are `Elapsed`, the unsigned
difference. The history variables record what the parent was told, how long ago, who
fed each input and whether the radio refused; no guard reads them but the one bound,
`quiet + 1 < Wrap`, which keeps a node from being silent for a whole turn of the clock
(49.7 days), where the code's differences say nothing.

`HAPLinks!SetResult` has every refusal of `HAPLinks::set` in its order. Every id below
`MaxLinks` has room, so that `NoLinkSlot` cannot come from `set`.

### HAPCodec, HAPCrc16, HAPMessages, HAPFrame, HAPNode, HAPConversation

Here a frame is bytes. `HAPMessages` gives each message as the sequence of its fields
(`Layout`); `Encode` and `Decode` walk it with `HAPCodec`'s writer and reader, which
fail the way the code's do: a writer that runs out of room drops the field and
remembers it, a reader that runs out reads zeros. Names are cut to `maxName` bytes at a
character's edge by both, and the two builds may have different limits. A float is the
number its bits spell; nothing calculates with one. `HAPFrame` adds the header and
pads short payloads.

`HAPNode` is what a node says of itself: the revision (a CRC-16 over everything a
master would keep), the pages of a description and of an announcement, and the answers
to a read, a write and a rename. `HAPConversation` has one action for each request
that `handleRequest()` serves - `Tell` for the four that only ask and for a code nobody
knows - and one for each answer that `handleUpstreamNews()` keeps something of. What the
root asks, and when, is its application's choice: an agenda, from which any request
may go at any time. The root of this build has no call that lists or clears links or
starts an update; they are asked as another build would. Requests and answers may be
lost (`LoseRequest`, `LoseAnswer`), and the child may lose power at any step
(`Restart`), when its names come back from the file and the rest from nowhere. Reports
come at any time, the decision being `HAPDevice`'s. The history variable `heard` says
which pages the root's copy was put together from.

## What the runs check

| Run | Instance | Question |
| --- | --- | --- |
| `StackCommands` | gateway, controller, sleeping thermometer, lamp; a tree, a half-made binding, a ring, and two nodes that are each other's parent; 2 commands to a sleeper, its parent and a missing child; 1 fault (loss, refused flush or restart) | do commands go where they are addressed, once and in order, and do the answers tell their fate? |
| `StackLinks` | the tree and the half-made binding; two wires in the middle node beside the root's commands; no faults, hops within the window | do wires carry only their source, do the commands they cause keep the promise, and does every command end? |
| `BinderTree` | one master, two slaves, one of them reset, the master loses power; and a middle node that adopts and is adopted, and loses power | do the tables agree with what the slaves agreed to, whatever is abandoned or repeated, in both orders of building a tree? |
| `BinderPeers` | one master, one slave, 1 acceptance | *violated*: an idle master can reach every child in its table |
| `BinderRing` | two nodes that adopt and announce | *violated*: the bindings form a tree |
| `MasterPresence` | a controller without an interval, a leaf with interval 2 that may be asked for 1 and moves from 1.1 to 2 once the controller has a parent; 2 losses, 1 restart or cut handler | is the master's picture of the tree true, does it survive, and does it tell the living from the dead? |
| `MasterMoved` | the leaf moves from 2 to 1.1, nothing lost | *violated*: a restart brings back what the master knew |
| `MasterRelaxed` | a leaf with interval 1 that may be asked for 4, nothing lost | *violated*: a node that obeys is not called offline |
| `MasterStale` | the leaf moves from 1.1 to 2 before the controller has a parent, nothing lost | *violated*: the master knows every device at its own place |
| `NodeData` | a thermometer and a regulator in one node, another thermometer below; readings 0, 1, 2 or none, deadband 1, interval 2, timeout 2, a clock that wraps at 4; 4 links that may be asked for, two of which are refused | is the parent told of all that happens, in time, and does a wire work without the parent's radio? |
| `Conversation` | a child with a thermometer, a lamp and a hygrometer, on two pages or three; names of 1 to 3 bytes, one of two characters cut from three; agendas of description and renames, of values and policies, of wires and service | does the root read what the child means, is its copy true, and is a change noticed? |
| `HalfDescribed` | the same child, described only | *violated*: only a complete descriptor counts as described |

The safety properties, by what they guard against:

- `SourceIsTheWayBack`, `RunsWhereAddressed`, `WiresFollowTheirSource`,
  `RouteErrorNamesTheHop` relate a path to the tables along it, in every topology,
  a ring or a binding that only one end believes in included.
- `RunsAtMostOnce`, `RunsInOrder`, `AnswersTellTheFate` and the refinement
  `ImplementsCommands` relate the queue, the frames in the air and the answers. An
  answer is known by its command, not by its number: what a root that matches numbers
  alone makes of a number that was used before, or of a wire's answer, is not covered.
- `ConfirmationFits`, `RecordedAsAgreed` relate a master's tables to what slaves
  confirmed, across abandoned and repeated handshakes; `NothingUnsaved` relates
  both to what a restart would bring back; `IndexIsKept` is the promise of
  `handleAnnounce`'s comment that a device which comes back keeps its address.
- `ShownOnce`, `TreeIsKnown`, `PicturePersists` relate the model to the tree as it is,
  and to what a power cut at this moment would leave of it. The first holds whatever a
  controller announces; the other two, and `DeathIsNoticed`, as long as nobody leaves a
  controller that has no parent.
- `NotOfflineForObeying` relates the verdict to the reports that were lost since the
  device was last heard, and `DeathIsNoticed` is the other half: no interval is lost
  on the way, so a dead device does not stay online.
- `NewsIsTold` and `SilenceIsKept` are what a parent relies on: after any pass that the
  radio let through it knows every port to within its deadband, and no interval of a
  measured port has gone by in silence - across drifts below the deadband, failed
  sensors, refused reports, new parents and the wrap of the clock. `SleepEndsOnTime`
  relates `nextDueInMs()` to `isDue()` at every instant of the sleep.
- `WiredInputFollows` and `WiredInputIsFed` are the promise of a control loop inside one
  node: an input follows the reading it is wired to, and is fed within the interval of
  its source even while the radio refuses everything. `StaleAfterTimeout` is the other
  side, `OneDriver` what `HAPLinks` keeps through any sequence of requests.
- `MeaningSurvives` relates what a node sends its root to what the root reads, and
  `NamesAreText` the names one build writes to what another keeps of them;
  `PagesTile` relates the paging of every name to the descriptor; `CopyWasTrue` and
  `ChangeIsNoticed` relate a copy put together over several pages to the child, which
  may be renamed between any two; `AnsweredRenameIsKept` relates an answer on its way
  to what a restart brings back.

### Bounds

Two commands are enough to meet at one slot, to be reordered and to be told apart
by their answers; the counter wraps at 3, so that within two commands and their
refusals numbers are reused. Depth 3 and four nodes give a middle node with a
sleeping and an awake child, and a ring in which a frame circulates until its path
is full. One fault is a loss, a refusal or a restart at any point. Two children of
capacity (one, for a bound node) make a table full with the smallest number of
devices, and two link keys are the shortest behaviour with a stale key, a repeated
or a rival handshake; a third key with one master and two slaves (2.9 million states)
was checked as well and holds. In `HAPMaster` an interval of 2 allows 6 units of
silence, enough to lose two reports and race the third; two frames in flight let a
report and an answer, or a controller's news of itself and of its leaf, be on their way at
once; and one restart is enough, since it forgets
everything but the two files. With a hasty leaf, `ShownOnce` and `NotOfflineForObeying`
were checked in the same instance (672,000 states) and hold. `CHECK_DEADLOCK FALSE` is given because
the first two networks stop once the bounded commands or keys are used up.

In `NodeData` the wrap at 4 is the shortest clock in which an interval and a timeout of
2 can straddle the wrap and still differ from a full turn; the theorems hold for any
width. Readings 0, 1 and 2 with a deadband of 1 make a drift that no single step shows
and a step that does, and the missing reading takes the place of a number. In
`Conversation` a payload of 23 bytes makes the longer of the node's two names push an
instance to another page, so that the number of pages changes with a rename; two
answers in flight let a page of the old descriptor meet a report of the new one; two
renames change a name there and another one back or between pages. A name limit of 3
bytes against the root's 4 cuts inside a two-byte character. The alphabet of names is
small enough that no two descriptors share a checksum: collisions of CRC-16, for which
`ChangeIsNoticed` is false, are assumed away.

### Fairness

`StackLinks` (`EveryCommandEnds`): each node's main loop drains its radio
(`WF(Receive)`, `HAPEspNow::update`, called in every loop), and a reporting node's
report falls due again and again (`WF(SendReport)`, `HAPStack::update`). `Prompt`
states that a hop is shorter than the 120 ms window, the assumption on which the
window's length was chosen. With faults the property is false, since nothing sends
a lost frame again.

`MasterPresence` (`DeathIsNoticed`): frames are handled, requests served and the
master sweeps, each in a loop that never stops (`WF`). A due report is sent and time
passes (`SF`): the room a report waits for, and the silence the clock waits for, come
and go while an application keeps asking, but neither waits for ever.

`Conversation` (`ChangeIsNoticed`): the root's loop drains its radio (`WF(Hear)`), the
child's reporter keeps sending (`SF(SendReport)`, since the room for a report comes and
goes), and of infinitely many reports not every one is lost (`SF(HearValues)`); nothing
is assumed of requests, which may all be lost. Nothing is lost for ever by a radio that
works at all, and a single loss costs one interval.

`NodeData` states no fairness: its properties are about passes of the loop that happen.

## Where the code and its documents differ

- `BinderPeers`: `handleConfirm` leaves `pending_` set after a successful bind, so
  the next window that closes without an acceptance takes the peer of the child just
  bound, which is then deaf to its master until the master restarts.
- `BinderRing`: one parent per slave does not make a tree, since a node may announce
  to its own descendant.
- `MasterMoved`: a device that moved below another child is taken back to its old
  place when the master restarts, because the child table still lists it and is read
  last.
- `MasterStale`: a controller announces, once it has a parent, every child in its table,
  also one that was reset and bound elsewhere since, and the root takes the latest
  announcement for the truth: the device moves, in the picture, to a place it left, with
  nothing lost. Its own reports then build an entry without a MAC; a restart brings back
  its true place from the child table, and if it dies before the announcement comes, its
  death is looked for at the wrong place. In `MasterPresence`'s instance with such a
  leaf `PicturePersists` and `DeathIsNoticed` fail as well.
- `MasterRelaxed`: a description carries the node's own default interval and
  overwrites the policy the node agreed to, so a node asked to report more rarely is
  called offline for doing so. It needs a policy more than three times the default.
- `HalfDescribed`: the page with the highest number marks the descriptor as complete,
  whether or not the pages before it arrived; a child that lost one is never asked again.

Met while modelling, and not given a run of their own:

- `Docs/HowItWorks.md:267` says that a command to a sleeping node "is not lost, it is
  **late**", and `:273` that each hop retries on the send report. `flushQueue()` pops the
  frame as soon as the radio takes it (`HAPStack.cpp:738-740`), the report goes to the binder
  only, and `HAP_HOP_RETRIES` is used nowhere: one lost frame loses the command.
- `bound()` announces a controller's own children only (`HAPStack.cpp:1073-1079`). In a chain
  set up from the bottom - a leaf below a controller, below another, below the root - the
  news of the leaf went nowhere and is not repeated: the root never learns of it, which is
  what `bound()`'s comment (`:1060-1067`) says it is there to prevent. TLC finds it with the
  itineraries `1.1.1`, `1.1` and `1`, nothing lost.
- The answer to a wire's write, for which none was asked, climbs past the node that made
  it to the root, under another node's sequence number (`HAPStack.cpp:794`, `:1154`).
- `Docs/Links.md:105-107` says a node's own wires depend on nothing, and
  `HAPStack.cpp:1134` that they work with everything above unplugged. Wires are fed by
  reporting, and `update()` asks for a parent before it reports (`HAPStack.cpp:176`): a bound
  node's work whatever the radio does, an unbound node's are not fed at all.
  `WiredInputFollows` and `WiredInputIsFed` therefore speak of a bound node. A link just
  installed is fed at its source's next report, not at once.
- A node rebound to a new parent without a restart has `sent` set for all its ports: the
  new parent hears nothing until something moves or falls due (`unheard`).
- A node all of whose sensors have always failed never reports by interval and is called
  offline. `nextDueInMs()` is 0 for a port that never measured once its interval is over
  while `isDue()` is false, so that such a device does not sleep; `SleepEndsOnTime`
  exempts it.
- A report whose text does not fit a frame makes `sendReport()` fail for ever, and a
  `ReadResponse` is sent without its last entry; the instances here have values that fit
  (`ReportsFit`).
- A rename to the empty name is taken, saved and answered `Ok`, but `loadNames()` skips
  empty names (`HAPStore.cpp:355-381`): a restart brings the firmware's name back.
  The result of `saveNames()` is not looked at (`HAPStack.cpp:570`).
- The root takes no notice of the revision in a `SetNameResponse` although
  `Docs/Protocol.md` (about line 756) says a gateway schedules a description when it sees a
  new one; the next report brings it, which is what `ChangeIsNoticed` rests on.
- A `ReadResponse` for one port replaces the values of all (`HAPModel.cpp:126-137`); a
  `DescribeRequest` that cannot be read is answered as one for page 0, and one for a page that is
  not there is not answered at all.

## What is proved

No theorem rests on anything but the definitions of the model, the assumptions on
constants that the modules state and the runs evaluate, and, where one is named below,
a hypothesis of its own. Nothing is bounded by the instances of the runs: the
sets of nodes, the bindings, the depths, the tables, the keys, the widths of the clock
and the number of faults are arbitrary. The invariants were checked by TLC, on the
instances of the runs, before they were proved.

### HAPStack

For every set of nodes and every binding of them, rings and half-made ones included,
from `RouterAssumption` and `StackAssumption`. The invariants are stated of a state
record, so that each handler's operator has a lemma of its own and an action is a
composition of them.

`HAPStackProofs`:

- `TypeCorrect`: `TypeOK`, by `TransmitType` ... `BecomeFlushedType`.
- `TheWayBack`, `NoStrayCommand`, `NoCrossedWire`: `SourceIsTheWayBack`,
  `RunsWhereAddressed`, `WiresFollowTheirSource`. None is inductive alone: that a
  command runs where it was addressed depends on what remains of the path in a frame two
  hops away. The three need one inductive invariant, `Addressing`, which says of every
  frame, in the air or in a slot, where it is with respect to its maker: for a climbing
  frame, its source path leads from the node it left back to its maker; for a descending
  one, wherever what remains of its path leads from the child it goes to or waits for,
  the whole path of its command leads from the node that issued it; and that a wire's
  command names a device at the wire's source. The two facts about paths are
  `LeadsNowhere` and `LeadsFromParent`.
- `RefusalNamesTheHop`: `RouteErrorNamesTheHop`, where no child table lists a device
  twice (`NoTwins`), which `HAPRouter::addChild` refuses. `Addressing` is not enough, since a
  refusal climbs along parents while the command came down along children. The
  invariant is `Tracking`: of a command on its way, the part of its path behind it runs
  along bindings in which both ends believe (`Down`), because a node only takes a command
  from its own parent; of a route error, what is before it, what it gathered, the hop it
  names and what was never reached make up the path of its command (`Back`).

`HAPStackCommandsProofs`:

- `OnceOrRefused`, `OneTrueAnswer`: `RunsAtMostOnce`, `AnswersTellTheFate`. The invariant is
  `Fates`: a command has one frame, in one place - one slot or one position of one channel,
  as a request or as the answer to one - and none once it was executed and answered, and
  every answer at a root is the last frame about its command.
- `CommandsRunInOrder`: `RunsInOrder`, where no child table lists a device twice (`NoTwins`).
  Two commands of one node for one place take one way (`OneWay`, from `Tracking`: both came
  along bindings in which both ends believe). The invariant `Ordered` says of an earlier and
  a later one that the later has no fewer hops to go (`ToGo`; waiting in a slot counts as
  being half a hop further from the end), that within one channel they fly in order, that what
  waits in a slot waits for a child that may sleep, and that none ran before an earlier one
  that is still on its way. The step that could break it is the release of a slot, which
  takes a frame half a hop nearer its end: no earlier command may still wait half a hop
  behind, and none does (`ReleasedFits`), since it would wait at the same node for the same
  child, in the same slot, and a slot holds one frame.
- `CommandsAreKept`: the refinement, `Spec => ImplementsCommands`. Initial states map to
  initial states; each action is followed operator by operator, with a lemma on what it
  does to the mapped fate and slots of the command in hand and that it leaves the others
  alone; the release at the end of a handler is a second command's step. From `Fates` and
  `NoFrameAssumption` (an empty slot is told from a frame).

### HAPDevice

`HAPDeviceProofs`, for every composition of a node from the catalogue, every set of links,
policies, readings and timeouts and every width of the clock, from `LinksAssumption` and
`DeviceAssumption`:

- `TypeCorrect`: every port holds a value of its own type or none. It needs `Typed`, which
  knows of a policy what its deadband and last value are, and, for the number of links,
  the injection of links into slots (`LinksFit`).
- `OneLinkAnInput`: `OneDriver`. The inductive invariant is `Good(links)`, preserved by
  `SetLink` (overwriting and appending are two cases) and, because any part of a good set of
  links is one (`FewerGood`), by `ClearLink`.
- `StaleOnTime`: `StaleAfterTimeout`, by `Clocked`: the ticks since an input was written
  are `Elapsed` of its time stamp. `ElapsedTick` is the one fact about the wrap.
- `NoLongSilence`, `NewsArrives`: the action properties `SilenceIsKept` and `NewsIsTold`,
  by `Reporting`: a policy remembers what the last report said of its port and when.
  `PassReports` splits a pass into one that reports everything and one that reports
  nothing, and `NotMoved` says that what is not news is near what was told.
- `InputsFollow`: `WiredInputFollows`, by `Following`: an input that a wire of the node drove
  last holds what the last pass reported of the wire's source, whether or not the
  radio took the report.
- `InputsAreFed`: `WiredInputIsFed`, by `Supply`: while nothing but values changes, the wire
  is the input's driver and the input is no older than the last report.
- `SleepIsSafe`: `SleepEndsOnTime`: `nextDueInMs()` is the least of the ports' due times,
  and before the least of them no port is due.

### HAPBinder

`HAPBinderProofs`, for every number of devices, keys and places, from `RouterAssumption` and
`BinderAssumption`:

- `TypeCorrect`, `ConfirmationAlwaysFits`, `RecordedIsAgreed`: `TypeOK`, `ConfirmationFits`,
  `RecordedAsAgreed`. One inductive invariant, `Inv`: each device's record is consistent
  (no address twice in a table; the index offered to a pending child is free or its own; the
  tables in use are the saved ones), and handshakes are kept apart by their
  keys (`Handshakes`): the acceptances and the bonds that carry the key of a handshake
  in progress are that handshake's, and a sealed confirmation belongs to a bond.
- `AnIndexIsKept`: the action property `IndexIsKept`, from the same invariant.
- `NothingIsUnsaved`: `NothingUnsaved`, where announcements are only taken by a device above
  their sender in some asymmetric order (`TakenFromBelow`), as in any tree that is being
  built. TLC shows that it is needed: two devices that take each other's announcements
  give the parent's address a new key, and take it back, while the file keeps the old one.

### HAPMaster

`HAPMasterProofs`, for every set of devices, every itinerary, interval and bound on losses
and restarts, from `ModelAssumption`, `MasterAssumption` and `ItineraryAssumption`:

- `TypeCorrect`, `OneEntryEach`: `TypeOK` and `ShownOnce`, by `Typed`, which knows of the model,
  the file and the frames in flight what may be in them. `begin()` seeds the model with a
  fold over the child table; what the fold keeps for every table is proved by taking a
  smallest table for which it does not.
- `PictureIsKept`: `PicturePersists`, for devices that settle (`Settled`): the tree is two
  hops deep and fits the model, who once binds to the master itself is not bound elsewhere
  later, and nobody leaves a controller that has no parent (`Hasty` is empty). `MasterMoved`
  shows why the second is needed, `MasterStale`'s instance why the third is. The invariant
  `Picture` knows that every controller somebody left had a parent by then (`Patient`), so
  that what it announced when it was bound was true.
- `TreeIsShown`: `TreeIsKnown`, in a planned tree (`Planned`: settled, and a device that moves
  ends directly below the master). Two levels are all there may be, since a controller announces
  nobody below its children (see above), and `MasterStale` shows why nobody may be hasty.
  The invariant `Tree` says that, as long as nothing was lost, a reached device is either in its place in the model or
  announced by a frame on its way (`Shown`), an entry belongs to a reached device that is
  there or is announced elsewhere (`NoGhost`), and the file knows nobody below a child that is
  not there. A leaf that moves below a controller not yet bound is not covered: nobody
  tells the master, and TLC finds the ghost. The instance of `MasterPresence` satisfies
  both hypotheses.
- `ObeyingIsNotOffline`: `NotOfflineForObeying`, where nobody binds at one place twice and no
  place is too deep (`Placed`), hasty or not, and a device that reports by an interval goes on
  reporting by one no longer until it is bound again (`Tightens`, a hypothesis on the
  behaviour; `MasterRelaxed` shows what a longer one does). The invariant `Presence` has two parts. `Promising`:
  whatever is known of a place - in the model, its file, the child table, or told by a
  frame still in the air, however old - is an interval that whoever is there keeps.
  `Explained`: the silence of an entry is at most that of the reports lost since it was
  heard, and of the one on its way or not yet due. A restart may bring back an older
  interval than the one in force, but never a shorter one. `MasterPresence` checks
  the property on an instance that satisfies both hypotheses.

### HAPCodec, HAPMessages, HAPFrame

`HAPCodecProofs`, for every limit that the assumptions on constants allow, every message
that is one (`IsMessage`, in `HAPMessageTypes`: its fields, each with a value of its kind,
no more items than there is room for, a count that is the count of the items) and every
two builds:

- `EncodedIsRead`: what `encode()` wrote whole (`Encode(...).ok`) is read whole, by a build
  whose names have another limit, as `MessageRead`: the same but for names that are cut.
- `WhatFitsIsKept`: between builds whose names are equally long, or from a shorter to a
  longer, it is read exactly as it was meant.
- `FrameIsRead`: the header, any two paths and the payload are read out of a frame's bytes
  as they were, and no legal frame is refused.

The argument is about bytes that stand where they are read. `Sits(c, B, p)`: the bytes `c`
stand in `B` behind the first `p`. A kind of field is read (`IsRead`) if, wherever its
bytes stand, reading there gives the value and leaves the reader behind them; there is a
lemma for each kind (`ReadValue`, `ReadRef`, ...), and the numbers of two and four bytes are
recovered from their digits (`LittleTwo`, `LittleFour`). `FieldsAreRead` and `ItemsAreRead`
carry this along a layout: `Reach` says how far the first `k` pieces reach, and the reader's
recursion is followed from piece to piece. Layouts of every message are looked at
one by one (`LayoutIs`), since the codec reads by the name of a field. Two bytes that
remain of a description are its trailer and not the beginning of an item, because every
item takes more than two.

### HAPConversation

`HAPConversationProofs`, for every node, every set of names, every agenda of requests
and any number of answers on their way, from the assumptions that `HAPConversation` and the
modules below it state. What a theorem needs besides is a hypothesis on the constants,
defined at the end of `HAPConversation` and named in the theorem; `TheoremsApply` in
`MCHAPConversation` has TLC evaluate all of them for the instance of the runs. All six rest
on `Saying`: the child has one of its names, the file holds nothing or one of them, the
request on its way is one of the agenda's, and every page on its way is a page of a
description of the child under some name.

- `AnswersSurvive`: `MeaningSurvives`, by `Telling`: every answer on its way is a message that
  fits its frame and is read as it is meant, every in port has a value that a field
  can hold, and every link has ends that a field can hold. The last two are what a written
  value or a link that is answered for later depends on. Each answer has a lemma that it
  is a message and one that its bytes fit (`Taken` sums up the fields); the page of a
  description fits because the paging stops before the budget is spent, which is a smallest
  counterexample over the items of a page. It needs that the node's names, numbers and texts
  leave room for an answer (`NodeFits`), that a root asks what its own build can spell
  (`RequestsAreMessages`) and that what the ports read fits a report (`MeasuresFit`; a report
  that does not fit is never sent, see above).
- `TypeCorrect`: `TypeOK`, by `Saying`, `Telling` and `IsNoted` of the root's copy, from the
  same hypotheses: what the root notes is what a field held, so that its revisions
  have two bytes, those of the checksum included (`RevisionIs`).
- `PagesAlwaysTile`: `PagesTile`. The slices of the paging cover the instances (`SlicesCover`),
  and slices that follow one another, put end to end, are the sequence they were cut from.
  It needs that a descriptor has room on a page of its own, of a description and of an
  announcement (`DescriptorsFit`, `AnnouncementsFit`: shipped builds have frames of 250 bytes
  and names of 31).
- `NamesStayText`: `NamesAreText`, by `Naming`: the names in memory, and those in the file, are
  whole characters the build has room for. The names that a request brings are cut by the
  reader, and what is cut from whole characters is whole characters (`CutIsText`). It
  needs that the firmware's names and those a root asks for are (`NamesGivenAreText`).
- `CopiesAreTrue`: `CopyWasTrue`, by `Copying`: the root's copy is the slices, put one
  behind the other, of as many pages as it heard in order and of one revision. It
  takes from `AnswersSurvive` that a page is heard as it was meant. It needs, besides, that the
  names a node may have do not collide in CRC-16 (`RevisionsDiffer`), without which pages of
  two names can pass for pages of one.
- `RenamesAreKept`: `AnsweredRenameIsKept`, by `Keeping`: the names in use are those that
  `loadNames()` would bring back, and the last answer to a rename on its way carries their
  revision. It needs `NoneEmptied`: a file cannot hold an empty name, so a name that a root
  empties is the firmware's again after a restart (see above), and the property is
  false of it.

### What is only model-checked

Every invariant and every action property that a passing run checks is a theorem. What is not:

- Liveness (`EveryCommandEnds`, `DeathIsNoticed`, `ChangeIsNoticed`), which rests on fairness
  and `ENABLED`, is out of the proof system's reach.
- The values of the checksum: that it tells the names of an instance apart is a hypothesis of
  `CopiesAreTrue`, evaluated by TLC for the instance of the run, and cannot hold of all names.
- Induction over data works here by a smallest counterexample (`LeastExists`, used for
  `begin()`'s fold, the least due time, the paging and the codec's readers), but the library's
  induction theorems, which take an operator as a parameter, cannot be used. No module
  declares a `RECURSIVE` operator.

## Not modelled, and the plan

Not modelled: logging, channels as numbers and the sweep over them, MAC addresses and
random numbers as such, what an application does with what it is told, the tests, and
`HAPQueue::expire`, which nothing calls. `PROJECT.json` lists every part with its state.

The order of what follows:

1. `HAPMaster` further: devices that restart without their policy, a battery node's
   announcements (`announceReportInterval`), a middle node's own model, a model with no room,
   `nextDescribeNeeded`'s choice.
2. `HAPStore`'s retained mirror against its file, and the receive queue and the unlocked
   callback of `HAPEspNow`.
