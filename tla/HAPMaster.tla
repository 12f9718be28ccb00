----------------------------- MODULE HAPMaster ------------------------------
(***************************************************************************)
(* A master watching the devices below it: HAPStack with a HAPModel, its    *)
(* child table and the file both are kept in, against devices that bind,    *)
(* move, report, take a policy, answer a description and die.               *)
(*                                                                          *)
(* Time is a clock all parts share.  A frame takes no time worth measuring  *)
(* against a report interval, so the clock moves when the air is empty and  *)
(* every device that owes a report has sent it.                             *)
(***************************************************************************)
EXTENDS HAPModel, FiniteSetsExt, SequencesExt

CONSTANTS
  Devices,      \* every device but the master, by MAC
  Itinerary,    \* the places at which each device binds, in order
  Own,          \* the interval each device announces when it binds
  Asked,        \* the intervals a master may ask of each device
  Hasty,        \* who may leave a controller that has no parent yet
  Longest,      \* the longest interval there is
  MaxFlight,    \* frames on their way up through one child (bound)
  MaxLost,      \* frames lost, in all (bound)
  MaxRestarts   \* restarts of the master (bound)

Paths == UNION {{Itinerary[d][k] : k \in 1..Len(Itinerary[d])} : d \in Devices}
Hops == {p[1] : p \in Paths}

(* The device a path goes through: the one that binds at the path above it;  *)
(* and all those on the way from there to the master.                        *)
ParentAt(path) == {d \in Devices : \E k \in 1..Len(Itinerary[d]) :
                                     Itinerary[d][k] = Front(path)}
Above(path) ==
  {d \in Devices : \E k \in 1..Len(Itinerary[d]), n \in 1..Len(path) - 1 :
                     Itinerary[d][k] = SubSeq(path, 1, n)}

(* Who binds below a device, and may be announced all at once. *)
Below(d) ==
  {c \in Devices : \E k \in 1..Len(Itinerary[c]) : d \in ParentAt(Itinerary[c][k])}

ASSUME MasterAssumption ==
  /\ Longest \in Nat
  /\ Own \in [Devices -> 0..Longest]
  /\ Asked \in [Devices -> SUBSET (0..Longest)]
  /\ Itinerary \in [Devices -> Seq(Seq(Nat) \ {<<>>})]
  /\ NoMac \notin Devices /\ IsFiniteSet(Devices)
  /\ MaxFlight \in Nat \ {0} /\ MaxLost \in Nat /\ MaxRestarts \in Nat
  /\ \A d \in Devices : Cardinality(Below(d)) < MaxFlight

(* Everybody binds to the master or to a controller, and a controller once.  *)
(* No child table forgets a child, so an index is given to one device only,  *)
(* and given back to it when it returns.                                     *)
ASSUME ItineraryAssumption ==
  /\ Hasty \subseteq Devices
  /\ \A p \in Paths : Len(p) > 1 => ParentAt(p) # {}
  /\ \A d \in Devices : Below(d) # {} => Len(Itinerary[d]) = 1
  /\ \A c, d \in Devices : \A j \in 1..Len(Itinerary[c]), k \in 1..Len(Itinerary[d]) :
       /\ Itinerary[c][j] = Itinerary[d][k] => c = d
       /\ c = d /\ Front(Itinerary[c][j]) = Front(Itinerary[c][k])
            => Itinerary[c][j] = Itinerary[c][k]

VARIABLES
  model,      \* the master's HAPModel
  children,   \* its child table, in memory and (always saved at once) on flash
  saved,      \* the model file on flash
  stage,      \* how many places of its itinerary a device has bound at
  every,      \* the interval of the policy a device reports by
  since,      \* the time since a device last reported
  alive,      \* the devices that have power
  down,       \* the request on its way to each device
  up,         \* the frames on their way to the master, by its child
  lost,       \* how many frames were lost
  missed,     \* the reports of each device lost since the master heard of it
  restarts    \* how often the master restarted

master == <<model, children, saved>>
device == <<stage, every, since, alive>>
vars == <<master, device, down, up, lost, missed, restarts>>

(* A device that has never reported is due whatever its policy. *)
Never == Longest + 1
NoRequest == [kind |-> "none"]
Requests(d) ==
  {[kind |-> "describe"]}
    \cup [kind : {"policy"}, interval : Asked[d], port : BOOLEAN]

-----------------------------------------------------------------------------
(* Where the devices are. *)

Bound(d) == stage[d] > 0
Place(d) == Itinerary[d][stage[d]]
At(path) == {d \in Devices : Bound(d) /\ Place(d) = path}

(* A controller may adopt children before it is adopted itself: what they   *)
(* send goes no further than it.                                            *)
Reached(d) == Bound(d) /\ \A c \in Above(Place(d)) : Bound(c)

Room(d) == Reached(d) => Len(up[Place(d)[1]]) < MaxFlight

(* Nothing is on its way anywhere. *)
Silent ==
  /\ \A h \in Hops : up[h] = <<>>
  /\ \A d \in Devices : down[d] = NoRequest

Sent(frames, path, frame) == [frames EXCEPT ![path[1]] = Append(@, frame)]

Due(d) ==
  /\ Bound(d) /\ d \in alive
  /\ \/ since[d] = Never
     \/ every[d] # 0 /\ since[d] >= every[d]

-----------------------------------------------------------------------------
(* What the master does with a frame, and with the power. *)

(* begin(): the model file first, the child table over it, and then nothing *)
(* is left below a child this node no longer has.                           *)
Seeded(table, file) ==
  LET Seed(i, nodes) ==
        NoteChildAttached(nodes, <<>>, [childIndex |-> i, mac |-> table[i].mac,
                                        interval |-> table[i].interval])
  IN  FoldSet(Seed, LoadModel(file), DOMAIN table)

Orphans(table, nodes) == {p \in DOMAIN nodes : p[1] \notin DOMAIN table}

Rebuilt(table, file) ==
  LET nodes == Seeded(table, file) IN Forget(nodes, Orphans(table, nodes))

Boot(table, file) ==
  /\ restarts < MaxRestarts
  /\ restarts' = restarts + 1
  /\ children' = table
  /\ model' = Rebuilt(table, file)
  /\ saved' = IF Orphans(table, Seeded(table, file)) # {}
                THEN SaveModel(model') ELSE file
  /\ missed' = [d \in Devices |-> 0]

(* Every handler saves the child table, then notes the news in memory, then  *)
(* saves the model.  It does all of it, or the power goes after the first    *)
(* save and the master comes back with what was on flash.                    *)
Adopt(table, nodes, file, heard) ==
  \/ /\ children' = table /\ model' = nodes /\ saved' = file
     /\ missed' = [d \in Devices |-> IF d \in heard THEN 0 ELSE missed[d]]
     /\ UNCHANGED restarts
  \/ table # children /\ Boot(table, saved)

\* Mutant: an interval that moved is kept in the model alone.
WithOldInterval(path, interval) == children

(* An interval that one of our own children moved is its own table's too.    *)
WithInterval(path, interval) ==
  IF Len(path) = 1 /\ path[1] \in DOMAIN children
    THEN [children EXCEPT ![path[1]].interval = interval]
    ELSE children

AdoptPolicy(path, answer) ==
  LET nodes == NotePolicy(model, path, answer)
      changed == /\ answer.ok
                 /\ path \in DOMAIN model => model[path].interval # answer.interval
  IN  Adopt(IF answer.ok THEN WithInterval(path, answer.interval) ELSE children,
            nodes, IF changed THEN SaveModel(nodes) ELSE saved, At(path))

AdoptDescribe(path, interval) ==
  LET nodes == NoteDescribe(model, path, interval)
      modelMoved == path \in DOMAIN model /\ model[path].interval # interval
  IN  Adopt(WithInterval(path, interval), nodes,
            IF modelMoved THEN SaveModel(nodes) ELSE saved, At(path))

AdoptAttached(table, parentPath, attached) ==
  LET nodes == NoteChildAttached(model, parentPath, attached)
  IN  Adopt(table, nodes, SaveModel(nodes),
            At(Append(parentPath, attached.childIndex)))

-----------------------------------------------------------------------------
(* Binding. *)

Attached(c, k) ==
  [childIndex |-> Last(Itinerary[c][k]), mac |-> c, interval |-> Own[c]]

\* Mutant: the children a controller had before it had a parent stay untold.
AdoptedUntold(d) == {}

(* The child table of a controller.  It is told of nobody who was reset and  *)
(* bound elsewhere, so whoever bound below it is in it for good.             *)
Adopted(d) ==
  {c \in Devices : \E k \in 1..stage[c] : d \in ParentAt(Itinerary[c][k])}

(* What announceChild() sends for a child it holds. *)
Announcement(d, c) ==
  LET k == CHOOSE j \in 1..stage[c] : d \in ParentAt(Itinerary[c][j])
  IN  [kind |-> "attached", src |-> Front(Itinerary[c][k]), attached |-> Attached(c, k)]

(* What goes up when a device binds at a path.  A controller it bound to     *)
(* announces it; then bound() announces every child it had before.           *)
News(d, k) ==
  LET path == Itinerary[d][k]
      own  == [kind |-> "attached", src |-> Front(path), attached |-> Attached(d, k)]
  IN  (IF Len(path) = 1 THEN <<>> ELSE <<own>>)
        \o SetToSeq({Announcement(d, c) : c \in Adopted(d)})

(* A device, reset and started anew if it was bound before, binds at the     *)
(* next place of its itinerary, with a reporter that has reported nothing.   *)
(* The master adopts it, or a controller does; the news of it goes up if     *)
(* every controller above it has a parent.                                   *)
Bind(d) ==
  /\ d \in alive /\ stage[d] < Len(Itinerary[d])
  /\ Silent
  /\ Bound(d) /\ d \notin Hasty => \A c \in ParentAt(Place(d)) : Bound(c)
  /\ LET k == stage[d] + 1
         path == Itinerary[d][k]
         table == [i \in DOMAIN children \cup {path[1]} |->
                     IF i = path[1] THEN [mac |-> d, interval |-> Own[d]]
                                    ELSE children[i]]
     IN  /\ ParentAt(path) \subseteq alive
         /\ stage' = [stage EXCEPT ![d] = k]
         /\ up' = IF \A c \in Above(path) : Bound(c)
                    THEN [up EXCEPT ![path[1]] = News(d, k)]
                    ELSE up
         /\ IF Len(path) = 1
              THEN AdoptAttached(table, <<>>, Attached(d, k))
              ELSE UNCHANGED <<master, missed, restarts>>
  /\ every' = [every EXCEPT ![d] = Own[d]]
  /\ since' = [since EXCEPT ![d] = Never]
  /\ UNCHANGED <<alive, down, lost>>

-----------------------------------------------------------------------------
(* The devices. *)

(* A report that is due, or that a moved value made due.  At most one of the *)
(* latter goes out between two ticks of the clock.                           *)
Report(d) ==
  /\ Bound(d) /\ d \in alive /\ since[d] > 0 /\ Room(d)
  /\ since' = [since EXCEPT ![d] = 0]
  /\ up' = IF Reached(d)
             THEN Sent(up, Place(d), [kind |-> "report", src |-> Place(d)])
             ELSE up
  /\ UNCHANGED <<master, stage, every, alive, down, lost, missed, restarts>>

(* fillDescribe(): what the node announced when it bound, not the policy its *)
(* reporter follows.                                                         *)
Description(d) == [kind |-> "describe", src |-> Place(d), interval |-> Own[d]]

(* setPolicy(): a policy is taken if the port it names exists.               *)
PolicyTaken(d, request) ==
  [kind |-> "policy", src |-> Place(d),
   answer |-> [ok |-> request.port,
               interval |-> IF request.port THEN request.interval ELSE 0]]

Serve(d) ==
  /\ d \in alive /\ Room(d)
  /\ \/ /\ down[d].kind = "describe"
        /\ up' = Sent(up, Place(d), Description(d))
        /\ UNCHANGED every
     \/ /\ down[d].kind = "policy"
        /\ up' = Sent(up, Place(d), PolicyTaken(d, down[d]))
        /\ every' = IF down[d].port
                      THEN [every EXCEPT ![d] = down[d].interval] ELSE every
  /\ down' = [down EXCEPT ![d] = NoRequest]
  /\ UNCHANGED <<master, stage, since, alive, lost, missed, restarts>>

(* A device that promised an interval dies, and does not come back; no one is *)
(* below it.  What was on its way to it is gone.                             *)
Die(d) ==
  /\ d \in alive /\ Bound(d) /\ Own[d] # 0
  /\ \A c \in Devices : Bound(c) => d \notin ParentAt(Place(c))
  /\ alive' = alive \ {d}
  /\ down' = [down EXCEPT ![d] = NoRequest]
  /\ UNCHANGED <<master, stage, every, since, up, lost, missed, restarts>>

-----------------------------------------------------------------------------
(* The master. *)

(* A request goes to whoever is at the path of an entry, one at a time; what *)
(* the devices send meanwhile may pass the answer or be passed by it.        *)
Ask(d) ==
  /\ Reached(d) /\ d \in alive /\ Place(d) \in DOMAIN model
  /\ Silent
  /\ \E request \in Requests(d) : down' = [down EXCEPT ![d] = request]
  /\ UNCHANGED <<master, device, up, lost, missed, restarts>>

Receive(h) ==
  /\ up[h] # <<>>
  /\ up' = [up EXCEPT ![h] = Tail(@)]
  /\ LET frame == Head(up[h])
     IN  \/ /\ frame.kind = "report"
            /\ Adopt(children, NoteReport(model, frame.src), saved, At(frame.src))
         \/ frame.kind = "policy" /\ AdoptPolicy(frame.src, frame.answer)
         \/ frame.kind = "describe" /\ AdoptDescribe(frame.src, frame.interval)
         \/ /\ frame.kind = "attached"
            /\ AdoptAttached(children, frame.src, frame.attached)
  /\ UNCHANGED <<device, down, lost>>

Sweep ==
  /\ model' = SweepOffline(model)
  /\ model' # model
  /\ UNCHANGED <<children, saved, device, down, up, lost, missed, restarts>>

Restart ==
  /\ Boot(children, saved)
  /\ UNCHANGED <<device, down, up, lost>>

-----------------------------------------------------------------------------
(* The air and the clock. *)

LoseUp(h) ==
  /\ lost < MaxLost /\ up[h] # <<>>
  /\ up' = [up EXCEPT ![h] = Tail(@)]
  /\ lost' = lost + 1
  /\ missed' = [d \in Devices |->
                  IF Head(up[h]).kind = "report" /\ d \in At(Head(up[h]).src)
                    THEN missed[d] + 1 ELSE missed[d]]
  /\ UNCHANGED <<master, device, down, restarts>>

LoseDown(d) ==
  /\ lost < MaxLost /\ down[d] # NoRequest
  /\ down' = [down EXCEPT ![d] = NoRequest]
  /\ lost' = lost + 1
  /\ UNCHANGED <<master, device, up, missed, restarts>>

Tick ==
  /\ Silent /\ \A d \in Devices : ~Due(d)
  /\ model' = Aged(model)
  /\ since' = [d \in Devices |->
                 IF since[d] < Longest THEN since[d] + 1 ELSE since[d]]
  /\ UNCHANGED <<children, saved, stage, every, alive, down, up, lost, missed, restarts>>

-----------------------------------------------------------------------------
Init ==
  /\ model = NoNodes /\ saved = NoNodes
  /\ children = [i \in {} |-> NoMac]
  /\ stage = [d \in Devices |-> 0]
  /\ every = Own
  /\ since = [d \in Devices |-> Never]
  /\ alive = Devices
  /\ down = [d \in Devices |-> NoRequest]
  /\ up = [h \in Hops |-> <<>>]
  /\ lost = 0 /\ restarts = 0
  /\ missed = [d \in Devices |-> 0]

Next ==
  \/ \E d \in Devices :
       Bind(d) \/ Report(d) \/ Serve(d) \/ Die(d) \/ Ask(d) \/ LoseDown(d)
  \/ \E h \in Hops : Receive(h) \/ LoseUp(h)
  \/ Sweep \/ Restart \/ Tick

(* Every loop runs: a due report is sent, a frame that came is handled, the  *)
(* master sweeps.  The room a report waits for and the silence time waits    *)
(* for come and go, and neither waits for ever.                              *)
Fairness ==
  /\ SF_vars(\E d \in Devices : Due(d) /\ Report(d))
  /\ WF_vars(\E d \in Devices : Serve(d))
  /\ WF_vars(\E h \in Hops : Receive(h))
  /\ WF_vars(Sweep)
  /\ SF_vars(Tick)

Spec == Init /\ [][Next]_vars /\ Fairness

-----------------------------------------------------------------------------
(* The state is well formed.  The file holds no entry without an identity,   *)
(* and the table no more entries than it has room for.                       *)
TypeOK ==
  /\ DOMAIN model \subseteq Paths /\ Cardinality(DOMAIN model) =< MaxNodes
  /\ \A p \in DOMAIN model :
       model[p] \in [mac : Devices \cup {NoMac}, interval : 0..Longest,
                     silence : 0..Longest * OfflineIntervals, online : BOOLEAN]
  /\ DOMAIN saved \subseteq Paths
  /\ \A p \in DOMAIN saved : saved[p] \in [mac : Devices, interval : 0..Longest]
  /\ DOMAIN children \subseteq Hops
  /\ \A i \in DOMAIN children : children[i] \in [mac : Devices, interval : 0..Longest]
  /\ \A d \in Devices : stage[d] \in 0..Len(Itinerary[d])
  /\ every \in [Devices -> 0..Longest] /\ since \in [Devices -> 0..Never]
  /\ alive \subseteq Devices
  /\ \A d \in Devices : down[d] \in Requests(d) \cup {NoRequest}
  /\ \A h \in Hops : Len(up[h]) =< MaxFlight
  /\ lost \in 0..MaxLost /\ missed \in [Devices -> 0..MaxLost]
  /\ restarts \in 0..MaxRestarts

(* A device that was re-bound elsewhere is shown once: whatever was lost,    *)
(* and however often the master restarted from whichever of its two files    *)
(* was written last, no two entries have one identity                        *)
(* (HAPModel.cpp:224-236, HAPStack.cpp:56-110).                              *)
ShownOnce ==
  \A p, q \in DOMAIN model :
    model[p].mac = model[q].mac /\ model[p].mac # NoMac => p = q

(* A master keeps what it was told and puts it back itself: power may go at  *)
(* any moment, and what begin() would make of the two files then, every      *)
(* path, identity and interval of it, is what the master knew                *)
(* (HAPModel::restore(), HAPStack::begin()).                                 *)
PicturePersists == SaveModel(Rebuilt(children, saved)) = SaveModel(model)

(* If no frame was lost and none is on its way, the master knows every       *)
(* device that has a path to it, at its own place and no other, whichever    *)
(* end of the tree was set up first, and after a restart too                 *)
(* (HAPStack::announceChild(), bound(), noteChildAttached()).                *)
TreeIsKnown ==
  lost = 0 /\ (\A h \in Hops : up[h] = <<>>) =>
    {<<p, model[p].mac>> : p \in DOMAIN SaveModel(model)}
      = {<<Place(d), d>> : d \in {e \in Devices : Reached(e)}}

(* A node that works is not called offline for obeying: a device with power  *)
(* and a path to the master is offline in the model only after as many of    *)
(* its reports were lost in a row as fit in the silence it is allowed; the   *)
(* last one may still be on its way (HAPModel::sweepOffline(), notePolicy()).*)
NotOfflineForObeying ==
  \A d \in alive :
    Reached(d) /\ Place(d) \in DOMAIN model /\ ~model[Place(d)].online =>
      missed[d] >= OfflineIntervals - 1

(* A master that knows a device which promised an interval, whether it was   *)
(* told or restarted and read it from its files, notices when it dies        *)
(* (HAPStack.cpp:86-97: a rebooted master could watch a child die and never  *)
(* say so).                                                                  *)
Watched(d) == Bound(d) /\ Place(d) \in DOMAIN model /\ model[Place(d)].mac = d
DeathIsNoticed ==
  \A d \in {e \in Devices : Own[e] # 0} :
    d \notin alive /\ Watched(d)
      ~> Watched(d) /\ ~model[Place(d)].online
=============================================================================
