------------------------------ MODULE HAPStack ------------------------------
(***************************************************************************)
(* A tree of HAPStack instances exchanging frames: reports climb to the     *)
(* root, commands descend along a path, a parent holds one frame for each   *)
(* sleeping child, and refusals (Nack, RouteError) climb back.  Composes    *)
(* HAPRouter (Route, ResolveDownstream), HAPQueue (one slot per child) and  *)
(* HAPListenWindow (awake).                                                 *)
(*                                                                          *)
(* Who is bound to whom does not change here: HAPBinder models that.  Every *)
(* request message is a WriteRequest, every unasked notice a Report: the    *)
(* stack routes, queues and answers all of them alike.                      *)
(*                                                                          *)
(* cmds, ran, refused and answers are history variables: no action is       *)
(* guarded by them but by the bound MaxCmds.                                *)
(***************************************************************************)
EXTENDS HAPRouter

CONSTANTS Battery,      \* nodes with HAPCaps::BatteryPowered
          Topologies,   \* the bindings the network may have
          Links,        \* Links[n]: the wires n feeds over the radio, as
                        \* [src, dest] paths, one for each source
          Commanders,   \* nodes whose application issues commands ...
          Destinations, \* ... and the paths it addresses
          Reporters,    \* nodes that report
          Restarting,   \* nodes that may restart
          NoFrame,      \* an empty queue slot
          SeqMod,       \* seq_ is a counter modulo SeqMod (2^16)
          MaxCmds,      \* bound: commands issued in a behaviour
          MaxFaults,    \* bound: frames lost, sends refused, nodes restarted
          Prompt        \* TRUE: a hop takes less than the listen window

Child == [mac : Node]
Topology ==
  [parent   : [Node -> Node \cup {NoNode}],
   children : [Node -> [Index -> Child \cup {NoChild}]]]

ASSUME StackAssumption ==
  /\ Battery \subseteq Node /\ Reporters \subseteq Node /\ Restarting \subseteq Node
  /\ Commanders \subseteq Node \ Battery
  /\ Topologies \subseteq Topology
  /\ Links \in [Node -> SUBSET [src : Path, dest : Path \ {<<>>}]]
  /\ \A n \in Node : \A l, m \in Links[n] : l.src = m.src => l = m
  /\ Destinations \subseteq Path
  /\ SeqMod \in Nat \ {0} /\ MaxCmds \in Nat /\ MaxFaults \in Nat
  /\ Prompt \in BOOLEAN

VARIABLES parent,    \* router_.parentMac_
          children,  \* router_.children_
          air,       \* air[a][b]: frames from a to b, in order
          queue,     \* queue_
          awake,     \* the listen window of a battery node is open
          seq,       \* seq_
          faults,    \* how many faults there were
          cmds,      \* history: the commands issued
          ran,       \* history: the commands executed, in order
          refused,   \* history: the commands some node gave up on
          answers    \* history: the answers that reached a root

binding == <<parent, children>>
history == <<cmds, ran, refused, answers>>
vars    == <<binding, air, queue, awake, seq, faults, history>>

Seqs    == 0 .. SeqMod - 1
Answers == {"WriteResponse", "Nack", "RouteError"}
Frame ==
  [type : {"Report", "WriteRequest"} \cup Answers, upstream : BOOLEAN,
   ack : BOOLEAN, queued : BOOLEAN, seq : Seqs, dest : Path, src : Path,
   about : Seqs,            \* the seq an answer is about
   hop : 0 .. MaxHop,       \* RouteError.failedHop
   by : Node, cmd : Nat]    \* history: who made it, for which command
Command == [by : Node, seq : Seqs, dest : Path, ack : BOOLEAN,
            heard : Node \cup {NoNode}]  \* whose report a wire carries
Answer  == [at : Node, type : Answers, about : Seqs, src : Path, hop : 0 .. MaxHop,
            cmd : Nat]

ASSUME NoFrameAssumption == NoFrame \notin Frame

RouterOf(n) == [parent |-> parent[n], children |-> children[n]]

-----------------------------------------------------------------------------
(* What a handler does to the network, as operators from a state record s   *)
(* to the next one; Become makes it the next state.                         *)

Now == [air |-> air, queue |-> queue, seq |-> seq, cmds |-> cmds, ran |-> ran,
        refused |-> refused]

Become(s) ==
  /\ air' = s.air /\ queue' = s.queue /\ seq' = s.seq
  /\ cmds' = s.cmds /\ ran' = s.ran /\ refused' = s.refused

Transmit(s, a, b, f) == [s EXCEPT !.air[a][b] = Append(@, f)]

\* Mutant: the counter does not wrap.
NextSeqUnwrapped(s, n) == s.seq[n] + 1

NextSeq(s, n) == (s.seq[n] + 1) % SeqMod

Upward(n, type, number, about, hop, cmd) ==
  [type |-> type, upstream |-> TRUE, ack |-> FALSE, queued |-> FALSE,
   seq |-> number, dest |-> <<>>, src |-> <<>>, about |-> about, hop |-> hop,
   by |-> n, cmd |-> cmd]

SendUpstream(s, n, type, about, hop, cmd) ==
  IF parent[n] = NoNode THEN s
  ELSE Transmit([s EXCEPT !.seq[n] = NextSeq(s, n)], n, parent[n],
                Upward(n, type, NextSeq(s, n), about, hop, cmd))

\* The answer echoes the request's sequence number and always climbs.
Respond(s, n, f) ==
  IF parent[n] = NoNode THEN s
  ELSE Transmit(s, n, parent[n],
                Upward(n, "WriteResponse", f.seq, f.seq, 0, f.cmd))

HandleRequest(s, n, f) ==
  Respond([s EXCEPT !.ran = Append(@, [cmd |-> f.cmd, at |-> n])], n, f)

Refuse(s, cmd) == [s EXCEPT !.refused = @ \cup {cmd}]

\* Mutant: a child that has a frame waiting gets the next one live.
ForwardPastQueue(s, n, f, i) ==
  LET c == children[n][i].mac IN
  IF c \notin Battery \/ s.queue[n][i] # NoFrame THEN Transmit(s, n, c, f)
  ELSE [s EXCEPT !.queue[n][i] = [f EXCEPT !.queued = TRUE]]

\* Mutant: the refused frame takes the place of the one that waits.
ForwardReplacing(s, n, f, i) ==
  LET c == children[n][i].mac
      q == [s EXCEPT !.queue[n][i] = [f EXCEPT !.queued = TRUE]]
  IN  IF c \notin Battery THEN Transmit(s, n, c, f)
      ELSE IF s.queue[n][i] = NoFrame THEN q
      ELSE SendUpstream(Refuse(q, f.cmd), n, "Nack", f.seq, 0, f.cmd)

ForwardToChild(s, n, f, i) ==
  LET c == children[n][i].mac IN
  IF c \notin Battery THEN Transmit(s, n, c, f)
  ELSE IF s.queue[n][i] = NoFrame
       THEN [s EXCEPT !.queue[n][i] = [f EXCEPT !.queued = TRUE]]
       ELSE SendUpstream(Refuse(s, f.cmd), n, "Nack", f.seq, 0, f.cmd)

SendDownstream(s, n, dest, ack, heard) ==
  LET number == NextSeq(s, n)
      cmd    == Len(s.cmds) + 1
      issued == [s EXCEPT !.seq[n] = number,
                          !.cmds = Append(@, [by |-> n, seq |-> number,
                                              dest |-> dest, ack |-> ack,
                                              heard |-> heard])]
      f == [type |-> "WriteRequest", upstream |-> FALSE, ack |-> ack,
            queued |-> FALSE, seq |-> number, dest |-> dest, src |-> <<>>,
            about |-> 0, hop |-> 0, by |-> n, cmd |-> cmd]
      d == ResolveDownstream(RouterOf(n), f)
  IN  IF d.action = "Deliver" THEN HandleRequest(issued, n, f)
      ELSE IF d.action = "ToChild" THEN ForwardToChild(issued, n, d.frame, d.child)
      ELSE Refuse(issued, cmd)

\* HAPLinks::deliver of a report that n heard from src, with deliverLink().
LinksFrom(n, src) == {l \in Links[n] : l.src = src}
DeliverLinks(s, n, src, maker) ==
  IF LinksFrom(n, src) = {} THEN s
  ELSE SendDownstream(s, n, (CHOOSE l \in LinksFrom(n, src) : TRUE).dest, FALSE, maker)

\* Mutant: what is sent stays in its slot.
FlushWithoutPop(s, n, i) ==
  IF i = 0 THEN s
  ELSE IF children[n][i].mac \notin Battery \/ s.queue[n][i] = NoFrame THEN s
  ELSE Transmit(s, n, children[n][i].mac, s.queue[n][i])

FlushQueue(s, n, i) ==
  IF i = 0 THEN s
  ELSE IF children[n][i].mac \notin Battery \/ s.queue[n][i] = NoFrame THEN s
  ELSE Transmit([s EXCEPT !.queue[n][i] = NoFrame], n, children[n][i].mac,
                s.queue[n][i])

-----------------------------------------------------------------------------
Init ==
  /\ \E t \in Topologies : parent = t.parent /\ children = t.children
  /\ air = [a \in Node |-> [b \in Node |-> <<>>]]
  /\ queue = [n \in Node |-> [i \in Index |-> NoFrame]]
  /\ awake = [n \in Node |-> FALSE]
  /\ seq = [n \in Node |-> 0]
  /\ faults = 0
  /\ cmds = <<>> /\ ran = <<>> /\ refused = {} /\ answers = {}

\* The application asks for a write at the end of a path.
RequestWrite(n, dest) ==
  /\ Len(cmds) < MaxCmds
  /\ Become(SendDownstream(Now, n, dest, TRUE, NoNode))
  /\ UNCHANGED <<binding, awake, faults, answers>>

ReportInFlight(n) ==
  \E a, b \in Node : \E k \in DOMAIN air[a][b] :
    air[a][b][k].type = "Report" /\ air[a][b][k].by = n

\* A battery node wakes to report, and listens afterwards.  Bound: one report
\* of a node in flight at a time.
SendReport(n) ==
  /\ parent[n] # NoNode
  /\ ~ReportInFlight(n)
  /\ Len(cmds) < MaxCmds \/ LinksFrom(n, <<>>) = {}
  /\ Become(SendUpstream(DeliverLinks(Now, n, <<>>, n), n, "Report", 0, 0, 0))
  /\ awake' = [awake EXCEPT ![n] = n \in Battery]
  /\ UNCHANGED <<binding, faults, answers>>

\* The listen window closes.
Doze(n) ==
  /\ awake[n]
  /\ Prompt /\ parent[n] # NoNode => air[n][parent[n]] = <<>> /\ air[parent[n]][n] = <<>>
  /\ awake' = [awake EXCEPT ![n] = FALSE]
  /\ UNCHANGED <<binding, air, queue, seq, faults, history>>

(* onFrame(): one action for each of the router's decisions.  Every one ends *)
(* with what is held for the sender being flushed, unless the radio refuses  *)
(* to send just then.                                                        *)
CanHear(n)         == n \in Battery => awake[n]
Arriving(from, n)  == Head(air[from][n])
DecisionOn(from, n) == Route(RouterOf(n), Arriving(from, n), from)
Taken(from, n)     == [Now EXCEPT !.air[from][n] = Tail(@)]

OnFrame(from, n, action) ==
  /\ air[from][n] # <<>>
  /\ CanHear(n)
  /\ DecisionOn(from, n).action = action
  /\ UNCHANGED <<binding, awake>>

BecomeFlushed(s, from, n) ==
  LET flushed == FlushQueue(s, n, ChildByMac(children[n], from)) IN
  \/ Become(flushed) /\ UNCHANGED faults
  \/ flushed # s /\ faults < MaxFaults /\ faults' = faults + 1 /\ Become(s)

LinkBound(n, f) ==
  Len(cmds) < MaxCmds \/ f.type # "Report" \/ LinksFrom(n, f.src) = {}

Tap(s, n, f) == IF f.type = "Report" THEN DeliverLinks(s, n, f.src, f.by) ELSE s

\* Mutant: passing a report on does not release what is held for its sender.
PassToParentOnly(from, n) ==
  LET f == DecisionOn(from, n).frame IN
  /\ OnFrame(from, n, "ToParent")
  /\ LinkBound(n, f)
  /\ Become(Transmit(Tap(Taken(from, n), n, f), n, parent[n], f))
  /\ UNCHANGED <<faults, answers>>

\* Mutant: the wires are fed with the path as it arrived.
TapAsArrived(from, n) ==
  LET f == DecisionOn(from, n).frame IN
  /\ OnFrame(from, n, "ToParent")
  /\ LinkBound(n, Arriving(from, n))
  /\ BecomeFlushed(Transmit(Tap(Taken(from, n), n, Arriving(from, n)), n, parent[n], f),
                   from, n)
  /\ UNCHANGED answers

PassToParent(from, n) ==
  LET f == DecisionOn(from, n).frame IN
  /\ OnFrame(from, n, "ToParent")
  /\ LinkBound(n, f)
  /\ BecomeFlushed(Transmit(Tap(Taken(from, n), n, f), n, parent[n], f), from, n)
  /\ UNCHANGED answers

PassToChild(from, n) ==
  LET d == DecisionOn(from, n) IN
  /\ OnFrame(from, n, "ToChild")
  /\ BecomeFlushed(ForwardToChild(Taken(from, n), n, d.frame, d.child), from, n)
  /\ UNCHANGED answers

DeliverRequest(from, n) ==
  LET f == DecisionOn(from, n).frame IN
  /\ OnFrame(from, n, "Deliver")
  /\ f.type = "WriteRequest"
  /\ BecomeFlushed(HandleRequest(Taken(from, n), n, f), from, n)
  /\ UNCHANGED answers

DeliverNews(from, n) ==
  LET f == DecisionOn(from, n).frame IN
  /\ OnFrame(from, n, "Deliver")
  /\ f.type # "WriteRequest"
  /\ LinkBound(n, f)
  /\ BecomeFlushed(Tap(Taken(from, n), n, f), from, n)
  /\ answers' = IF f.type = "Report" THEN answers
                ELSE answers \cup {[at |-> n, type |-> f.type, about |-> f.about,
                                    src |-> f.src, hop |-> f.hop, cmd |-> f.cmd]}

DropFrame(from, n) ==
  LET d == DecisionOn(from, n)
      s == Taken(from, n)
  IN
  /\ OnFrame(from, n, "Drop")
  /\ BecomeFlushed(
       IF d.reason = "NoSuchChild"
       THEN SendUpstream(Refuse(s, d.frame.cmd), n, "RouteError", d.frame.seq,
                         d.child, d.frame.cmd)
       ELSE s, from, n)
  /\ UNCHANGED answers

(* The radio.  A sleeping node hears nothing; a frame may be lost. *)
NotHeard(from, n) ==
  /\ air[from][n] # <<>>
  /\ \/ ~CanHear(n) /\ UNCHANGED faults
     \/ faults < MaxFaults /\ faults' = faults + 1
  /\ air' = [air EXCEPT ![from][n] = Tail(@)]
  /\ UNCHANGED <<binding, queue, awake, seq, history>>

(* A restart: the bindings are restored from flash, the queue, the listen    *)
(* window and the sequence counter start from nothing.                       *)
Reboot(n) ==
  /\ faults < MaxFaults
  /\ faults' = faults + 1
  /\ queue' = [queue EXCEPT ![n] = [i \in Index |-> NoFrame]]
  /\ seq' = [seq EXCEPT ![n] = 0]
  /\ awake' = [awake EXCEPT ![n] = FALSE]
  /\ UNCHANGED <<binding, air, history>>

Receive(from, n) ==
  \/ PassToParent(from, n)
  \/ PassToChild(from, n)
  \/ DeliverRequest(from, n)
  \/ DeliverNews(from, n)
  \/ DropFrame(from, n)

Next ==
  \/ \E n \in Commanders, dest \in Destinations : RequestWrite(n, dest)
  \/ \E n \in Reporters : SendReport(n)
  \/ \E n \in Battery : Doze(n)
  \/ \E n \in Restarting : Reboot(n)
  \/ \E from, n \in Node : Receive(from, n) \/ NotHeard(from, n)

Spec == Init /\ [][Next]_vars

\* The main loop drains the radio, and every node reports on its interval.
Fairness ==
  /\ \A from, n \in Node : WF_vars(Receive(from, n))
  /\ \A n \in Reporters : WF_vars(SendReport(n))

FairSpec == Spec /\ Fairness

-----------------------------------------------------------------------------
(* Properties *)

TypeOK ==
  /\ parent \in [Node -> Node \cup {NoNode}]
  /\ children \in [Node -> [Index -> Child \cup {NoChild}]]
  /\ air \in [Node -> [Node -> Seq(Frame)]]
  /\ queue \in [Node -> [Index -> Frame \cup {NoFrame}]]
  /\ awake \in [Node -> BOOLEAN]
  /\ seq \in [Node -> Seqs]
  /\ faults \in Nat
  /\ cmds \in Seq(Command)
  /\ ran \in Seq([cmd : Nat, at : Node])
  /\ refused \subseteq Nat
  /\ answers \subseteq Answer

\* Following the path p from x through the child tables ends at y.
Leads(x, p, y) ==
  \E t \in [1 .. Len(p) + 1 -> Node] :
    /\ t[1] = x /\ t[Len(p) + 1] = y
    /\ \A k \in 1 .. Len(p) :
         p[k] \in Used(children[t[k]]) /\ children[t[k]][p[k]].mac = t[k + 1]

\* A climbing frame's source path is, at each node it passes, exactly the
\* downward path from that node back to the node that made it - whatever the
\* topology, loops and half-made bindings included.
SourceIsTheWayBack ==
  /\ \A a, b \in Node : \A k \in DOMAIN air[a][b] :
       LET f == air[a][b][k] IN f.upstream => Leads(a, f.src, f.by)
  /\ \A w \in answers : w.type = "WriteResponse" =>
       \E k \in DOMAIN ran : ran[k].cmd = w.cmd /\ Leads(w.at, w.src, ran[k].at)

\* A command runs at the node its path addresses from the node that issued it,
\* and nowhere else, however many hops, queues and refusals lie between.
RunsWhereAddressed ==
  \A k \in DOMAIN ran :
    /\ ran[k].cmd \in DOMAIN cmds
    /\ Leads(cmds[ran[k].cmd].by, cmds[ran[k].cmd].dest, ran[k].at)

HasRun(k) == \E j \in DOMAIN ran : ran[j].cmd = k

\* No command is executed twice, and none after somebody was told it would not
\* be: holding, forwarding and refusing are exclusive at every hop.
RunsAtMostOnce ==
  /\ \A j, k \in DOMAIN ran : ran[j].cmd = ran[k].cmd => j = k
  /\ \A k \in refused : ~HasRun(k)

\* Commands from one node to one destination run in the order they were
\* issued: the single slot per sleeping child refuses rather than reorders.
RunsInOrder ==
  \A j, k \in DOMAIN ran :
    LET c == cmds[ran[j].cmd]
        d == cmds[ran[k].cmd]
    IN  j < k /\ c.by = d.by /\ c.dest = d.dest => ran[j].cmd < ran[k].cmd

\* A RouteError that reaches the root about one of the root's own commands
\* names the hop at which the path it addressed stops existing.
RouteErrorNamesTheHop ==
  \A w \in answers :
    w.type = "RouteError" /\ w.cmd \in DOMAIN cmds /\ cmds[w.cmd].by = w.at =>
      LET full == w.src \o <<w.hop>> IN
      /\ Len(full) =< Len(cmds[w.cmd].dest)
      /\ full = SubSeq(cmds[w.cmd].dest, 1, Len(full))
      /\ \E n \in Node : Leads(w.at, w.src, n) /\ w.hop \notin Used(children[n])

\* A wire carries only what the device at its source reported: the path a link
\* stores and the path a climbing report gathers agree at every node it passes.
WiresFollowTheirSource ==
  \A k \in DOMAIN cmds : cmds[k].heard # NoNode =>
    \E l \in Links[cmds[k].by] :
      l.dest = cmds[k].dest /\ Leads(cmds[k].by, l.src, cmds[k].heard)

\* An answer that reaches the root tells what became of the command: it was
\* executed, or some node refused it - never both, and never two answers.
AnswersTellTheFate ==
  /\ \A v, w \in answers : v.cmd = w.cmd => v = w
  /\ \A w \in answers : IF w.type = "WriteResponse" THEN HasRun(w.cmd)
                        ELSE w.cmd \in refused

-----------------------------------------------------------------------------
(* The promise to whoever issues commands, HAPCommands, and how the network *)
(* keeps it: a command is where its frame is.                               *)

SlotsOf(k) == {s \in Node \X Index :
                 queue[s[1]][s[2]] # NoFrame /\ queue[s[1]][s[2]].cmd = k}

Travels(k) == \E a, b \in Node : \E j \in DOMAIN air[a][b] :
                air[a][b][j].type = "WriteRequest" /\ air[a][b][j].cmd = k

FateOf(k) ==
  IF k \notin DOMAIN cmds THEN "none"
  ELSE IF HasRun(k)       THEN "ran"
  ELSE IF k \in refused   THEN "refused"
  ELSE IF SlotsOf(k) # {} THEN "held"
  ELSE IF Travels(k)      THEN "travelling"
  ELSE "lost"

Commands == INSTANCE HAPCommands WITH
  Command <- 1 .. MaxCmds,
  Slot    <- Node \X Index,
  fate    <- [k \in 1 .. MaxCmds |-> FateOf(k)],
  slots   <- [k \in 1 .. MaxCmds |-> SlotsOf(k)]

\* Every step of the network is a step the promise allows: a command is held
\* in one slot at most, held behind nothing, lost only while it travels or when
\* the node that holds it restarts, and done with once it ran or was refused.
ImplementsCommands == Commands!Spec

\* With no fault and every hop shorter than the listen window, every command
\* ends: it runs, or somebody refuses it.
EveryCommandEnds ==
  \A k \in 1 .. MaxCmds :
    FateOf(k) \in {"travelling", "held"} ~> FateOf(k) \in {"ran", "refused"}
=============================================================================
