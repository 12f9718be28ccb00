--------------------------- MODULE HAPStackProofs ---------------------------
(***************************************************************************)
(* Theorems about HAPStack, for every set of nodes, every topology (loops    *)
(* and half-made bindings included), every wire and every bound.            *)
(***************************************************************************)
EXTENDS HAPStack, TLAPS, SequenceTheorems

USE RouterAssumption, StackAssumption

-----------------------------------------------------------------------------
(* Types *)

Bindings ==
  /\ parent \in [Node -> Node \cup {NoNode}]
  /\ children \in [Node -> [Index -> Child \cup {NoChild}]]

Run == [cmd : Nat, at : Node]

\* The state records the handlers' operators work on.
State ==
  [air : [Node -> [Node -> Seq(Frame)]],
   queue : [Node -> [Index -> Frame \cup {NoFrame}]],
   seq : [Node -> Seqs], cmds : Seq(Command), ran : Seq(Run),
   refused : SUBSET Nat]

\* A path loses its first hop and stays a path.
LEMMA ShiftType ==
  ASSUME NEW p \in Path, p # <<>>
  PROVE  Shift(p) \in Path /\ Head(p) \in Hop
  BY DEF Path, Shift, Hop

\* A path that is not full takes one more hop.
LEMMA PrependType ==
  ASSUME NEW p \in Path, ~PathIsFull(p), NEW h \in Hop
  PROVE  Prepend(h, p) \in Path
  BY DEF Path, Prepend, PathIsFull, Hop

\* childByMac() names an index in use that holds that address, or none.
LEMMA ChildByMacType ==
  ASSUME NEW t \in [Index -> Child \cup {NoChild}], NEW m
  PROVE  /\ ChildByMac(t, m) = 0 \/ ChildByMac(t, m) \in IndicesOf(t, m)
         /\ ChildByMac(t, m) \in 0 .. MaxHop
  BY DEF ChildByMac, IndicesOf, Used, Index

LEMMA TransmitType ==
  ASSUME NEW s \in State, NEW a \in Node, NEW b \in Node, NEW f \in Frame
  PROVE  Transmit(s, a, b, f) \in State
<1>1. Append(s.air[a][b], f) \in Seq(Frame)
  BY DEF State
<1> QED BY <1>1 DEF Transmit, State

LEMMA NextSeqType ==
  ASSUME NEW s \in State, NEW n \in Node
  PROVE  NextSeq(s, n) \in Seqs
  BY DEF State, NextSeq, Seqs

LEMMA UpwardType ==
  ASSUME NEW n \in Node, NEW type \in {"Report"} \cup Answers, NEW number \in Seqs,
         NEW about \in Seqs, NEW hop \in 0 .. MaxHop, NEW cmd \in Nat
  PROVE  Upward(n, type, number, about, hop, cmd) \in Frame
<1>1. <<>> \in Path
  BY DEF Path
<1> QED BY <1>1 DEF Upward, Frame

LEMMA SendUpstreamType ==
  ASSUME Bindings, NEW s \in State, NEW n \in Node, NEW type \in {"Report"} \cup Answers,
         NEW about \in Seqs, NEW hop \in 0 .. MaxHop, NEW cmd \in Nat
  PROVE  SendUpstream(s, n, type, about, hop, cmd) \in State
<1> DEFINE f == Upward(n, type, NextSeq(s, n), about, hop, cmd)
           t == [s EXCEPT !.seq[n] = NextSeq(s, n)]
<1>1. CASE parent[n] = NoNode
  BY <1>1 DEF SendUpstream
<1>2. CASE parent[n] # NoNode
  <2>1. f \in Frame
    BY NextSeqType, UpwardType
  <2>2. t \in State
    BY NextSeqType DEF State
  <2>3. parent[n] \in Node
    BY <1>2 DEF Bindings
  <2>4. Transmit(t, n, parent[n], f) \in State
    BY <2>1, <2>2, <2>3, TransmitType
  <2> QED BY <1>2, <2>4 DEF SendUpstream
<1> QED BY <1>1, <1>2

LEMMA RespondType ==
  ASSUME Bindings, NEW s \in State, NEW n \in Node, NEW f \in Frame
  PROVE  Respond(s, n, f) \in State
<1> DEFINE g == Upward(n, "WriteResponse", f.seq, f.seq, 0, f.cmd)
<1>1. g \in Frame
  <2>1. f.seq \in Seqs /\ f.cmd \in Nat
    BY DEF Frame
  <2> QED BY <2>1, UpwardType DEF Answers
<1>2. CASE parent[n] = NoNode
  BY <1>2 DEF Respond
<1>3. CASE parent[n] # NoNode
  <2>1. parent[n] \in Node
    BY <1>3 DEF Bindings
  <2> QED BY <1>1, <1>3, <2>1, TransmitType DEF Respond
<1> QED BY <1>2, <1>3

LEMMA HandleRequestType ==
  ASSUME Bindings, NEW s \in State, NEW n \in Node, NEW f \in Frame
  PROVE  HandleRequest(s, n, f) \in State
<1> DEFINE t == [s EXCEPT !.ran = Append(@, [cmd |-> f.cmd, at |-> n])]
<1>1. [cmd |-> f.cmd, at |-> n] \in Run
  BY DEF Frame, Run
<1>2. Append(s.ran, [cmd |-> f.cmd, at |-> n]) \in Seq(Run)
  BY <1>1 DEF State
<1>3. t \in State
  BY <1>2 DEF State
<1> QED BY <1>3, RespondType DEF HandleRequest

LEMMA RefuseType ==
  ASSUME NEW s \in State, NEW cmd \in Nat
  PROVE  Refuse(s, cmd) \in State
  BY DEF Refuse, State

LEMMA ForwardToChildType ==
  ASSUME Bindings, NEW s \in State, NEW n \in Node, NEW f \in Frame,
         NEW i \in Used(children[n])
  PROVE  ForwardToChild(s, n, f, i) \in State
<1> DEFINE c == children[n][i].mac
<1>1. i \in Index /\ c \in Node
  BY DEF Used, Bindings, Child
<1>2. CASE c \notin Battery
  BY <1>1, <1>2, TransmitType DEF ForwardToChild
<1>3. CASE c \in Battery /\ s.queue[n][i] = NoFrame
  <2>1. [f EXCEPT !.queued = TRUE] \in Frame
    BY DEF Frame
  <2>2. [s EXCEPT !.queue[n][i] = [f EXCEPT !.queued = TRUE]] \in State
    BY <1>1, <2>1 DEF State
  <2> QED BY <1>3, <2>2 DEF ForwardToChild
<1>4. CASE c \in Battery /\ s.queue[n][i] # NoFrame
  <2>1. f.cmd \in Nat /\ f.seq \in Seqs
    BY DEF Frame
  <2>2. SendUpstream(Refuse(s, f.cmd), n, "Nack", f.seq, 0, f.cmd) \in State
    BY <2>1, RefuseType, SendUpstreamType DEF Answers
  <2> QED BY <1>4, <2>2 DEF ForwardToChild
<1> QED BY <1>2, <1>3, <1>4

\* Where resolveDownstream() sends a frame, and that it stays a frame.
LEMMA ResolveType ==
  ASSUME Bindings, NEW n \in Node, NEW f \in Frame
  PROVE  LET d == ResolveDownstream(RouterOf(n), f) IN
         /\ d.frame \in Frame /\ d.child \in 0 .. MaxHop
         /\ d.action \in {"Deliver", "ToChild", "Drop"}
         /\ d.action = "Deliver" => d.frame = f /\ f.dest = <<>>
         /\ d.action = "ToChild" =>
              /\ f.dest # <<>> /\ d.child = Head(f.dest)
              /\ d.child \in Used(children[n])
              /\ d.frame = [f EXCEPT !.dest = Shift(@)]
         /\ d.action = "Drop" => d.frame = f
<1> DEFINE i == Head(f.dest)
           g == [f EXCEPT !.dest = Shift(@)]
<1>1. CASE f.dest = <<>>
  BY <1>1 DEF ResolveDownstream, Decision
<1>2. CASE f.dest # <<>>
  <2>1. i \in Hop /\ Shift(f.dest) \in Path
    BY <1>2, ShiftType DEF Frame
  <2>2. g \in Frame
    BY <2>1 DEF Frame
  <2>3. RouterOf(n).children = children[n]
    BY DEF RouterOf
  <2>4. CASE i \in Used(children[n])
    BY <1>2, <2>1, <2>2, <2>3, <2>4 DEF ResolveDownstream, Decision, Hop
  <2>5. CASE i \notin Used(children[n])
    BY <1>2, <2>1, <2>3, <2>5 DEF ResolveDownstream, Decision, Drop, Hop
  <2> QED BY <2>4, <2>5
<1> QED BY <1>1, <1>2

LEMMA SendDownstreamType ==
  ASSUME Bindings, NEW s \in State, NEW n \in Node, NEW dest \in Path,
         NEW ack \in BOOLEAN, NEW heard \in Node \cup {NoNode}
  PROVE  SendDownstream(s, n, dest, ack, heard) \in State
<1> DEFINE number == NextSeq(s, n)
           cmd == Len(s.cmds) + 1
           c == [by |-> n, seq |-> number, dest |-> dest, ack |-> ack, heard |-> heard]
           issued == [s EXCEPT !.seq[n] = number, !.cmds = Append(@, c)]
           f == [type |-> "WriteRequest", upstream |-> FALSE, ack |-> ack,
                 queued |-> FALSE, seq |-> number, dest |-> dest, src |-> <<>>,
                 about |-> 0, hop |-> 0, by |-> n, cmd |-> cmd]
           d == ResolveDownstream(RouterOf(n), f)
<1>1. number \in Seqs /\ cmd \in Nat
  <2>1. s.cmds \in Seq(Command)
    BY DEF State
  <2> QED BY <2>1, NextSeqType
<1>2. f \in Frame
  <2>1. <<>> \in Path
    BY DEF Path
  <2> QED BY <1>1, <2>1 DEF Frame, Seqs
<1>3. issued \in State
  <2>1. Append(s.cmds, c) \in Seq(Command)
    BY <1>1 DEF Command, State
  <2> QED BY <1>1, <2>1 DEF State
<1>4. HandleRequest(issued, n, f) \in State
  BY <1>2, <1>3, HandleRequestType
<1>5. d.action = "ToChild" => ForwardToChild(issued, n, d.frame, d.child) \in State
  BY <1>2, <1>3, ResolveType, ForwardToChildType
<1>6. Refuse(issued, cmd) \in State
  BY <1>1, <1>3, RefuseType
<1>7. SendDownstream(s, n, dest, ack, heard) =
        IF d.action = "Deliver" THEN HandleRequest(issued, n, f)
        ELSE IF d.action = "ToChild" THEN ForwardToChild(issued, n, d.frame, d.child)
        ELSE Refuse(issued, cmd)
  BY Zenon DEF SendDownstream
<1> HIDE DEF d, f, issued, cmd
<1> QED BY <1>4, <1>5, <1>6, <1>7

LEMMA DeliverLinksType ==
  ASSUME Bindings, NEW s \in State, NEW n \in Node, NEW src, NEW maker \in Node
  PROVE  DeliverLinks(s, n, src, maker) \in State
<1> DEFINE l == CHOOSE l \in LinksFrom(n, src) : TRUE
<1>1. CASE LinksFrom(n, src) = {}
  BY <1>1 DEF DeliverLinks
<1>2. CASE LinksFrom(n, src) # {}
  <2>1. l \in LinksFrom(n, src)
    BY <1>2
  <2>2. l.dest \in Path
    BY <2>1 DEF LinksFrom
  <2> QED BY <1>2, <2>2, SendDownstreamType DEF DeliverLinks
<1> QED BY <1>1, <1>2

LEMMA FlushQueueType ==
  ASSUME Bindings, NEW s \in State, NEW n \in Node,
         NEW i, i = 0 \/ i \in Used(children[n])
  PROVE  FlushQueue(s, n, i) \in State
<1>1. CASE i = 0
  BY <1>1 DEF FlushQueue
<1>2. CASE i \in Used(children[n])
  <2> DEFINE c == children[n][i].mac
             t == [s EXCEPT !.queue[n][i] = NoFrame]
  <2>1. i \in Index /\ c \in Node /\ i # 0
    BY <1>2 DEF Used, Bindings, Child, Index
  <2>2. CASE c \notin Battery \/ s.queue[n][i] = NoFrame
    BY <2>1, <2>2 DEF FlushQueue
  <2>3. CASE ~(c \notin Battery \/ s.queue[n][i] = NoFrame)
    <3>1. s.queue[n][i] \in Frame
      BY <2>1, <2>3 DEF State
    <3>2. t \in State
      BY <2>1 DEF State
    <3>3. Transmit(t, n, c, s.queue[n][i]) \in State
      BY <2>1, <3>1, <3>2, TransmitType
    <3> QED BY <2>1, <2>3, <3>3 DEF FlushQueue
  <2> QED BY <2>2, <2>3
<1> QED BY <1>1, <1>2

\* What the router decides about a frame that n hears from another node.
Sender(n, from) == ChildByMac(children[n], from)
Climbed(n, from, f) == [f EXCEPT !.src = Prepend(Sender(n, from), @)]

LEMMA RouteType ==
  ASSUME Bindings, NEW n \in Node, NEW from \in Node, NEW f \in Frame
  PROVE  LET d == Route(RouterOf(n), f, from) IN
         /\ d.frame \in Frame /\ d.child \in 0 .. MaxHop
         /\ d.action = "ToParent" =>
              /\ f.upstream /\ parent[n] \in Node
              /\ Sender(n, from) \in IndicesOf(children[n], from)
              /\ d.frame = Climbed(n, from, f)
         /\ d.action = "ToChild" =>
              /\ ~f.upstream /\ f.dest # <<>> /\ d.child = Head(f.dest)
              /\ d.child \in Used(children[n])
              /\ d.frame = [f EXCEPT !.dest = Shift(@)]
         /\ d.action = "Deliver" =>
              \/ /\ f.upstream /\ d.frame = Climbed(n, from, f)
                 /\ Sender(n, from) \in IndicesOf(children[n], from)
              \/ ~f.upstream /\ d.frame = f /\ f.dest = <<>>
         /\ d.action = "Drop" => d.frame = f
<1> DEFINE r == RouterOf(n)
           fromParent == r.parent # NoNode /\ from = r.parent
           d == Route(r, f, from)
           up == RouteUpstream(r, f, Sender(n, from))
           down == ResolveDownstream(r, f)
<1>1. r.parent = parent[n] /\ r.children = children[n]
  BY DEF RouterOf
<1>2. children[n] \in [Index -> Child \cup {NoChild}]
  BY DEF Bindings
<1>3. Drop(f, 0, "NotBound").frame = f /\ Drop(f, 0, "BadRequest").frame = f
      /\ Drop(f, 0, "NotBound").action = "Drop" /\ Drop(f, 0, "BadRequest").action = "Drop"
      /\ Drop(f, 0, "NotBound").child = 0 /\ Drop(f, 0, "BadRequest").child = 0
  BY DEF Drop, Decision
<1>4. \/ d = Drop(f, 0, "NotBound")
      \/ d = Drop(f, 0, "BadRequest")
      \/ f.upstream /\ Sender(n, from) # 0 /\ d = up
      \/ ~f.upstream /\ d = down
  BY <1>1, Zenon DEF Route, Sender
<1>5. CASE d = Drop(f, 0, "NotBound") \/ d = Drop(f, 0, "BadRequest")
  BY <1>3, <1>5
<1>6. CASE f.upstream /\ Sender(n, from) # 0 /\ d = up
  <2>1. Sender(n, from) \in IndicesOf(children[n], from) /\ Sender(n, from) \in Hop
    BY <1>2, <1>6, ChildByMacType DEF Sender, Hop, IndicesOf, Used, Index
  <2>2. CASE PathIsFull(f.src)
    <3>1. up.frame = f /\ up.action = "Drop" /\ up.child = Sender(n, from)
      BY <2>2 DEF RouteUpstream, Drop, Decision
    <3> QED BY <1>6, <2>1, <3>1 DEF Hop
  <2>3. CASE ~PathIsFull(f.src)
    <3>1. f.src \in Path
      BY DEF Frame
    <3>2. Climbed(n, from, f) \in Frame
      <4>1. Prepend(Sender(n, from), f.src) \in Path
        BY <2>1, <2>3, <3>1, PrependType
      <4> QED BY <4>1 DEF Climbed, Frame
    <3>3. /\ up.frame = Climbed(n, from, f) /\ up.child = 0
          /\ up.action = IF parent[n] # NoNode THEN "ToParent" ELSE "Deliver"
      BY <1>1, <2>3 DEF RouteUpstream, Decision, Climbed
    <3>4. parent[n] # NoNode => parent[n] \in Node
      BY DEF Bindings
    <3> QED BY <1>6, <2>1, <3>2, <3>3, <3>4
  <2> QED BY <2>2, <2>3
<1>7. CASE ~f.upstream /\ d = down
  BY <1>7, ResolveType
<1> QED BY <1>4, <1>5, <1>6, <1>7

-----------------------------------------------------------------------------
(* Type correctness *)

LEMMA NowType ==
  ASSUME TypeOK
  PROVE  Bindings /\ Now \in State
  BY DEF TypeOK, Bindings, Now, State, Run

\* A handler's result is a state of the right type.
LEMMA BecomeType ==
  ASSUME TypeOK, NEW s \in State, Become(s), UNCHANGED binding,
         awake' \in [Node -> BOOLEAN], faults' \in Nat, answers' \subseteq Answer
  PROVE  TypeOK'
  BY DEF TypeOK, Become, binding, State, Run

LEMMA BecomeFlushedType ==
  ASSUME TypeOK, NEW s \in State, NEW from \in Node, NEW n \in Node,
         BecomeFlushed(s, from, n), UNCHANGED <<binding, awake>>,
         answers' \subseteq Answer
  PROVE  TypeOK'
<1> DEFINE i == ChildByMac(children[n], from)
           flushed == FlushQueue(s, n, i)
<1>1. Bindings
  BY NowType
<1>2. i = 0 \/ i \in Used(children[n])
  <2>1. children[n] \in [Index -> Child \cup {NoChild}]
    BY <1>1 DEF Bindings
  <2> QED BY <2>1, ChildByMacType DEF IndicesOf
<1>3. flushed \in State
  BY <1>1, <1>2, FlushQueueType
<1>4. /\ Become(flushed) \/ Become(s)
      /\ faults' = faults \/ faults' = faults + 1
  BY DEF BecomeFlushed
<1>5. awake' \in [Node -> BOOLEAN] /\ faults' \in Nat
  BY <1>4 DEF TypeOK
<1> QED BY <1>3, <1>4, <1>5, BecomeType

LEMMA ArrivingType ==
  ASSUME TypeOK, NEW from \in Node, NEW n \in Node, air[from][n] # <<>>
  PROVE  Arriving(from, n) \in Frame /\ Taken(from, n) \in State
<1>1. air[from][n] \in Seq(Frame)
  BY DEF TypeOK
<1>2. Arriving(from, n) \in Frame /\ Tail(air[from][n]) \in Seq(Frame)
  BY <1>1 DEF Arriving
<1>3. Now \in State
  BY NowType
<1>4. Now.air = air
  BY DEF Now
<1> QED BY <1>2, <1>3, <1>4 DEF Taken, State

LEMMA TapType ==
  ASSUME Bindings, NEW s \in State, NEW n \in Node, NEW f \in Frame
  PROVE  Tap(s, n, f) \in State
<1>1. f.by \in Node
  BY DEF Frame
<1> QED BY <1>1, DeliverLinksType DEF Tap

LEMMA ReceiveType ==
  ASSUME TypeOK, NEW from \in Node, NEW n \in Node, Receive(from, n)
  PROVE  TypeOK'
<1> DEFINE d == DecisionOn(from, n)
<1>1. air[from][n] # <<>> /\ UNCHANGED <<binding, awake>>
  BY DEF Receive, PassToParent, PassToChild, DeliverRequest, DeliverNews, DropFrame, OnFrame
<1>2. Arriving(from, n) \in Frame /\ Taken(from, n) \in State /\ Bindings
  BY <1>1, ArrivingType, NowType
<1>3. d.frame \in Frame /\ d.child \in 0 .. MaxHop
  BY <1>2, RouteType DEF DecisionOn
<1>4. answers \subseteq Answer
  BY DEF TypeOK
<1>5. CASE PassToParent(from, n)
  <2>1. parent[n] \in Node
    <3>1. d.action = "ToParent"
      BY <1>5 DEF PassToParent, OnFrame
    <3> QED BY <1>2, <3>1, RouteType DEF DecisionOn
  <2>2. Transmit(Tap(Taken(from, n), n, d.frame), n, parent[n], d.frame) \in State
    BY <1>2, <1>3, <2>1, TapType, TransmitType
  <2> QED BY <1>1, <1>4, <1>5, <2>2, BecomeFlushedType DEF PassToParent
<1>6. CASE PassToChild(from, n)
  <2>1. d.child \in Used(children[n])
    <3>1. d.action = "ToChild"
      BY <1>6 DEF PassToChild, OnFrame
    <3> QED BY <1>2, <3>1, RouteType DEF DecisionOn
  <2>2. ForwardToChild(Taken(from, n), n, d.frame, d.child) \in State
    BY <1>2, <1>3, <2>1, ForwardToChildType
  <2> QED BY <1>1, <1>4, <1>6, <2>2, BecomeFlushedType DEF PassToChild
<1>7. CASE DeliverRequest(from, n)
  <2>1. HandleRequest(Taken(from, n), n, d.frame) \in State
    BY <1>2, <1>3, HandleRequestType
  <2> QED BY <1>1, <1>4, <1>7, <2>1, BecomeFlushedType DEF DeliverRequest
<1>8. CASE DeliverNews(from, n)
  <2> DEFINE f == d.frame
             w == [at |-> n, type |-> f.type, about |-> f.about, src |-> f.src,
                   hop |-> f.hop, cmd |-> f.cmd]
  <2>1. Tap(Taken(from, n), n, f) \in State
    BY <1>2, <1>3, TapType
  <2>2. f.type \notin {"Report", "WriteRequest"} => w \in Answer
    BY <1>3 DEF Frame, Answer
  <2>3. f.type # "WriteRequest" /\ answers' = IF f.type = "Report" THEN answers ELSE answers \cup {w}
    BY <1>8 DEF DeliverNews
  <2>4. answers' \subseteq Answer
    BY <1>4, <2>2, <2>3
  <2> QED BY <1>1, <1>8, <2>1, <2>4, BecomeFlushedType DEF DeliverNews
<1>9. CASE DropFrame(from, n)
  <2> DEFINE s == Taken(from, n)
             refusal == SendUpstream(Refuse(s, d.frame.cmd), n, "RouteError", d.frame.seq,
                                     d.child, d.frame.cmd)
  <2>1. d.frame.cmd \in Nat /\ d.frame.seq \in Seqs
    BY <1>3 DEF Frame
  <2>2. refusal \in State
    BY <1>2, <1>3, <2>1, RefuseType, SendUpstreamType DEF Answers
  <2>3. (IF d.reason = "NoSuchChild" THEN refusal ELSE s) \in State
    BY <1>2, <2>2
  <2> QED BY <1>1, <1>4, <1>9, <2>3, BecomeFlushedType DEF DropFrame
<1> QED BY <1>5, <1>6, <1>7, <1>8, <1>9 DEF Receive

LEMMA InitType == Init => TypeOK
<1> SUFFICES ASSUME Init PROVE TypeOK
  OBVIOUS
<1>1. parent \in [Node -> Node \cup {NoNode}] /\ children \in [Node -> [Index -> Child \cup {NoChild}]]
  BY DEF Init, Topology
<1> QED BY <1>1 DEF Init, TypeOK, Seqs

LEMMA NextType == TypeOK /\ [Next]_vars => TypeOK'
<1> SUFFICES ASSUME TypeOK, [Next]_vars PROVE TypeOK'
  OBVIOUS
<1>1. Bindings /\ Now \in State
  BY NowType
<1>2. ASSUME NEW n \in Commanders, NEW dest \in Destinations, RequestWrite(n, dest)
      PROVE  TypeOK'
  <2>1. SendDownstream(Now, n, dest, TRUE, NoNode) \in State
    BY <1>1, SendDownstreamType
  <2> QED BY <1>2, <2>1, BecomeType DEF RequestWrite, TypeOK
<1>3. ASSUME NEW n \in Reporters, SendReport(n) PROVE TypeOK'
  <2>1. DeliverLinks(Now, n, <<>>, n) \in State
    BY <1>1, DeliverLinksType
  <2>2. 0 \in Seqs /\ 0 \in 0 .. MaxHop
    BY DEF Seqs
  <2>3. SendUpstream(DeliverLinks(Now, n, <<>>, n), n, "Report", 0, 0, 0) \in State
    BY <1>1, <2>1, <2>2, SendUpstreamType
  <2>4. awake' \in [Node -> BOOLEAN]
    BY <1>3 DEF SendReport, TypeOK
  <2> QED BY <1>3, <2>3, <2>4, BecomeType DEF SendReport, TypeOK
<1>4. ASSUME NEW n \in Battery, Doze(n) PROVE TypeOK'
  BY <1>4 DEF Doze, TypeOK, binding, history
<1>5. ASSUME NEW n \in Restarting, Reboot(n) PROVE TypeOK'
  BY <1>5 DEF Reboot, TypeOK, binding, history, Seqs
<1>6. ASSUME NEW from \in Node, NEW n \in Node, NotHeard(from, n) PROVE TypeOK'
  <2>1. Tail(air[from][n]) \in Seq(Frame)
    BY <1>6 DEF NotHeard, TypeOK
  <2>2. faults' \in Nat
    BY <1>6 DEF NotHeard, TypeOK
  <2> QED BY <1>6, <2>1, <2>2 DEF NotHeard, TypeOK, binding, history
<1>7. CASE UNCHANGED vars
  BY <1>7 DEF TypeOK, vars, binding, history
<1> QED BY <1>2, <1>3, <1>4, <1>5, <1>6, <1>7, ReceiveType DEF Next

\* Every behaviour keeps every variable, frame, path and answer in its type:
\* paths never exceed HAP_MAX_DEPTH, sequence numbers wrap.
THEOREM TypeCorrect == Spec => []TypeOK
  BY InitType, NextType, PTL DEF Spec

-----------------------------------------------------------------------------
(* Addressing.  The invariant says of every frame, wherever it is, what makes *)
(* the last hop right: a climbing frame's source path leads from the node     *)
(* that sent it last back to its maker, and wherever the rest of a descending *)
(* frame's path leads from its next node, the whole path leads from the node  *)
(* that issued the command.                                                   *)

\* A frame f on its way from a to b.
Good(s, f, a, b) ==
  /\ f.type = "WriteRequest" <=> ~f.upstream
  /\ f.upstream => Leads(a, f.src, f.by)
  /\ ~f.upstream =>
       /\ f.cmd \in DOMAIN s.cmds
       /\ \A y \in Node : Leads(b, f.dest, y) =>
                           Leads(s.cmds[f.cmd].by, s.cmds[f.cmd].dest, y)
  /\ f.type = "WriteResponse" =>
       \E k \in DOMAIN s.ran : s.ran[k].cmd = f.cmd /\ s.ran[k].at = f.by

AirGood(s) ==
  \A a, b \in Node : \A k \in DOMAIN s.air[a][b] : Good(s, s.air[a][b][k], a, b)

QueueGood(s) ==
  \A n \in Node, i \in Index : s.queue[n][i] # NoFrame =>
    /\ ~s.queue[n][i].upstream
    /\ Good(s, s.queue[n][i], n, children[n][i].mac)

RanGood(s) ==
  \A k \in DOMAIN s.ran :
    /\ s.ran[k].cmd \in DOMAIN s.cmds
    /\ Leads(s.cmds[s.ran[k].cmd].by, s.cmds[s.ran[k].cmd].dest, s.ran[k].at)

CmdsGood(s) ==
  \A k \in DOMAIN s.cmds : s.cmds[k].heard # NoNode =>
    \E l \in Links[s.cmds[k].by] :
      l.dest = s.cmds[k].dest /\ Leads(s.cmds[k].by, l.src, s.cmds[k].heard)

AnswersGood(s) ==
  \A w \in answers : w.type = "WriteResponse" =>
    \E k \in DOMAIN s.ran : s.ran[k].cmd = w.cmd /\ Leads(w.at, w.src, s.ran[k].at)

Sound(s) ==
  s \in State /\ AirGood(s) /\ QueueGood(s) /\ RanGood(s) /\ CmdsGood(s) /\ AnswersGood(s)

Addressing == TypeOK /\ Sound(Now)

\* The empty path leads to the node itself, and nowhere else.
LEMMA LeadsNowhere ==
  ASSUME NEW x \in Node, NEW y \in Node
  PROVE  Leads(x, <<>>, y) <=> y = x
<1>1. Leads(x, <<>>, y) => y = x
  BY DEF Leads
<1>2. Leads(x, <<>>, x)
  <2> DEFINE t == [k \in 1 .. 1 |-> x]
  <2>1. t \in [1 .. 1 -> Node] /\ t[1] = x
    OBVIOUS
  <2>2. Len(<<>>) + 1 = 1 /\ 1 .. Len(<<>>) = {}
    OBVIOUS
  <2> HIDE DEF t
  <2> QED BY <2>1, <2>2 DEF Leads
<1> QED BY <1>1, <1>2

\* A path from a child is, with the child's index before it, a path from the
\* parent.
LEMMA LeadsFromParent ==
  ASSUME Bindings, NEW x \in Node, NEW i \in Used(children[x]), NEW p \in Path,
         NEW y \in Node, Leads(children[x][i].mac, p, y)
  PROVE  Leads(x, Prepend(i, p), y)
<1> DEFINE c == children[x][i].mac
           q == <<i>> \o p
<1>1. PICK t \in [1 .. Len(p) + 1 -> Node] :
        /\ t[1] = c /\ t[Len(p) + 1] = y
        /\ \A k \in 1 .. Len(p) :
             p[k] \in Used(children[t[k]]) /\ children[t[k]][p[k]].mac = t[k + 1]
  BY DEF Leads
<1>2. p \in Seq(Hop) /\ Len(p) \in Nat /\ i \in Hop
  BY DEF Path, Used, Index, Hop
<1>3. Len(q) = Len(p) + 1 /\ q[1] = i /\ \A k \in 1 .. Len(p) : q[k + 1] = p[k]
  BY <1>2
<1> DEFINE u == [k \in 1 .. Len(q) + 1 |-> IF k = 1 THEN x ELSE t[k - 1]]
<1>4. u \in [1 .. Len(q) + 1 -> Node]
  BY <1>2, <1>3
<1>5. u[1] = x /\ u[Len(q) + 1] = y
  BY <1>1, <1>2, <1>3
<1>6. ASSUME NEW k \in 1 .. Len(q)
      PROVE  q[k] \in Used(children[u[k]]) /\ children[u[k]][q[k]].mac = u[k + 1]
  <2>1. CASE k = 1
    <3>1. u[1] = x /\ u[2] = t[1] /\ q[1] = i
      BY <1>2, <1>3
    <3> QED BY <1>1, <2>1, <3>1
  <2>2. CASE k # 1
    <3>1. k - 1 \in 1 .. Len(p) /\ q[k] = p[k - 1] /\ u[k] = t[k - 1] /\ u[k + 1] = t[k]
      <4>1. k - 1 \in 1 .. Len(p) /\ (k - 1) + 1 = k
        BY <1>2, <1>3, <2>2
      <4> QED BY <1>2, <1>3, <2>2, <4>1
    <3>2. (k - 1) + 1 = k
      BY <1>2, <1>3
    <3> QED BY <1>1, <3>1, <3>2
  <2> QED BY <2>1, <2>2
<1> HIDE DEF q, u
<1>7. Leads(x, q, y)
  BY <1>4, <1>5, <1>6 DEF Leads
<1> QED BY <1>7 DEF Prepend, q

\* Histories only grow, and what is good stays good.
Extends(s, t) ==
  /\ \A k \in DOMAIN s.cmds : k \in DOMAIN t.cmds /\ t.cmds[k] = s.cmds[k]
  /\ \A k \in DOMAIN s.ran : k \in DOMAIN t.ran /\ t.ran[k] = s.ran[k]

LEMMA GoodStays ==
  ASSUME NEW s, NEW t, Extends(s, t), NEW f, NEW a, NEW b, Good(s, f, a, b)
  PROVE  Good(t, f, a, b)
  BY DEF Extends, Good

LEMMA AnswersStay ==
  ASSUME NEW s, NEW t, Extends(s, t), Sound(s)
  PROVE  AnswersGood(t)
  BY DEF Extends, Sound, AnswersGood

LEMMA TransmitSound ==
  ASSUME NEW s, Sound(s), NEW a \in Node, NEW b \in Node, NEW f \in Frame,
         Good(s, f, a, b)
  PROVE  Sound(Transmit(s, a, b, f))
<1> DEFINE t == Transmit(s, a, b, f)
<1>1. s \in State /\ t \in State
  BY TransmitType DEF Sound
<1>2. /\ t.queue = s.queue /\ t.cmds = s.cmds /\ t.ran = s.ran
      /\ t.air = [s.air EXCEPT ![a][b] = Append(@, f)]
  BY <1>1 DEF Transmit, State
<1>3. Extends(s, t)
  BY <1>2 DEF Extends
<1>4. AirGood(t)
  <2> SUFFICES ASSUME NEW x \in Node, NEW y \in Node, NEW k \in DOMAIN t.air[x][y]
               PROVE  Good(t, t.air[x][y][k], x, y)
    BY DEF AirGood
  <2>1. CASE x = a /\ y = b
    <3>1. s.air[a][b] \in Seq(Frame) /\ t.air[x][y] = Append(s.air[a][b], f)
      BY <1>1, <1>2, <2>1 DEF State
    <3>2. \/ k \in DOMAIN s.air[a][b] /\ t.air[x][y][k] = s.air[a][b][k]
          \/ t.air[x][y][k] = f
      BY <3>1
    <3>3. Good(t, f, a, b)
      BY <1>3, GoodStays
    <3> QED BY <1>3, <2>1, <3>2, <3>3, GoodStays DEF Sound, AirGood
  <2>2. CASE ~(x = a /\ y = b)
    <3>1. t.air[x][y] = s.air[x][y]
      BY <1>1, <1>2, <2>2 DEF State
    <3> QED BY <1>3, <3>1, GoodStays DEF Sound, AirGood
  <2> QED BY <2>1, <2>2
<1> HIDE DEF t
<1>5. QueueGood(t)
  BY <1>2, <1>3, GoodStays DEF Sound, QueueGood
<1>6. RanGood(t) /\ CmdsGood(t) /\ AnswersGood(t)
  BY <1>2, <1>3, AnswersStay DEF Sound, RanGood, CmdsGood
<1> QED BY <1>1, <1>4, <1>5, <1>6 DEF Sound, t

\* What changes neither the air, the queue nor the histories changes nothing here.
LEMMA SameSound ==
  ASSUME NEW s, Sound(s), NEW t \in State, t.air = s.air, t.queue = s.queue,
         t.cmds = s.cmds, t.ran = s.ran
  PROVE  Sound(t)
<1>1. Extends(s, t)
  BY DEF Extends
<1>2. AirGood(t) /\ QueueGood(t)
  BY <1>1, GoodStays DEF Sound, AirGood, QueueGood
<1> QED BY <1>1, <1>2, AnswersStay DEF Sound, RanGood, CmdsGood

LEMMA RefuseSound ==
  ASSUME NEW s, Sound(s), NEW cmd \in Nat
  PROVE  Sound(Refuse(s, cmd))
<1>1. s \in State /\ Refuse(s, cmd) \in State
  BY RefuseType DEF Sound
<1> QED BY <1>1, SameSound DEF Refuse, State

\* A frame a node has just made to climb.
LEMMA UpwardGood ==
  ASSUME NEW s, NEW n \in Node, NEW type \in {"Report"} \cup Answers, NEW number, NEW about,
         NEW hop, NEW cmd, NEW b,
         type = "WriteResponse" =>
           \E k \in DOMAIN s.ran : s.ran[k].cmd = cmd /\ s.ran[k].at = n
  PROVE  Good(s, Upward(n, type, number, about, hop, cmd), n, b)
<1>1. Leads(n, <<>>, n)
  BY LeadsNowhere
<1> QED BY <1>1 DEF Good, Upward, Answers

LEMMA SendUpstreamSound ==
  ASSUME Bindings, NEW s, Sound(s), NEW n \in Node,
         NEW type \in {"Report", "Nack", "RouteError"},
         NEW about \in Seqs, NEW hop \in 0 .. MaxHop, NEW cmd \in Nat
  PROVE  Sound(SendUpstream(s, n, type, about, hop, cmd))
<1> DEFINE f == Upward(n, type, NextSeq(s, n), about, hop, cmd)
           t == [s EXCEPT !.seq[n] = NextSeq(s, n)]
<1>1. CASE parent[n] = NoNode
  BY <1>1 DEF SendUpstream
<1>2. CASE parent[n] # NoNode
  <2>1. s \in State /\ type \in {"Report"} \cup Answers
    BY DEF Sound, Answers
  <2>2. f \in Frame
    BY <2>1, NextSeqType, UpwardType
  <2>3. t \in State /\ t.air = s.air /\ t.queue = s.queue /\ t.cmds = s.cmds /\ t.ran = s.ran
    BY <2>1, NextSeqType DEF State
  <2>4. Sound(t)
    BY <2>3, SameSound
  <2>5. parent[n] \in Node
    BY <1>2 DEF Bindings
  <2>6. Good(t, f, n, parent[n])
    BY <2>1, UpwardGood
  <2>7. Sound(Transmit(t, n, parent[n], f))
    BY <2>2, <2>4, <2>5, <2>6, TransmitSound
  <2> QED BY <1>2, <2>7 DEF SendUpstream
<1> QED BY <1>1, <1>2

\* A request runs where its path ended, and its answer starts there.
LEMMA HandleRequestSound ==
  ASSUME Bindings, NEW s, Sound(s), NEW n \in Node, NEW f \in Frame,
         f.cmd \in DOMAIN s.cmds, Leads(s.cmds[f.cmd].by, s.cmds[f.cmd].dest, n)
  PROVE  Sound(HandleRequest(s, n, f))
<1> DEFINE r == [cmd |-> f.cmd, at |-> n]
           t == [s EXCEPT !.ran = Append(@, r)]
           g == Upward(n, "WriteResponse", f.seq, f.seq, 0, f.cmd)
<1>1. s \in State /\ r \in Run /\ f.seq \in Seqs /\ f.cmd \in Nat
  BY DEF Sound, Run, Frame
<1>2. s.ran \in Seq(Run)
  BY <1>1 DEF State
<1>3. Append(s.ran, r) \in Seq(Run)
  BY <1>1, <1>2
<1>4. /\ t \in State /\ t.air = s.air /\ t.queue = s.queue /\ t.cmds = s.cmds
      /\ t.ran = Append(s.ran, r)
  BY <1>1, <1>3 DEF State
<1>5. /\ \A k \in DOMAIN s.ran : k \in DOMAIN t.ran /\ t.ran[k] = s.ran[k]
      /\ \A k \in DOMAIN t.ran :
           (k \in DOMAIN s.ran /\ t.ran[k] = s.ran[k]) \/ t.ran[k] = r
      /\ Len(s.ran) + 1 \in DOMAIN t.ran /\ t.ran[Len(s.ran) + 1] = r
  BY <1>2, <1>4
<1> HIDE DEF t
<1>6. Extends(s, t)
  BY <1>4, <1>5 DEF Extends
<1>7. AirGood(t) /\ QueueGood(t)
  BY <1>4, <1>6, GoodStays DEF Sound, AirGood, QueueGood
<1>8. RanGood(t) /\ CmdsGood(t)
  <2>1. r.cmd = f.cmd /\ r.at = n
    OBVIOUS
  <2> HIDE DEF r
  <2> QED BY <1>4, <1>5, <2>1 DEF Sound, RanGood, CmdsGood
<1>9. Sound(t)
  BY <1>4, <1>6, <1>7, <1>8, AnswersStay DEF Sound
<1>10. Sound(Respond(t, n, f))
  <2>1. CASE parent[n] = NoNode
    BY <1>9, <2>1 DEF Respond
  <2>2. CASE parent[n] # NoNode
    <3>1. g \in Frame /\ parent[n] \in Node
      BY <1>1, <2>2, UpwardType DEF Answers, Bindings
    <3>2. \E k \in DOMAIN t.ran : t.ran[k].cmd = f.cmd /\ t.ran[k].at = n
      BY <1>5
    <3>3. Good(t, g, n, parent[n])
      BY <3>2, UpwardGood DEF Answers
    <3> QED BY <1>9, <2>2, <3>1, <3>3, TransmitSound DEF Respond
  <2> QED BY <2>1, <2>2
<1> QED BY <1>10 DEF HandleRequest, t

\* Shifting the path while stepping to the child it names keeps the target.
LEMMA DescendGood ==
  ASSUME Bindings, NEW s, NEW n \in Node, NEW f \in Frame, NEW a, NEW b,
         ~f.upstream, f.dest # <<>>, Head(f.dest) \in Used(children[n]), Good(s, f, a, n)
  PROVE  Good(s, [f EXCEPT !.dest = Shift(@)], b, children[n][Head(f.dest)].mac)
<1> DEFINE i == Head(f.dest)
           g == [f EXCEPT !.dest = Shift(@)]
           c == children[n][i].mac
<1>1. f.dest \in Path /\ f.type # "WriteResponse"
  BY DEF Frame, Good
<1>2. Shift(f.dest) \in Path /\ f.dest = Prepend(i, Shift(f.dest))
  <2>1. f.dest \in Seq(Hop) /\ f.dest = <<i>> \o Tail(f.dest)
    BY <1>1 DEF Path
  <2> QED BY <1>1, <2>1, ShiftType DEF Prepend, Shift
<1>3. /\ g.type = f.type /\ g.upstream = f.upstream /\ g.cmd = f.cmd
      /\ g.dest = Shift(f.dest)
  BY DEF Frame
<1>4. \A y \in Node : Leads(c, Shift(f.dest), y) => Leads(n, f.dest, y)
  BY <1>2, LeadsFromParent
<1> HIDE DEF g, c
<1>5. Good(s, g, b, c)
  BY <1>1, <1>3, <1>4 DEF Good
<1> QED BY <1>5 DEF g, c

LEMMA ForwardToChildSound ==
  ASSUME Bindings, NEW s, Sound(s), NEW n \in Node, NEW f \in Frame,
         NEW i \in Used(children[n]), ~f.upstream, Good(s, f, n, children[n][i].mac)
  PROVE  Sound(ForwardToChild(s, n, f, i))
<1> DEFINE c == children[n][i].mac
<1>1. i \in Index /\ c \in Node /\ s \in State
  BY DEF Used, Bindings, Child, Sound
<1>2. CASE c \notin Battery
  BY <1>1, <1>2, TransmitSound DEF ForwardToChild
<1>3. CASE c \in Battery /\ s.queue[n][i] = NoFrame
  <2> DEFINE g == [f EXCEPT !.queued = TRUE]
             t == [s EXCEPT !.queue[n][i] = g]
  <2>1. /\ g \in Frame /\ g.type = f.type /\ g.upstream = f.upstream /\ g.cmd = f.cmd
        /\ g.dest = f.dest /\ g.src = f.src /\ g.by = f.by
    BY DEF Frame
  <2>2. /\ t \in State /\ t.air = s.air /\ t.cmds = s.cmds /\ t.ran = s.ran
        /\ t.queue = [s.queue EXCEPT ![n][i] = g]
    BY <1>1, <2>1 DEF State
  <2> HIDE DEF g, t
  <2>3. Extends(s, t)
    BY <2>2 DEF Extends
  <2>4. Good(t, g, n, c)
    BY <2>1, <2>2 DEF Good
  <2>5. QueueGood(t)
    <3> SUFFICES ASSUME NEW m \in Node, NEW j \in Index, t.queue[m][j] # NoFrame
                 PROVE  ~t.queue[m][j].upstream /\ Good(t, t.queue[m][j], m, children[m][j].mac)
      BY DEF QueueGood
    <3>1. CASE m = n /\ j = i
      <4>1. t.queue[m][j] = g
        BY <1>1, <2>2, <3>1 DEF State
      <4> QED BY <2>1, <2>4, <3>1, <4>1
    <3>2. CASE ~(m = n /\ j = i)
      <4>1. t.queue[m][j] = s.queue[m][j]
        BY <1>1, <2>2, <3>2 DEF State
      <4> QED BY <2>3, <4>1, GoodStays DEF Sound, QueueGood
    <3> QED BY <3>1, <3>2
  <2>6. AirGood(t) /\ RanGood(t) /\ CmdsGood(t)
    BY <2>2, <2>3, GoodStays DEF Sound, AirGood, RanGood, CmdsGood
  <2>7. Sound(t)
    BY <2>2, <2>3, <2>5, <2>6, AnswersStay DEF Sound
  <2> QED BY <1>3, <2>7 DEF ForwardToChild, t, g
<1>4. CASE c \in Battery /\ s.queue[n][i] # NoFrame
  <2>1. f.cmd \in Nat /\ f.seq \in Seqs
    BY DEF Frame
  <2>2. Sound(SendUpstream(Refuse(s, f.cmd), n, "Nack", f.seq, 0, f.cmd))
    BY <2>1, RefuseSound, SendUpstreamSound
  <2> QED BY <1>4, <2>2 DEF ForwardToChild
<1> QED BY <1>2, <1>3, <1>4

LEMMA SendDownstreamSound ==
  ASSUME Bindings, NEW s, Sound(s), NEW n \in Node, NEW dest \in Path,
         NEW ack \in BOOLEAN, NEW heard \in Node \cup {NoNode},
         heard # NoNode => \E l \in Links[n] : l.dest = dest /\ Leads(n, l.src, heard)
  PROVE  Sound(SendDownstream(s, n, dest, ack, heard))
<1> DEFINE number == NextSeq(s, n)
           cmd == Len(s.cmds) + 1
           c == [by |-> n, seq |-> number, dest |-> dest, ack |-> ack, heard |-> heard]
           issued == [s EXCEPT !.seq[n] = number, !.cmds = Append(@, c)]
           f == [type |-> "WriteRequest", upstream |-> FALSE, ack |-> ack,
                 queued |-> FALSE, seq |-> number, dest |-> dest, src |-> <<>>,
                 about |-> 0, hop |-> 0, by |-> n, cmd |-> cmd]
           d == ResolveDownstream(RouterOf(n), f)
<1>1. s \in State /\ s.cmds \in Seq(Command) /\ number \in Seqs /\ cmd \in Nat
  <2>1. s \in State /\ s.cmds \in Seq(Command)
    BY DEF Sound, State
  <2> QED BY <2>1, NextSeqType
<1>2. f \in Frame
  <2>1. <<>> \in Path
    BY DEF Path
  <2> QED BY <1>1, <2>1 DEF Frame, Seqs
<1>3. Append(s.cmds, c) \in Seq(Command)
  BY <1>1 DEF Command
<1>4. /\ issued \in State /\ issued.air = s.air /\ issued.queue = s.queue
      /\ issued.ran = s.ran /\ issued.cmds = Append(s.cmds, c)
  BY <1>1, <1>3 DEF State
<1>5. /\ \A k \in DOMAIN s.cmds : k \in DOMAIN issued.cmds /\ issued.cmds[k] = s.cmds[k]
      /\ \A k \in DOMAIN issued.cmds :
           (k \in DOMAIN s.cmds /\ issued.cmds[k] = s.cmds[k]) \/ issued.cmds[k] = c
      /\ cmd \in DOMAIN issued.cmds /\ issued.cmds[cmd] = c
  BY <1>1, <1>4
<1>6. c.by = n /\ c.dest = dest /\ c.heard = heard
  OBVIOUS
<1>7. /\ f.type = "WriteRequest" /\ ~f.upstream /\ f.cmd = cmd /\ f.dest = dest
  OBVIOUS
<1>8. SendDownstream(s, n, dest, ack, heard) =
        IF d.action = "Deliver" THEN HandleRequest(issued, n, f)
        ELSE IF d.action = "ToChild" THEN ForwardToChild(issued, n, d.frame, d.child)
        ELSE Refuse(issued, cmd)
  BY Zenon DEF SendDownstream
<1> HIDE DEF issued, c, f, cmd, d
<1>9. Extends(s, issued)
  BY <1>4, <1>5 DEF Extends
<1>10. Sound(issued)
  <2>1. AirGood(issued) /\ QueueGood(issued)
    BY <1>4, <1>9, GoodStays DEF Sound, AirGood, QueueGood
  <2>2. RanGood(issued)
    BY <1>4, <1>5 DEF Sound, RanGood
  <2>3. CmdsGood(issued)
    BY <1>5, <1>6 DEF Sound, CmdsGood
  <2> QED BY <1>4, <1>9, <2>1, <2>2, <2>3, AnswersStay DEF Sound
<1>11. Good(issued, f, n, n)
  BY <1>5, <1>6, <1>7 DEF Good
<1>12. d = ResolveDownstream(RouterOf(n), f)
  BY DEF d
<1>13. d.action = "Deliver" => Sound(HandleRequest(issued, n, f))
  <2> SUFFICES ASSUME d.action = "Deliver" PROVE Sound(HandleRequest(issued, n, f))
    OBVIOUS
  <2>1. f.dest = <<>>
    BY <1>2, <1>12, ResolveType
  <2>2. Leads(n, f.dest, n)
    BY <2>1, LeadsNowhere
  <2>3. f.cmd \in DOMAIN issued.cmds /\ Leads(issued.cmds[f.cmd].by, issued.cmds[f.cmd].dest, n)
    BY <1>7, <1>11, <2>2 DEF Good
  <2> QED BY <1>2, <1>10, <2>3, HandleRequestSound
<1>14. d.action = "ToChild" => Sound(ForwardToChild(issued, n, d.frame, d.child))
  <2> SUFFICES ASSUME d.action = "ToChild"
               PROVE  Sound(ForwardToChild(issued, n, d.frame, d.child))
    OBVIOUS
  <2>1. /\ f.dest # <<>> /\ d.child = Head(f.dest) /\ d.child \in Used(children[n])
        /\ d.frame = [f EXCEPT !.dest = Shift(@)] /\ d.frame \in Frame
    BY <1>2, <1>12, ResolveType
  <2>2. Good(issued, d.frame, n, children[n][d.child].mac) /\ ~d.frame.upstream
    <3>1. ~d.frame.upstream
      BY <1>2, <1>7, <2>1 DEF Frame
    <3>2. Head(f.dest) \in Used(children[n])
      BY <2>1
    <3>3. Good(issued, [f EXCEPT !.dest = Shift(@)], n, children[n][Head(f.dest)].mac)
      BY <1>2, <1>7, <1>11, <2>1, <3>2, DescendGood
    <3> QED BY <2>1, <3>1, <3>3
  <2> QED BY <1>10, <2>1, <2>2, ForwardToChildSound
<1>15. Sound(Refuse(issued, cmd))
  BY <1>1, <1>10, RefuseSound DEF cmd
<1> QED BY <1>8, <1>13, <1>14, <1>15

\* A wire is fed with the report of the node its source path leads to.
LEMMA DeliverLinksSound ==
  ASSUME Bindings, NEW s, Sound(s), NEW n \in Node, NEW src, NEW maker \in Node,
         Leads(n, src, maker)
  PROVE  Sound(DeliverLinks(s, n, src, maker))
<1> DEFINE l == CHOOSE l \in LinksFrom(n, src) : TRUE
<1>1. CASE LinksFrom(n, src) = {}
  BY <1>1 DEF DeliverLinks
<1>2. CASE LinksFrom(n, src) # {}
  <2>1. l \in LinksFrom(n, src)
    BY <1>2
  <2>2. l \in Links[n] /\ l.dest \in Path /\ l.src = src
    BY <2>1 DEF LinksFrom
  <2> HIDE DEF l
  <2>3. \E m \in Links[n] : m.dest = l.dest /\ Leads(n, m.src, maker)
    BY <2>2
  <2>4. Sound(SendDownstream(s, n, l.dest, FALSE, maker))
    BY <2>2, <2>3, SendDownstreamSound
  <2> QED BY <1>2, <2>4 DEF DeliverLinks, l
<1> QED BY <1>1, <1>2

LEMMA FlushQueueSound ==
  ASSUME Bindings, NEW s, Sound(s), NEW n \in Node,
         NEW i, i = 0 \/ i \in Used(children[n])
  PROVE  Sound(FlushQueue(s, n, i))
<1>1. CASE i = 0
  BY <1>1 DEF FlushQueue
<1>2. CASE i \in Used(children[n])
  <2> DEFINE c == children[n][i].mac
             f == s.queue[n][i]
             t == [s EXCEPT !.queue[n][i] = NoFrame]
  <2>1. i \in Index /\ c \in Node /\ i # 0 /\ s \in State
    BY <1>2 DEF Used, Bindings, Child, Index, Sound
  <2>2. CASE c \notin Battery \/ f = NoFrame
    BY <2>1, <2>2 DEF FlushQueue
  <2>3. CASE ~(c \notin Battery \/ f = NoFrame)
    <3>1. f \in Frame /\ Good(s, f, n, c)
      BY <2>1, <2>3 DEF State, Sound, QueueGood
    <3>2. /\ t \in State /\ t.air = s.air /\ t.cmds = s.cmds /\ t.ran = s.ran
          /\ t.queue = [s.queue EXCEPT ![n][i] = NoFrame]
      BY <2>1 DEF State
    <3>3. \A m \in Node, j \in Index :
            t.queue[m][j] # NoFrame => t.queue[m][j] = s.queue[m][j]
      BY <2>1, <3>2 DEF State
    <3> HIDE DEF f, t
    <3>4. Extends(s, t)
      BY <3>2 DEF Extends
    <3>5. QueueGood(t)
      BY <3>3, <3>4, GoodStays DEF Sound, QueueGood
    <3>6. AirGood(t) /\ RanGood(t) /\ CmdsGood(t)
      BY <3>2, <3>4, GoodStays DEF Sound, AirGood, RanGood, CmdsGood
    <3>7. Sound(t) /\ Good(t, f, n, c)
      BY <3>1, <3>2, <3>4, <3>5, <3>6, AnswersStay, GoodStays DEF Sound
    <3>8. Sound(Transmit(t, n, c, f))
      BY <2>1, <3>1, <3>7, TransmitSound
    <3> QED BY <2>1, <2>3, <3>8 DEF FlushQueue, f, t
  <2> QED BY <2>2, <2>3
<1> QED BY <1>1, <1>2

\* Prepending the index of the child a frame came from keeps its way back.
LEMMA ClimbGood ==
  ASSUME Bindings, NEW s, NEW from \in Node, NEW n \in Node, NEW f \in Frame, NEW b,
         Good(s, f, from, n), f.upstream, Sender(n, from) \in IndicesOf(children[n], from)
  PROVE  Good(s, Climbed(n, from, f), n, b)
<1> DEFINE g == Climbed(n, from, f)
<1>1. /\ g.type = f.type /\ g.upstream = f.upstream /\ g.cmd = f.cmd /\ g.by = f.by
      /\ g.src = Prepend(Sender(n, from), f.src)
  BY DEF Climbed, Frame
<1>2. /\ Sender(n, from) \in Used(children[n])
      /\ children[n][Sender(n, from)].mac = from
  BY DEF IndicesOf
<1>3. f.src \in Path /\ f.by \in Node
  BY DEF Frame
<1>4. Leads(from, f.src, f.by)
  BY DEF Good
<1>5. Leads(n, g.src, f.by)
  BY <1>1, <1>2, <1>3, <1>4, LeadsFromParent
<1> HIDE DEF g
<1>6. Good(s, g, n, b)
  BY <1>1, <1>5 DEF Good
<1> QED BY <1>6 DEF g

LEMMA ArrivingGood ==
  ASSUME Addressing, NEW from \in Node, NEW n \in Node, air[from][n] # <<>>
  PROVE  Sound(Taken(from, n)) /\ Good(Taken(from, n), Arriving(from, n), from, n)
<1> DEFINE t == Taken(from, n)
<1>1. Now \in State /\ t \in State /\ air[from][n] \in Seq(Frame)
  BY NowType, ArrivingType DEF Addressing, TypeOK
<1>2. /\ t.queue = Now.queue /\ t.cmds = Now.cmds /\ t.ran = Now.ran
      /\ Now.air = air /\ t.air = [air EXCEPT ![from][n] = Tail(@)]
  BY <1>1 DEF Taken, State, Now
<1>3. Extends(Now, t)
  BY <1>2 DEF Extends
<1>4. Sound(Now)
  BY DEF Addressing
<1> HIDE DEF t
<1>5. AirGood(t)
  <2> SUFFICES ASSUME NEW x \in Node, NEW y \in Node, NEW k \in DOMAIN t.air[x][y]
               PROVE  Good(t, t.air[x][y][k], x, y)
    BY DEF AirGood
  <2>1. CASE x = from /\ y = n
    <3>1. t.air[x][y] = Tail(air[x][y])
      BY <1>1, <1>2, <2>1 DEF State
    <3>2. k + 1 \in DOMAIN air[x][y] /\ t.air[x][y][k] = air[x][y][k + 1]
      BY <1>1, <2>1, <3>1
    <3> QED BY <1>2, <1>3, <1>4, <3>2, GoodStays DEF Sound, AirGood
  <2>2. CASE ~(x = from /\ y = n)
    <3>1. t.air[x][y] = air[x][y]
      BY <1>1, <1>2, <2>2 DEF State
    <3> QED BY <1>2, <1>3, <1>4, <3>1, GoodStays DEF Sound, AirGood
  <2> QED BY <2>1, <2>2
<1>6. QueueGood(t) /\ RanGood(t) /\ CmdsGood(t) /\ AnswersGood(t)
  BY <1>2, <1>3, <1>4, GoodStays, AnswersStay DEF Sound, QueueGood, RanGood, CmdsGood
<1>7. Good(t, Arriving(from, n), from, n)
  <2>1. 1 \in DOMAIN air[from][n] /\ Arriving(from, n) = air[from][n][1]
    BY <1>1 DEF Arriving
  <2> QED BY <1>2, <1>3, <1>4, <2>1, GoodStays DEF Sound, AirGood
<1> QED BY <1>1, <1>5, <1>6, <1>7 DEF Sound, t

LEMMA TapSound ==
  ASSUME Bindings, NEW s, Sound(s), NEW n \in Node, NEW f \in Frame, NEW b,
         f.upstream, Good(s, f, n, b)
  PROVE  Sound(Tap(s, n, f)) /\ Good(Tap(s, n, f), f, n, b)
<1> DEFINE t == DeliverLinks(s, n, f.src, f.by)
<1>1. CASE f.type = "Report"
  <2>1. f.by \in Node /\ Leads(n, f.src, f.by)
    BY DEF Frame, Good
  <2>2. Sound(t)
    BY <2>1, DeliverLinksSound
  <2>3. Good(t, f, n, b)
    BY <1>1, <2>1 DEF Good
  <2> QED BY <1>1, <2>2, <2>3 DEF Tap
<1>2. CASE f.type # "Report"
  BY <1>2 DEF Tap
<1> QED BY <1>1, <1>2

\* An answer fit to be recorded.
Fits(s, w) ==
  w.type = "WriteResponse" =>
    \E k \in DOMAIN s.ran : s.ran[k].cmd = w.cmd /\ Leads(w.at, w.src, s.ran[k].at)

LEMMA BecomeSound ==
  ASSUME NEW s, Sound(s), Become(s), UNCHANGED binding,
         \A w \in answers' : w \in answers \/ Fits(s, w)
  PROVE  Sound(Now)'
<1>1. /\ Now'.air = s.air /\ Now'.queue = s.queue /\ Now'.cmds = s.cmds
      /\ Now'.ran = s.ran /\ Now'.seq = s.seq /\ Now'.refused = s.refused
  BY DEF Become, Now
<1>2. Now' \in State
  BY DEF Become, Now, Sound, State
<1>3. children' = children
  BY DEF binding
<1>4. \A x, p, y : Leads(x, p, y)' <=> Leads(x, p, y)
  BY SMTT(30), <1>3, Zenon DEF Leads, Used
<1>5. \A f, a, b : Good(Now, f, a, b)' <=> Good(s, f, a, b)
  BY <1>1, <1>4 DEF Good
<1>6. AirGood(Now)' /\ QueueGood(Now)'
  BY <1>1, <1>3, <1>5 DEF AirGood, QueueGood, Sound
<1>7. RanGood(Now)' /\ CmdsGood(Now)'
  BY <1>1, <1>4 DEF RanGood, CmdsGood, Sound
<1>8. AnswersGood(Now)'
  BY <1>1, <1>4 DEF AnswersGood, Sound, Fits
<1> QED BY <1>2, <1>6, <1>7, <1>8 DEF Sound

LEMMA BecomeFlushedSound ==
  ASSUME TypeOK, NEW s, Sound(s), NEW from \in Node, NEW n \in Node,
         BecomeFlushed(s, from, n), UNCHANGED binding,
         \A w \in answers' : w \in answers \/ Fits(s, w)
  PROVE  Sound(Now)'
<1> DEFINE i == ChildByMac(children[n], from)
           t == FlushQueue(s, n, i)
<1>1. Bindings /\ s \in State
  BY NowType DEF Sound
<1>2. i = 0 \/ i \in Used(children[n])
  <2>1. children[n] \in [Index -> Child \cup {NoChild}]
    BY <1>1 DEF Bindings
  <2> QED BY <2>1, ChildByMacType DEF IndicesOf
<1>3. Sound(t)
  BY <1>1, <1>2, FlushQueueSound
<1>4. t.ran = s.ran
  BY <1>1 DEF FlushQueue, Transmit, State
<1>5. \A w \in answers' : w \in answers \/ Fits(t, w)
  BY <1>4 DEF Fits
<1>6. Become(t) \/ Become(s)
  BY DEF BecomeFlushed
<1> QED BY <1>3, <1>5, <1>6, BecomeSound

LEMMA ReceiveSound ==
  ASSUME Addressing, NEW from \in Node, NEW n \in Node, Receive(from, n)
  PROVE  Sound(Now)'
<1> DEFINE d == DecisionOn(from, n)
           s == Taken(from, n)
           f == Arriving(from, n)
<1>1. air[from][n] # <<>> /\ UNCHANGED binding
  BY DEF Receive, PassToParent, PassToChild, DeliverRequest, DeliverNews, DropFrame, OnFrame
<1>2. Bindings /\ TypeOK /\ f \in Frame
  BY <1>1, NowType, ArrivingType DEF Addressing
<1>3. Sound(s) /\ Good(s, f, from, n)
  BY <1>1, ArrivingGood
<1>4. d = Route(RouterOf(n), f, from) /\ d.frame \in Frame /\ d.child \in 0 .. MaxHop
  BY <1>2, RouteType DEF DecisionOn
<1> HIDE DEF s, f, d
<1>5. CASE PassToParent(from, n)
  <2>1. d.action = "ToParent"
    BY <1>5 DEF PassToParent, OnFrame, d
  <2>2. /\ f.upstream /\ parent[n] \in Node /\ d.frame = Climbed(n, from, f)
        /\ Sender(n, from) \in IndicesOf(children[n], from)
    BY ZenonT(60), <1>2, <1>4, <2>1, RouteType
  <2>3. Good(s, d.frame, n, parent[n]) /\ d.frame.upstream
    BY <1>2, <1>3, <2>2, ClimbGood DEF Climbed, Frame
  <2>4. Sound(Tap(s, n, d.frame)) /\ Good(Tap(s, n, d.frame), d.frame, n, parent[n])
    BY <1>2, <1>3, <1>4, <2>3, TapSound
  <2>5. Sound(Transmit(Tap(s, n, d.frame), n, parent[n], d.frame))
    BY <1>4, <2>2, <2>4, TransmitSound
  <2> QED BY <1>1, <1>2, <1>5, <2>5, BecomeFlushedSound DEF PassToParent, s, d
<1>6. CASE PassToChild(from, n)
  <2>1. d.action = "ToChild"
    BY <1>6 DEF PassToChild, OnFrame, d
  <2>2. /\ ~f.upstream /\ f.dest # <<>> /\ d.child = Head(f.dest)
        /\ d.child \in Used(children[n]) /\ d.frame = [f EXCEPT !.dest = Shift(@)]
    BY <1>2, <1>4, <2>1, RouteType
  <2>3. Head(f.dest) \in Used(children[n]) /\ ~d.frame.upstream
    BY <1>2, <2>2 DEF Frame
  <2>4. Good(s, [f EXCEPT !.dest = Shift(@)], n, children[n][Head(f.dest)].mac)
    BY <1>2, <1>3, <2>2, <2>3, DescendGood
  <2>5. Sound(ForwardToChild(s, n, d.frame, d.child))
    BY <1>2, <1>3, <1>4, <2>2, <2>3, <2>4, ForwardToChildSound
  <2> QED BY <1>1, <1>2, <1>6, <2>5, BecomeFlushedSound DEF PassToChild, s, d
<1>7. CASE DeliverRequest(from, n)
  <2>1. d.action = "Deliver" /\ d.frame.type = "WriteRequest"
    BY <1>7 DEF DeliverRequest, OnFrame, d
  <2>2. \/ f.upstream /\ d.frame = Climbed(n, from, f)
        \/ ~f.upstream /\ d.frame = f /\ f.dest = <<>>
    BY ZenonT(60), <1>2, <1>4, <2>1, RouteType
  <2>3. ~f.upstream /\ d.frame = f /\ f.dest = <<>>
    BY <1>2, <1>3, <2>1, <2>2 DEF Good, Climbed, Frame
  <2>4. Leads(n, f.dest, n)
    BY <2>3, LeadsNowhere
  <2>5. f.cmd \in DOMAIN s.cmds /\ Leads(s.cmds[f.cmd].by, s.cmds[f.cmd].dest, n)
    BY <1>3, <2>3, <2>4 DEF Good
  <2>6. Sound(HandleRequest(s, n, d.frame))
    BY <1>2, <1>3, <2>3, <2>5, HandleRequestSound
  <2> QED BY <1>1, <1>2, <1>7, <2>6, BecomeFlushedSound DEF DeliverRequest, s, d
<1>8. CASE DeliverNews(from, n)
  <2> DEFINE g == d.frame
             w == [at |-> n, type |-> g.type, about |-> g.about, src |-> g.src,
                   hop |-> g.hop, cmd |-> g.cmd]
  <2>1. d.action = "Deliver" /\ g.type # "WriteRequest"
    BY <1>8 DEF DeliverNews, OnFrame, d
  <2>2. /\ f.upstream /\ g = Climbed(n, from, f)
        /\ Sender(n, from) \in IndicesOf(children[n], from)
    BY <1>2, <1>3, <1>4, <2>1, RouteType DEF Good
  <2>3. Good(s, g, n, n) /\ g.upstream
    BY <1>2, <1>3, <2>2, ClimbGood DEF Climbed, Frame
  <2>4. Sound(Tap(s, n, g))
    BY <1>2, <1>3, <1>4, <2>3, TapSound
  <2>5. answers' = IF g.type = "Report" THEN answers ELSE answers \cup {w}
    BY <1>8 DEF DeliverNews, d
  <2>6. g.type # "Report" => Tap(s, n, g) = s
    BY DEF Tap
  <2>7. Fits(s, w)
    BY <2>3 DEF Fits, Good
  <2>8. \A v \in answers' : v \in answers \/ Fits(Tap(s, n, g), v)
    BY <2>5, <2>6, <2>7
  <2> QED BY <1>1, <1>2, <1>8, <2>4, <2>8, BecomeFlushedSound DEF DeliverNews, s, d
<1>9. CASE DropFrame(from, n)
  <2> DEFINE refusal == SendUpstream(Refuse(s, d.frame.cmd), n, "RouteError", d.frame.seq,
                                     d.child, d.frame.cmd)
  <2>1. d.frame.cmd \in Nat /\ d.frame.seq \in Seqs
    BY <1>4 DEF Frame
  <2>2. Sound(refusal)
    BY <1>2, <1>3, <1>4, <2>1, RefuseSound, SendUpstreamSound
  <2>3. Sound(IF d.reason = "NoSuchChild" THEN refusal ELSE s)
    BY <1>3, <2>2
  <2> QED BY <1>1, <1>2, <1>9, <2>3, BecomeFlushedSound DEF DropFrame, s, d
<1> QED BY <1>5, <1>6, <1>7, <1>8, <1>9 DEF Receive

\* Steps that only take frames away.
LEMMA LessSound ==
  ASSUME Addressing, TypeOK', UNCHANGED <<binding, history>>,
         \A a, b \in Node : \A k \in DOMAIN air'[a][b] :
           \E j \in DOMAIN air[a][b] : air'[a][b][k] = air[a][b][j],
         \A n \in Node, i \in Index : queue'[n][i] # NoFrame => queue'[n][i] = queue[n][i]
  PROVE  Sound(Now)'
<1>1. children' = children /\ cmds' = cmds /\ ran' = ran /\ answers' = answers
  BY DEF binding, history
<1>2. Now' \in State
  BY DEF TypeOK, Now, State, Run
<1>3. \A x, p, y : Leads(x, p, y)' <=> Leads(x, p, y)
  BY SMTT(30), <1>1, Zenon DEF Leads, Used
<1>4. /\ Now.cmds = cmds /\ Now.ran = ran /\ Now.air = air /\ Now.queue = queue
      /\ Now'.cmds = cmds' /\ Now'.ran = ran' /\ Now'.air = air' /\ Now'.queue = queue'
  BY DEF Now
<1>5. \A f, a, b : Good(Now, f, a, b)' <=> Good(Now, f, a, b)
  BY <1>1, <1>3, <1>4 DEF Good
<1>6. Sound(Now)
  BY DEF Addressing
<1>7. AirGood(Now)'
  BY <1>4, <1>5, <1>6 DEF Sound, AirGood
<1>8. QueueGood(Now)'
  BY <1>1, <1>4, <1>5, <1>6 DEF Sound, QueueGood
<1>9. RanGood(Now)' /\ CmdsGood(Now)' /\ AnswersGood(Now)'
  BY <1>1, <1>3, <1>4, <1>6 DEF Sound, RanGood, CmdsGood, AnswersGood
<1> QED BY <1>2, <1>7, <1>8, <1>9 DEF Sound

LEMMA AddressingInit == Init => Addressing
<1> SUFFICES ASSUME Init PROVE Addressing
  OBVIOUS
<1>1. TypeOK /\ Now \in State
  BY InitType, NowType
<1>2. /\ Now.cmds = <<>> /\ Now.ran = <<>> /\ answers = {}
      /\ \A a, b \in Node : Now.air[a][b] = <<>>
      /\ \A n \in Node, i \in Index : Now.queue[n][i] = NoFrame
  BY DEF Init, Now
<1> QED BY <1>1, <1>2 DEF Addressing, Sound, AirGood, QueueGood, RanGood, CmdsGood, AnswersGood

LEMMA AddressingNext == Addressing /\ [Next]_vars => Addressing'
<1> SUFFICES ASSUME Addressing, [Next]_vars PROVE Addressing'
  OBVIOUS
<1>1. TypeOK /\ TypeOK' /\ Bindings /\ Sound(Now)
  BY NowType, NextType DEF Addressing
<1>2. ASSUME NEW n \in Commanders, NEW dest \in Destinations, RequestWrite(n, dest)
      PROVE  Sound(Now)'
  <2>1. Sound(SendDownstream(Now, n, dest, TRUE, NoNode))
    BY <1>1, SendDownstreamSound
  <2> QED BY <1>2, <2>1, BecomeSound DEF RequestWrite
<1>3. ASSUME NEW n \in Reporters, SendReport(n) PROVE Sound(Now)'
  <2>1. Leads(n, <<>>, n)
    BY LeadsNowhere
  <2>2. Sound(DeliverLinks(Now, n, <<>>, n))
    BY <1>1, <2>1, DeliverLinksSound
  <2>3. 0 \in Seqs /\ 0 \in 0 .. MaxHop
    BY DEF Seqs
  <2>4. Sound(SendUpstream(DeliverLinks(Now, n, <<>>, n), n, "Report", 0, 0, 0))
    BY <1>1, <2>2, <2>3, SendUpstreamSound
  <2> QED BY <1>3, <2>4, BecomeSound DEF SendReport
<1>4. ASSUME NEW n \in Battery, Doze(n) PROVE Sound(Now)'
  <2>1. air' = air /\ queue' = queue /\ UNCHANGED <<binding, history>>
    BY <1>4 DEF Doze
  <2> QED BY <1>1, <2>1, LessSound
<1>5. ASSUME NEW n \in Restarting, Reboot(n) PROVE Sound(Now)'
  <2>1. air' = air /\ UNCHANGED <<binding, history>>
    BY <1>5 DEF Reboot
  <2>2. \A m \in Node, i \in Index : queue'[m][i] # NoFrame => queue'[m][i] = queue[m][i]
    BY <1>5, <1>1 DEF Reboot, TypeOK
  <2> QED BY <1>1, <2>1, <2>2, LessSound
<1>6. ASSUME NEW from \in Node, NEW n \in Node, NotHeard(from, n) PROVE Sound(Now)'
  <2>1. queue' = queue /\ UNCHANGED <<binding, history>>
    BY <1>6 DEF NotHeard
  <2>2. ASSUME NEW a \in Node, NEW b \in Node, NEW k \in DOMAIN air'[a][b]
        PROVE  \E j \in DOMAIN air[a][b] : air'[a][b][k] = air[a][b][j]
    <3>1. /\ air[a][b] \in Seq(Frame)
          /\ air[a][b] # <<>> \/ air'[a][b] = air[a][b]
      BY <1>1, <1>6 DEF NotHeard, TypeOK
    <3>2. air'[a][b] = air[a][b] \/ air'[a][b] = Tail(air[a][b])
      BY <1>1, <1>6 DEF NotHeard, TypeOK
    <3>3. CASE air'[a][b] = air[a][b]
      BY <3>3
    <3>4. CASE air'[a][b] # air[a][b] /\ air'[a][b] = Tail(air[a][b])
      <4>1. k + 1 \in DOMAIN air[a][b] /\ Tail(air[a][b])[k] = air[a][b][k + 1]
        BY <3>1, <3>4
      <4> QED BY <3>4, <4>1
    <3> QED BY <3>2, <3>3, <3>4
  <2> QED BY <1>1, <2>1, <2>2, LessSound
<1>7. ASSUME UNCHANGED vars PROVE Sound(Now)'
  <2>1. air' = air /\ queue' = queue /\ UNCHANGED <<binding, history>>
    BY <1>7 DEF vars
  <2> QED BY <1>1, <2>1, LessSound
<1>8. Sound(Now)'
  BY <1>2, <1>3, <1>4, <1>5, <1>6, <1>7, ReceiveSound DEF Next
<1> QED BY <1>1, <1>8 DEF Addressing

LEMMA AddressingImplies ==
  Addressing => SourceIsTheWayBack /\ RunsWhereAddressed /\ WiresFollowTheirSource
<1> SUFFICES ASSUME Addressing
             PROVE  SourceIsTheWayBack /\ RunsWhereAddressed /\ WiresFollowTheirSource
  OBVIOUS
<1>1. Now.air = air /\ Now.cmds = cmds /\ Now.ran = ran
  BY DEF Now
<1>2. SourceIsTheWayBack
  BY <1>1 DEF Addressing, Sound, AirGood, AnswersGood, Good, SourceIsTheWayBack
<1>3. RunsWhereAddressed
  BY <1>1 DEF Addressing, Sound, RanGood, RunsWhereAddressed
<1>4. WiresFollowTheirSource
  BY <1>1 DEF Addressing, Sound, CmdsGood, WiresFollowTheirSource
<1> QED BY <1>2, <1>3, <1>4

\* In any topology the source path a frame gathers while it climbs is the way
\* back to the node that made it, at every node it passes; and an answer names
\* the node that executed the command.
THEOREM TheWayBack == Spec => []SourceIsTheWayBack
  BY AddressingInit, AddressingNext, AddressingImplies, PTL DEF Spec

\* No command ever runs at a node other than the one its path leads to from its
\* issuer, through any number of hops, queues, losses and restarts.
THEOREM NoStrayCommand == Spec => []RunsWhereAddressed
  BY AddressingInit, AddressingNext, AddressingImplies, PTL DEF Spec

\* A wire is only ever fed with the report of the device at its stored path.
THEOREM NoCrossedWire == Spec => []WiresFollowTheirSource
  BY AddressingInit, AddressingNext, AddressingImplies, PTL DEF Spec

-----------------------------------------------------------------------------
(* Diagnosis.  The invariant says of every command on its way down, in the    *)
(* air or in a slot, which part of its path is behind it, and of every route  *)
(* error on its way up, which part is still before it.                        *)

\* No child is in a table twice: HAPRouter::addChild() refuses the second.
NoTwins ==
  \A t \in Topologies : \A n \in Node : \A i, j \in Used(t.children[n]) :
    t.children[n][i].mac = t.children[n][j].mac => i = j

OneIndexEach ==
  \A n \in Node : \A i, j \in Used(children[n]) :
    children[n][i].mac = children[n][j].mac => i = j

\* A path along which both ends of every hop believe in their binding: the way a
\* command is let down, and the way a refusal climbs.
Bonded(x, p, y) ==
  \E t \in [1 .. Len(p) + 1 -> Node] :
    /\ t[1] = x /\ t[Len(p) + 1] = y
    /\ \A k \in 1 .. Len(p) :
         /\ p[k] \in Used(children[t[k]]) /\ children[t[k]][p[k]].mac = t[k + 1]
         /\ parent[t[k + 1]] = t[k]

\* A command f at n, some of its path behind it and the rest to go.
Halfway(s, f, n) ==
  /\ f.cmd \in DOMAIN s.cmds
  /\ \E q \in Seq(Hop) : /\ s.cmds[f.cmd].dest = q \o f.dest
                         /\ Bonded(s.cmds[f.cmd].by, q, n)

\* A command f on its way from a to b, which may not take it.
Down(s, f, a, b) ==
  /\ f.cmd \in DOMAIN s.cmds
  /\ \E q \in Seq(Hop), i \in Used(children[a]) :
       /\ s.cmds[f.cmd].dest = q \o (<<i>> \o f.dest)
       /\ Bonded(s.cmds[f.cmd].by, q, a)
       /\ children[a][i].mac = b

\* A route error f at n: what is before it, what it gathered, the hop it names and
\* what was never reached make up the path of its command.
Back(s, f, n) ==
  /\ f.cmd \in DOMAIN s.cmds
  /\ \/ parent[s.cmds[f.cmd].by] # NoNode
     \/ /\ f.hop \in Hop /\ f.hop \notin Used(children[f.by])
        /\ \E q, rest \in Seq(Hop) :
             /\ s.cmds[f.cmd].dest = q \o (f.src \o (<<f.hop>> \o rest))
             /\ Bonded(s.cmds[f.cmd].by, q, n)

OnTrack(s, f, a, b) ==
  /\ f.type = "WriteRequest" => Down(s, f, a, b)
  /\ f.type = "RouteError"   => Back(s, f, a) /\ b = parent[a]

AirOnTrack(s) ==
  \A a, b \in Node : \A k \in DOMAIN s.air[a][b] : OnTrack(s, s.air[a][b][k], a, b)

QueueOnTrack(s) ==
  \A n \in Node, i \in Index :
    s.queue[n][i] # NoFrame => OnTrack(s, s.queue[n][i], n, children[n][i].mac)

\* What RouteErrorNamesTheHop says of one answer.
Names(s, w) ==
  w.type = "RouteError" /\ w.cmd \in DOMAIN s.cmds /\ s.cmds[w.cmd].by = w.at =>
    LET full == w.src \o <<w.hop>> IN
    /\ Len(full) =< Len(s.cmds[w.cmd].dest)
    /\ full = SubSeq(s.cmds[w.cmd].dest, 1, Len(full))
    /\ \E n \in Node : Leads(w.at, w.src, n) /\ w.hop \notin Used(children[n])

AnswersOnTrack(s) ==
  \A w \in answers : w.type = "RouteError" => w.cmd \in DOMAIN s.cmds /\ Names(s, w)

Tracked(s) == s \in State /\ AirOnTrack(s) /\ QueueOnTrack(s) /\ AnswersOnTrack(s)

Tracking == Addressing /\ OneIndexEach /\ Tracked(Now)

LEMMA BondedNowhere ==
  ASSUME NEW x \in Node, NEW y \in Node
  PROVE  Bonded(x, <<>>, y) <=> y = x
<1>1. Bonded(x, <<>>, y) => y = x
  BY DEF Bonded
<1>2. Bonded(x, <<>>, x)
  <2> DEFINE t == [k \in 1 .. 1 |-> x]
  <2>1. t \in [1 .. 1 -> Node] /\ t[1] = x
    OBVIOUS
  <2>2. Len(<<>>) + 1 = 1 /\ 1 .. Len(<<>>) = {}
    OBVIOUS
  <2> HIDE DEF t
  <2> QED BY <2>1, <2>2 DEF Bonded
<1> QED BY <1>1, <1>2

\* One hop further.
LEMMA BondedOn ==
  ASSUME NEW x \in Node, NEW q \in Seq(Hop), NEW a \in Node, Bonded(x, q, a),
         NEW i \in Used(children[a]), NEW b \in Node, children[a][i].mac = b, parent[b] = a
  PROVE  Bonded(x, Append(q, i), b)
<1>1. PICK t \in [1 .. Len(q) + 1 -> Node] :
        /\ t[1] = x /\ t[Len(q) + 1] = a
        /\ \A k \in 1 .. Len(q) :
             /\ q[k] \in Used(children[t[k]]) /\ children[t[k]][q[k]].mac = t[k + 1]
             /\ parent[t[k + 1]] = t[k]
  BY DEF Bonded
<1> DEFINE p == Append(q, i)
           u == [k \in 1 .. Len(q) + 2 |-> IF k = Len(q) + 2 THEN b ELSE t[k]]
<1>2. Len(q) \in Nat /\ i \in Hop
  BY DEF Used, Index, Hop
<1>3. Len(p) = Len(q) + 1 /\ p[Len(q) + 1] = i /\ \A k \in 1 .. Len(q) : p[k] = q[k]
  BY <1>2
<1>4. u \in [1 .. Len(q) + 2 -> Node] /\ u[Len(q) + 2] = b
      /\ \A k \in 1 .. Len(q) + 1 : u[k] = t[k]
  BY <1>2
<1> HIDE DEF p, u
<1>5. u[1] = x /\ Len(p) + 1 = Len(q) + 2 /\ u[Len(p) + 1] = b
  BY <1>1, <1>2, <1>3, <1>4
<1>6. ASSUME NEW k \in 1 .. Len(p)
      PROVE  /\ p[k] \in Used(children[u[k]]) /\ children[u[k]][p[k]].mac = u[k + 1]
             /\ parent[u[k + 1]] = u[k]
  <2>1. CASE k = Len(q) + 1
    <3>1. p[k] = i /\ u[k] = a /\ u[k + 1] = b
      BY <1>1, <1>2, <1>3, <1>4, <2>1
    <3> QED BY <3>1
  <2>2. CASE k # Len(q) + 1
    <3>1. k \in 1 .. Len(q) /\ k \in 1 .. Len(q) + 1 /\ k + 1 \in 1 .. Len(q) + 1
      BY <1>2, <1>3, <2>2
    <3>2. p[k] = q[k] /\ u[k] = t[k] /\ u[k + 1] = t[k + 1]
      BY ONLY <1>3, <1>4, <3>1
    <3> QED BY <1>1, <3>1, <3>2
  <2> QED BY <2>1, <2>2
<1>7. Bonded(x, p, b)
  BY <1>4, <1>5, <1>6 DEF Bonded
<1> QED BY <1>7 DEF p

\* One hop back: to the parent, which has the last node at the last index.
LEMMA BondedBack ==
  ASSUME NEW x \in Node, NEW q \in Seq(Hop), NEW i \in Hop, NEW b \in Node,
         Bonded(x, Append(q, i), b)
  PROVE  /\ parent[b] \in Node /\ Bonded(x, q, parent[b])
         /\ i \in Used(children[parent[b]]) /\ children[parent[b]][i].mac = b
<1> DEFINE p == Append(q, i)
<1>1. Len(q) \in Nat
  OBVIOUS
<1>2. Len(p) = Len(q) + 1 /\ p[Len(q) + 1] = i /\ \A k \in 1 .. Len(q) : p[k] = q[k]
  BY <1>1
<1> HIDE DEF p
<1>3. PICK u \in [1 .. Len(p) + 1 -> Node] :
        /\ u[1] = x /\ u[Len(p) + 1] = b
        /\ \A k \in 1 .. Len(p) :
             /\ p[k] \in Used(children[u[k]]) /\ children[u[k]][p[k]].mac = u[k + 1]
             /\ parent[u[k + 1]] = u[k]
  BY DEF Bonded, p
<1> DEFINE t == [k \in 1 .. Len(q) + 1 |-> u[k]]
           a == u[Len(q) + 1]
<1>4. Len(q) + 1 \in 1 .. Len(p) /\ (Len(q) + 1) + 1 = Len(p) + 1
  BY <1>1, <1>2
<1>5. a \in Node /\ parent[b] = a /\ i \in Used(children[a]) /\ children[a][i].mac = b
  <2>1. /\ p[Len(q) + 1] \in Used(children[a])
        /\ children[a][p[Len(q) + 1]].mac = u[(Len(q) + 1) + 1]
        /\ parent[u[(Len(q) + 1) + 1]] = a
    BY ONLY <1>3, <1>4
  <2>2. a \in Node
    BY <1>1, <1>2
  <2>3. u[(Len(q) + 1) + 1] = b
    BY ONLY <1>3, <1>4
  <2> QED BY ONLY <1>2, <2>1, <2>2, <2>3
<1>6. t \in [1 .. Len(q) + 1 -> Node] /\ t[1] = x /\ t[Len(q) + 1] = a
  BY <1>1, <1>2, <1>3
<1>7. ASSUME NEW k \in 1 .. Len(q)
      PROVE  /\ q[k] \in Used(children[t[k]]) /\ children[t[k]][q[k]].mac = t[k + 1]
             /\ parent[t[k + 1]] = t[k]
  <2>1. k \in 1 .. Len(p) /\ k \in 1 .. Len(q) + 1 /\ k + 1 \in 1 .. Len(q) + 1
    BY <1>1, <1>2
  <2>2. t[k] = u[k] /\ t[k + 1] = u[k + 1] /\ p[k] = q[k]
    BY <1>2, <2>1
  <2> HIDE DEF t
  <2> QED BY ONLY <1>3, <2>1, <2>2
<1> HIDE DEF t, a
<1>8. Bonded(x, q, a)
  BY <1>6, <1>7 DEF Bonded
<1> QED BY <1>5, <1>8

\* Histories only grow, and what is on track stays there.
LEMMA TrackStays ==
  ASSUME NEW s, NEW t, Extends(s, t), NEW f, NEW a, NEW b, OnTrack(s, f, a, b)
  PROVE  OnTrack(t, f, a, b)
<1>1. ASSUME Down(s, f, a, b) PROVE Down(t, f, a, b)
  BY <1>1 DEF Extends, Down
<1>2. ASSUME Back(s, f, a) PROVE Back(t, f, a)
  BY <1>2 DEF Extends, Back
<1> QED BY <1>1, <1>2 DEF OnTrack

LEMMA AnswersStayOnTrack ==
  ASSUME NEW s, NEW t, Extends(s, t), AnswersOnTrack(s)
  PROVE  AnswersOnTrack(t)
<1> SUFFICES ASSUME NEW w \in answers, w.type = "RouteError"
             PROVE  w.cmd \in DOMAIN t.cmds /\ Names(t, w)
  BY DEF AnswersOnTrack
<1>1. w.cmd \in DOMAIN s.cmds /\ Names(s, w)
  BY DEF AnswersOnTrack
<1>2. w.cmd \in DOMAIN t.cmds /\ t.cmds[w.cmd] = s.cmds[w.cmd]
  BY <1>1 DEF Extends
<1> QED BY <1>1, <1>2 DEF Names

LEMMA SameTracked ==
  ASSUME NEW s, Tracked(s), NEW t \in State, t.air = s.air, t.queue = s.queue,
         Extends(s, t)
  PROVE  Tracked(t)
<1>1. AirOnTrack(t) /\ QueueOnTrack(t)
  BY TrackStays DEF Tracked, AirOnTrack, QueueOnTrack
<1> QED BY <1>1, AnswersStayOnTrack DEF Tracked

LEMMA TransmitTracked ==
  ASSUME NEW s, Tracked(s), NEW a \in Node, NEW b \in Node, NEW f \in Frame,
         OnTrack(s, f, a, b)
  PROVE  Tracked(Transmit(s, a, b, f))
<1> DEFINE t == Transmit(s, a, b, f)
<1>1. s \in State /\ t \in State
  BY TransmitType DEF Tracked
<1>2. /\ t.queue = s.queue /\ t.cmds = s.cmds /\ t.ran = s.ran
      /\ t.air = [s.air EXCEPT ![a][b] = Append(@, f)]
  BY <1>1 DEF Transmit, State
<1>3. Extends(s, t)
  BY <1>2 DEF Extends
<1>4. AirOnTrack(t)
  <2> SUFFICES ASSUME NEW x \in Node, NEW y \in Node, NEW k \in DOMAIN t.air[x][y]
               PROVE  OnTrack(t, t.air[x][y][k], x, y)
    BY DEF AirOnTrack
  <2>1. CASE x = a /\ y = b
    <3>1. s.air[a][b] \in Seq(Frame) /\ t.air[x][y] = Append(s.air[a][b], f)
      BY <1>1, <1>2, <2>1 DEF State
    <3>2. \/ k \in DOMAIN s.air[a][b] /\ t.air[x][y][k] = s.air[a][b][k]
          \/ t.air[x][y][k] = f
      BY <3>1
    <3>3. OnTrack(t, f, a, b)
      BY <1>3, TrackStays
    <3> QED BY <1>3, <2>1, <3>2, <3>3, TrackStays DEF Tracked, AirOnTrack
  <2>2. CASE ~(x = a /\ y = b)
    <3>1. t.air[x][y] = s.air[x][y]
      BY <1>1, <1>2, <2>2 DEF State
    <3> QED BY <1>3, <3>1, TrackStays DEF Tracked, AirOnTrack
  <2> QED BY <2>1, <2>2
<1> HIDE DEF t
<1>5. QueueOnTrack(t)
  BY <1>2, <1>3, TrackStays DEF Tracked, QueueOnTrack
<1> QED BY <1>1, <1>3, <1>4, <1>5, AnswersStayOnTrack DEF Tracked, t

LEMMA RefuseTracked ==
  ASSUME NEW s, Tracked(s), NEW cmd \in Nat
  PROVE  Tracked(Refuse(s, cmd)) /\ Extends(s, Refuse(s, cmd))
<1>1. s \in State /\ Refuse(s, cmd) \in State
  BY RefuseType DEF Tracked
<1>2. Extends(s, Refuse(s, cmd))
  BY <1>1 DEF Refuse, State, Extends
<1> QED BY <1>1, <1>2, SameTracked DEF Refuse, State

LEMMA SendUpstreamTracked ==
  ASSUME Bindings, NEW s, Tracked(s), NEW n \in Node,
         NEW type \in {"Report", "Nack", "RouteError"},
         NEW about \in Seqs, NEW hop \in 0 .. MaxHop, NEW cmd \in Nat,
         \A number : type = "RouteError" =>
           Back(s, Upward(n, type, number, about, hop, cmd), n)
  PROVE  Tracked(SendUpstream(s, n, type, about, hop, cmd))
<1> DEFINE f == Upward(n, type, NextSeq(s, n), about, hop, cmd)
           t == [s EXCEPT !.seq[n] = NextSeq(s, n)]
<1>1. CASE parent[n] = NoNode
  BY <1>1 DEF SendUpstream
<1>2. CASE parent[n] # NoNode
  <2>1. s \in State /\ type \in {"Report"} \cup Answers
    BY DEF Tracked, Answers
  <2>2. f \in Frame /\ f.type = type
    BY <2>1, NextSeqType, UpwardType DEF Upward
  <2>3. t \in State /\ t.air = s.air /\ t.queue = s.queue /\ t.cmds = s.cmds /\ t.ran = s.ran
    BY <2>1, NextSeqType DEF State
  <2>4. Extends(s, t)
    BY <2>3 DEF Extends
  <2>5. Tracked(t)
    BY <2>3, <2>4, SameTracked
  <2>6. parent[n] \in Node
    BY <1>2 DEF Bindings
  <2>7. OnTrack(s, f, n, parent[n])
    <3>1. type = "RouteError" => Back(s, f, n)
      OBVIOUS
    <3> HIDE DEF f
    <3> QED BY <2>2, <3>1 DEF OnTrack
  <2>8. OnTrack(t, f, n, parent[n])
    BY <2>4, <2>7, TrackStays
  <2>9. Tracked(Transmit(t, n, parent[n], f))
    BY <2>2, <2>5, <2>6, <2>8, TransmitTracked
  <2> QED BY <1>2, <2>9 DEF SendUpstream
<1> QED BY <1>1, <1>2

LEMMA HandleRequestTracked ==
  ASSUME Bindings, NEW s, Tracked(s), NEW n \in Node, NEW f \in Frame
  PROVE  Tracked(HandleRequest(s, n, f))
<1> DEFINE r == [cmd |-> f.cmd, at |-> n]
           t == [s EXCEPT !.ran = Append(@, r)]
           g == Upward(n, "WriteResponse", f.seq, f.seq, 0, f.cmd)
<1>1. s \in State /\ r \in Run /\ f.seq \in Seqs /\ f.cmd \in Nat
  BY DEF Tracked, Run, Frame
<1>2. s.ran \in Seq(Run)
  BY <1>1 DEF State
<1>3. Append(s.ran, r) \in Seq(Run)
  BY <1>1, <1>2
<1>4. /\ t \in State /\ t.air = s.air /\ t.queue = s.queue /\ t.cmds = s.cmds
      /\ t.ran = Append(s.ran, r)
  BY <1>1, <1>3 DEF State
<1>5. Extends(s, t)
  <2>1. \A k \in DOMAIN s.ran : k \in DOMAIN t.ran /\ t.ran[k] = s.ran[k]
    BY <1>2, <1>4
  <2> HIDE DEF t
  <2> QED BY <1>4, <2>1 DEF Extends
<1> HIDE DEF t
<1>6. Tracked(t)
  BY <1>4, <1>5, SameTracked
<1>7. Tracked(Respond(t, n, f))
  <2>1. CASE parent[n] = NoNode
    BY <1>6, <2>1 DEF Respond
  <2>2. CASE parent[n] # NoNode
    <3>1. g \in Frame /\ parent[n] \in Node
      BY <1>1, <2>2, UpwardType DEF Answers, Bindings
    <3>2. g.type = "WriteResponse"
      BY DEF Upward
    <3>3. OnTrack(t, g, n, parent[n])
      BY <3>2 DEF OnTrack
    <3> QED BY <1>6, <2>2, <3>1, <3>3, TransmitTracked DEF Respond
  <2> QED BY <2>1, <2>2
<1> QED BY <1>7 DEF HandleRequest, t

\* Shifting the path while stepping to the child it names moves one hop behind.
LEMMA DescendOnTrack ==
  ASSUME Bindings, NEW s, NEW n \in Node, NEW f \in Frame, f.type = "WriteRequest",
         f.dest # <<>>, Head(f.dest) \in Used(children[n]), Halfway(s, f, n)
  PROVE  OnTrack(s, [f EXCEPT !.dest = Shift(@)], n, children[n][Head(f.dest)].mac)
<1> DEFINE i == Head(f.dest)
           g == [f EXCEPT !.dest = Shift(@)]
<1>1. f.dest \in Seq(Hop) /\ f.dest = <<i>> \o Tail(f.dest)
  BY DEF Frame, Path
<1>2. g.type = f.type /\ g.cmd = f.cmd /\ g.dest = Tail(f.dest)
  BY DEF Frame, Shift
<1> HIDE DEF g
<1>3. PICK q \in Seq(Hop) : /\ s.cmds[f.cmd].dest = q \o f.dest
                            /\ Bonded(s.cmds[f.cmd].by, q, n)
  BY DEF Halfway
<1>4. Down(s, g, n, children[n][i].mac)
  BY <1>1, <1>2, <1>3 DEF Down, Halfway
<1> QED BY <1>2, <1>4 DEF OnTrack, g

LEMMA ForwardToChildTracked ==
  ASSUME Bindings, NEW s, Tracked(s), NEW n \in Node, NEW f \in Frame,
         NEW i \in Used(children[n]), f.type = "WriteRequest",
         OnTrack(s, f, n, children[n][i].mac)
  PROVE  Tracked(ForwardToChild(s, n, f, i))
<1> DEFINE c == children[n][i].mac
<1>1. i \in Index /\ c \in Node /\ s \in State
  BY DEF Used, Bindings, Child, Tracked
<1>2. CASE c \notin Battery
  BY <1>1, <1>2, TransmitTracked DEF ForwardToChild
<1>3. CASE c \in Battery /\ s.queue[n][i] = NoFrame
  <2> DEFINE g == [f EXCEPT !.queued = TRUE]
             t == [s EXCEPT !.queue[n][i] = g]
  <2>1. g \in Frame /\ g.type = f.type /\ g.cmd = f.cmd /\ g.dest = f.dest
    BY DEF Frame
  <2>2. /\ t \in State /\ t.air = s.air /\ t.cmds = s.cmds /\ t.ran = s.ran
        /\ t.queue = [s.queue EXCEPT ![n][i] = g]
    BY <1>1, <2>1 DEF State
  <2> HIDE DEF g, t
  <2>3. Extends(s, t)
    BY <2>2 DEF Extends
  <2>4. OnTrack(t, g, n, c)
    <3>1. Down(s, g, n, c)
      BY <2>1 DEF OnTrack, Down
    <3>2. OnTrack(s, g, n, c)
      BY <2>1, <3>1 DEF OnTrack
    <3> QED BY <2>3, <3>2, TrackStays
  <2>5. QueueOnTrack(t)
    <3> SUFFICES ASSUME NEW m \in Node, NEW j \in Index, t.queue[m][j] # NoFrame
                 PROVE  OnTrack(t, t.queue[m][j], m, children[m][j].mac)
      BY DEF QueueOnTrack
    <3>1. CASE m = n /\ j = i
      <4>1. t.queue[m][j] = g
        BY <1>1, <2>2, <3>1 DEF State
      <4> QED BY <2>4, <3>1, <4>1
    <3>2. CASE ~(m = n /\ j = i)
      <4>1. t.queue[m][j] = s.queue[m][j]
        BY <1>1, <2>2, <3>2 DEF State
      <4> QED BY <2>3, <4>1, TrackStays DEF Tracked, QueueOnTrack
    <3> QED BY <3>1, <3>2
  <2>6. AirOnTrack(t)
    BY <2>2, <2>3, TrackStays DEF Tracked, AirOnTrack
  <2>7. Tracked(t)
    BY <2>2, <2>3, <2>5, <2>6, AnswersStayOnTrack DEF Tracked
  <2> QED BY <1>3, <2>7 DEF ForwardToChild, t, g
<1>4. CASE c \in Battery /\ s.queue[n][i] # NoFrame
  <2>1. f.cmd \in Nat /\ f.seq \in Seqs
    BY DEF Frame
  <2>2. Tracked(Refuse(s, f.cmd))
    BY <2>1, RefuseTracked
  <2>3. Tracked(SendUpstream(Refuse(s, f.cmd), n, "Nack", f.seq, 0, f.cmd))
    BY <2>1, <2>2, SendUpstreamTracked
  <2> QED BY <1>4, <2>3 DEF ForwardToChild
<1> QED BY <1>2, <1>3, <1>4

LEMMA SendDownstreamTracked ==
  ASSUME Bindings, NEW s, Tracked(s), NEW n \in Node, NEW dest \in Path,
         NEW ack \in BOOLEAN, NEW heard \in Node \cup {NoNode}
  PROVE  Tracked(SendDownstream(s, n, dest, ack, heard))
<1> DEFINE number == NextSeq(s, n)
           cmd == Len(s.cmds) + 1
           c == [by |-> n, seq |-> number, dest |-> dest, ack |-> ack, heard |-> heard]
           issued == [s EXCEPT !.seq[n] = number, !.cmds = Append(@, c)]
           f == [type |-> "WriteRequest", upstream |-> FALSE, ack |-> ack,
                 queued |-> FALSE, seq |-> number, dest |-> dest, src |-> <<>>,
                 about |-> 0, hop |-> 0, by |-> n, cmd |-> cmd]
           d == ResolveDownstream(RouterOf(n), f)
<1>1. s \in State /\ s.cmds \in Seq(Command) /\ number \in Seqs /\ cmd \in Nat
  <2>1. s \in State /\ s.cmds \in Seq(Command)
    BY DEF Tracked, State
  <2> QED BY <2>1, NextSeqType
<1>2. f \in Frame
  <2>1. <<>> \in Path
    BY DEF Path
  <2> QED BY <1>1, <2>1 DEF Frame, Seqs
<1>3. Append(s.cmds, c) \in Seq(Command)
  BY <1>1 DEF Command
<1>4. /\ issued \in State /\ issued.air = s.air /\ issued.queue = s.queue
      /\ issued.ran = s.ran /\ issued.cmds = Append(s.cmds, c)
  BY <1>1, <1>3 DEF State
<1>5. /\ \A k \in DOMAIN s.cmds : k \in DOMAIN issued.cmds /\ issued.cmds[k] = s.cmds[k]
      /\ cmd \in DOMAIN issued.cmds /\ issued.cmds[cmd] = c
  BY <1>1, <1>4
<1>6. c.by = n /\ c.dest = dest
  OBVIOUS
<1>7. f.type = "WriteRequest" /\ f.cmd = cmd /\ f.dest = dest
  OBVIOUS
<1>8. SendDownstream(s, n, dest, ack, heard) =
        IF d.action = "Deliver" THEN HandleRequest(issued, n, f)
        ELSE IF d.action = "ToChild" THEN ForwardToChild(issued, n, d.frame, d.child)
        ELSE Refuse(issued, cmd)
  BY Zenon DEF SendDownstream
<1> HIDE DEF issued, c, f, cmd, d
<1>9. Extends(s, issued)
  BY <1>4, <1>5 DEF Extends
<1>10. Tracked(issued)
  BY <1>4, <1>9, SameTracked
<1>11. Halfway(issued, f, n)
  <2>1. <<>> \in Seq(Hop) /\ <<>> \o dest = dest
    BY DEF Path
  <2>2. Bonded(n, <<>>, n)
    BY BondedNowhere
  <2> QED BY <1>5, <1>6, <1>7, <2>1, <2>2 DEF Halfway
<1>12. d = ResolveDownstream(RouterOf(n), f)
  BY DEF d
<1>13. Tracked(HandleRequest(issued, n, f))
  BY <1>2, <1>10, HandleRequestTracked
<1>14. d.action = "ToChild" => Tracked(ForwardToChild(issued, n, d.frame, d.child))
  <2> SUFFICES ASSUME d.action = "ToChild"
               PROVE  Tracked(ForwardToChild(issued, n, d.frame, d.child))
    OBVIOUS
  <2>1. /\ f.dest # <<>> /\ d.child = Head(f.dest) /\ d.child \in Used(children[n])
        /\ d.frame = [f EXCEPT !.dest = Shift(@)] /\ d.frame \in Frame
    BY <1>2, <1>12, ResolveType
  <2>2. d.frame.type = "WriteRequest" /\ Head(f.dest) \in Used(children[n])
    BY <1>2, <1>7, <2>1 DEF Frame
  <2>3. OnTrack(issued, [f EXCEPT !.dest = Shift(@)], n, children[n][Head(f.dest)].mac)
    BY <1>2, <1>7, <1>11, <2>1, <2>2, DescendOnTrack
  <2>4. OnTrack(issued, d.frame, n, children[n][d.child].mac)
    BY <2>1, <2>3
  <2> QED BY <1>10, <2>1, <2>2, <2>4, ForwardToChildTracked
<1>15. Tracked(Refuse(issued, cmd))
  BY <1>1, <1>10, RefuseTracked DEF cmd
<1> QED BY <1>8, <1>13, <1>14, <1>15

LEMMA DeliverLinksTracked ==
  ASSUME Bindings, NEW s, Tracked(s), NEW n \in Node, NEW src, NEW maker \in Node
  PROVE  Tracked(DeliverLinks(s, n, src, maker))
<1> DEFINE l == CHOOSE l \in LinksFrom(n, src) : TRUE
<1>1. CASE LinksFrom(n, src) = {}
  BY <1>1 DEF DeliverLinks
<1>2. CASE LinksFrom(n, src) # {}
  <2>1. l \in LinksFrom(n, src)
    BY <1>2
  <2>2. l.dest \in Path
    BY <2>1 DEF LinksFrom
  <2> HIDE DEF l
  <2>3. Tracked(SendDownstream(s, n, l.dest, FALSE, maker))
    BY <2>2, SendDownstreamTracked
  <2> QED BY <1>2, <2>3 DEF DeliverLinks, l
<1> QED BY <1>1, <1>2

LEMMA FlushQueueTracked ==
  ASSUME Bindings, NEW s, Tracked(s), NEW n \in Node,
         NEW i, i = 0 \/ i \in Used(children[n])
  PROVE  Tracked(FlushQueue(s, n, i))
<1>1. CASE i = 0
  BY <1>1 DEF FlushQueue
<1>2. CASE i \in Used(children[n])
  <2> DEFINE c == children[n][i].mac
             f == s.queue[n][i]
             t == [s EXCEPT !.queue[n][i] = NoFrame]
  <2>1. i \in Index /\ c \in Node /\ i # 0 /\ s \in State
    BY <1>2 DEF Used, Bindings, Child, Index, Tracked
  <2>2. CASE c \notin Battery \/ f = NoFrame
    BY <2>1, <2>2 DEF FlushQueue
  <2>3. CASE ~(c \notin Battery \/ f = NoFrame)
    <3>1. f \in Frame /\ OnTrack(s, f, n, c)
      BY <2>1, <2>3 DEF State, Tracked, QueueOnTrack
    <3>2. /\ t \in State /\ t.air = s.air /\ t.cmds = s.cmds /\ t.ran = s.ran
          /\ t.queue = [s.queue EXCEPT ![n][i] = NoFrame]
      BY <2>1 DEF State
    <3>3. \A m \in Node, j \in Index :
            t.queue[m][j] # NoFrame => t.queue[m][j] = s.queue[m][j]
      BY <2>1, <3>2 DEF State
    <3> HIDE DEF f, t
    <3>4. Extends(s, t)
      BY <3>2 DEF Extends
    <3>5. QueueOnTrack(t)
      BY <3>3, <3>4, TrackStays DEF Tracked, QueueOnTrack
    <3>6. AirOnTrack(t)
      BY <3>2, <3>4, TrackStays DEF Tracked, AirOnTrack
    <3>7. Tracked(t) /\ OnTrack(t, f, n, c)
      BY <3>1, <3>2, <3>4, <3>5, <3>6, AnswersStayOnTrack, TrackStays DEF Tracked
    <3>8. Tracked(Transmit(t, n, c, f))
      BY <2>1, <3>1, <3>7, TransmitTracked
    <3> QED BY <2>1, <2>3, <3>8 DEF FlushQueue, f, t
  <2> QED BY <2>2, <2>3
<1> QED BY <1>1, <1>2

\* Which way a frame came, and what the router did not find.
LEMMA RouteWay ==
  ASSUME Bindings, NEW n \in Node, NEW from \in Node, NEW f \in Frame
  PROVE  LET d == Route(RouterOf(n), f, from) IN
         /\ d.action = "ToChild" => from = parent[n]
         /\ d.action = "Deliver" /\ f.upstream => parent[n] = NoNode
         /\ d.action = "Drop" /\ d.reason = "NoSuchChild" =>
              /\ from = parent[n] /\ ~f.upstream /\ f.dest # <<>>
              /\ d.child = Head(f.dest) /\ d.child \notin Used(children[n])
<1> DEFINE r == RouterOf(n)
           d == Route(r, f, from)
           up == RouteUpstream(r, f, Sender(n, from))
           down == ResolveDownstream(r, f)
<1>1. r.parent = parent[n] /\ r.children = children[n]
  BY DEF RouterOf
<1>2. \/ d = Drop(f, 0, "NotBound")
      \/ d = Drop(f, 0, "BadRequest")
      \/ f.upstream /\ d = up
      \/ ~f.upstream /\ from = parent[n] /\ d = down
  BY <1>1, Zenon DEF Route, Sender
<1>3. CASE d = Drop(f, 0, "NotBound") \/ d = Drop(f, 0, "BadRequest")
  BY <1>3 DEF Drop, Decision
<1>4. CASE f.upstream /\ d = up
  <2>1. /\ up.action = "Deliver" => parent[n] = NoNode
        /\ up.action # "ToChild" /\ (up.action = "Drop" => up.reason = "BadRequest")
    BY <1>1 DEF RouteUpstream, Drop, Decision
  <2> QED BY <1>4, <2>1
<1>5. CASE ~f.upstream /\ from = parent[n] /\ d = down
  <2>1. down.action = "Drop" =>
          f.dest # <<>> /\ down.child = Head(f.dest) /\ down.child \notin Used(children[n])
    BY <1>1 DEF ResolveDownstream, Drop, Decision
  <2> QED BY <1>5, <2>1
<1> QED BY <1>2, <1>3, <1>4, <1>5

LEMMA HopsAssociate ==
  ASSUME NEW p \in Seq(Hop), NEW q \in Seq(Hop), NEW r \in Seq(Hop)
  PROVE  (p \o q) \o r = p \o (q \o r)
  BY ONLY SMTT(60), ConcatAssociative

\* A hop moves from what is before a refusal to what it gathered.
LEMMA HopMoves ==
  ASSUME NEW p \in Seq(Hop), NEW j \in Hop, NEW src \in Seq(Hop), NEW more \in Seq(Hop)
  PROVE  Append(p, j) \o (src \o more) = p \o ((<<j>> \o src) \o more)
<1>1. <<j>> \in Seq(Hop) /\ src \o more \in Seq(Hop) /\ Append(p, j) = p \o <<j>>
  OBVIOUS
<1>2. (p \o <<j>>) \o (src \o more) = p \o (<<j>> \o (src \o more))
  BY SMTT(60), <1>1, HopsAssociate
<1>3. (<<j>> \o src) \o more = <<j>> \o (src \o more)
  BY <1>1, HopsAssociate
<1> QED BY ONLY <1>1, <1>2, <1>3

\* What a refusal gathered and the hop it names begin its path.
LEMMA HopNamed ==
  ASSUME NEW src \in Seq(Hop), NEW h \in Hop, NEW rest \in Seq(Hop)
  PROVE  LET full == src \o <<h>>
             path == <<>> \o (src \o (<<h>> \o rest))
         IN  Len(full) =< Len(path) /\ full = SubSeq(path, 1, Len(full))
<1> DEFINE full == src \o <<h>>
           path == <<>> \o (src \o (<<h>> \o rest))
<1>1. <<h>> \in Seq(Hop) /\ full \in Seq(Hop)
  OBVIOUS
<1>2. full \o rest = src \o (<<h>> \o rest)
  BY <1>1, HopsAssociate
<1>3. <<>> \o (full \o rest) = full \o rest
  BY <1>1
<1>4. path = full \o rest
  BY ONLY <1>2, <1>3
<1> HIDE DEF full, path
<1>5. Len(full) =< Len(path) /\ full = SubSeq(path, 1, Len(full))
  BY ONLY <1>1, <1>4, rest \in Seq(Hop)
<1> QED BY <1>5 DEF full, path

LEMMA IssuerType ==
  ASSUME NEW s \in State, NEW k \in DOMAIN s.cmds
  PROVE  s.cmds[k].by \in Node
<1>1. s.cmds \in Seq(Command)
  BY DEF State
<1>2. s.cmds[k] \in Command
  BY <1>1
<1> QED BY <1>2 DEF Command

\* A command that its receiver takes has one hop more behind it.
LEMMA TakenHalfway ==
  ASSUME Bindings, NEW s \in State, NEW from \in Node, NEW n \in Node, NEW f \in Frame,
         f.type = "WriteRequest", OnTrack(s, f, from, n), from = parent[n]
  PROVE  Halfway(s, f, n)
<1> DEFINE c == s.cmds[f.cmd]
<1>1. PICK q \in Seq(Hop), i \in Used(children[from]) :
        /\ c.dest = q \o (<<i>> \o f.dest)
        /\ Bonded(c.by, q, from) /\ children[from][i].mac = n
  BY DEF OnTrack, Down
<1>2. f.cmd \in DOMAIN s.cmds /\ c.by \in Node
  <2>1. f.cmd \in DOMAIN s.cmds
    BY DEF OnTrack, Down
  <2> QED BY <2>1, IssuerType
<1>3. i \in Hop /\ f.dest \in Seq(Hop)
  BY DEF Used, Index, Hop, Frame, Path
<1> HIDE DEF c
<1>4. Bonded(c.by, Append(q, i), n)
  BY <1>1, <1>2, BondedOn
<1>5. Append(q, i) \in Seq(Hop) /\ Append(q, i) = q \o <<i>> /\ <<i>> \in Seq(Hop)
  BY <1>3
<1>6. c.dest = Append(q, i) \o f.dest
  <2>1. (q \o <<i>>) \o f.dest = q \o (<<i>> \o f.dest)
    BY ZenonT(60), <1>3, <1>5, HopsAssociate
  <2> QED BY ONLY <1>1, <1>5, <2>1
<1> QED BY <1>2, <1>4, <1>5, <1>6 DEF Halfway, c

\* A refusal climbs back the way its command came, hop by hop.
LEMMA ClimbBack ==
  ASSUME Bindings, OneIndexEach, NEW s \in State, NEW from \in Node, NEW n \in Node,
         NEW f \in Frame, Back(s, f, from), n = parent[from],
         Sender(n, from) \in IndicesOf(children[n], from)
  PROVE  Back(s, Climbed(n, from, f), n)
<1> DEFINE g == Climbed(n, from, f)
           c == s.cmds[f.cmd]
           j == Sender(n, from)
<1>1. g.cmd = f.cmd /\ g.hop = f.hop /\ g.by = f.by /\ g.src = <<j>> \o f.src
  BY DEF Climbed, Frame, Prepend
<1>2. f.cmd \in DOMAIN s.cmds /\ c.by \in Node
  <2>1. f.cmd \in DOMAIN s.cmds
    BY DEF Back
  <2> QED BY SMTT(60), <2>1, IssuerType
<1>3. f.src \in Seq(Hop) /\ j \in Hop /\ j \in Used(children[n]) /\ children[n][j].mac = from
  BY SMTT(60) DEF Frame, Path, IndicesOf, Used, Index, Hop
<1> HIDE DEF g, j
<1>4. parent[c.by] # NoNode => Back(s, g, n)
  <2>1. g.cmd \in DOMAIN s.cmds /\ s.cmds[g.cmd] = c
    BY ONLY <1>1, <1>2
  <2> QED BY ONLY <2>1, Zenon DEF Back
<1>5. ASSUME parent[c.by] = NoNode PROVE Back(s, g, n)
  <2>1. PICK q \in Seq(Hop), rest \in Seq(Hop) :
          /\ c.dest = q \o (f.src \o (<<f.hop>> \o rest)) /\ Bonded(c.by, q, from)
    BY <1>5 DEF Back
  <2>2. f.hop \in Hop /\ f.hop \notin Used(children[f.by])
    BY <1>5 DEF Back
  <2> HIDE DEF c
  <2>3. q # <<>>
    <3> SUFFICES ASSUME q = <<>> PROVE FALSE
      OBVIOUS
    <3>1. from = c.by
      BY <1>2, <2>1, BondedNowhere
    <3> QED BY <1>5, <3>1
  <2> DEFINE p == SubSeq(q, 1, Len(q) - 1)
             i == q[Len(q)]
  <2>4. p \in Seq(Hop) /\ i \in Hop /\ q = Append(p, i)
    BY <2>3
  <2> HIDE DEF p, i
  <2>5. /\ Bonded(c.by, p, n) /\ i \in Used(children[n]) /\ children[n][i].mac = from
    BY <1>2, <2>1, <2>4, BondedBack
  <2>6. i = j
    BY <1>3, <2>5 DEF OneIndexEach
  <2> DEFINE more == <<f.hop>> \o rest
  <2>7. more \in Seq(Hop)
    BY <2>2
  <2>8. c.dest = q \o (f.src \o more)
    BY <2>1
  <2> HIDE DEF more
  <2>9. Append(p, j) \o (f.src \o more) = p \o ((<<j>> \o f.src) \o more)
    <3>1. p \in Seq(Hop) /\ j \in Hop /\ f.src \in Seq(Hop) /\ more \in Seq(Hop)
      BY ONLY <1>3, <2>4, <2>7, Zenon
    <3> QED BY ONLY <3>1, HopMoves, ZenonT(60)
  <2>10. q = Append(p, j)
    BY ONLY <2>4, <2>6
  <2>11. c.dest = p \o (g.src \o more)
    BY ONLY <1>1, <2>8, <2>9, <2>10
  <2>12. c.dest = p \o (g.src \o (<<g.hop>> \o rest)) /\ rest \in Seq(Hop)
    <3>1. more = <<g.hop>> \o rest
      BY ONLY <1>1 DEF more
    <3> QED BY ONLY <2>11, <3>1, rest \in Seq(Hop)
  <2> QED BY <1>1, <1>2, <2>2, <2>4, <2>5, <2>12 DEF Back, c
<1> QED BY <1>4, <1>5 DEF g

\* A refusal starts where its command could go no further.
LEMMA StartsBack ==
  ASSUME NEW s \in State, NEW n \in Node, NEW f \in Frame, Halfway(s, f, n), f.dest # <<>>,
         Head(f.dest) \notin Used(children[n]), NEW number
  PROVE  Back(s, Upward(n, "RouteError", number, f.seq, Head(f.dest), f.cmd), n)
<1> DEFINE g == Upward(n, "RouteError", number, f.seq, Head(f.dest), f.cmd)
           h == Head(f.dest)
           rest == Tail(f.dest)
<1>1. g.cmd = f.cmd /\ g.hop = h /\ g.by = n /\ g.src = <<>>
  BY DEF Upward
<1>2. h \in Hop /\ rest \in Seq(Hop) /\ f.dest = <<h>> \o rest /\ <<>> \o f.dest = f.dest
  BY DEF Frame, Path
<1> HIDE DEF g, h, rest
<1>3. PICK q \in Seq(Hop) : s.cmds[f.cmd].dest = q \o f.dest /\ Bonded(s.cmds[f.cmd].by, q, n)
  BY DEF Halfway
<1>4. s.cmds[f.cmd].dest = q \o (g.src \o (<<g.hop>> \o rest))
  BY ONLY <1>1, <1>2, <1>3
<1>5. f.cmd \in DOMAIN s.cmds /\ h \notin Used(children[n])
  BY DEF Halfway, h
<1>6. Back(s, g, n)
  BY <1>1, <1>2, <1>3, <1>4, <1>5 DEF Back
<1> QED BY <1>6 DEF g, h

\* At the root, nothing is before it: what it gathered and the hop it names begin
\* the path.
LEMMA BackNames ==
  ASSUME NEW s \in State, NEW n \in Node, NEW g \in Frame, Back(s, g, n),
         Leads(n, g.src, g.by), parent[n] = NoNode, NEW w,
         w.at = n, w.src = g.src, w.hop = g.hop, w.cmd = g.cmd
  PROVE  w.cmd \in DOMAIN s.cmds /\ Names(s, w)
<1> DEFINE c == s.cmds[g.cmd]
           full == g.src \o <<g.hop>>
<1>1. g.cmd \in DOMAIN s.cmds
  BY DEF Back
<1>2. ASSUME c.by = n
      PROVE  /\ Len(full) =< Len(c.dest) /\ full = SubSeq(c.dest, 1, Len(full))
             /\ \E m \in Node : Leads(n, g.src, m) /\ g.hop \notin Used(children[m])
  <2>1. parent[c.by] = NoNode
    BY <1>2
  <2>2. /\ g.hop \in Hop /\ g.hop \notin Used(children[g.by])
        /\ \E q, rest \in Seq(Hop) :
             /\ c.dest = q \o (g.src \o (<<g.hop>> \o rest)) /\ Bonded(c.by, q, n)
    <3>1. parent[c.by] = NoNode \/ parent[c.by] # NoNode
      OBVIOUS
    <3>2. NoNode \notin Node
      BY RouterAssumption
    <3> QED BY <2>1, Zenon DEF Back
  <2>3. PICK q \in Seq(Hop), rest \in Seq(Hop) :
          c.dest = q \o (g.src \o (<<g.hop>> \o rest)) /\ Bonded(c.by, q, n)
    BY <2>2, Zenon
  <2>4. g.by \in Node /\ g.src \in Seq(Hop)
    BY DEF Frame, Path
  <2> HIDE DEF c
  <2>5. q = <<>>
    <3> SUFFICES ASSUME q # <<>> PROVE FALSE
      OBVIOUS
    <3> DEFINE p == SubSeq(q, 1, Len(q) - 1)
               i == q[Len(q)]
    <3>1. p \in Seq(Hop) /\ i \in Hop /\ q = Append(p, i)
      OBVIOUS
    <3> HIDE DEF p, i
    <3>2. Bonded(n, Append(p, i), n)
      BY ONLY <1>2, <2>3, <3>1
    <3>3. parent[n] \in Node
      BY <3>1, <3>2, BondedBack
    <3> QED BY <3>3
  <2>6. c.dest = <<>> \o (g.src \o (<<g.hop>> \o rest))
    BY ONLY <2>3, <2>5
  <2>7. g.src \in Seq(Hop) /\ g.hop \in Hop /\ rest \in Seq(Hop)
    BY <2>2, <2>4
  <2>8. Len(full) =< Len(c.dest) /\ full = SubSeq(c.dest, 1, Len(full))
    <3> DEFINE path == <<>> \o (g.src \o (<<g.hop>> \o rest))
    <3>1. Len(full) =< Len(path) /\ full = SubSeq(path, 1, Len(full))
      BY ONLY <2>7, HopNamed, Zenon
    <3>2. c.dest = path
      BY ONLY <2>6
    <3> HIDE DEF full, path
    <3> QED BY ONLY <3>1, <3>2
  <2> QED BY <2>2, <2>4, <2>8
<1> QED BY <1>1, <1>2 DEF Names

\* What climbs to a node's parent, or arrives at the root, is on track there.
LEMMA ClimbOnTrack ==
  ASSUME Bindings, OneIndexEach, NEW s \in State, NEW from \in Node, NEW n \in Node,
         NEW f \in Frame, OnTrack(s, f, from, n), f.type # "WriteRequest",
         Sender(n, from) \in IndicesOf(children[n], from)
  PROVE  OnTrack(s, Climbed(n, from, f), n, parent[n])
<1> DEFINE g == Climbed(n, from, f)
<1>1. g.type = f.type
  BY DEF Climbed, Frame
<1>2. f.type = "RouteError" => Back(s, g, n)
  BY ClimbBack DEF OnTrack
<1> HIDE DEF g
<1>3. OnTrack(s, g, n, parent[n])
  BY <1>1, <1>2 DEF OnTrack
<1> QED BY <1>3 DEF g

LEMMA ArrivingTracked ==
  ASSUME Tracking, NEW from \in Node, NEW n \in Node, air[from][n] # <<>>
  PROVE  Tracked(Taken(from, n)) /\ OnTrack(Taken(from, n), Arriving(from, n), from, n)
<1> DEFINE t == Taken(from, n)
<1>1. Now \in State /\ t \in State /\ air[from][n] \in Seq(Frame)
  BY NowType, ArrivingType DEF Tracking, Addressing, TypeOK
<1>2. /\ t.queue = Now.queue /\ t.cmds = Now.cmds /\ t.ran = Now.ran
      /\ Now.air = air /\ t.air = [air EXCEPT ![from][n] = Tail(@)]
  BY <1>1 DEF Taken, State, Now
<1>3. Extends(Now, t)
  BY <1>2 DEF Extends
<1>4. Tracked(Now)
  BY DEF Tracking
<1> HIDE DEF t
<1>5. AirOnTrack(t)
  <2> SUFFICES ASSUME NEW x \in Node, NEW y \in Node, NEW k \in DOMAIN t.air[x][y]
               PROVE  OnTrack(t, t.air[x][y][k], x, y)
    BY DEF AirOnTrack
  <2>1. CASE x = from /\ y = n
    <3>1. t.air[x][y] = Tail(air[x][y])
      BY <1>1, <1>2, <2>1 DEF State
    <3>2. k + 1 \in DOMAIN air[x][y] /\ t.air[x][y][k] = air[x][y][k + 1]
      BY <1>1, <2>1, <3>1
    <3> QED BY <1>2, <1>3, <1>4, <3>2, TrackStays DEF Tracked, AirOnTrack
  <2>2. CASE ~(x = from /\ y = n)
    <3>1. t.air[x][y] = air[x][y]
      BY <1>1, <1>2, <2>2 DEF State
    <3> QED BY <1>2, <1>3, <1>4, <3>1, TrackStays DEF Tracked, AirOnTrack
  <2> QED BY <2>1, <2>2
<1>6. QueueOnTrack(t) /\ AnswersOnTrack(t)
  BY <1>2, <1>3, <1>4, TrackStays, AnswersStayOnTrack DEF Tracked, QueueOnTrack
<1>7. OnTrack(t, Arriving(from, n), from, n)
  <2>1. 1 \in DOMAIN air[from][n] /\ Arriving(from, n) = air[from][n][1]
    BY <1>1 DEF Arriving
  <2> QED BY <1>2, <1>3, <1>4, <2>1, TrackStays DEF Tracked, AirOnTrack
<1> QED BY <1>1, <1>5, <1>6, <1>7 DEF Tracked, t

LEMMA TapTracked ==
  ASSUME Bindings, NEW s, Tracked(s), NEW n \in Node, NEW f \in Frame, NEW b,
         OnTrack(s, f, n, b)
  PROVE  Tracked(Tap(s, n, f)) /\ OnTrack(Tap(s, n, f), f, n, b)
<1>1. CASE f.type = "Report"
  <2>1. f.by \in Node
    BY DEF Frame
  <2>2. Tracked(DeliverLinks(s, n, f.src, f.by))
    BY <2>1, DeliverLinksTracked
  <2>3. OnTrack(DeliverLinks(s, n, f.src, f.by), f, n, b)
    BY <1>1 DEF OnTrack
  <2> QED BY <1>1, <2>2, <2>3 DEF Tap
<1>2. CASE f.type # "Report"
  BY <1>2 DEF Tap
<1> QED BY <1>1, <1>2

\* An answer fit to be recorded.
Tells(s, w) == w.type = "RouteError" => w.cmd \in DOMAIN s.cmds /\ Names(s, w)

LEMMA BecomeTracked ==
  ASSUME NEW s, Tracked(s), Become(s), UNCHANGED binding,
         \A w \in answers' : w \in answers \/ Tells(s, w)
  PROVE  Tracked(Now)'
<1>1. /\ Now'.air = s.air /\ Now'.queue = s.queue /\ Now'.cmds = s.cmds
      /\ Now'.ran = s.ran /\ Now'.seq = s.seq /\ Now'.refused = s.refused
  BY DEF Become, Now
<1>2. Now' \in State
  BY DEF Become, Now, Tracked, State
<1>3. children' = children /\ parent' = parent
  BY DEF binding
<1>4. \A x, p, y : /\ Leads(x, p, y)' <=> Leads(x, p, y)
                   /\ Bonded(x, p, y)' <=> Bonded(x, p, y)
  BY SMTT(30), <1>3, Zenon DEF Leads, Bonded, Used
<1>5. \A f, a, b : OnTrack(Now, f, a, b)' <=> OnTrack(s, f, a, b)
  <2> TAKE f, a, b
  <2>1. Down(Now, f, a, b)' <=> Down(s, f, a, b)
    BY ONLY <1>1, <1>3, <1>4, SMTT(30), Zenon DEF Down
  <2>2. Back(Now, f, a)' <=> Back(s, f, a)
    <3>1. Now'.cmds = s.cmds /\ parent' = parent /\ children' = children
      BY ONLY <1>1, <1>3
    <3>2. \A x, q : Bonded(x, q, a)' <=> Bonded(x, q, a)
      BY ONLY <1>4
    <3>3. ASSUME Back(s, f, a) PROVE Back(Now, f, a)'
      BY ONLY <3>1, <3>2, <3>3, Zenon DEF Back
    <3>4. ASSUME Back(Now, f, a)' PROVE Back(s, f, a)
      BY ONLY <3>1, <3>2, <3>4, Zenon DEF Back
    <3> QED BY ONLY <3>3, <3>4
  <2> QED BY ONLY <1>3, <2>1, <2>2, Zenon DEF OnTrack
<1>6. AirOnTrack(Now)' /\ QueueOnTrack(Now)'
  BY <1>1, <1>3, <1>5 DEF AirOnTrack, QueueOnTrack, Tracked
<1>7. \A w : Names(Now, w)' <=> Names(s, w)
  BY <1>1, <1>3, <1>4 DEF Names
<1>8. AnswersOnTrack(Now)'
  BY <1>1, <1>7 DEF AnswersOnTrack, Tracked, Tells
<1> QED BY <1>2, <1>6, <1>8 DEF Tracked

LEMMA BecomeFlushedTracked ==
  ASSUME TypeOK, NEW s, Tracked(s), NEW from \in Node, NEW n \in Node,
         BecomeFlushed(s, from, n), UNCHANGED binding,
         \A w \in answers' : w \in answers \/ Tells(s, w)
  PROVE  Tracked(Now)'
<1> DEFINE i == ChildByMac(children[n], from)
           t == FlushQueue(s, n, i)
<1>1. Bindings /\ s \in State
  BY NowType DEF Tracked
<1>2. i = 0 \/ i \in Used(children[n])
  <2>1. children[n] \in [Index -> Child \cup {NoChild}]
    BY <1>1 DEF Bindings
  <2> QED BY <2>1, ChildByMacType DEF IndicesOf
<1>3. Tracked(t)
  BY <1>1, <1>2, FlushQueueTracked
<1>4. t.cmds = s.cmds
  BY <1>1 DEF FlushQueue, Transmit, State
<1>5. \A w \in answers' : w \in answers \/ Tells(t, w)
  BY <1>4 DEF Tells, Names
<1>6. Become(t) \/ Become(s)
  BY DEF BecomeFlushed
<1> QED BY <1>3, <1>5, <1>6, BecomeTracked

\* A frame that is dropped may leave a refusal.
LEMMA DropTracked ==
  ASSUME Tracking, NEW from \in Node, NEW n \in Node, DropFrame(from, n)
  PROVE  LET d == DecisionOn(from, n)
             s == Taken(from, n)
         IN  Tracked(IF d.reason = "NoSuchChild"
                     THEN SendUpstream(Refuse(s, d.frame.cmd), n, "RouteError", d.frame.seq,
                                       d.child, d.frame.cmd)
                     ELSE s)
<1> DEFINE d == DecisionOn(from, n)
           s == Taken(from, n)
           f == Arriving(from, n)
           t == Refuse(s, d.frame.cmd)
           refusal == SendUpstream(t, n, "RouteError", d.frame.seq, d.child, d.frame.cmd)
<1>1. air[from][n] # <<>>
  BY DEF DropFrame, OnFrame
<1>2. Addressing
  BY DEF Tracking
<1>3. Bindings /\ TypeOK /\ f \in Frame
  BY <1>1, <1>2, NowType, ArrivingType DEF Addressing
<1>4. Good(s, f, from, n) /\ Tracked(s) /\ s \in State /\ OnTrack(s, f, from, n)
  BY <1>1, <1>2, ArrivingGood, ArrivingTracked DEF Tracked
<1>5. d = Route(RouterOf(n), f, from) /\ d.frame \in Frame /\ d.child \in 0 .. MaxHop
  BY <1>3, RouteType DEF DecisionOn
<1>6. d.action = "Drop"
  BY DEF DropFrame, OnFrame
<1> HIDE DEF s, f, d
<1>7. d.frame.cmd \in Nat /\ d.frame.seq \in Seqs
  BY <1>5 DEF Frame
<1>8. Tracked(t) /\ Extends(s, t) /\ t \in State
  BY <1>4, <1>7, RefuseTracked DEF Tracked
<1>9. ASSUME d.reason = "NoSuchChild" PROVE Tracked(refusal)
  <2>1. d.frame = f
    BY <1>3, <1>5, <1>6, RouteType
  <2>2. /\ from = parent[n] /\ ~f.upstream /\ f.dest # <<>>
        /\ d.child = Head(f.dest) /\ d.child \notin Used(children[n])
    BY <1>3, <1>5, <1>6, <1>9, RouteWay
  <2>3. f.type = "WriteRequest" /\ OnTrack(t, f, from, n)
    BY <1>4, <1>8, <2>2, TrackStays DEF Good
  <2>4. Halfway(t, f, n)
    BY <1>3, <1>8, <2>2, <2>3, TakenHalfway
  <2>5. Head(f.dest) \notin Used(children[n])
    BY <2>2
  <2> HIDE DEF t
  <2>6. \A number :
          Back(t, Upward(n, "RouteError", number, f.seq, Head(f.dest), f.cmd), n)
    BY <1>3, <1>8, <2>2, <2>4, <2>5, StartsBack
  <2>7. \A number :
          Back(t, Upward(n, "RouteError", number, d.frame.seq, d.child, d.frame.cmd), n)
    BY ONLY <2>1, <2>2, <2>6
  <2> QED BY <1>3, <1>5, <1>7, <1>8, <2>7, SendUpstreamTracked
<1>10. Tracked(IF d.reason = "NoSuchChild" THEN refusal ELSE s)
  BY <1>4, <1>9
<1> QED BY <1>10 DEF s, d

LEMMA ReceiveTracked ==
  ASSUME Tracking, NEW from \in Node, NEW n \in Node, Receive(from, n)
  PROVE  Tracked(Now)'
<1> DEFINE d == DecisionOn(from, n)
           s == Taken(from, n)
           f == Arriving(from, n)
<1>1. air[from][n] # <<>> /\ UNCHANGED binding
  BY DEF Receive, PassToParent, PassToChild, DeliverRequest, DeliverNews, DropFrame, OnFrame
<1>2. Addressing /\ OneIndexEach
  BY DEF Tracking
<1>3. Bindings /\ TypeOK /\ f \in Frame
  BY <1>1, <1>2, NowType, ArrivingType DEF Addressing
<1>4. Good(s, f, from, n) /\ Tracked(s) /\ s \in State /\ OnTrack(s, f, from, n)
  BY <1>1, <1>2, ArrivingGood, ArrivingTracked DEF Tracked
<1>5. d = Route(RouterOf(n), f, from) /\ d.frame \in Frame /\ d.child \in 0 .. MaxHop
  BY <1>3, RouteType DEF DecisionOn
<1> HIDE DEF s, f, d
<1>6. CASE PassToParent(from, n)
  <2>1. d.action = "ToParent"
    BY <1>6 DEF PassToParent, OnFrame, d
  <2>2. /\ f.upstream /\ parent[n] \in Node /\ d.frame = Climbed(n, from, f)
        /\ Sender(n, from) \in IndicesOf(children[n], from)
    BY ZenonT(60), <1>3, <1>5, <2>1, RouteType
  <2>3. OnTrack(s, d.frame, n, parent[n])
    BY <1>2, <1>3, <1>4, <2>2, ClimbOnTrack DEF Good
  <2>4. Tracked(Tap(s, n, d.frame)) /\ OnTrack(Tap(s, n, d.frame), d.frame, n, parent[n])
    BY <1>3, <1>4, <1>5, <2>3, TapTracked
  <2>5. Tracked(Transmit(Tap(s, n, d.frame), n, parent[n], d.frame))
    BY <1>5, <2>2, <2>4, TransmitTracked
  <2> QED BY <1>1, <1>3, <1>6, <2>5, BecomeFlushedTracked DEF PassToParent, s, d
<1>7. CASE PassToChild(from, n)
  <2>1. d.action = "ToChild"
    BY <1>7 DEF PassToChild, OnFrame, d
  <2>2. /\ ~f.upstream /\ f.dest # <<>> /\ d.child = Head(f.dest)
        /\ d.child \in Used(children[n]) /\ d.frame = [f EXCEPT !.dest = Shift(@)]
    BY <1>3, <1>5, <2>1, RouteType
  <2>3. from = parent[n]
    BY <1>3, <1>5, <2>1, RouteWay
  <2>4. f.type = "WriteRequest" /\ d.frame.type = "WriteRequest"
    BY <1>3, <1>4, <2>2 DEF Good, Frame
  <2>5. Halfway(s, f, n)
    BY <1>3, <1>4, <2>3, <2>4, TakenHalfway
  <2>6. Head(f.dest) \in Used(children[n])
    BY <2>2
  <2>7. OnTrack(s, [f EXCEPT !.dest = Shift(@)], n, children[n][Head(f.dest)].mac)
    BY <1>3, <2>2, <2>4, <2>5, <2>6, DescendOnTrack
  <2>8. OnTrack(s, d.frame, n, children[n][d.child].mac)
    BY ONLY <2>2, <2>7
  <2>9. Tracked(ForwardToChild(s, n, d.frame, d.child))
    BY <1>3, <1>4, <1>5, <2>2, <2>4, <2>8, ForwardToChildTracked
  <2> QED BY <1>1, <1>3, <1>7, <2>9, BecomeFlushedTracked DEF PassToChild, s, d
<1>8. CASE DeliverRequest(from, n)
  <2>1. Tracked(HandleRequest(s, n, d.frame))
    BY <1>3, <1>4, <1>5, HandleRequestTracked
  <2> QED BY <1>1, <1>3, <1>8, <2>1, BecomeFlushedTracked DEF DeliverRequest, s, d
<1>9. CASE DeliverNews(from, n)
  <2> DEFINE g == d.frame
             w == [at |-> n, type |-> g.type, about |-> g.about, src |-> g.src,
                   hop |-> g.hop, cmd |-> g.cmd]
  <2>1. d.action = "Deliver" /\ g.type # "WriteRequest"
    BY <1>9 DEF DeliverNews, OnFrame, d
  <2>2. /\ f.upstream /\ g = Climbed(n, from, f) /\ f.type # "WriteRequest"
        /\ Sender(n, from) \in IndicesOf(children[n], from)
    BY <1>3, <1>4, <1>5, <2>1, RouteType DEF Good
  <2>3. parent[n] = NoNode
    BY <1>3, <1>5, <2>1, <2>2, RouteWay
  <2>4. Good(s, g, n, n) /\ g.upstream
    BY <1>3, <1>4, <2>2, ClimbGood DEF Climbed, Frame
  <2>5. OnTrack(s, g, n, parent[n])
    BY <1>2, <1>3, <1>4, <2>2, ClimbOnTrack
  <2>6. Tracked(Tap(s, n, g))
    BY <1>3, <1>4, <1>5, <2>5, TapTracked
  <2>7. answers' = IF g.type = "Report" THEN answers ELSE answers \cup {w}
    BY <1>9 DEF DeliverNews, d
  <2>8. g.type # "Report" => Tap(s, n, g) = s
    BY DEF Tap
  <2>9. Tells(s, w)
    <3> SUFFICES ASSUME g.type = "RouteError" PROVE w.cmd \in DOMAIN s.cmds /\ Names(s, w)
      BY DEF Tells
    <3>1. Back(s, g, n) /\ Leads(n, g.src, g.by)
      BY <2>4, <2>5 DEF OnTrack, Good
    <3>2. w.at = n /\ w.src = g.src /\ w.hop = g.hop /\ w.cmd = g.cmd
      OBVIOUS
    <3> HIDE DEF w
    <3> QED BY <1>4, <1>5, <2>3, <3>1, <3>2, BackNames
  <2>10. \A v \in answers' : v \in answers \/ Tells(Tap(s, n, g), v)
    BY <2>7, <2>8, <2>9
  <2> QED BY <1>1, <1>3, <1>9, <2>6, <2>10, BecomeFlushedTracked DEF DeliverNews, s, d
<1>10. CASE DropFrame(from, n)
  <2> DEFINE t == SendUpstream(Refuse(s, d.frame.cmd), n, "RouteError", d.frame.seq, d.child,
                               d.frame.cmd)
             u == IF d.reason = "NoSuchChild" THEN t ELSE s
  <2>1. Tracked(u)
    BY <1>10, DropTracked DEF s, d
  <2>2. BecomeFlushed(u, from, n) /\ answers' = answers
    BY <1>10 DEF DropFrame, s, d
  <2> HIDE DEF u
  <2> QED BY <1>1, <1>3, <2>1, <2>2, BecomeFlushedTracked
<1> QED BY <1>6, <1>7, <1>8, <1>9, <1>10 DEF Receive

LEMMA LessTracked ==
  ASSUME Tracking, TypeOK', UNCHANGED <<binding, history>>,
         \A a, b \in Node : \A k \in DOMAIN air'[a][b] :
           \E j \in DOMAIN air[a][b] : air'[a][b][k] = air[a][b][j],
         \A n \in Node, i \in Index : queue'[n][i] # NoFrame => queue'[n][i] = queue[n][i]
  PROVE  Tracked(Now)'
<1> DEFINE s == [air |-> air', queue |-> queue', seq |-> seq', cmds |-> cmds, ran |-> ran,
                 refused |-> refused]
<1>1. /\ children' = children /\ parent' = parent /\ cmds' = cmds /\ ran' = ran
      /\ refused' = refused /\ answers' = answers
  BY DEF binding, history
<1>2. Now' \in State
  BY DEF TypeOK, Now, State, Run
<1>3. s = Now'
  BY <1>1 DEF Now
<1>4. /\ Now.cmds = cmds /\ Now.ran = ran /\ Now.air = air /\ Now.queue = queue
      /\ s.cmds = cmds /\ s.ran = ran /\ s.air = air' /\ s.queue = queue'
  BY DEF Now
<1>5. Tracked(Now) /\ Become(s)
  BY <1>1 DEF Tracking, Become, Now
<1> HIDE DEF s
<1>6. Extends(Now, s) /\ s \in State
  BY <1>2, <1>3, <1>4 DEF Extends
<1>7. AirOnTrack(s) /\ QueueOnTrack(s) /\ AnswersOnTrack(s)
  BY <1>4, <1>5, <1>6, TrackStays, AnswersStayOnTrack
     DEF Tracked, AirOnTrack, QueueOnTrack
<1>8. Tracked(s)
  BY <1>6, <1>7 DEF Tracked
<1> QED BY <1>1, <1>5, <1>8, BecomeTracked

LEMMA TrackingInit ==
  ASSUME NoTwins, Init
  PROVE  Tracking
<1>1. Addressing /\ Now \in State
  BY AddressingInit, InitType, NowType
<1>2. /\ answers = {}
      /\ \A a, b \in Node : Now.air[a][b] = <<>>
      /\ \A n \in Node, i \in Index : Now.queue[n][i] = NoFrame
  BY DEF Init, Now
<1>3. OneIndexEach
  BY DEF Init, NoTwins, OneIndexEach
<1> QED BY <1>1, <1>2, <1>3
        DEF Tracking, Tracked, AirOnTrack, QueueOnTrack, AnswersOnTrack

LEMMA BindingStays == [Next]_vars => UNCHANGED binding
<1> SUFFICES ASSUME [Next]_vars PROVE UNCHANGED binding
  OBVIOUS
<1>1. \A n, dest : RequestWrite(n, dest) => UNCHANGED binding
  BY DEF RequestWrite
<1>2. \A n : SendReport(n) \/ Doze(n) \/ Reboot(n) => UNCHANGED binding
  BY DEF SendReport, Doze, Reboot
<1>3. \A from, n : Receive(from, n) => UNCHANGED binding
  BY DEF Receive, PassToParent, PassToChild, DeliverRequest, DeliverNews, DropFrame, OnFrame
<1>4. \A from, n : NotHeard(from, n) => UNCHANGED binding
  BY DEF NotHeard
<1>5. UNCHANGED vars => UNCHANGED binding
  BY DEF vars
<1> QED BY <1>1, <1>2, <1>3, <1>4, <1>5, Zenon DEF Next

LEMMA TrackingNext == Tracking /\ [Next]_vars => Tracking'
<1> SUFFICES ASSUME Tracking, [Next]_vars PROVE Tracking'
  OBVIOUS
<1>1. Addressing /\ OneIndexEach /\ Tracked(Now) /\ Addressing'
  BY AddressingNext DEF Tracking
<1>2. TypeOK /\ TypeOK' /\ Bindings
  BY <1>1, NowType DEF Addressing
<1>3. UNCHANGED binding
  BY BindingStays
<1>4. OneIndexEach'
  BY <1>1, <1>3 DEF OneIndexEach, binding, Used
<1>5. ASSUME NEW n \in Commanders, NEW dest \in Destinations, RequestWrite(n, dest)
      PROVE  Tracked(Now)'
  <2>1. Tracked(SendDownstream(Now, n, dest, TRUE, NoNode))
    BY <1>1, <1>2, SendDownstreamTracked
  <2> QED BY <1>5, <2>1, BecomeTracked DEF RequestWrite
<1>6. ASSUME NEW n \in Reporters, SendReport(n) PROVE Tracked(Now)'
  <2>1. Tracked(DeliverLinks(Now, n, <<>>, n))
    BY <1>1, <1>2, DeliverLinksTracked
  <2>2. 0 \in Seqs /\ 0 \in 0 .. MaxHop
    BY DEF Seqs
  <2>3. Tracked(SendUpstream(DeliverLinks(Now, n, <<>>, n), n, "Report", 0, 0, 0))
    BY <1>2, <2>1, <2>2, SendUpstreamTracked
  <2> QED BY <1>6, <2>3, BecomeTracked DEF SendReport
<1>7. ASSUME NEW n \in Battery, Doze(n) PROVE Tracked(Now)'
  <2>1. air' = air /\ queue' = queue /\ UNCHANGED <<binding, history>>
    BY <1>7 DEF Doze
  <2> QED BY <1>2, <2>1, LessTracked
<1>8. ASSUME NEW n \in Restarting, Reboot(n) PROVE Tracked(Now)'
  <2>1. air' = air /\ UNCHANGED <<binding, history>>
    BY <1>8 DEF Reboot
  <2>2. \A m \in Node, i \in Index : queue'[m][i] # NoFrame => queue'[m][i] = queue[m][i]
    BY <1>8, <1>2 DEF Reboot, TypeOK
  <2> QED BY <1>2, <2>1, <2>2, LessTracked
<1>9. ASSUME NEW from \in Node, NEW n \in Node, NotHeard(from, n) PROVE Tracked(Now)'
  <2>1. queue' = queue /\ UNCHANGED <<binding, history>>
    BY <1>9 DEF NotHeard
  <2>2. ASSUME NEW a \in Node, NEW b \in Node, NEW k \in DOMAIN air'[a][b]
        PROVE  \E j \in DOMAIN air[a][b] : air'[a][b][k] = air[a][b][j]
    <3>1. /\ air[a][b] \in Seq(Frame)
          /\ air[a][b] # <<>> \/ air'[a][b] = air[a][b]
      BY <1>2, <1>9 DEF NotHeard, TypeOK
    <3>2. air'[a][b] = air[a][b] \/ air'[a][b] = Tail(air[a][b])
      BY <1>2, <1>9 DEF NotHeard, TypeOK
    <3>3. CASE air'[a][b] = air[a][b]
      BY <3>3
    <3>4. CASE air'[a][b] # air[a][b] /\ air'[a][b] = Tail(air[a][b])
      <4>1. k + 1 \in DOMAIN air[a][b] /\ Tail(air[a][b])[k] = air[a][b][k + 1]
        BY <3>1, <3>4
      <4> QED BY <3>4, <4>1
    <3> QED BY <3>2, <3>3, <3>4
  <2> QED BY <1>2, <2>1, <2>2, LessTracked
<1>10. ASSUME UNCHANGED vars PROVE Tracked(Now)'
  <2>1. air' = air /\ queue' = queue /\ UNCHANGED <<binding, history>>
    BY <1>10 DEF vars
  <2> QED BY <1>2, <2>1, LessTracked
<1>11. Tracked(Now)'
  BY <1>5, <1>6, <1>7, <1>8, <1>9, <1>10, ReceiveTracked DEF Next
<1> QED BY <1>1, <1>4, <1>11 DEF Tracking

LEMMA TrackingImplies == Tracking => RouteErrorNamesTheHop
  BY DEF Tracking, Tracked, AnswersOnTrack, Names, Now, RouteErrorNamesTheHop

\* Wherever a route error meets the root that issued the command, what it gathered
\* on its way up and the hop it names are a beginning of the path the root
\* addressed, and the node it leads to has no child at that hop - through loops,
\* half-made bindings, held frames, losses and restarts, as long as no child table
\* lists one device twice.
THEOREM RefusalNamesTheHop ==
  ASSUME NoTwins
  PROVE  Spec => []RouteErrorNamesTheHop
<1>1. Init => Tracking
  BY TrackingInit
<1> QED BY <1>1, TrackingNext, TrackingImplies, PTL DEF Spec

=============================================================================
