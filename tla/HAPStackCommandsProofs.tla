----------------------- MODULE HAPStackCommandsProofs -----------------------
(***************************************************************************)
(* What becomes of a command in HAPStack.  It is in one place at a time,    *)
(* whatever is forwarded, held, released, refused, lost or answered, so it  *)
(* runs once or is refused, and is answered once; it keeps its place in the *)
(* line of those that go the same way, so they run in order.  And HAPStack  *)
(* implements HAPCommands: in any topology a step of the network handles    *)
(* one command at most, releases one held command at most, and forgets held *)
(* commands only with the node that held them.                              *)
(***************************************************************************)
EXTENDS HAPStackProofs, LeastNatural

USE RouterAssumption, StackAssumption

-----------------------------------------------------------------------------
(* A command's token is the one frame about it: the request while it travels *)
(* or is held, then the answer until it reaches a root.                     *)

Ran(s, k) == \E j \in DOMAIN s.ran : s.ran[j].cmd = k

\* No frame about command k is anywhere.
Absent(s, k) ==
  /\ \A a, b \in Node : \A j \in DOMAIN s.air[a][b] : s.air[a][b][j].cmd # k
  /\ \A n \in Node, i \in Index : s.queue[n][i] # NoFrame => s.queue[n][i].cmd # k

OnceInTheAir(s) ==
  \A a, b, c, d \in Node : \A j \in DOMAIN s.air[a][b], k \in DOMAIN s.air[c][d] :
    s.air[a][b][j].cmd # 0 /\ s.air[a][b][j].cmd = s.air[c][d][k].cmd =>
      a = c /\ b = d /\ j = k

OnceHeld(s) ==
  \A m, n \in Node : \A i, j \in Index :
    /\ s.queue[m][i] # NoFrame /\ s.queue[n][j] # NoFrame
    /\ s.queue[m][i].cmd = s.queue[n][j].cmd
    => m = n /\ i = j

HeldOrInTheAir(s) ==
  \A a, b, n \in Node : \A j \in DOMAIN s.air[a][b], i \in Index :
    s.queue[n][i] # NoFrame => s.air[a][b][j].cmd # s.queue[n][i].cmd

\* What a frame says of its command's fate.
Fated(s, f) ==
  /\ f.type = "Report" => f.cmd = 0
  /\ f.type # "Report" => f.cmd \in DOMAIN s.cmds
  /\ f.type = "WriteRequest" => ~Ran(s, f.cmd) /\ f.cmd \notin s.refused
  /\ f.type = "WriteResponse" => Ran(s, f.cmd)
  /\ f.type \in {"Nack", "RouteError"} => f.cmd \in s.refused

AllFated(s) ==
  /\ \A a, b \in Node : \A j \in DOMAIN s.air[a][b] : Fated(s, s.air[a][b][j])
  /\ \A n \in Node, i \in Index : s.queue[n][i] # NoFrame =>
       s.queue[n][i].type = "WriteRequest" /\ Fated(s, s.queue[n][i])

Ended(s) ==
  /\ \A j, k \in DOMAIN s.ran : s.ran[j].cmd = s.ran[k].cmd => j = k
  /\ \A j \in DOMAIN s.ran : s.ran[j].cmd \in DOMAIN s.cmds
  /\ \A k \in s.refused : k \in DOMAIN s.cmds /\ ~Ran(s, k)

Once(s) ==
  s \in State /\ OnceInTheAir(s) /\ OnceHeld(s) /\ HeldOrInTheAir(s) /\ AllFated(s) /\ Ended(s)

\* An answer that reached a root, one of ws, is the last frame about its command.
AnsweredOnce(s, ws) ==
  /\ \A v, w \in ws : v.cmd = w.cmd => v = w
  /\ \A w \in ws :
       /\ w.cmd \in DOMAIN s.cmds /\ Absent(s, w.cmd)
       /\ w.type = "WriteResponse" => Ran(s, w.cmd)
       /\ w.type # "WriteResponse" => w.cmd \in s.refused

Fates == Addressing /\ Once(Now) /\ AnsweredOnce(Now, answers)

\* Fates stay told, and no command but k that has no frame in s has one in t.
Leaves(s, t, k) ==
  /\ DOMAIN s.cmds \subseteq DOMAIN t.cmds
  /\ \A c : Ran(s, c) => Ran(t, c)
  /\ s.refused \subseteq t.refused
  /\ \A c \in DOMAIN s.cmds : c # k /\ Absent(s, c) => Absent(t, c)

LEMMA LeavesOn ==
  ASSUME NEW s, NEW t, NEW u, NEW k, Leaves(s, t, k), Leaves(t, u, k)
  PROVE  Leaves(s, u, k)
  BY DEF Leaves

LEMMA CmdsFromOne ==
  ASSUME NEW s \in State
  PROVE  DOMAIN s.cmds = 1 .. Len(s.cmds) /\ Len(s.cmds) \in Nat /\ 0 \notin DOMAIN s.cmds
<1>1. s.cmds \in Seq(Command)
  BY DEF State
<1> QED BY <1>1

\* A frame about a command that has no other, or about none, may be sent.
LEMMA TransmitOnce ==
  ASSUME NEW s, Once(s), NEW a \in Node, NEW b \in Node, NEW f \in Frame,
         f.cmd = 0 \/ Absent(s, f.cmd), Fated(s, f)
  PROVE  Once(Transmit(s, a, b, f)) /\ Leaves(s, Transmit(s, a, b, f), f.cmd)
<1> DEFINE t == Transmit(s, a, b, f)
<1>1. s \in State /\ t \in State
  BY TransmitType DEF Once
<1>2. /\ t.queue = s.queue /\ t.cmds = s.cmds /\ t.ran = s.ran /\ t.refused = s.refused
      /\ t.air = [s.air EXCEPT ![a][b] = Append(@, f)]
  BY <1>1 DEF Transmit, State
<1> HIDE DEF t
<1>3. ASSUME NEW x \in Node, NEW y \in Node, NEW k \in DOMAIN t.air[x][y]
      PROVE  \/ k \in DOMAIN s.air[x][y] /\ t.air[x][y][k] = s.air[x][y][k]
             \/ x = a /\ y = b /\ k = Len(s.air[a][b]) + 1 /\ t.air[x][y][k] = f
  <2>1. CASE x = a /\ y = b
    <3>1. s.air[a][b] \in Seq(Frame) /\ t.air[x][y] = Append(s.air[a][b], f)
      BY SMTT(60), <1>1, <1>2, <2>1 DEF State
    <3> QED BY SMTT(60), <1>3, <2>1, <3>1
  <2>2. CASE ~(x = a /\ y = b)
    <3>1. t.air[x][y] = s.air[x][y]
      BY <1>1, <1>2, <2>2 DEF State
    <3> QED BY <1>3, <3>1
  <2> QED BY <2>1, <2>2
<1>4. \A c : Ran(t, c) <=> Ran(s, c)
  BY <1>2 DEF Ran
<1>5. \A g : Fated(t, g) <=> Fated(s, g)
  BY <1>2, <1>4 DEF Fated
<1>6. OnceInTheAir(t)
  <2> SUFFICES ASSUME NEW v \in Node, NEW w \in Node, NEW x \in Node, NEW y \in Node,
                      NEW j \in DOMAIN t.air[v][w], NEW k \in DOMAIN t.air[x][y],
                      t.air[v][w][j].cmd # 0, t.air[v][w][j].cmd = t.air[x][y][k].cmd
               PROVE  v = x /\ w = y /\ j = k
    BY DEF OnceInTheAir
  <2>1. /\ \/ j \in DOMAIN s.air[v][w] /\ t.air[v][w][j] = s.air[v][w][j]
           \/ v = a /\ w = b /\ j = Len(s.air[a][b]) + 1 /\ t.air[v][w][j] = f
        /\ \/ k \in DOMAIN s.air[x][y] /\ t.air[x][y][k] = s.air[x][y][k]
           \/ x = a /\ y = b /\ k = Len(s.air[a][b]) + 1 /\ t.air[x][y][k] = f
    BY <1>3
  <2>2. f.cmd # 0 => \A p, q \in Node : \A i \in DOMAIN s.air[p][q] : s.air[p][q][i].cmd # f.cmd
    BY DEF Absent
  <2>3. CASE /\ j \in DOMAIN s.air[v][w] /\ t.air[v][w][j] = s.air[v][w][j]
             /\ k \in DOMAIN s.air[x][y] /\ t.air[x][y][k] = s.air[x][y][k]
    BY <2>3 DEF Once, OnceInTheAir
  <2>4. CASE t.air[v][w][j] = f \/ t.air[x][y][k] = f
    BY SMTT(30), <2>1, <2>2, <2>4
  <2> QED BY <2>1, <2>3, <2>4
<1>7. OnceHeld(t)
  BY <1>2 DEF Once, OnceHeld
<1>8. \A n \in Node, i \in Index : s.queue[n][i] # NoFrame =>
        s.queue[n][i].cmd # f.cmd
  <2>1. ASSUME NEW n \in Node, NEW i \in Index, s.queue[n][i] # NoFrame
        PROVE  s.queue[n][i].cmd # f.cmd
    <3>1. s.queue[n][i].cmd # 0
      BY <1>1, <2>1, CmdsFromOne DEF Once, AllFated, Fated
    <3> QED BY <2>1, <3>1 DEF Absent
  <2> QED BY <2>1
<1>9. HeldOrInTheAir(t)
  BY <1>2, <1>3, <1>8 DEF Once, HeldOrInTheAir
<1>10. AllFated(t)
  BY <1>2, <1>3, <1>5 DEF Once, AllFated
<1>11. Ended(t)
  BY <1>2, <1>4 DEF Once, Ended
<1>12. Leaves(s, t, f.cmd)
  <2>1. ASSUME NEW c, c # f.cmd, Absent(s, c) PROVE Absent(t, c)
    <3>1. ASSUME NEW x \in Node, NEW y \in Node, NEW k \in DOMAIN t.air[x][y]
          PROVE  t.air[x][y][k].cmd # c
      BY ONLY <1>3, <2>1, <3>1 DEF Absent
    <3>2. \A n \in Node, i \in Index : t.queue[n][i] # NoFrame => t.queue[n][i].cmd # c
      BY ONLY <1>2, <2>1 DEF Absent
    <3> QED BY ONLY <3>1, <3>2 DEF Absent
  <2> QED BY ONLY <1>2, <1>4, <2>1 DEF Leaves
<1> QED BY <1>1, <1>6, <1>7, <1>9, <1>10, <1>11, <1>12 DEF Once, t

\* What changes neither frames nor fates changes nothing here.
LEMMA SameOnce ==
  ASSUME NEW s, Once(s), NEW t \in State, t.air = s.air, t.queue = s.queue,
         t.ran = s.ran, t.refused = s.refused, DOMAIN s.cmds \subseteq DOMAIN t.cmds
  PROVE  Once(t) /\ Leaves(s, t, 0) /\ \A k : Absent(s, k) <=> Absent(t, k)
<1>1. \A c : Ran(t, c) <=> Ran(s, c)
  BY DEF Ran
<1>2. \A g : Fated(s, g) => Fated(t, g)
  BY <1>1 DEF Fated
<1>3. AllFated(t) /\ Ended(t)
  BY <1>1, <1>2 DEF Once, AllFated, Ended
<1> QED BY <1>1, <1>3 DEF Once, OnceInTheAir, OnceHeld, HeldOrInTheAir, Leaves, Absent

LEMMA SendUpstreamOnce ==
  ASSUME Bindings, NEW s, Once(s), NEW n \in Node, NEW type \in {"Report", "Nack", "RouteError"},
         NEW about \in Seqs, NEW hop \in 0 .. MaxHop, NEW cmd \in Nat,
         \/ type = "Report" /\ cmd = 0
         \/ type # "Report" /\ cmd \in s.refused /\ Absent(s, cmd)
  PROVE  LET t == SendUpstream(s, n, type, about, hop, cmd) IN Once(t) /\ Leaves(s, t, cmd)
<1> DEFINE f == Upward(n, type, NextSeq(s, n), about, hop, cmd)
           t == [s EXCEPT !.seq[n] = NextSeq(s, n)]
<1>1. CASE parent[n] = NoNode
  BY <1>1 DEF SendUpstream, Leaves
<1>2. CASE parent[n] # NoNode
  <2>1. s \in State /\ type \in {"Report"} \cup Answers
    BY DEF Once, Answers
  <2>2. f \in Frame
    BY <2>1, NextSeqType, UpwardType
  <2>3. /\ t \in State /\ t.air = s.air /\ t.queue = s.queue /\ t.cmds = s.cmds
        /\ t.ran = s.ran /\ t.refused = s.refused
    BY <2>1, NextSeqType DEF State
  <2> HIDE DEF t
  <2>4. Once(t) /\ \A k : Absent(s, k) <=> Absent(t, k)
    BY <2>3, SameOnce
  <2>5. \A c : Ran(t, c) <=> Ran(s, c)
    BY <2>3 DEF Ran
  <2>6. parent[n] \in Node
    BY <1>2 DEF Bindings
  <2>7. f.type = type /\ f.cmd = cmd
    BY DEF Upward
  <2>8. type # "Report" => cmd \in DOMAIN s.cmds
    BY DEF Once, Ended
  <2>9. Fated(t, f) /\ (f.cmd = 0 \/ Absent(t, f.cmd))
    BY <2>3, <2>4, <2>7, <2>8 DEF Fated
  <2> HIDE DEF f
  <2>10. Once(Transmit(t, n, parent[n], f)) /\ Leaves(t, Transmit(t, n, parent[n], f), cmd)
    BY <2>2, <2>4, <2>6, <2>7, <2>9, TransmitOnce
  <2>11. Leaves(s, t, cmd)
    BY <2>3, <2>4, <2>5 DEF Leaves
  <2>12. Leaves(s, Transmit(t, n, parent[n], f), cmd)
    BY <2>10, <2>11, LeavesOn
  <2> QED BY <1>2, <2>10, <2>12 DEF SendUpstream, f, t
<1> QED BY <1>1, <1>2

LEMMA RefuseOnce ==
  ASSUME NEW s, Once(s), NEW k \in DOMAIN s.cmds, Absent(s, k), ~Ran(s, k)
  PROVE  LET t == Refuse(s, k) IN
         Once(t) /\ Leaves(s, t, 0) /\ k \in t.refused /\ Absent(t, k)
<1> DEFINE t == Refuse(s, k)
<1>1. s \in State /\ k \in Nat
  BY CmdsFromOne DEF Once
<1>2. t \in State
  BY <1>1, RefuseType
<1>3. /\ t.air = s.air /\ t.queue = s.queue /\ t.cmds = s.cmds /\ t.ran = s.ran
      /\ t.refused = s.refused \cup {k}
  BY <1>1 DEF Refuse, State
<1> HIDE DEF t
<1>4. \A c : Ran(t, c) <=> Ran(s, c)
  BY <1>3 DEF Ran
<1>5. \A g : g.cmd # k /\ Fated(s, g) => Fated(t, g)
  BY <1>3, <1>4 DEF Fated
<1>6. AllFated(t)
  BY <1>3, <1>5 DEF Once, AllFated, Absent
<1>7. Ended(t)
  BY <1>3, <1>4 DEF Once, Ended
<1>8. Leaves(s, t, 0) /\ Absent(t, k)
  BY <1>3, <1>4 DEF Leaves, Absent
<1>9. Once(t)
  BY <1>2, <1>3, <1>6, <1>7 DEF Once, OnceInTheAir, OnceHeld, HeldOrInTheAir
<1> QED BY <1>3, <1>8, <1>9 DEF t

\* A command that runs has left every place it could run from.
LEMMA HandleRequestOnce ==
  ASSUME Bindings, NEW s, Once(s), NEW n \in Node, NEW f \in Frame,
         f.cmd \in DOMAIN s.cmds, ~Ran(s, f.cmd), f.cmd \notin s.refused, Absent(s, f.cmd)
  PROVE  LET t == HandleRequest(s, n, f) IN Once(t) /\ Leaves(s, t, f.cmd)
<1> DEFINE r == [cmd |-> f.cmd, at |-> n]
           t == [s EXCEPT !.ran = Append(@, r)]
           g == Upward(n, "WriteResponse", f.seq, f.seq, 0, f.cmd)
<1>1. s \in State /\ r \in Run /\ f.seq \in Seqs /\ f.cmd \in Nat /\ r.cmd = f.cmd
  BY DEF Once, Run, Frame
<1>2. s.ran \in Seq(Run)
  BY <1>1 DEF State
<1>3. Append(s.ran, r) \in Seq(Run)
  BY <1>1, <1>2
<1>4. /\ t \in State /\ t.air = s.air /\ t.queue = s.queue /\ t.cmds = s.cmds
      /\ t.refused = s.refused /\ t.ran = Append(s.ran, r)
  BY <1>1, <1>3 DEF State
<1> HIDE DEF r
<1>5. /\ \A k \in DOMAIN s.ran : k \in DOMAIN t.ran /\ t.ran[k] = s.ran[k]
      /\ \A k \in DOMAIN t.ran :
           (k \in DOMAIN s.ran /\ t.ran[k] = s.ran[k]) \/ (k = Len(s.ran) + 1 /\ t.ran[k] = r)
      /\ Len(s.ran) + 1 \in DOMAIN t.ran /\ t.ran[Len(s.ran) + 1] = r
  BY SMTT(30), <1>1, <1>2, <1>4
<1> HIDE DEF t
<1>6. \A c : Ran(t, c) <=> (Ran(s, c) \/ c = f.cmd)
  BY <1>1, <1>5 DEF Ran
<1>7. \A h : h.cmd # f.cmd /\ Fated(s, h) => Fated(t, h)
  BY <1>4, <1>6 DEF Fated
<1>8. AllFated(t)
  BY <1>4, <1>7 DEF Once, AllFated, Absent
<1>9. Ended(t)
  <2>1. \A j \in DOMAIN s.ran : s.ran[j].cmd # f.cmd
    BY DEF Ran
  <2>2. \A j, k \in DOMAIN t.ran : t.ran[j].cmd = t.ran[k].cmd => j = k
    BY <1>1, <1>5, <2>1 DEF Once, Ended
  <2>3. \A j \in DOMAIN t.ran : t.ran[j].cmd \in DOMAIN t.cmds
    BY <1>1, <1>4, <1>5 DEF Once, Ended
  <2> QED BY <1>4, <1>6, <2>2, <2>3 DEF Once, Ended
<1>10. Once(t)
  BY SMTT(60), <1>4, <1>8, <1>9 DEF Once, OnceInTheAir, OnceHeld, HeldOrInTheAir
<1>11. Leaves(s, t, f.cmd) /\ Absent(t, f.cmd)
  BY <1>4, <1>6 DEF Leaves, Absent
<1>12. Once(Respond(t, n, f)) /\ Leaves(s, Respond(t, n, f), f.cmd)
  <2>1. CASE parent[n] = NoNode
    BY <1>10, <1>11, <2>1 DEF Respond
  <2>2. CASE parent[n] # NoNode
    <3>1. g \in Frame /\ parent[n] \in Node
      <4>1. "WriteResponse" \in {"Report"} \cup Answers /\ 0 \in 0 .. MaxHop
        BY DEF Answers
      <4>2. g \in Frame
        BY <1>1, <4>1, UpwardType
      <4> QED BY <2>2, <4>2 DEF Bindings
    <3>2. g.type = "WriteResponse" /\ g.cmd = f.cmd
      BY DEF Upward
    <3>3. Fated(t, g)
      BY <1>4, <1>6, <3>2 DEF Fated
    <3> HIDE DEF g
    <3>4. Once(Transmit(t, n, parent[n], g)) /\ Leaves(t, Transmit(t, n, parent[n], g), f.cmd)
      BY <1>10, <1>11, <3>1, <3>2, <3>3, TransmitOnce
    <3>5. Leaves(s, Transmit(t, n, parent[n], g), f.cmd)
      BY <1>11, <3>4, LeavesOn
    <3> QED BY <2>2, <3>4, <3>5 DEF Respond, g
  <2> QED BY <2>1, <2>2
<1> QED BY <1>12 DEF HandleRequest, t, r

\* What is in t was in s, d[x][y] places further back.
Behind(s, t, d) ==
  \A x, y \in Node : \A k \in DOMAIN t.air[x][y] :
    /\ k + d[x][y] \in DOMAIN s.air[x][y]
    /\ t.air[x][y][k] = s.air[x][y][k + d[x][y]]

HeldBefore(s, t) ==
  \A n \in Node, i \in Index : t.queue[n][i] # NoFrame => t.queue[n][i] = s.queue[n][i]

\* Frames taken from the head of a channel or out of the queue leave the rest.
LEMMA LessOnce ==
  ASSUME NEW s, Once(s), NEW t \in State, t.cmds = s.cmds, t.ran = s.ran, t.refused = s.refused,
         NEW d \in [Node -> [Node -> {0, 1}]], Behind(s, t, d), HeldBefore(s, t)
  PROVE  Once(t) /\ Leaves(s, t, 0)
<1>1. \A c : Ran(t, c) <=> Ran(s, c)
  BY DEF Ran
<1>2. \A g : Fated(s, g) => Fated(t, g)
  BY <1>1 DEF Fated
<1>3. ASSUME NEW x \in Node, NEW y \in Node, NEW k \in DOMAIN t.air[x][y]
      PROVE  /\ k \in Nat /\ d[x][y] \in {0, 1} /\ k + d[x][y] \in DOMAIN s.air[x][y]
             /\ t.air[x][y][k] = s.air[x][y][k + d[x][y]]
  <2>1. t.air[x][y] \in Seq(Frame)
    BY DEF State
  <2> QED BY <2>1, <1>3 DEF Behind
<1>4. OnceInTheAir(t)
  <2> SUFFICES ASSUME NEW v \in Node, NEW w \in Node, NEW x \in Node, NEW y \in Node,
                      NEW j \in DOMAIN t.air[v][w], NEW k \in DOMAIN t.air[x][y],
                      t.air[v][w][j].cmd # 0, t.air[v][w][j].cmd = t.air[x][y][k].cmd
               PROVE  v = x /\ w = y /\ j = k
    BY DEF OnceInTheAir
  <2> DEFINE i == j + d[v][w]
             l == k + d[x][y]
  <2>1. /\ i \in DOMAIN s.air[v][w] /\ t.air[v][w][j] = s.air[v][w][i]
        /\ l \in DOMAIN s.air[x][y] /\ t.air[x][y][k] = s.air[x][y][l]
    BY <1>3
  <2> HIDE DEF i, l
  <2>2. v = x /\ w = y /\ i = l
    BY <2>1 DEF Once, OnceInTheAir
  <2>3. j \in Nat /\ k \in Nat /\ d[v][w] \in {0, 1}
    BY <1>3
  <2> QED BY <2>2, <2>3 DEF i, l
<1>5. OnceHeld(t)
  BY SMTT(60) DEF Once, OnceHeld, HeldBefore
<1>6. HeldOrInTheAir(t)
  <2> SUFFICES ASSUME NEW a \in Node, NEW b \in Node, NEW n \in Node,
                      NEW j \in DOMAIN t.air[a][b], NEW i \in Index, t.queue[n][i] # NoFrame
               PROVE  t.air[a][b][j].cmd # t.queue[n][i].cmd
    BY DEF HeldOrInTheAir
  <2> DEFINE l == j + d[a][b]
  <2>1. l \in DOMAIN s.air[a][b] /\ t.air[a][b][j] = s.air[a][b][l]
    BY <1>3
  <2>2. s.queue[n][i] # NoFrame /\ t.queue[n][i] = s.queue[n][i]
    BY DEF HeldBefore
  <2> HIDE DEF l
  <2> QED BY <2>1, <2>2 DEF Once, HeldOrInTheAir
<1>7. AllFated(t)
  <2>1. ASSUME NEW a \in Node, NEW b \in Node, NEW j \in DOMAIN t.air[a][b]
        PROVE  Fated(t, t.air[a][b][j])
    <3> DEFINE l == j + d[a][b]
    <3>1. l \in DOMAIN s.air[a][b] /\ t.air[a][b][j] = s.air[a][b][l]
      BY <1>3
    <3> HIDE DEF l
    <3>2. Fated(s, s.air[a][b][l])
      BY <3>1 DEF Once, AllFated
    <3> QED BY <1>2, <3>1, <3>2
  <2>2. ASSUME NEW n \in Node, NEW i \in Index, t.queue[n][i] # NoFrame
        PROVE  t.queue[n][i].type = "WriteRequest" /\ Fated(t, t.queue[n][i])
    <3>1. s.queue[n][i] # NoFrame /\ t.queue[n][i] = s.queue[n][i]
      BY <2>2 DEF HeldBefore
    <3>2. s.queue[n][i].type = "WriteRequest" /\ Fated(s, s.queue[n][i])
      BY <3>1 DEF Once, AllFated
    <3> QED BY <1>2, <3>1, <3>2
  <2> QED BY <2>1, <2>2 DEF AllFated
<1>8. Ended(t)
  BY <1>1 DEF Once, Ended
<1>9. ASSUME NEW c, Absent(s, c) PROVE Absent(t, c)
  <2>1. ASSUME NEW a \in Node, NEW b \in Node, NEW j \in DOMAIN t.air[a][b]
        PROVE  t.air[a][b][j].cmd # c
    <3> DEFINE l == j + d[a][b]
    <3>1. l \in DOMAIN s.air[a][b] /\ t.air[a][b][j] = s.air[a][b][l]
      BY <1>3
    <3> HIDE DEF l
    <3> QED BY <1>9, <3>1 DEF Absent
  <2>2. \A n \in Node, i \in Index : t.queue[n][i] # NoFrame => t.queue[n][i].cmd # c
    BY <1>9 DEF Absent, HeldBefore
  <2> QED BY <2>1, <2>2 DEF Absent
<1>10. Leaves(s, t, 0)
  BY <1>1, <1>9 DEF Leaves
<1> QED BY <1>4, <1>5, <1>6, <1>7, <1>8, <1>10 DEF Once

\* The frame that arrives was the only one about its command.
LEMMA TakenOnce ==
  ASSUME TypeOK, Once(Now), NEW from \in Node, NEW n \in Node, air[from][n] # <<>>
  PROVE  LET t == Taken(from, n) f == Arriving(from, n) IN
         /\ Once(t) /\ Leaves(Now, t, 0) /\ Fated(t, f)
         /\ f.cmd # 0 => Absent(t, f.cmd)
         /\ \A w \in answers : Absent(Now, w.cmd) => f.cmd # w.cmd
<1> DEFINE t == Taken(from, n)
           f == Arriving(from, n)
           d == [x \in Node |-> [y \in Node |-> IF x = from /\ y = n THEN 1 ELSE 0]]
<1>1. t \in State /\ f \in Frame /\ Now \in State
  BY ArrivingType, NowType
<1>2. /\ Now.air = air /\ Now.queue = queue /\ t.queue = queue /\ t.cmds = Now.cmds
      /\ t.ran = Now.ran /\ t.refused = Now.refused
      /\ t.air = [air EXCEPT ![from][n] = Tail(@)]
  BY <1>1 DEF Taken, Now
<1>3. air \in [Node -> [Node -> Seq(Frame)]]
  BY DEF TypeOK
<1>4. d \in [Node -> [Node -> {0, 1}]]
  OBVIOUS
<1>5. ASSUME NEW x \in Node, NEW y \in Node, NEW k \in DOMAIN t.air[x][y]
      PROVE  k + d[x][y] \in DOMAIN air[x][y] /\ t.air[x][y][k] = air[x][y][k + d[x][y]]
  <2>1. CASE x = from /\ y = n
    <3>1. t.air[x][y] = Tail(air[x][y]) /\ air[x][y] \in Seq(Frame) /\ d[x][y] = 1
      BY <1>2, <1>3, <2>1
    <3> HIDE DEF t, d
    <3> QED BY <1>5, <2>1, <3>1
  <2>2. CASE ~(x = from /\ y = n)
    <3>1. t.air[x][y] = air[x][y] /\ d[x][y] = 0 /\ air[x][y] \in Seq(Frame)
      BY <1>2, <1>3, <2>2
    <3> HIDE DEF t, d
    <3>2. k + 0 = k
      BY <1>5, <3>1
    <3> QED BY <1>5, <3>1, <3>2
  <2> QED BY <2>1, <2>2
<1>6. 1 \in DOMAIN air[from][n] /\ f = air[from][n][1] /\ d[from][n] = 1
  BY <1>3 DEF Arriving
<1> HIDE DEF t, d
<1>7. Once(t) /\ Leaves(Now, t, 0)
  <2>1. Behind(Now, t, d)
    BY <1>2, <1>5 DEF Behind
  <2>2. HeldBefore(Now, t)
    BY <1>2 DEF HeldBefore
  <2> QED BY <1>1, <1>2, <1>4, <2>1, <2>2, LessOnce
<1>8. Fated(Now, f)
  BY <1>2, <1>6 DEF Once, AllFated
<1>9. Fated(t, f)
  BY <1>2, <1>8 DEF Fated, Ran
<1>10. ASSUME f.cmd # 0 PROVE Absent(t, f.cmd)
  <2>1. ASSUME NEW x \in Node, NEW y \in Node, NEW k \in DOMAIN t.air[x][y],
               t.air[x][y][k].cmd = f.cmd
        PROVE  FALSE
    <3> DEFINE l == k + d[x][y]
    <3>1. l \in DOMAIN air[x][y] /\ t.air[x][y][k] = air[x][y][l]
      BY <1>5, <2>1
    <3> HIDE DEF l
    <3>2. OnceInTheAir(Now) /\ air[x][y][l].cmd = air[from][n][1].cmd /\ air[x][y][l].cmd # 0
      BY <1>6, <1>10, <2>1, <3>1 DEF Once
    <3>3. x = from /\ y = n /\ l = 1
      BY <1>2, <1>6, <3>1, <3>2 DEF OnceInTheAir
    <3>4. t.air[x][y] \in Seq(Frame)
      BY <1>1 DEF State
    <3>5. k \in Nat /\ k > 0
      BY <2>1, <3>4
    <3> QED BY <1>6, <3>3, <3>5 DEF l
  <2>2. \A m \in Node, i \in Index : t.queue[m][i] # NoFrame => t.queue[m][i].cmd # f.cmd
    BY <1>2, <1>6 DEF Once, HeldOrInTheAir
  <2> QED BY <2>1, <2>2 DEF Absent
<1>11. \A w \in answers : Absent(Now, w.cmd) => f.cmd # w.cmd
  BY <1>2, <1>6 DEF Absent
<1> QED BY <1>7, <1>9, <1>10, <1>11 DEF t

\* A parent sends, holds or refuses a command: one of the three.
LEMMA ForwardToChildOnce ==
  ASSUME Bindings, NEW s, Once(s), NEW n \in Node, NEW f \in Frame,
         NEW i \in Used(children[n]), f.type = "WriteRequest", Fated(s, f), Absent(s, f.cmd)
  PROVE  LET t == ForwardToChild(s, n, f, i) IN Once(t) /\ Leaves(s, t, f.cmd)
<1> DEFINE c == children[n][i].mac
<1>1. i \in Index /\ c \in Node /\ s \in State
  BY DEF Used, Bindings, Child, Once
<1>2. CASE c \notin Battery
  BY <1>1, <1>2, TransmitOnce DEF ForwardToChild
<1>3. CASE c \in Battery /\ s.queue[n][i] = NoFrame
  <2> DEFINE g == [f EXCEPT !.queued = TRUE]
             t == [s EXCEPT !.queue[n][i] = g]
  <2>1. g \in Frame /\ g.type = f.type /\ g.cmd = f.cmd
    BY DEF Frame
  <2>2. /\ t \in State /\ t.air = s.air /\ t.cmds = s.cmds /\ t.ran = s.ran
        /\ t.refused = s.refused /\ t.queue = [s.queue EXCEPT ![n][i] = g]
    BY <1>1, <2>1 DEF State
  <2> HIDE DEF g, t
  <2>3. \A m \in Node, j \in Index :
          t.queue[m][j] = s.queue[m][j] \/ (m = n /\ j = i /\ t.queue[m][j] = g)
    BY <1>1, <2>2 DEF State
  <2>4. \A k : Ran(t, k) <=> Ran(s, k)
    BY <2>2 DEF Ran
  <2>5. (\A h : Fated(s, h) => Fated(t, h)) /\ Fated(t, g)
    BY <2>1, <2>2, <2>4 DEF Fated
  <2>6. OnceInTheAir(t) /\ HeldOrInTheAir(t)
    BY <2>1, <2>2, <2>3 DEF Once, OnceInTheAir, HeldOrInTheAir, Absent
  <2>7. OnceHeld(t)
    BY SMTT(30), <2>1, <2>3 DEF Once, OnceHeld, Absent
  <2>8. AllFated(t)
    BY <2>1, <2>2, <2>3, <2>5 DEF Once, AllFated
  <2>9. Ended(t)
    BY <2>2, <2>4 DEF Once, Ended
  <2>10. Once(t)
    BY <2>2, <2>6, <2>7, <2>8, <2>9 DEF Once
  <2>11. Leaves(s, t, f.cmd)
    BY <2>1, <2>2, <2>3, <2>4 DEF Leaves, Absent
  <2> QED BY <1>3, <2>10, <2>11 DEF ForwardToChild, t, g
<1>4. CASE c \in Battery /\ s.queue[n][i] # NoFrame
  <2> DEFINE r == Refuse(s, f.cmd)
  <2>1. f.cmd \in Nat /\ f.seq \in Seqs /\ 0 \in 0 .. MaxHop
    BY DEF Frame
  <2>2. f.cmd \in DOMAIN s.cmds /\ ~Ran(s, f.cmd)
    BY DEF Fated
  <2>3. Once(r) /\ Leaves(s, r, 0) /\ f.cmd \in r.refused /\ Absent(r, f.cmd)
    BY <2>2, RefuseOnce
  <2> HIDE DEF r
  <2> DEFINE t == SendUpstream(r, n, "Nack", f.seq, 0, f.cmd)
  <2>4. Once(t) /\ Leaves(r, t, f.cmd)
    BY <2>1, <2>3, SendUpstreamOnce
  <2>5. Leaves(s, r, f.cmd)
    BY <1>1, <2>3, CmdsFromOne DEF Leaves
  <2>6. Leaves(s, t, f.cmd)
    BY <2>4, <2>5, LeavesOn
  <2> QED BY <1>4, <2>4, <2>6 DEF ForwardToChild, r
<1> QED BY <1>2, <1>3, <1>4

\* A new command has a token of its own.
LEMMA SendDownstreamOnce ==
  ASSUME Bindings, NEW s, Once(s), NEW n \in Node, NEW dest \in Path,
         NEW ack \in BOOLEAN, NEW heard \in Node \cup {NoNode}
  PROVE  LET t == SendDownstream(s, n, dest, ack, heard) IN Once(t) /\ Leaves(s, t, 0)
<1> DEFINE number == NextSeq(s, n)
           cmd == Len(s.cmds) + 1
           c == [by |-> n, seq |-> number, dest |-> dest, ack |-> ack, heard |-> heard]
           issued == [s EXCEPT !.seq[n] = number, !.cmds = Append(@, c)]
           f == [type |-> "WriteRequest", upstream |-> FALSE, ack |-> ack,
                 queued |-> FALSE, seq |-> number, dest |-> dest, src |-> <<>>,
                 about |-> 0, hop |-> 0, by |-> n, cmd |-> cmd]
           d == ResolveDownstream(RouterOf(n), f)
<1>1. s \in State /\ s.cmds \in Seq(Command) /\ number \in Seqs /\ cmd \in Nat
  <2>1. s \in State /\ s.cmds \in Seq(Command)
    BY DEF Once, State
  <2> QED BY <2>1, NextSeqType
<1>2. f \in Frame
  <2>1. <<>> \in Path /\ 0 \in 0 .. MaxHop
    BY DEF Path
  <2> QED BY <1>1, <2>1 DEF Frame, Seqs
<1>3. Append(s.cmds, c) \in Seq(Command)
  BY <1>1 DEF Command
<1>4. /\ issued \in State /\ issued.air = s.air /\ issued.queue = s.queue
      /\ issued.ran = s.ran /\ issued.refused = s.refused /\ issued.cmds = Append(s.cmds, c)
  BY <1>1, <1>3 DEF State
<1>5. /\ DOMAIN s.cmds \subseteq DOMAIN issued.cmds /\ cmd \in DOMAIN issued.cmds
      /\ cmd \notin DOMAIN s.cmds /\ cmd # 0
  BY SMTT(60), <1>1, <1>4
<1>6. f.type = "WriteRequest" /\ f.cmd = cmd
  OBVIOUS
<1>7. SendDownstream(s, n, dest, ack, heard) =
        IF d.action = "Deliver" THEN HandleRequest(issued, n, f)
        ELSE IF d.action = "ToChild" THEN ForwardToChild(issued, n, d.frame, d.child)
        ELSE Refuse(issued, cmd)
  BY Zenon DEF SendDownstream
<1>8. /\ d.frame \in Frame
      /\ d.action = "ToChild" =>
           d.child \in Used(children[n]) /\ d.frame = [f EXCEPT !.dest = Shift(@)]
  BY <1>2, ResolveType
<1> HIDE DEF issued, c, f, cmd, d
<1>9. Once(issued) /\ Leaves(s, issued, 0)
  BY <1>4, <1>5, SameOnce
<1>10. Absent(issued, cmd) /\ ~Ran(issued, cmd) /\ cmd \notin issued.refused
  <2>1. Absent(s, cmd)
    BY <1>5 DEF Once, AllFated, Fated, Absent
  <2> QED BY <1>4, <1>5, <2>1 DEF Once, Ended, Ran, Absent
<1>11. ASSUME NEW t, Once(t), Leaves(issued, t, cmd) PROVE Leaves(s, t, 0)
  BY <1>5, <1>9, <1>11 DEF Leaves
<1>12. CASE d.action = "Deliver"
  <2>1. Once(HandleRequest(issued, n, f)) /\ Leaves(issued, HandleRequest(issued, n, f), cmd)
    BY <1>2, <1>5, <1>6, <1>9, <1>10, HandleRequestOnce
  <2> QED BY <1>7, <1>11, <1>12, <2>1
<1>13. CASE d.action = "ToChild"
  <2>1. d.frame.type = "WriteRequest" /\ d.frame.cmd = cmd
    BY <1>2, <1>6, <1>8, <1>13 DEF Frame
  <2>2. Fated(issued, d.frame)
    BY <1>5, <1>10, <2>1 DEF Fated
  <2>3. LET t == ForwardToChild(issued, n, d.frame, d.child) IN Once(t) /\ Leaves(issued, t, cmd)
    BY <1>8, <1>9, <1>10, <1>13, <2>1, <2>2, ForwardToChildOnce
  <2> QED BY <1>7, <1>11, <1>13, <2>3
<1>14. CASE d.action \notin {"Deliver", "ToChild"}
  <2>1. Once(Refuse(issued, cmd)) /\ Leaves(issued, Refuse(issued, cmd), 0)
    BY <1>5, <1>9, <1>10, RefuseOnce
  <2>2. Leaves(s, Refuse(issued, cmd), 0)
    BY <1>9, <2>1, LeavesOn
  <2> QED BY <1>7, <1>14, <2>1, <2>2
<1> QED BY <1>12, <1>13, <1>14

LEMMA DeliverLinksOnce ==
  ASSUME Bindings, NEW s, Once(s), NEW n \in Node, NEW src, NEW maker \in Node
  PROVE  LET t == DeliverLinks(s, n, src, maker) IN Once(t) /\ Leaves(s, t, 0)
<1> DEFINE l == CHOOSE l \in LinksFrom(n, src) : TRUE
<1>1. CASE LinksFrom(n, src) = {}
  BY <1>1 DEF DeliverLinks, Leaves
<1>2. CASE LinksFrom(n, src) # {}
  <2>1. l \in LinksFrom(n, src)
    BY <1>2
  <2>2. l.dest \in Path
    BY <2>1 DEF LinksFrom
  <2> QED BY <1>2, <2>2, SendDownstreamOnce DEF DeliverLinks
<1> QED BY <1>1, <1>2

LEMMA TapOnce ==
  ASSUME Bindings, NEW s, Once(s), NEW n \in Node, NEW f \in Frame
  PROVE  Once(Tap(s, n, f)) /\ Leaves(s, Tap(s, n, f), 0)
<1>1. f.by \in Node
  BY DEF Frame
<1>2. Leaves(s, s, 0)
  BY DEF Leaves
<1> QED BY <1>1, <1>2, DeliverLinksOnce DEF Tap

\* What is released leaves its slot.
LEMMA FlushQueueOnce ==
  ASSUME Bindings, NEW s, Once(s), NEW n \in Node,
         NEW i, i = 0 \/ i \in Used(children[n])
  PROVE  Once(FlushQueue(s, n, i)) /\ Leaves(s, FlushQueue(s, n, i), 0)
<1>1. Leaves(s, s, 0)
  BY DEF Leaves
<1>2. CASE i = 0
  BY <1>1, <1>2 DEF FlushQueue
<1>3. CASE i \in Used(children[n])
  <2> DEFINE c == children[n][i].mac
             g == s.queue[n][i]
             u == [s EXCEPT !.queue[n][i] = NoFrame]
             t == Transmit(u, n, c, g)
  <2>1. i \in Index /\ c \in Node /\ i # 0 /\ s \in State
    BY <1>3 DEF Used, Bindings, Child, Index, Once
  <2>2. CASE c \notin Battery \/ g = NoFrame
    BY <1>1, <2>1, <2>2 DEF FlushQueue
  <2>3. CASE ~(c \notin Battery \/ g = NoFrame)
    <3>1. g \in Frame /\ g.type = "WriteRequest" /\ Fated(s, g)
      BY <2>1, <2>3 DEF State, Once, AllFated
    <3>2. /\ u \in State /\ u.air = s.air /\ u.cmds = s.cmds /\ u.ran = s.ran
          /\ u.refused = s.refused /\ u.queue = [s.queue EXCEPT ![n][i] = NoFrame]
      BY <2>1 DEF State
    <3>3. \A m \in Node, j \in Index :
            \/ m = n /\ j = i /\ u.queue[m][j] = NoFrame
            \/ ~(m = n /\ j = i) /\ u.queue[m][j] = s.queue[m][j]
      BY ZenonT(60), <2>1, <3>2 DEF State
    <3>4. FlushQueue(s, n, i) = t
      BY <2>1, <2>3 DEF FlushQueue
    <3> HIDE DEF u
    <3>5. Once(u) /\ Leaves(s, u, 0)
      <4> DEFINE d == [x \in Node |-> [y \in Node |-> 0]]
      <4>1. d \in [Node -> [Node -> {0, 1}]] /\ \A x, y \in Node : d[x][y] = 0
        OBVIOUS
      <4> HIDE DEF d
      <4>2. ASSUME NEW x \in Node, NEW y \in Node, NEW k \in DOMAIN u.air[x][y]
            PROVE  k + d[x][y] = k
        <5>1. u.air[x][y] \in Seq(Frame)
          BY <3>2 DEF State
        <5>2. k \in Nat
          BY <4>2, <5>1
        <5> QED BY <4>1, <5>2
      <4>3. Behind(s, u, d)
        BY <3>2, <4>2 DEF Behind
      <4>4. HeldBefore(s, u)
        BY <3>3 DEF HeldBefore
      <4> QED BY <3>2, <4>1, <4>3, <4>4, LessOnce
    <3>6. Absent(u, g.cmd)
      BY <2>1, <2>3, <3>2, <3>3 DEF Once, OnceHeld, HeldOrInTheAir, Absent
    <3>7. Fated(u, g)
      BY <3>1, <3>2 DEF Fated, Ran
    <3>8. \A k : Absent(s, k) => k # g.cmd
      BY <2>1, <2>3 DEF Absent
    <3> HIDE DEF g
    <3>9. Once(t) /\ Leaves(u, t, g.cmd)
      BY <2>1, <3>1, <3>5, <3>6, <3>7, TransmitOnce
    <3>10. Leaves(s, t, 0)
      <4>1. \A k \in DOMAIN s.cmds : k # 0
        BY <2>1, CmdsFromOne
      <4> HIDE DEF t
      <4> QED BY <3>5, <3>8, <3>9, <4>1 DEF Leaves
    <3> QED BY <3>4, <3>9, <3>10
  <2> QED BY <2>2, <2>3
<1> QED BY <1>2, <1>3

\* What was answered stays answered while no frame about it can come back.
LEMMA AnsweredStays ==
  ASSUME NEW s \in State, NEW t, NEW k, NEW ws, AnsweredOnce(s, ws), Leaves(s, t, k),
         k = 0 \/ \A w \in ws : w.cmd # k
  PROVE  AnsweredOnce(t, ws)
<1>1. \A w \in ws : w.cmd # k
  BY CmdsFromOne DEF AnsweredOnce
<1> QED BY <1>1 DEF AnsweredOnce, Leaves

LEMMA BecomeOnce ==
  ASSUME NEW s, Once(s), Become(s), AnsweredOnce(s, answers')
  PROVE  Once(Now)' /\ AnsweredOnce(Now, answers)'
<1>1. s = [air |-> s.air, queue |-> s.queue, seq |-> s.seq, cmds |-> s.cmds,
           ran |-> s.ran, refused |-> s.refused]
  BY DEF Once, State
<1>2. Now' = s
  BY <1>1 DEF Now, Become
<1> QED BY <1>2

LEMMA BecomeFlushedOnce ==
  ASSUME Bindings, NEW s, Once(s), NEW from \in Node, NEW n \in Node,
         BecomeFlushed(s, from, n), AnsweredOnce(s, answers')
  PROVE  Once(Now)' /\ AnsweredOnce(Now, answers)'
<1> DEFINE i == ChildByMac(children[n], from)
           t == FlushQueue(s, n, i)
<1>1. i = 0 \/ i \in Used(children[n])
  <2>1. children[n] \in [Index -> Child \cup {NoChild}]
    BY DEF Bindings
  <2> QED BY <2>1, ChildByMacType DEF IndicesOf
<1>2. Once(t) /\ Leaves(s, t, 0)
  BY <1>1, FlushQueueOnce
<1>3. s \in State
  BY DEF Once
<1>4. Become(t) \/ Become(s)
  BY DEF BecomeFlushed
<1> HIDE DEF t
<1>5. AnsweredOnce(t, answers')
  BY <1>2, <1>3, AnsweredStays
<1> QED BY <1>2, <1>4, <1>5, BecomeOnce

\* The router misses a child only for a frame that descends.
LEMMA MissingChild ==
  ASSUME NEW n \in Node, NEW from \in Node, NEW f \in Frame,
         Route(RouterOf(n), f, from).reason = "NoSuchChild"
  PROVE  LET d == Route(RouterOf(n), f, from) IN
         /\ ~f.upstream /\ f.dest # <<>> /\ from = parent[n]
         /\ d.child = Head(f.dest) /\ d.child \notin Used(children[n])
<1> DEFINE r == RouterOf(n)
           d == Route(r, f, from)
<1>1. r.parent = parent[n] /\ r.children = children[n]
  BY DEF RouterOf
<1>2. \/ d = Drop(f, 0, "NotBound")
      \/ d = Drop(f, 0, "BadRequest")
      \/ d = RouteUpstream(r, f, Sender(n, from))
      \/ ~f.upstream /\ from = parent[n] /\ d = ResolveDownstream(r, f)
  BY <1>1, Zenon DEF Route, Sender
<1>3. d.reason = "NoSuchChild"
  OBVIOUS
<1> HIDE DEF d
<1>4. ~f.upstream /\ from = parent[n] /\ d = ResolveDownstream(r, f)
  <2>1. Drop(f, 0, "NotBound").reason # "NoSuchChild" /\ Drop(f, 0, "BadRequest").reason # "NoSuchChild"
    BY DEF Drop, Decision
  <2>2. RouteUpstream(r, f, Sender(n, from)).reason # "NoSuchChild"
    BY DEF RouteUpstream, Drop, Decision
  <2> QED BY <1>2, <1>3, <2>1, <2>2
<1>5. f.dest # <<>> /\ d.child = Head(f.dest) /\ d.child \notin Used(children[n])
  <2>1. CASE f.dest = <<>>
    BY <1>3, <1>4, <2>1 DEF ResolveDownstream, Decision
  <2>2. CASE f.dest # <<>>
    BY <1>1, <1>3, <1>4, <2>2 DEF ResolveDownstream, Drop, Decision
  <2> QED BY <2>1, <2>2
<1> QED BY <1>4, <1>5 DEF d

LEMMA ReceiveOnce ==
  ASSUME Fates, NEW from \in Node, NEW n \in Node, Receive(from, n)
  PROVE  Once(Now)' /\ AnsweredOnce(Now, answers)'
<1> DEFINE d == DecisionOn(from, n)
           s == Taken(from, n)
           f == Arriving(from, n)
<1>1. air[from][n] # <<>>
  BY DEF Receive, PassToParent, PassToChild, DeliverRequest, DeliverNews, DropFrame, OnFrame
<1>2. Bindings /\ TypeOK /\ f \in Frame /\ s \in State /\ Now \in State
  BY <1>1, NowType, ArrivingType DEF Fates, Addressing
<1>3. f.type = "WriteRequest" <=> ~f.upstream
  BY <1>1, ArrivingGood DEF Fates, Good
<1>4. /\ Once(s) /\ Leaves(Now, s, 0) /\ Fated(s, f) /\ (f.cmd # 0 => Absent(s, f.cmd))
      /\ \A w \in answers : f.cmd # w.cmd
  BY <1>1, <1>2, TakenOnce DEF Fates, AnsweredOnce
<1>5. AnsweredOnce(s, answers)
  BY <1>2, <1>4, AnsweredStays DEF Fates
<1>6. d = Route(RouterOf(n), f, from) /\ d.frame \in Frame /\ d.child \in 0 .. MaxHop
  BY <1>2, RouteType DEF DecisionOn
<1>7. f.type # "Report" => f.cmd \in DOMAIN s.cmds /\ f.cmd # 0 /\ Absent(s, f.cmd)
  BY <1>2, <1>4, CmdsFromOne DEF Fated
<1> HIDE DEF s, f, d
<1>8. ASSUME NEW t, Once(t), Leaves(s, t, f.cmd) PROVE AnsweredOnce(t, answers)
  BY <1>2, <1>4, <1>5, <1>8, AnsweredStays
<1>9. CASE PassToParent(from, n)
  <2> DEFINE g == d.frame
             u == Tap(s, n, g)
             t == Transmit(u, n, parent[n], g)
  <2>1. d.action = "ToParent"
    BY <1>9 DEF PassToParent, OnFrame, d
  <2>2. f.upstream /\ parent[n] \in Node /\ g = Climbed(n, from, f)
    BY ZenonT(60), <1>2, <1>6, <2>1, RouteType
  <2>3. g.type = f.type /\ g.cmd = f.cmd
    BY <1>2, <2>2 DEF Climbed, Frame
  <2>4. Once(u) /\ Leaves(s, u, 0)
    BY <1>2, <1>4, <1>6, TapOnce
  <2>5. Fated(s, g)
    BY <1>4, <2>3 DEF Fated
  <2> HIDE DEF g
  <2>6. g.cmd = 0 \/ (f.type # "Report" /\ u = s)
    BY <1>4, <2>3 DEF Fated, Tap
  <2>7. Fated(u, g)
    BY <1>3, <2>2, <2>3, <2>4, <2>5 DEF Fated, Leaves
  <2>8. g.cmd = 0 \/ Absent(u, g.cmd)
    BY <1>7, <2>3, <2>6
  <2> HIDE DEF u
  <2>9. Once(t) /\ Leaves(u, t, g.cmd)
    BY <1>6, <2>2, <2>4, <2>7, <2>8, TransmitOnce DEF g
  <2>10. Leaves(s, t, f.cmd)
    <3>1. CASE g.cmd = 0
      BY <2>3, <2>4, <2>9, <3>1, LeavesOn
    <3>2. CASE u = s
      BY <2>3, <2>9, <3>2
    <3> QED BY <2>6, <3>1, <3>2
  <2> HIDE DEF t
  <2>11. AnsweredOnce(t, answers)
    BY <1>8, <2>9, <2>10
  <2>12. BecomeFlushed(t, from, n) /\ answers' = answers
    BY <1>9 DEF PassToParent, s, d, t, u, g
  <2> QED BY <1>2, <2>9, <2>11, <2>12, BecomeFlushedOnce
<1>10. CASE PassToChild(from, n)
  <2> DEFINE g == d.frame
             t == ForwardToChild(s, n, g, d.child)
  <2>1. d.action = "ToChild"
    BY <1>10 DEF PassToChild, OnFrame, d
  <2>2. ~f.upstream /\ d.child \in Used(children[n]) /\ g = [f EXCEPT !.dest = Shift(@)]
    BY <1>2, <1>6, <2>1, RouteType
  <2>3. g.type = "WriteRequest" /\ g.cmd = f.cmd
    BY <1>2, <1>3, <2>2 DEF Frame
  <2>4. Fated(s, g) /\ Absent(s, g.cmd)
    BY <1>3, <1>4, <1>7, <2>2, <2>3 DEF Fated
  <2>5. Once(t) /\ Leaves(s, t, f.cmd)
    BY <1>2, <1>4, <1>6, <2>2, <2>3, <2>4, ForwardToChildOnce
  <2>6. BecomeFlushed(t, from, n) /\ answers' = answers
    BY <1>10 DEF PassToChild, s, d
  <2> HIDE DEF t
  <2> QED BY <1>2, <1>8, <2>5, <2>6, BecomeFlushedOnce
<1>11. CASE DeliverRequest(from, n)
  <2> DEFINE t == HandleRequest(s, n, d.frame)
  <2>1. d.action = "Deliver" /\ d.frame.type = "WriteRequest"
    BY <1>11 DEF DeliverRequest, OnFrame, d
  <2>2. \/ f.upstream /\ d.frame = Climbed(n, from, f)
        \/ ~f.upstream /\ d.frame = f /\ f.dest = <<>>
    BY ZenonT(60), <1>2, <1>6, <2>1, RouteType
  <2>3. d.frame = f /\ f.type = "WriteRequest"
    BY <1>2, <1>3, <2>1, <2>2 DEF Climbed, Frame
  <2>4. Once(t) /\ Leaves(s, t, f.cmd)
    BY <1>2, <1>4, <1>7, <2>3, HandleRequestOnce DEF Fated
  <2>5. BecomeFlushed(t, from, n) /\ answers' = answers
    BY <1>11 DEF DeliverRequest, s, d
  <2> HIDE DEF t
  <2> QED BY <1>2, <1>8, <2>4, <2>5, BecomeFlushedOnce
<1>12. CASE DeliverNews(from, n)
  <2> DEFINE g == d.frame
             w == [at |-> n, type |-> g.type, about |-> g.about, src |-> g.src,
                   hop |-> g.hop, cmd |-> g.cmd]
             t == Tap(s, n, g)
  <2>1. d.action = "Deliver" /\ g.type # "WriteRequest"
    BY <1>12 DEF DeliverNews, OnFrame, d
  <2>2. f.upstream /\ g = Climbed(n, from, f)
    BY <1>2, <1>3, <1>6, <2>1, RouteType
  <2>3. g.type = f.type /\ g.cmd = f.cmd
    BY <1>2, <2>2 DEF Climbed, Frame
  <2>4. answers' = IF g.type = "Report" THEN answers ELSE answers \cup {w}
    BY <1>12 DEF DeliverNews, d
  <2>5. Once(t) /\ Leaves(s, t, 0)
    BY <1>2, <1>4, <1>6, TapOnce
  <2>6. w.cmd = g.cmd /\ w.type = g.type
    OBVIOUS
  <2>7. BecomeFlushed(t, from, n)
    BY <1>12 DEF DeliverNews, s, d
  <2>8. g.type \in {"Report", "WriteRequest"} \cup Answers
    BY <1>6 DEF Frame
  <2>9. g.type # "Report" => t = s
    BY DEF Tap
  <2> HIDE DEF w, g, t
  <2>10. CASE g.type = "Report"
    <3>1. AnsweredOnce(t, answers)
      BY <1>2, <1>5, <2>5, AnsweredStays
    <3> QED BY <1>2, <2>4, <2>5, <2>7, <2>10, <3>1, BecomeFlushedOnce
  <2>11. CASE g.type # "Report"
    <3>1. /\ g.type = "WriteResponse" => Ran(s, g.cmd)
          /\ g.type # "WriteResponse" => g.cmd \in s.refused
      BY <1>4, <2>1, <2>3, <2>8, <2>11 DEF Fated, Answers
    <3>2. g.cmd \in DOMAIN s.cmds /\ Absent(s, g.cmd)
      BY <1>7, <2>3, <2>11
    <3>3. \A v \in answers : v.cmd # w.cmd
      BY <1>4, <2>3, <2>6
    <3>4. answers' = answers \cup {w}
      BY <2>4, <2>11
    <3>5. AnsweredOnce(s, answers')
      BY <1>5, <2>6, <3>1, <3>2, <3>3, <3>4 DEF AnsweredOnce
    <3> QED BY <1>2, <1>4, <2>7, <2>9, <2>11, <3>5, BecomeFlushedOnce
  <2> QED BY <2>10, <2>11
<1>13. CASE DropFrame(from, n)
  <2>1. d.action = "Drop"
    BY <1>13 DEF DropFrame, OnFrame, d
  <2>2. d.frame = f
    BY <1>2, <1>6, <2>1, RouteType
  <2>3. answers' = answers
    BY <1>13 DEF DropFrame
  <2>4. CASE d.reason = "NoSuchChild"
    <3> DEFINE r == Refuse(s, f.cmd)
               t == SendUpstream(r, n, "RouteError", f.seq, d.child, f.cmd)
    <3>1. f.type = "WriteRequest"
      BY <1>2, <1>3, <1>6, <2>4, MissingChild
    <3>2. f.cmd \in DOMAIN s.cmds /\ ~Ran(s, f.cmd) /\ Absent(s, f.cmd)
      BY <1>4, <1>7, <3>1 DEF Fated
    <3>3. Once(r) /\ Leaves(s, r, 0) /\ f.cmd \in r.refused /\ Absent(r, f.cmd)
      BY <1>4, <3>2, RefuseOnce
    <3>4. f.cmd \in Nat /\ f.seq \in Seqs
      BY <1>2 DEF Frame
    <3>5. BecomeFlushed(t, from, n)
      BY <1>13, <2>2, <2>4 DEF DropFrame, s, d
    <3> HIDE DEF r
    <3>6. Once(t) /\ Leaves(r, t, f.cmd)
      BY <1>2, <1>6, <3>3, <3>4, SendUpstreamOnce
    <3>7. Leaves(s, r, f.cmd)
      BY <1>2, <3>3, CmdsFromOne DEF Leaves
    <3> HIDE DEF t
    <3>8. Leaves(s, t, f.cmd)
      BY <3>6, <3>7, LeavesOn
    <3> QED BY <1>2, <1>8, <2>3, <3>5, <3>6, <3>8, BecomeFlushedOnce
  <2>5. CASE d.reason # "NoSuchChild"
    <3>1. BecomeFlushed(s, from, n)
      BY <1>13, <2>5 DEF DropFrame, s, d
    <3> QED BY <1>2, <1>4, <1>5, <2>3, <3>1, BecomeFlushedOnce
  <2> QED BY <2>4, <2>5
<1> QED BY <1>9, <1>10, <1>11, <1>12, <1>13 DEF Receive

-----------------------------------------------------------------------------
(* The invariant *)

LEMMA FatesInit == Init => Fates
<1> SUFFICES ASSUME Init PROVE Fates
  OBVIOUS
<1>1. Addressing /\ Now \in State
  BY AddressingInit, InitType, NowType
<1>2. /\ Now.cmds = <<>> /\ Now.ran = <<>> /\ Now.refused = {} /\ answers = {}
      /\ \A a, b \in Node : Now.air[a][b] = <<>>
      /\ \A n \in Node, i \in Index : Now.queue[n][i] = NoFrame
  BY DEF Init, Now
<1> QED BY <1>1, <1>2 DEF Fates, Once, OnceInTheAir, OnceHeld, HeldOrInTheAir,
           AllFated, Ended, AnsweredOnce

\* A step that leaves the frames of this state, or fewer, and no history.
LEMMA FewerOnce ==
  ASSUME Fates, TypeOK', UNCHANGED history,
         NEW d \in [Node -> [Node -> {0, 1}]], Behind(Now, Now', d), HeldBefore(Now, Now')
  PROVE  Once(Now)' /\ AnsweredOnce(Now, answers)'
<1> DEFINE t == Now'
<1>1. t \in State
  BY DEF TypeOK, Now, State, Run
<1>2. t.cmds = Now.cmds /\ t.ran = Now.ran /\ t.refused = Now.refused /\ answers' = answers
  BY DEF Now, history
<1>3. Now \in State /\ Once(Now)
  BY DEF Fates, Once
<1>4. Behind(Now, t, d) /\ HeldBefore(Now, t)
  OBVIOUS
<1> HIDE DEF t
<1>5. Once(t) /\ Leaves(Now, t, 0)
  BY <1>1, <1>2, <1>3, <1>4, LessOnce
<1>6. AnsweredOnce(t, answers)
  BY <1>3, <1>5, AnsweredStays DEF Fates
<1> QED BY <1>2, <1>5, <1>6 DEF t

\* The steps that only take frames away, or none.
Thins ==
  \/ \E n \in Battery : Doze(n)
  \/ \E n \in Restarting : Reboot(n)
  \/ \E from, n \in Node : NotHeard(from, n)
  \/ UNCHANGED vars

LEMMA ThinsBehind ==
  ASSUME TypeOK, Thins
  PROVE  /\ UNCHANGED <<binding, history>> /\ HeldBefore(Now, Now')
         /\ \E d \in [Node -> [Node -> {0, 1}]] : Behind(Now, Now', d)
<1> DEFINE Left == \E d \in [Node -> [Node -> {0, 1}]] : Behind(Now, Now', d)
<1>1. /\ Now.air = air /\ Now'.air = air' /\ Now.queue = queue /\ Now'.queue = queue'
      /\ air \in [Node -> [Node -> Seq(Frame)]]
  BY DEF Now, TypeOK
<1>2. ASSUME air' = air PROVE Left
  <2> DEFINE d == [x \in Node |-> [y \in Node |-> 0]]
  <2>1. d \in [Node -> [Node -> {0, 1}]] /\ \A x, y \in Node : d[x][y] = 0
    OBVIOUS
  <2> HIDE DEF d
  <2>2. ASSUME NEW x \in Node, NEW y \in Node, NEW k \in DOMAIN air[x][y]
        PROVE  k + d[x][y] = k
    <3>1. air[x][y] \in Seq(Frame)
      BY <1>1
    <3>2. k \in Nat
      BY <2>2, <3>1
    <3> QED BY <2>1, <3>2
  <2>3. Behind(Now, Now', d)
    BY <1>1, <1>2, <2>2 DEF Behind
  <2> QED BY <2>1, <2>3
<1>3. ASSUME queue' = queue PROVE HeldBefore(Now, Now')
  BY <1>1, <1>3 DEF HeldBefore
<1>4. ASSUME NEW n \in Battery, Doze(n)
      PROVE  UNCHANGED <<binding, history>> /\ HeldBefore(Now, Now') /\ Left
  BY <1>2, <1>3, <1>4 DEF Doze
<1>5. ASSUME NEW n \in Restarting, Reboot(n)
      PROVE  UNCHANGED <<binding, history>> /\ HeldBefore(Now, Now') /\ Left
  <2>1. \A m \in Node, i \in Index : queue'[m][i] # NoFrame => queue'[m][i] = queue[m][i]
    BY <1>5 DEF Reboot, TypeOK
  <2>2. HeldBefore(Now, Now')
    BY <1>1, <2>1 DEF HeldBefore
  <2> QED BY <1>2, <1>5, <2>2 DEF Reboot
<1>6. ASSUME NEW from \in Node, NEW n \in Node, NotHeard(from, n)
      PROVE  UNCHANGED <<binding, history>> /\ HeldBefore(Now, Now') /\ Left
  <2> DEFINE d == [x \in Node |-> [y \in Node |-> IF x = from /\ y = n THEN 1 ELSE 0]]
  <2>1. /\ air' = [air EXCEPT ![from][n] = Tail(@)] /\ air[from][n] # <<>>
        /\ queue' = queue /\ UNCHANGED <<binding, history>>
    BY <1>6 DEF NotHeard
  <2>2. d \in [Node -> [Node -> {0, 1}]]
    OBVIOUS
  <2>3. ASSUME NEW x \in Node, NEW y \in Node, NEW k \in DOMAIN air'[x][y]
        PROVE  k + d[x][y] \in DOMAIN air[x][y] /\ air'[x][y][k] = air[x][y][k + d[x][y]]
    <3>0. air[x][y] \in Seq(Frame)
      BY <1>1
    <3>1. CASE x = from /\ y = n
      <4>1. air'[x][y] = Tail(air[x][y]) /\ d[x][y] = 1
        BY <1>1, <2>1, <3>1
      <4> HIDE DEF d
      <4>2. air[x][y] # <<>> /\ k \in DOMAIN Tail(air[x][y])
        BY <2>1, <2>3, <3>1, <4>1
      <4>3. k + 1 \in DOMAIN air[x][y] /\ Tail(air[x][y])[k] = air[x][y][k + 1]
        BY <3>0, <4>2
      <4> QED BY <4>1, <4>3
    <3>2. CASE ~(x = from /\ y = n)
      <4>1. air'[x][y] = air[x][y] /\ d[x][y] = 0
        BY <1>1, <2>1, <3>2
      <4> HIDE DEF d
      <4>2. k + 0 = k
        BY <2>3, <3>0, <4>1
      <4> QED BY <2>3, <4>1, <4>2
    <3> QED BY <3>1, <3>2
  <2> HIDE DEF d
  <2>4. Behind(Now, Now', d)
    BY SMTT(60), <1>1, <2>3 DEF Behind
  <2> QED BY <1>3, <2>1, <2>2, <2>4
<1>7. ASSUME UNCHANGED vars
      PROVE  UNCHANGED <<binding, history>> /\ HeldBefore(Now, Now') /\ Left
  BY <1>2, <1>3, <1>7 DEF vars
<1> HIDE DEF Left
<1>8. UNCHANGED <<binding, history>> /\ HeldBefore(Now, Now') /\ Left
  BY <1>4, <1>5, <1>6, <1>7 DEF Thins
<1> QED BY <1>8 DEF Left

LEMMA FatesNext == Fates /\ [Next]_vars => Fates'
<1> SUFFICES ASSUME Fates, [Next]_vars PROVE Fates'
  OBVIOUS
<1>1. TypeOK /\ TypeOK' /\ Bindings /\ Addressing' /\ Once(Now) /\ Now \in State
  BY NowType, NextType, AddressingNext DEF Fates, Addressing
<1>2. ASSUME NEW n \in Commanders, NEW dest \in Destinations, RequestWrite(n, dest)
      PROVE  Once(Now)' /\ AnsweredOnce(Now, answers)'
  <2> DEFINE t == SendDownstream(Now, n, dest, TRUE, NoNode)
  <2>1. Once(t) /\ Leaves(Now, t, 0)
    BY <1>1, SendDownstreamOnce
  <2>2. Become(t) /\ answers' = answers
    BY <1>2 DEF RequestWrite
  <2> HIDE DEF t
  <2>3. AnsweredOnce(t, answers)
    BY <1>1, <2>1, AnsweredStays DEF Fates
  <2> QED BY <2>1, <2>2, <2>3, BecomeOnce
<1>3. ASSUME NEW n \in Reporters, SendReport(n)
      PROVE  Once(Now)' /\ AnsweredOnce(Now, answers)'
  <2> DEFINE s == DeliverLinks(Now, n, <<>>, n)
             t == SendUpstream(s, n, "Report", 0, 0, 0)
  <2>1. Once(s) /\ Leaves(Now, s, 0)
    BY <1>1, DeliverLinksOnce
  <2>2. Become(t) /\ answers' = answers
    BY <1>3 DEF SendReport
  <2>3. 0 \in Seqs /\ 0 \in 0 .. MaxHop
    BY DEF Seqs
  <2> HIDE DEF s
  <2>4. Once(t) /\ Leaves(s, t, 0)
    BY <1>1, <2>1, <2>3, SendUpstreamOnce
  <2> HIDE DEF t
  <2>5. AnsweredOnce(t, answers)
    <3>1. Leaves(Now, t, 0)
      BY <2>1, <2>4, LeavesOn
    <3> QED BY <1>1, <3>1, AnsweredStays DEF Fates
  <2> QED BY <2>2, <2>4, <2>5, BecomeOnce
<1>4. ASSUME Thins PROVE Once(Now)' /\ AnsweredOnce(Now, answers)'
  <2>1. /\ UNCHANGED history /\ HeldBefore(Now, Now')
        /\ \E d \in [Node -> [Node -> {0, 1}]] : Behind(Now, Now', d)
    BY <1>1, <1>4, ThinsBehind
  <2> QED BY <1>1, <2>1, FewerOnce
<1>5. Once(Now)' /\ AnsweredOnce(Now, answers)'
  BY <1>2, <1>3, <1>4, ReceiveOnce DEF Next, Thins
<1> QED BY <1>1, <1>5 DEF Fates

LEMMA FatesImply == Fates => RunsAtMostOnce /\ AnswersTellTheFate
<1> SUFFICES ASSUME Fates PROVE RunsAtMostOnce /\ AnswersTellTheFate
  OBVIOUS
<1>1. Now.ran = ran /\ Now.refused = refused
  BY DEF Now
<1>2. \A k : Ran(Now, k) <=> HasRun(k)
  BY <1>1 DEF Ran, HasRun
<1>3. RunsAtMostOnce
  BY <1>1, <1>2 DEF Fates, Once, Ended, RunsAtMostOnce
<1>4. AnswersTellTheFate
  BY <1>1, <1>2 DEF Fates, AnsweredOnce, AnswersTellTheFate
<1> QED BY <1>3, <1>4

\* In any topology and whatever is lost or restarted, no command runs twice and
\* none runs that some node refused.
THEOREM OnceOrRefused == Spec => []RunsAtMostOnce
  BY FatesInit, FatesNext, FatesImply, PTL DEF Spec

\* An answer that reaches a root tells what became of its command, and no
\* command is answered twice.
THEOREM OneTrueAnswer == Spec => []AnswersTellTheFate
  BY FatesInit, FatesNext, FatesImply, PTL DEF Spec

-----------------------------------------------------------------------------
(* The order of commands.  Two commands of one node for one place take one    *)
(* way; the invariant says that on it the earlier is never further from its   *)
(* end than the later, and that none runs before one that is still under way. *)

Before(s, k, l) ==
  /\ k \in DOMAIN s.cmds /\ l \in DOMAIN s.cmds /\ k < l
  /\ s.cmds[k].by = s.cmds[l].by /\ s.cmds[k].dest = s.cmds[l].dest

\* What command k has before it: two for each hop that is left of its path, and
\* one more while it waits in a slot.
Flies(s, k, q) ==
  \E a, b \in Node : \E j \in DOMAIN s.air[a][b] :
    /\ s.air[a][b][j].type = "WriteRequest" /\ s.air[a][b][j].cmd = k
    /\ q = 2 * Len(s.air[a][b][j].dest)

Waits(s, k, q) ==
  \E n \in Node, i \in Index :
    /\ s.queue[n][i] # NoFrame /\ s.queue[n][i].cmd = k
    /\ q = 2 * Len(s.queue[n][i].dest) + 1

ToGo(s, k, q) == Flies(s, k, q) \/ Waits(s, k, q)

InLine(s) ==
  \A k, l, q, r : ToGo(s, k, q) /\ ToGo(s, l, r) /\ Before(s, k, l) => q =< r

OneAfterTheOther(s) ==
  \A a, b \in Node : \A i, j \in DOMAIN s.air[a][b] :
    LET f == s.air[a][b][i]
        g == s.air[a][b][j]
    IN  f.type = "WriteRequest" /\ g.type = "WriteRequest" /\ Len(f.dest) = Len(g.dest)
        /\ Before(s, f.cmd, g.cmd) => i < j

\* What waits is a command, for a child that sleeps.
ForSleepers(s) ==
  \A n \in Node, i \in Index : s.queue[n][i] # NoFrame =>
    /\ i \in Used(children[n]) /\ children[n][i].mac \in Battery
    /\ s.queue[n][i].type = "WriteRequest"

NotOvertaken(s) ==
  \A k, q : ToGo(s, k, q) => \A j \in DOMAIN s.ran : ~Before(s, k, s.ran[j].cmd)

RanInLine(s) ==
  \A j \in DOMAIN s.ran :
    /\ s.ran[j].cmd \in DOMAIN s.cmds
    /\ \A i \in DOMAIN s.ran : i < j => ~Before(s, s.ran[j].cmd, s.ran[i].cmd)

Ordered(s) ==
  InLine(s) /\ OneAfterTheOther(s) /\ ForSleepers(s) /\ NotOvertaken(s) /\ RanInLine(s)

\* Command k may be where it has r before it.
Fit(s, k, r) ==
  /\ \A l, q : ToGo(s, l, q) => /\ Before(s, l, k) => q =< r
                                /\ Before(s, k, l) => r < q
  /\ \A j \in DOMAIN s.ran : ~Before(s, k, s.ran[j].cmd)

\* There is one way along a path.
LEMMA OneEnd ==
  ASSUME NEW x, NEW q \in Seq(Hop), NEW a, NEW b, Bonded(x, q, a), Bonded(x, q, b)
  PROVE  a = b
<1>1. Len(q) \in Nat
  OBVIOUS
<1>2. PICK t \in [1 .. Len(q) + 1 -> Node] :
        /\ t[1] = x /\ t[Len(q) + 1] = a
        /\ \A k \in 1 .. Len(q) : children[t[k]][q[k]].mac = t[k + 1]
  BY SMTT(60) DEF Bonded
<1>3. PICK u \in [1 .. Len(q) + 1 -> Node] :
        /\ u[1] = x /\ u[Len(q) + 1] = b
        /\ \A k \in 1 .. Len(q) : children[u[k]][q[k]].mac = u[k + 1]
  BY SMTT(60) DEF Bonded
<1> DEFINE parted == {k \in 1 .. Len(q) + 1 : t[k] # u[k]}
<1>4. ASSUME parted # {} PROVE FALSE
  <2>1. parted \subseteq Nat
    OBVIOUS
  <2>2. PICK m \in parted : \A k \in parted : m =< k
    BY <1>4, <2>1, LeastExists
  <2>3. m \in 1 .. Len(q) + 1 /\ t[m] # u[m] /\ m # 1
    BY <1>2, <1>3, <2>2
  <2>4. m - 1 \in 1 .. Len(q) /\ m - 1 \in 1 .. Len(q) + 1 /\ (m - 1) + 1 = m
    BY <1>1, <2>3
  <2>5. m - 1 \notin parted
    BY <2>2, <2>3
  <2>6. t[m - 1] = u[m - 1]
    BY <2>4, <2>5
  <2>7. children[t[m - 1]][q[m - 1]].mac = t[(m - 1) + 1] /\
        children[u[m - 1]][q[m - 1]].mac = u[(m - 1) + 1]
    BY <1>2, <1>3, <2>4
  <2> QED BY <2>3, <2>4, <2>6, <2>7
<1>5. Len(q) + 1 \in 1 .. Len(q) + 1
  BY <1>1
<1> QED BY <1>2, <1>3, <1>4, <1>5

\* A path of which q is behind, i is next and u is left.
Joined(q, i, u) == q \o (<<i>> \o u)

Parts(dest, q, i, u) ==
  /\ Len(dest) = Len(q) + 1 + Len(u) /\ dest[Len(q) + 1] = i
  /\ \A m \in 1 .. Len(q) : dest[m] = q[m]

LEMMA JoinedHops ==
  ASSUME NEW q \in Seq(Hop), NEW i \in Hop, NEW u \in Seq(Hop)
  PROVE  Parts(Joined(q, i, u), q, i, u)
<1> DEFINE v == <<i>> \o u
<1>1. v \in Seq(Hop) /\ Len(v) = 1 + Len(u) /\ v[1] = i
  OBVIOUS
<1> HIDE DEF v
<1>2. /\ q \o v \in Seq(Hop) /\ Len(q \o v) = Len(q) + Len(v)
      /\ \A m \in 1 .. Len(q) : (q \o v)[m] = q[m]
      /\ (q \o v)[Len(q) + 1] = v[1]
  <2>1. Len(q) \in Nat /\ Len(v) >= 1 /\ Len(v) \in Nat
    <3>1. Len(q) \in Nat /\ Len(u) \in Nat
      OBVIOUS
    <3> QED BY ONLY <1>1, <3>1
  <2>2. \A m \in 1 .. Len(q) + Len(v) :
          (q \o v)[m] = IF m =< Len(q) THEN q[m] ELSE v[m - Len(q)]
    BY ONLY ZenonT(60), <1>1, q \in Seq(Hop), ConcatProperties
  <2>3. \A m \in 1 .. Len(q) : (q \o v)[m] = q[m]
    BY ONLY <2>1, <2>2
  <2>4. (q \o v)[Len(q) + 1] = v[1]
    BY ONLY <2>1, <2>2
  <2>5. q \o v \in Seq(Hop) /\ Len(q \o v) = Len(q) + Len(v)
    BY <1>1
  <2> QED BY ONLY <2>3, <2>4, <2>5
<1>3. Len(q) \in Nat /\ Len(u) \in Nat
  OBVIOUS
<1>4. Len(q \o v) = Len(q) + 1 + Len(u)
  BY <1>1, <1>2, <1>3
<1>5. Joined(q, i, u) = q \o v
  BY DEF Joined, v
<1> QED BY ONLY <1>1, <1>2, <1>4, <1>5 DEF Parts

LEMMA OneSplit ==
  ASSUME NEW q \in Seq(Hop), NEW p \in Seq(Hop), NEW i \in Hop, NEW j \in Hop,
         NEW u \in Seq(Hop), NEW v \in Seq(Hop), Len(u) = Len(v),
         Joined(q, i, u) = Joined(p, j, v)
  PROVE  q = p /\ i = j
<1> DEFINE dest == Joined(q, i, u)
<1>1. dest = Joined(q, i, u) /\ dest = Joined(p, j, v)
  OBVIOUS
<1> HIDE DEF dest
<1>2. Parts(dest, q, i, u)
  BY <1>1, JoinedHops
<1>3. Parts(dest, p, j, v)
  BY <1>1, JoinedHops
<1>4. Len(q) \in Nat /\ Len(p) \in Nat /\ Len(u) \in Nat
  OBVIOUS
<1>5. Len(p) = Len(q)
  BY <1>2, <1>3, <1>4 DEF Parts
<1>6. \A m \in 1 .. Len(q) : p[m] = q[m]
  BY ONLY <1>2, <1>3, <1>5 DEF Parts
<1>7. p = q
  BY <1>5, <1>6, SeqEqual
<1> QED BY ONLY <1>2, <1>3, <1>5, <1>7 DEF Parts

\* Two commands of one node for one place that have as far to go are on one hop.
LEMMA OneWay ==
  ASSUME Bindings, NEW s \in State, NEW f \in Frame, NEW g \in Frame,
         NEW a \in Node, NEW b, NEW c \in Node, NEW d, Down(s, f, a, b), Down(s, g, c, d),
         s.cmds[f.cmd].by = s.cmds[g.cmd].by, s.cmds[f.cmd].dest = s.cmds[g.cmd].dest,
         Len(f.dest) = Len(g.dest)
  PROVE  a = c /\ b = d
<1> DEFINE by == s.cmds[f.cmd].by
           dest == s.cmds[f.cmd].dest
           u == f.dest
           v == g.dest
<1>1. PICK q \in Seq(Hop), i \in Used(children[a]) :
        dest = Joined(q, i, u) /\ Bonded(by, q, a) /\ children[a][i].mac = b
  BY DEF Down, Joined
<1>2. PICK p \in Seq(Hop), j \in Used(children[c]) :
        dest = Joined(p, j, v) /\ Bonded(by, p, c) /\ children[c][j].mac = d
  BY DEF Down, Joined
<1>3. u \in Seq(Hop) /\ v \in Seq(Hop) /\ i \in Hop /\ j \in Hop /\ Len(u) = Len(v)
  BY DEF Frame, Path, Used, Index, Hop
<1> HIDE DEF by, dest, u, v
<1>4. p = q /\ i = j
  <2>1. /\ q \in Seq(Hop) /\ p \in Seq(Hop) /\ i \in Hop /\ j \in Hop
        /\ u \in Seq(Hop) /\ v \in Seq(Hop) /\ Len(u) = Len(v)
        /\ Joined(q, i, u) = Joined(p, j, v)
    BY <1>1, <1>2, <1>3
  <2> QED BY ONLY <2>1, OneSplit
<1>5. a = c
  BY <1>1, <1>2, <1>4, OneEnd
<1> QED BY <1>1, <1>2, <1>4, <1>5

\* A command under way has less than its path left.
LEMMA NotThere ==
  ASSUME Bindings, NEW s \in State, NEW f \in Frame, NEW a \in Node, NEW b, Down(s, f, a, b)
  PROVE  /\ f.cmd \in DOMAIN s.cmds
         /\ Len(f.dest) \in Nat /\ Len(s.cmds[f.cmd].dest) \in Nat
         /\ Len(f.dest) + 1 =< Len(s.cmds[f.cmd].dest)
<1> DEFINE dest == s.cmds[f.cmd].dest
           u == f.dest
<1>1. PICK q \in Seq(Hop), i \in Used(children[a]) : dest = Joined(q, i, u)
  BY DEF Down, Joined
<1>2. u \in Seq(Hop) /\ i \in Hop
  BY DEF Frame, Path, Used, Index, Hop
<1>3. f.cmd \in DOMAIN s.cmds
  BY DEF Down
<1> HIDE DEF dest, u
<1>4. Len(dest) = Len(q) + 1 + Len(u)
  <2>1. Parts(dest, q, i, u)
    BY <1>1, <1>2, JoinedHops
  <2> QED BY <2>1 DEF Parts
<1>5. Len(q) \in Nat /\ Len(u) \in Nat
  BY <1>2
<1>6. Len(u) \in Nat /\ Len(dest) \in Nat /\ Len(u) + 1 =< Len(dest)
  BY <1>4, <1>5
<1> QED BY <1>3, <1>6 DEF dest, u

LEMMA ToGoType ==
  ASSUME NEW s \in State, NEW k, NEW q, ToGo(s, k, q)
  PROVE  q \in Nat
<1>1. ASSUME NEW f \in Frame PROVE Len(f.dest) \in Nat
  BY DEF Frame, Path
<1>2. CASE Flies(s, k, q)
  <2>1. PICK a \in Node, b \in Node :
          \E j \in DOMAIN s.air[a][b] : q = 2 * Len(s.air[a][b][j].dest)
    BY <1>2 DEF Flies
  <2>2. PICK j \in DOMAIN s.air[a][b] : q = 2 * Len(s.air[a][b][j].dest)
    BY <2>1
  <2>3. s.air[a][b][j] \in Frame
    <3>1. s.air[a][b] \in Seq(Frame)
      BY DEF State
    <3> QED BY <3>1
  <2>4. Len(s.air[a][b][j].dest) \in Nat
    BY <1>1, <2>3
  <2> QED BY ONLY SMTT(60), <2>2, <2>4
<1>3. CASE Waits(s, k, q)
  <2>1. PICK n \in Node, i \in Index :
          s.queue[n][i] # NoFrame /\ q = 2 * Len(s.queue[n][i].dest) + 1
    BY <1>3 DEF Waits
  <2>2. s.queue[n][i] \in Frame
    BY <2>1 DEF State
  <2>3. Len(s.queue[n][i].dest) \in Nat
    BY <1>1, <2>2
  <2> QED BY SMTT(60), <2>1, <2>3
<1> QED BY <1>2, <1>3 DEF ToGo

LEMMA BeforeType ==
  ASSUME NEW s \in State, NEW k, NEW l, Before(s, k, l)
  PROVE  k \in Nat /\ l \in Nat /\ k < l /\ ~Before(s, l, k)
<1>1. s.cmds \in Seq(Command)
  BY DEF State
<1>2. k \in Nat /\ l \in Nat /\ k < l
  BY <1>1 DEF Before
<1> QED BY <1>2 DEF Before

\* A command on its way is one that was issued, and has not all its path to go.
LEMMA ToGoIssued ==
  ASSUME Bindings, NEW s, Tracked(s), ForSleepers(s), NEW k, NEW q, ToGo(s, k, q)
  PROVE  k \in DOMAIN s.cmds /\ Len(s.cmds[k].dest) \in Nat /\ q < 2 * Len(s.cmds[k].dest)
<1>1. s \in State
  BY DEF Tracked
<1>2. CASE Flies(s, k, q)
  <2>0. PICK a \in Node, b \in Node : \E j \in DOMAIN s.air[a][b] :
          LET f == s.air[a][b][j] IN
          f.type = "WriteRequest" /\ f.cmd = k /\ q = 2 * Len(f.dest)
    BY <1>2 DEF Flies
  <2>1. PICK j \in DOMAIN s.air[a][b] :
          LET f == s.air[a][b][j] IN
          f.type = "WriteRequest" /\ f.cmd = k /\ q = 2 * Len(f.dest)
    BY <2>0
  <2> DEFINE f == s.air[a][b][j]
  <2>2. f \in Frame
    <3>1. s.air[a][b] \in Seq(Frame)
      BY <1>1 DEF State
    <3> QED BY <3>1
  <2>3. Down(s, f, a, b)
    BY <2>1 DEF Tracked, AirOnTrack, OnTrack
  <2>4. f.cmd = k /\ q = 2 * Len(f.dest)
    BY <2>1
  <2> HIDE DEF f
  <2>5. /\ k \in DOMAIN s.cmds /\ Len(f.dest) \in Nat /\ Len(s.cmds[k].dest) \in Nat
        /\ Len(f.dest) + 1 =< Len(s.cmds[k].dest)
    BY <1>1, <2>2, <2>3, <2>4, NotThere
  <2> QED BY ONLY <2>4, <2>5
<1>3. CASE Waits(s, k, q)
  <2>1. PICK n \in Node, i \in Index :
          s.queue[n][i] # NoFrame /\ s.queue[n][i].cmd = k /\ q = 2 * Len(s.queue[n][i].dest) + 1
    BY <1>3 DEF Waits
  <2> DEFINE f == s.queue[n][i]
  <2>2. f \in Frame
    BY <1>1, <2>1 DEF State
  <2>3. Down(s, f, n, children[n][i].mac)
    BY <2>1 DEF Tracked, QueueOnTrack, OnTrack, ForSleepers
  <2>4. f.cmd = k /\ q = 2 * Len(f.dest) + 1
    BY <2>1
  <2> HIDE DEF f
  <2>5. /\ k \in DOMAIN s.cmds /\ Len(f.dest) \in Nat /\ Len(s.cmds[k].dest) \in Nat
        /\ Len(f.dest) + 1 =< Len(s.cmds[k].dest)
    BY <1>1, <2>2, <2>3, <2>4, NotThere
  <2> QED BY ONLY <2>4, <2>5
<1> QED BY <1>2, <1>3 DEF ToGo

\* A command put where it fits keeps the line.
LEMMA PutInLine ==
  ASSUME NEW s \in State, Ordered(s), NEW t, t.cmds = s.cmds, t.ran = s.ran,
         NEW k, NEW r \in Nat, NEW put \in BOOLEAN, put => Fit(s, k, r),
         \A l, q : ToGo(t, l, q) => ToGo(s, l, q) \/ (put /\ l = k /\ q = r)
  PROVE  InLine(t) /\ NotOvertaken(t) /\ RanInLine(t)
<1>1. \A l, m : Before(t, l, m) <=> Before(s, l, m)
  BY DEF Before
<1>2. ASSUME NEW l, NEW m, NEW q, NEW p, ToGo(t, l, q), ToGo(t, m, p), Before(s, l, m)
      PROVE  q =< p
  <2>1. CASE ToGo(s, l, q) /\ ToGo(s, m, p)
    BY <1>2, <2>1 DEF Ordered, InLine
  <2>2. CASE ToGo(s, l, q) /\ put /\ m = k /\ p = r
    BY <1>2, <2>2 DEF Fit
  <2>3. CASE put /\ l = k /\ q = r /\ ToGo(s, m, p)
    <3>1. r < p /\ p \in Nat
      BY <1>2, <2>3, ToGoType DEF Fit
    <3> QED BY <2>3, <3>1
  <2>4. CASE l = k /\ m = k
    <3>1. k \in Nat /\ k < k
      BY <1>2, <2>4, BeforeType
    <3> QED BY <3>1
  <2> QED BY <1>2, <2>1, <2>2, <2>3, <2>4
<1>3. InLine(t)
  BY <1>1, <1>2 DEF InLine
<1>4. NotOvertaken(t)
  BY <1>1 DEF Ordered, NotOvertaken, Fit
<1>5. RanInLine(t)
  BY <1>1 DEF Ordered, RanInLine
<1> QED BY <1>3, <1>4, <1>5

LEMMA TransmitOrdered ==
  ASSUME NEW s \in State, Ordered(s), NEW a \in Node, NEW b \in Node, NEW f \in Frame,
         f.type = "WriteRequest" => Fit(s, f.cmd, 2 * Len(f.dest))
  PROVE  Ordered(Transmit(s, a, b, f))
<1> DEFINE t == Transmit(s, a, b, f)
           put == f.type = "WriteRequest"
           r == 2 * Len(f.dest)
<1>1. t \in State /\ r \in Nat /\ Len(f.dest) \in Nat
  <2>1. f.dest \in Seq(Hop)
    BY DEF Frame, Path
  <2> QED BY <2>1, TransmitType
<1>2. /\ t.queue = s.queue /\ t.cmds = s.cmds /\ t.ran = s.ran
      /\ t.air = [s.air EXCEPT ![a][b] = Append(@, f)]
  BY <1>1 DEF Transmit, State
<1> HIDE DEF t
<1>3. ASSUME NEW x \in Node, NEW y \in Node, NEW k \in DOMAIN t.air[x][y]
      PROVE  /\ k \in Nat
             /\ \/ k \in DOMAIN s.air[x][y] /\ t.air[x][y][k] = s.air[x][y][k]
                \/ /\ x = a /\ y = b /\ k = Len(s.air[a][b]) + 1 /\ t.air[x][y][k] = f
                   /\ \A i \in DOMAIN s.air[x][y] : i < k
  <2>1. CASE x = a /\ y = b
    <3>1. s.air[a][b] \in Seq(Frame) /\ t.air[x][y] = Append(s.air[a][b], f)
      BY SMTT(60), <1>1, <1>2, <2>1 DEF State
    <3> QED BY <1>3, <2>1, <3>1
  <2>2. CASE ~(x = a /\ y = b)
    <3>1. t.air[x][y] = s.air[x][y] /\ s.air[x][y] \in Seq(Frame)
      BY <1>1, <1>2, <2>2 DEF State
    <3> QED BY <1>3, <3>1
  <2> QED BY <2>1, <2>2
<1>4. \A l, m : Before(t, l, m) <=> Before(s, l, m)
  BY <1>2 DEF Before
<1>5. ASSUME NEW l, NEW q, ToGo(t, l, q)
      PROVE  ToGo(s, l, q) \/ (put /\ l = f.cmd /\ q = r)
  <2>1. CASE Waits(t, l, q)
    BY <1>2, <2>1 DEF ToGo, Waits
  <2>2. CASE Flies(t, l, q)
    <3>0. PICK x \in Node, y \in Node : \E j \in DOMAIN t.air[x][y] :
            /\ t.air[x][y][j].type = "WriteRequest" /\ t.air[x][y][j].cmd = l
            /\ q = 2 * Len(t.air[x][y][j].dest)
      BY <2>2 DEF Flies
    <3>1. PICK j \in DOMAIN t.air[x][y] :
            /\ t.air[x][y][j].type = "WriteRequest" /\ t.air[x][y][j].cmd = l
            /\ q = 2 * Len(t.air[x][y][j].dest)
      BY <3>0
    <3>2. \/ j \in DOMAIN s.air[x][y] /\ t.air[x][y][j] = s.air[x][y][j]
          \/ t.air[x][y][j] = f
      BY SMTT(60), <1>3
    <3> QED BY <3>1, <3>2 DEF ToGo, Flies
  <2> QED BY <1>5, <2>1, <2>2 DEF ToGo
<1>6. OneAfterTheOther(t)
  <2> SUFFICES ASSUME NEW x \in Node, NEW y \in Node, NEW i \in DOMAIN t.air[x][y],
                      NEW j \in DOMAIN t.air[x][y],
                      t.air[x][y][i].type = "WriteRequest", t.air[x][y][j].type = "WriteRequest",
                      Len(t.air[x][y][i].dest) = Len(t.air[x][y][j].dest),
                      Before(s, t.air[x][y][i].cmd, t.air[x][y][j].cmd)
               PROVE  i < j
    BY SMTT(60), <1>4 DEF OneAfterTheOther
  <2>1. CASE /\ i \in DOMAIN s.air[x][y] /\ t.air[x][y][i] = s.air[x][y][i]
             /\ j \in DOMAIN s.air[x][y] /\ t.air[x][y][j] = s.air[x][y][j]
    BY <2>1 DEF Ordered, OneAfterTheOther
  <2>2. CASE i \in DOMAIN s.air[x][y] /\ \A k \in DOMAIN s.air[x][y] : k < j
    BY <2>2
  <2>3. CASE /\ t.air[x][y][i] = f
             /\ j \in DOMAIN s.air[x][y] /\ t.air[x][y][j] = s.air[x][y][j]
    <3> DEFINE g == s.air[x][y][j]
    <3>1. g.type = "WriteRequest" /\ Len(g.dest) = Len(f.dest) /\ Before(s, f.cmd, g.cmd) /\ put
      BY SMTT(60), <2>3
    <3>2. Flies(s, g.cmd, r)
      BY <2>3, <3>1 DEF Flies
    <3> HIDE DEF g
    <3>3. r < r
      BY <3>1, <3>2 DEF Fit, ToGo
    <3> QED BY <1>1, <3>3
  <2>4. CASE t.air[x][y][i] = f /\ t.air[x][y][j] = f
    <3>1. Before(s, f.cmd, f.cmd)
      BY <2>4
    <3>2. f.cmd \in Nat /\ f.cmd < f.cmd
      BY <3>1, BeforeType
    <3> QED BY <3>2
  <2> QED BY SMTT(60), <1>3, <2>1, <2>2, <2>3, <2>4
<1>7. ForSleepers(t)
  BY <1>2 DEF Ordered, ForSleepers
<1>8. InLine(t) /\ NotOvertaken(t) /\ RanInLine(t)
  <2>1. put \in BOOLEAN
    OBVIOUS
  <2>2. put => Fit(s, f.cmd, r)
    OBVIOUS
  <2> HIDE DEF put, r
  <2> QED BY <1>1, <1>2, <1>5, <2>1, <2>2, PutInLine
<1> QED BY <1>6, <1>7, <1>8 DEF Ordered, t

Holds(s, t, n, i, g) ==
  /\ t.air = s.air /\ t.cmds = s.cmds /\ t.ran = s.ran
  /\ t.queue = [s.queue EXCEPT ![n][i] = g]

\* A command waits behind those that were before it.
LEMMA HoldOrdered ==
  ASSUME NEW s \in State, Ordered(s), NEW n \in Node, NEW i \in Used(children[n]),
         children[n][i].mac \in Battery, NEW g \in Frame, g.type = "WriteRequest",
         Fit(s, g.cmd, 2 * Len(g.dest) + 1), NEW t \in State, Holds(s, t, n, i, g)
  PROVE  Ordered(t)
<1> DEFINE r == 2 * Len(g.dest) + 1
<1>0. /\ t.air = s.air /\ t.cmds = s.cmds /\ t.ran = s.ran
      /\ t.queue = [s.queue EXCEPT ![n][i] = g]
  BY DEF Holds
<1>1. r \in Nat /\ i \in Index
  <2>1. g.dest \in Seq(Hop)
    BY DEF Frame, Path
  <2> QED BY <2>1 DEF Used
<1>2. \A m \in Node, j \in Index :
        t.queue[m][j] = s.queue[m][j] \/ (m = n /\ j = i /\ t.queue[m][j] = g)
  BY <1>0, <1>1 DEF State
<1>3. ASSUME NEW l, NEW q, ToGo(t, l, q)
      PROVE  ToGo(s, l, q) \/ (TRUE /\ l = g.cmd /\ q = r)
  <2>1. CASE Flies(t, l, q)
    BY <1>0, <2>1 DEF ToGo, Flies
  <2>2. CASE Waits(t, l, q)
    <3>1. PICK m \in Node, j \in Index :
            /\ t.queue[m][j] # NoFrame /\ t.queue[m][j].cmd = l
            /\ q = 2 * Len(t.queue[m][j].dest) + 1
      BY <2>2 DEF Waits
    <3>2. CASE t.queue[m][j] = s.queue[m][j]
      BY <3>1, <3>2 DEF ToGo, Waits
    <3>3. CASE t.queue[m][j] = g
      BY <3>1, <3>3
    <3> QED BY <1>2, <3>2, <3>3
  <2> QED BY <1>3, <2>1, <2>2 DEF ToGo
<1>4. Fit(s, g.cmd, r)
  OBVIOUS
<1>5. ForSleepers(t)
  BY SMTT(60), <1>2 DEF Ordered, ForSleepers
<1>6. OneAfterTheOther(t)
  <2>1. \A l, m : Before(t, l, m) <=> Before(s, l, m)
    BY <1>0 DEF Before
  <2> QED BY <1>0, <2>1 DEF Ordered, OneAfterTheOther
<1> HIDE DEF r
<1>7. InLine(t) /\ NotOvertaken(t) /\ RanInLine(t)
  BY <1>0, <1>1, <1>3, <1>4, PutInLine
<1> QED BY <1>5, <1>6, <1>7 DEF Ordered

\* What was issued stays in line when more is.
LEMMA SameOrdered ==
  ASSUME Bindings, NEW s, Tracked(s), Ordered(s), NEW t \in State, t.air = s.air,
         t.queue = s.queue, t.ran = s.ran, DOMAIN s.cmds \subseteq DOMAIN t.cmds,
         \A k \in DOMAIN s.cmds : t.cmds[k] = s.cmds[k]
  PROVE  Ordered(t) /\ \A k, q : ToGo(t, k, q) <=> ToGo(s, k, q)
<1>1. s \in State
  BY DEF Tracked
<1>2. \A k, q : ToGo(t, k, q) <=> ToGo(s, k, q)
  BY DEF ToGo, Flies, Waits
<1>3. \A k, l : k \in DOMAIN s.cmds /\ l \in DOMAIN s.cmds /\ Before(t, k, l) => Before(s, k, l)
  BY DEF Before
<1>4. \A k, q : ToGo(s, k, q) => k \in DOMAIN s.cmds
  BY ToGoIssued DEF Ordered
<1>5. InLine(t)
  BY SMTT(60), <1>2, <1>3, <1>4 DEF Ordered, InLine
<1>6. OneAfterTheOther(t)
  <2>1. ASSUME NEW a \in Node, NEW b \in Node, NEW i \in DOMAIN s.air[a][b],
               s.air[a][b][i].type = "WriteRequest"
        PROVE  s.air[a][b][i].cmd \in DOMAIN s.cmds
    BY <2>1 DEF Tracked, AirOnTrack, OnTrack, Down
  <2> QED BY ONLY ZenonT(60), <1>3, <2>1, Ordered(s), t.air = s.air DEF Ordered, OneAfterTheOther
<1>7. ForSleepers(t)
  BY DEF Ordered, ForSleepers
<1>8. RanInLine(t)
  BY <1>3 DEF Ordered, RanInLine
<1>9. NotOvertaken(t)
  <2>1. \A j \in DOMAIN s.ran : s.ran[j].cmd \in DOMAIN s.cmds
    BY DEF Ordered, RanInLine
  <2> QED BY <1>2, <1>3, <1>4, <2>1 DEF Ordered, NotOvertaken
<1> QED BY <1>2, <1>5, <1>6, <1>7, <1>8, <1>9 DEF Ordered

\* Frames taken from the head of a channel or out of a slot leave the rest in line.
LEMMA LessOrdered ==
  ASSUME NEW s \in State, Ordered(s), NEW t \in State, t.cmds = s.cmds, t.ran = s.ran,
         NEW d \in [Node -> [Node -> {0, 1}]], Behind(s, t, d), HeldBefore(s, t)
  PROVE  Ordered(t) /\ \A k, q : ToGo(t, k, q) => ToGo(s, k, q)
<1>1. ASSUME NEW x \in Node, NEW y \in Node, NEW k \in DOMAIN t.air[x][y]
      PROVE  /\ k \in Nat /\ d[x][y] \in {0, 1} /\ k + d[x][y] \in DOMAIN s.air[x][y]
             /\ t.air[x][y][k] = s.air[x][y][k + d[x][y]]
  <2>1. t.air[x][y] \in Seq(Frame)
    BY DEF State
  <2>2. k \in Nat
    BY <1>1, <2>1
  <2>3. d[x][y] \in {0, 1}
    OBVIOUS
  <2>4. k + d[x][y] \in DOMAIN s.air[x][y] /\ t.air[x][y][k] = s.air[x][y][k + d[x][y]]
    BY ONLY <1>1, Behind(s, t, d), x \in Node, y \in Node, SMTT(30) DEF Behind
  <2> QED BY ONLY <2>2, <2>3, <2>4
<1>2. ASSUME NEW k, NEW q, ToGo(t, k, q) PROVE ToGo(s, k, q)
  <2>1. CASE Waits(t, k, q)
    BY ZenonT(60), <2>1 DEF ToGo, Waits, HeldBefore
  <2>2. CASE Flies(t, k, q)
    <3>0. PICK x \in Node, y \in Node : \E j \in DOMAIN t.air[x][y] :
            /\ t.air[x][y][j].type = "WriteRequest" /\ t.air[x][y][j].cmd = k
            /\ q = 2 * Len(t.air[x][y][j].dest)
      BY <2>2 DEF Flies
    <3>1. PICK j \in DOMAIN t.air[x][y] :
            /\ t.air[x][y][j].type = "WriteRequest" /\ t.air[x][y][j].cmd = k
            /\ q = 2 * Len(t.air[x][y][j].dest)
      BY <3>0
    <3> DEFINE i == j + d[x][y]
    <3>2. i \in DOMAIN s.air[x][y] /\ t.air[x][y][j] = s.air[x][y][i]
      BY <1>1
    <3> HIDE DEF i
    <3> QED BY <3>1, <3>2 DEF ToGo, Flies
  <2> QED BY <1>2, <2>1, <2>2 DEF ToGo
<1>3. \A l, m : Before(t, l, m) <=> Before(s, l, m)
  BY DEF Before
<1>4. OneAfterTheOther(t)
  <2> SUFFICES ASSUME NEW x \in Node, NEW y \in Node, NEW i \in DOMAIN t.air[x][y],
                      NEW j \in DOMAIN t.air[x][y],
                      t.air[x][y][i].type = "WriteRequest", t.air[x][y][j].type = "WriteRequest",
                      Len(t.air[x][y][i].dest) = Len(t.air[x][y][j].dest),
                      Before(s, t.air[x][y][i].cmd, t.air[x][y][j].cmd)
               PROVE  i < j
    BY ZenonT(60), <1>3 DEF OneAfterTheOther
  <2> DEFINE v == i + d[x][y]
             w == j + d[x][y]
  <2>1. /\ v \in DOMAIN s.air[x][y] /\ t.air[x][y][i] = s.air[x][y][v]
        /\ w \in DOMAIN s.air[x][y] /\ t.air[x][y][j] = s.air[x][y][w]
    BY ONLY <1>1, x \in Node, y \in Node, i \in DOMAIN t.air[x][y], j \in DOMAIN t.air[x][y]
  <2> HIDE DEF v, w
  <2>2. v < w
    <3>1. \A l, m \in DOMAIN s.air[x][y] :
            /\ s.air[x][y][l].type = "WriteRequest" /\ s.air[x][y][m].type = "WriteRequest"
            /\ Len(s.air[x][y][l].dest) = Len(s.air[x][y][m].dest)
            /\ Before(s, s.air[x][y][l].cmd, s.air[x][y][m].cmd)
            => l < m
      BY ZenonT(60) DEF Ordered, OneAfterTheOther
    <3> QED BY ZenonT(60), <2>1, <3>1
  <2>3. i \in Nat /\ j \in Nat /\ d[x][y] \in {0, 1}
    BY <1>1
  <2> QED BY <2>2, <2>3 DEF v, w
<1>5. ForSleepers(t)
  BY DEF Ordered, ForSleepers, HeldBefore
<1>6. InLine(t) /\ NotOvertaken(t) /\ RanInLine(t)
  BY <1>2, <1>3 DEF Ordered, InLine, NotOvertaken, RanInLine
<1> QED BY <1>2, <1>4, <1>5, <1>6 DEF Ordered

\* A command that has nobody before it runs.
LEMMA RunOrdered ==
  ASSUME NEW s \in State, Ordered(s), NEW k \in DOMAIN s.cmds, Fit(s, k, -1),
         NEW n, NEW t \in State, t.air = s.air, t.queue = s.queue, t.cmds = s.cmds,
         t.ran = Append(s.ran, [cmd |-> k, at |-> n])
  PROVE  Ordered(t)
<1> DEFINE r == [cmd |-> k, at |-> n]
<1>1. s.ran \in Seq(Run) /\ r.cmd = k
  BY DEF State
<1>2. ASSUME NEW j \in DOMAIN t.ran
      PROVE  \/ j \in DOMAIN s.ran /\ t.ran[j] = s.ran[j]
             \/ j = Len(s.ran) + 1 /\ t.ran[j] = r
  BY <1>1
<1>3. \A i \in DOMAIN s.ran : i < Len(s.ran) + 1 /\ i \in Nat
  BY <1>1
<1> HIDE DEF r
<1>4. \A l, m : Before(t, l, m) <=> Before(s, l, m)
  BY DEF Before
<1>5. \A l, q : ToGo(t, l, q) <=> ToGo(s, l, q)
  BY DEF ToGo, Flies, Waits
<1>6. InLine(t) /\ OneAfterTheOther(t) /\ ForSleepers(t)
  BY <1>4, <1>5 DEF Ordered, InLine, OneAfterTheOther, ForSleepers
<1>7. ASSUME NEW l, NEW q, ToGo(s, l, q) PROVE ~Before(s, l, k)
  <2>1. q \in Nat
    BY <1>7, ToGoType
  <2>2. Before(s, l, k) => q =< -1
    BY <1>7 DEF Fit
  <2> QED BY <2>1, <2>2
<1>8. NotOvertaken(t)
  BY <1>1, <1>2, <1>4, <1>5, <1>7 DEF Ordered, NotOvertaken
<1>9. RanInLine(t)
  <2> SUFFICES ASSUME NEW j \in DOMAIN t.ran
               PROVE  /\ t.ran[j].cmd \in DOMAIN s.cmds
                      /\ \A i \in DOMAIN t.ran : i < j => ~Before(s, t.ran[j].cmd, t.ran[i].cmd)
    BY <1>4 DEF RanInLine
  <2>1. CASE j \in DOMAIN s.ran /\ t.ran[j] = s.ran[j]
    <3>1. ASSUME NEW i \in DOMAIN t.ran, i < j PROVE ~Before(s, t.ran[j].cmd, t.ran[i].cmd)
      <4>1. i \in DOMAIN s.ran /\ t.ran[i] = s.ran[i]
        BY <1>2, <1>3, <2>1, <3>1, SMT
      <4> QED BY <2>1, <3>1, <4>1 DEF Ordered, RanInLine
    <3> QED BY <2>1, <3>1 DEF Ordered, RanInLine
  <2>2. CASE j = Len(s.ran) + 1 /\ t.ran[j] = r
    <3>1. ASSUME NEW i \in DOMAIN t.ran, i < j PROVE ~Before(s, k, t.ran[i].cmd)
      <4>1. i \in DOMAIN s.ran /\ t.ran[i] = s.ran[i]
        <5>1. Len(s.ran) \in Nat
          BY <1>1
        <5> QED BY <1>2, <2>2, <3>1, <5>1
      <4> QED BY <4>1 DEF Fit
    <3> QED BY <1>1, <2>2, <3>1
  <2> QED BY <1>2, <2>1, <2>2
<1> QED BY <1>6, <1>8, <1>9 DEF Ordered

LEMMA RefuseOrdered ==
  ASSUME Bindings, NEW s, Tracked(s), Ordered(s), NEW cmd \in Nat
  PROVE  Ordered(Refuse(s, cmd))
<1> DEFINE t == Refuse(s, cmd)
<1>1. s \in State
  BY DEF Tracked
<1>2. /\ t \in State /\ t.air = s.air /\ t.queue = s.queue /\ t.cmds = s.cmds /\ t.ran = s.ran
  BY <1>1, RefuseType DEF Refuse, State
<1> HIDE DEF t
<1>3. Ordered(t)
  BY <1>2, SameOrdered
<1> QED BY <1>3 DEF t

LEMMA SendUpstreamOrdered ==
  ASSUME Bindings, NEW s, Tracked(s), Ordered(s), NEW n \in Node,
         NEW type \in {"Report", "Nack", "RouteError"},
         NEW about \in Seqs, NEW hop \in 0 .. MaxHop, NEW cmd \in Nat
  PROVE  Ordered(SendUpstream(s, n, type, about, hop, cmd))
<1> DEFINE f == Upward(n, type, NextSeq(s, n), about, hop, cmd)
           t == [s EXCEPT !.seq[n] = NextSeq(s, n)]
<1>1. CASE parent[n] = NoNode
  BY <1>1 DEF SendUpstream
<1>2. CASE parent[n] # NoNode
  <2>1. s \in State /\ type \in {"Report"} \cup Answers
    BY DEF Tracked, Answers
  <2>2. f \in Frame /\ f.type # "WriteRequest"
    BY <2>1, NextSeqType, UpwardType DEF Upward
  <2>3. t \in State /\ t.air = s.air /\ t.queue = s.queue /\ t.cmds = s.cmds /\ t.ran = s.ran
    BY <2>1, NextSeqType DEF State
  <2>4. parent[n] \in Node
    BY <1>2 DEF Bindings
  <2>5. SendUpstream(s, n, type, about, hop, cmd) = Transmit(t, n, parent[n], f)
    BY <1>2 DEF SendUpstream
  <2> HIDE DEF t, f
  <2>6. Ordered(t)
    BY <2>3, SameOrdered
  <2> QED BY <2>2, <2>3, <2>4, <2>5, <2>6, TransmitOrdered
<1> QED BY <1>1, <1>2

LEMMA HandleRequestOrdered ==
  ASSUME Bindings, NEW s \in State, Ordered(s), NEW n \in Node, NEW f \in Frame,
         f.cmd \in DOMAIN s.cmds, Fit(s, f.cmd, -1)
  PROVE  Ordered(HandleRequest(s, n, f))
<1> DEFINE r == [cmd |-> f.cmd, at |-> n]
           t == [s EXCEPT !.ran = Append(@, r)]
           g == Upward(n, "WriteResponse", f.seq, f.seq, 0, f.cmd)
<1>1. r \in Run /\ f.seq \in Seqs /\ f.cmd \in Nat
  BY DEF Run, Frame
<1>2. s.ran \in Seq(Run)
  BY DEF State
<1>3. Append(s.ran, r) \in Seq(Run)
  BY <1>1, <1>2
<1>4. /\ t \in State /\ t.air = s.air /\ t.queue = s.queue /\ t.cmds = s.cmds
      /\ t.ran = Append(s.ran, r)
  BY <1>3 DEF State
<1>5. HandleRequest(s, n, f) = Respond(t, n, f)
  BY DEF HandleRequest
<1> HIDE DEF t
<1>6. Ordered(t)
  BY <1>4, RunOrdered
<1>7. CASE parent[n] = NoNode
  BY <1>5, <1>6, <1>7 DEF Respond
<1>8. CASE parent[n] # NoNode
  <2>1. g \in Frame /\ parent[n] \in Node
    BY <1>1, <1>8, UpwardType DEF Answers, Bindings
  <2>2. g.type # "WriteRequest"
    BY DEF Upward
  <2>3. Respond(t, n, f) = Transmit(t, n, parent[n], g)
    BY <1>8 DEF Respond
  <2> HIDE DEF g
  <2> QED BY <1>4, <1>5, <1>6, <2>1, <2>2, <2>3, TransmitOrdered
<1> QED BY <1>7, <1>8

LEMMA OddWaits ==
  ASSUME NEW s \in State, NEW k, NEW m \in Nat, ToGo(s, k, 2 * m + 1)
  PROVE  \E n \in Node, i \in Index :
           /\ s.queue[n][i] \in Frame /\ s.queue[n][i] # NoFrame
           /\ s.queue[n][i].cmd = k /\ Len(s.queue[n][i].dest) = m
<1>1. ASSUME NEW f \in Frame PROVE Len(f.dest) \in Nat
  BY DEF Frame, Path
<1>2. ~Flies(s, k, 2 * m + 1)
  <2> SUFFICES ASSUME Flies(s, k, 2 * m + 1) PROVE FALSE
    OBVIOUS
  <2>1. PICK a \in Node, b \in Node :
          \E j \in DOMAIN s.air[a][b] : 2 * m + 1 = 2 * Len(s.air[a][b][j].dest)
    BY DEF Flies
  <2> PICK j \in DOMAIN s.air[a][b] : 2 * m + 1 = 2 * Len(s.air[a][b][j].dest)
    BY <2>1
  <2>2. s.air[a][b][j] \in Frame
    <3>1. s.air[a][b] \in Seq(Frame)
      BY DEF State
    <3> QED BY <3>1
  <2>3. Len(s.air[a][b][j].dest) \in Nat
    BY <1>1, <2>2
  <2> QED BY <2>3
<1>3. PICK n \in Node, i \in Index :
        /\ s.queue[n][i] # NoFrame /\ s.queue[n][i].cmd = k
        /\ 2 * m + 1 = 2 * Len(s.queue[n][i].dest) + 1
  BY <1>2 DEF ToGo, Waits
<1>4. s.queue[n][i] \in Frame
  BY <1>3 DEF State
<1>5. Len(s.queue[n][i].dest) \in Nat
  BY <1>1, <1>4
<1> QED BY <1>3, <1>4, <1>5

LEMMA EvenFlies ==
  ASSUME NEW s \in State, NEW k, NEW m \in Nat, ToGo(s, k, 2 * m)
  PROVE  \E a \in Node, b \in Node : \E j \in DOMAIN s.air[a][b] :
           /\ s.air[a][b][j] \in Frame /\ s.air[a][b][j].type = "WriteRequest"
           /\ s.air[a][b][j].cmd = k /\ Len(s.air[a][b][j].dest) = m
<1>1. ASSUME NEW f \in Frame PROVE Len(f.dest) \in Nat
  BY DEF Frame, Path
<1>2. ~Waits(s, k, 2 * m)
  <2> SUFFICES ASSUME Waits(s, k, 2 * m) PROVE FALSE
    OBVIOUS
  <2>1. PICK n \in Node, i \in Index :
          s.queue[n][i] # NoFrame /\ 2 * m = 2 * Len(s.queue[n][i].dest) + 1
    BY DEF Waits
  <2>2. s.queue[n][i] \in Frame
    BY <2>1 DEF State
  <2>3. Len(s.queue[n][i].dest) \in Nat
    BY <1>1, <2>2
  <2> QED BY <2>1, <2>3
<1>3. PICK a \in Node, b \in Node : \E j \in DOMAIN s.air[a][b] :
        LET f == s.air[a][b][j] IN
        f.type = "WriteRequest" /\ f.cmd = k /\ 2 * m = 2 * Len(f.dest)
  BY <1>2 DEF ToGo, Flies
<1>4. PICK j \in DOMAIN s.air[a][b] :
        LET f == s.air[a][b][j] IN
        f.type = "WriteRequest" /\ f.cmd = k /\ 2 * m = 2 * Len(f.dest)
  BY <1>3
<1>5. s.air[a][b][j] \in Frame
  <2>1. s.air[a][b] \in Seq(Frame)
    BY DEF State
  <2> QED BY <2>1
<1>6. Len(s.air[a][b][j].dest) = m
  <2>1. Len(s.air[a][b][j].dest) \in Nat
    BY <1>1, <1>5
  <2> QED BY <1>4, <2>1
<1> QED BY <1>4, <1>5, <1>6

\* What is let down directly passes nothing that waits at this hop.
LEMMA LiveFits ==
  ASSUME Bindings, NEW s, Tracked(s), Ordered(s), NEW n \in Node, NEW c \in Node \ Battery,
         NEW f \in Frame, Down(s, f, n, c), Fit(s, f.cmd, 2 * Len(f.dest) + 1)
  PROVE  Fit(s, f.cmd, 2 * Len(f.dest))
<1> DEFINE m == Len(f.dest)
<1>1. m \in Nat /\ s \in State
  BY DEF Frame, Path, Tracked
<1>2. ASSUME NEW l, ToGo(s, l, 2 * m + 1), Before(s, l, f.cmd) PROVE FALSE
  <2>1. PICK a \in Node, i \in Index :
          /\ s.queue[a][i] \in Frame /\ s.queue[a][i] # NoFrame
          /\ s.queue[a][i].cmd = l /\ Len(s.queue[a][i].dest) = m
    BY <1>1, <1>2, OddWaits
  <2> DEFINE g == s.queue[a][i]
             b == children[a][i].mac
  <2>2. b \in Battery /\ Down(s, g, a, b)
    BY <2>1 DEF Ordered, ForSleepers, Tracked, QueueOnTrack, OnTrack
  <2>3. g \in Frame /\ g.cmd = l /\ Len(g.dest) = m
    BY <2>1
  <2>4. s.cmds[g.cmd].by = s.cmds[f.cmd].by /\ s.cmds[g.cmd].dest = s.cmds[f.cmd].dest
    BY <1>2, <2>3 DEF Before
  <2> HIDE DEF g, b
  <2>5. b = c
    BY <1>1, <2>2, <2>3, <2>4, OneWay
  <2> QED BY <2>2, <2>5
<1>3. ASSUME NEW l, NEW q, ToGo(s, l, q)
      PROVE  (Before(s, l, f.cmd) => q =< 2 * m) /\ (Before(s, f.cmd, l) => 2 * m < q)
  <2>1. q \in Nat
    BY <1>1, <1>3, ToGoType
  <2>2. (Before(s, l, f.cmd) => q =< 2 * m + 1) /\ (Before(s, f.cmd, l) => 2 * m + 1 < q)
    BY <1>3 DEF Fit
  <2>3. Before(s, l, f.cmd) => q # 2 * m + 1
    BY <1>2, <1>3
  <2> HIDE DEF m
  <2> QED BY <1>1, <2>1, <2>2, <2>3
<1> QED BY <1>3 DEF Fit

LEMMA ForwardToChildOrdered ==
  ASSUME Bindings, NEW s, Tracked(s), Ordered(s), NEW n \in Node, NEW f \in Frame,
         NEW i \in Used(children[n]), f.type = "WriteRequest",
         OnTrack(s, f, n, children[n][i].mac), Fit(s, f.cmd, 2 * Len(f.dest) + 1)
  PROVE  Ordered(ForwardToChild(s, n, f, i))
<1> DEFINE c == children[n][i].mac
<1>1. i \in Index /\ c \in Node /\ s \in State /\ Down(s, f, n, c)
  BY DEF Used, Bindings, Child, Tracked, OnTrack
<1>2. CASE c \notin Battery
  <2>1. Fit(s, f.cmd, 2 * Len(f.dest))
    BY <1>1, <1>2, LiveFits
  <2>2. ForwardToChild(s, n, f, i) = Transmit(s, n, c, f)
    BY <1>2 DEF ForwardToChild
  <2> HIDE DEF c
  <2> QED BY <1>1, <2>1, <2>2, TransmitOrdered
<1>3. CASE c \in Battery /\ s.queue[n][i] = NoFrame
  <2> DEFINE g == [f EXCEPT !.queued = TRUE]
             t == [s EXCEPT !.queue[n][i] = g]
  <2>1. g \in Frame /\ g.type = f.type /\ g.cmd = f.cmd /\ g.dest = f.dest
    BY DEF Frame
  <2>2. /\ t \in State /\ t.air = s.air /\ t.cmds = s.cmds /\ t.ran = s.ran
        /\ t.queue = [s.queue EXCEPT ![n][i] = g]
    BY <1>1, <2>1 DEF State
  <2>3. ForwardToChild(s, n, f, i) = t
    BY <1>3 DEF ForwardToChild
  <2> HIDE DEF g, t
  <2>4. g.type = "WriteRequest" /\ Fit(s, g.cmd, 2 * Len(g.dest) + 1)
    BY <2>1
  <2>5. Ordered(t)
    <3>1. /\ s \in State /\ Ordered(s) /\ n \in Node /\ i \in Used(children[n])
          /\ children[n][i].mac \in Battery /\ g \in Frame /\ g.type = "WriteRequest"
          /\ Fit(s, g.cmd, 2 * Len(g.dest) + 1) /\ t \in State /\ Holds(s, t, n, i, g)
      BY <1>1, <1>3, <2>1, <2>2, <2>4 DEF Holds
    <3> QED BY ONLY <3>1, HoldOrdered
  <2> QED BY <2>3, <2>5
<1>4. CASE c \in Battery /\ s.queue[n][i] # NoFrame
  <2>1. f.cmd \in Nat /\ f.seq \in Seqs /\ 0 \in 0 .. MaxHop
    BY DEF Frame
  <2>2. Tracked(Refuse(s, f.cmd)) /\ Ordered(Refuse(s, f.cmd))
    BY <2>1, RefuseTracked, RefuseOrdered
  <2>3. Ordered(SendUpstream(Refuse(s, f.cmd), n, "Nack", f.seq, 0, f.cmd))
    BY <2>1, <2>2, SendUpstreamOrdered
  <2> QED BY <1>4, <2>3 DEF ForwardToChild
<1> QED BY <1>2, <1>3, <1>4

\* A new command stands behind all that were issued before it.
LEMMA LastFits ==
  ASSUME Bindings, NEW s, Tracked(s), Ordered(s), NEW c \in Command, NEW t \in State,
         t.air = s.air, t.queue = s.queue, t.ran = s.ran, t.cmds = Append(s.cmds, c)
  PROVE  Fit(t, Len(s.cmds) + 1, 2 * Len(c.dest) - 1)
<1> DEFINE k == Len(s.cmds) + 1
<1>1. s \in State /\ s.cmds \in Seq(Command) /\ Len(c.dest) \in Nat
  <2>1. c.dest \in Seq(Hop)
    BY DEF Command, Path
  <2> QED BY <2>1 DEF Tracked, State
<1>2. /\ k \in Nat /\ k \in DOMAIN t.cmds /\ t.cmds[k] = c
      /\ \A l \in DOMAIN s.cmds : l \in Nat /\ l < k /\ l \in DOMAIN t.cmds /\ t.cmds[l] = s.cmds[l]
  BY <1>1
<1> HIDE DEF k
<1>3. \A l \in DOMAIN s.cmds : ~Before(t, k, l)
  BY <1>2 DEF Before
<1>4. ASSUME NEW l, NEW q, ToGo(t, l, q)
      PROVE  (Before(t, l, k) => q =< 2 * Len(c.dest) - 1) /\ ~Before(t, k, l)
  <2>1. ToGo(s, l, q)
    BY ONLY ZenonT(60), <1>4, t.air = s.air, t.queue = s.queue DEF ToGo, Flies, Waits
  <2>2. /\ l \in DOMAIN s.cmds /\ q < 2 * Len(s.cmds[l].dest) /\ q \in Nat
        /\ Len(s.cmds[l].dest) \in Nat
    BY <1>1, <2>1, ToGoIssued, ToGoType DEF Ordered
  <2>3. Before(t, l, k) => s.cmds[l].dest = c.dest
    BY <1>2, <2>2 DEF Before
  <2> QED BY SMTT(60), <1>1, <1>3, <2>2, <2>3
<1>5. \A j \in DOMAIN t.ran : ~Before(t, k, t.ran[j].cmd)
  BY <1>3 DEF Ordered, RanInLine
<1>6. Fit(t, k, 2 * Len(c.dest) - 1)
  BY <1>4, <1>5 DEF Fit
<1> QED BY <1>6 DEF k

LEMMA SendDownstreamOrdered ==
  ASSUME Bindings, NEW s, Tracked(s), Ordered(s), NEW n \in Node, NEW dest \in Path,
         NEW ack \in BOOLEAN, NEW heard \in Node \cup {NoNode}
  PROVE  Ordered(SendDownstream(s, n, dest, ack, heard))
<1> DEFINE number == NextSeq(s, n)
           cmd == Len(s.cmds) + 1
           c == [by |-> n, seq |-> number, dest |-> dest, ack |-> ack, heard |-> heard]
           issued == [s EXCEPT !.seq[n] = number, !.cmds = Append(@, c)]
           f == [type |-> "WriteRequest", upstream |-> FALSE, ack |-> ack,
                 queued |-> FALSE, seq |-> number, dest |-> dest, src |-> <<>>,
                 about |-> 0, hop |-> 0, by |-> n, cmd |-> cmd]
           d == ResolveDownstream(RouterOf(n), f)
<1>1. s \in State /\ s.cmds \in Seq(Command) /\ number \in Seqs /\ cmd \in Nat
  <2>1. s \in State /\ s.cmds \in Seq(Command)
    BY DEF Tracked, State
  <2> QED BY <2>1, NextSeqType
<1>2. f \in Frame /\ c \in Command
  <2>1. <<>> \in Path
    BY DEF Path
  <2> QED BY <1>1, <2>1 DEF Frame, Seqs, Command
<1>3. Append(s.cmds, c) \in Seq(Command)
  BY <1>1, <1>2
<1>4. /\ issued \in State /\ issued.air = s.air /\ issued.queue = s.queue
      /\ issued.ran = s.ran /\ issued.cmds = Append(s.cmds, c)
  BY <1>1, <1>3 DEF State
<1>5. /\ DOMAIN s.cmds \subseteq DOMAIN issued.cmds
      /\ \A k \in DOMAIN s.cmds : issued.cmds[k] = s.cmds[k]
      /\ cmd \in DOMAIN issued.cmds /\ issued.cmds[cmd] = c
  BY SMTT(60), <1>1, <1>4
<1>6. c.by = n /\ c.dest = dest
  OBVIOUS
<1>7. f.type = "WriteRequest" /\ f.cmd = cmd /\ f.dest = dest
  OBVIOUS
<1>8. SendDownstream(s, n, dest, ack, heard) =
        IF d.action = "Deliver" THEN HandleRequest(issued, n, f)
        ELSE IF d.action = "ToChild" THEN ForwardToChild(issued, n, d.frame, d.child)
        ELSE Refuse(issued, cmd)
  BY Zenon DEF SendDownstream
<1>9. /\ d.frame \in Frame
      /\ d.action = "Deliver" => f.dest = <<>>
      /\ d.action = "ToChild" =>
           /\ f.dest # <<>> /\ d.child = Head(f.dest) /\ d.child \in Used(children[n])
           /\ d.frame = [f EXCEPT !.dest = Shift(@)]
  <2>1. d.action = "Deliver" => f.dest = <<>>
    BY DEF ResolveDownstream, Decision, Drop
  <2> HIDE DEF f
  <2> QED BY <1>2, <2>1, ResolveType
<1> HIDE DEF issued, c, f, cmd, d
<1>10. Extends(s, issued)
  BY <1>4, <1>5 DEF Extends
<1>11. Tracked(issued)
  BY <1>4, <1>10, SameTracked
<1>12. Ordered(issued)
  BY <1>4, <1>5, SameOrdered
<1>13. Fit(issued, cmd, 2 * Len(dest) - 1)
  BY <1>2, <1>4, <1>6, LastFits DEF cmd
<1>14. CASE d.action = "Deliver"
  <2>1. Len(dest) = 0
    BY <1>7, <1>9, <1>14
  <2>2. Fit(issued, f.cmd, -1)
    <3>1. 2 * Len(dest) - 1 = -1
      BY <2>1
    <3> QED BY ONLY <1>7, <1>13, <3>1
  <2>3. Ordered(HandleRequest(issued, n, f))
    BY <1>2, <1>4, <1>5, <1>7, <1>12, <2>2, HandleRequestOrdered
  <2> QED BY <1>8, <1>14, <2>3
<1>15. CASE d.action = "ToChild"
  <2> DEFINE g == d.frame
  <2>1. f.dest \in Seq(Hop) /\ f.dest # <<>>
    BY <1>2, <1>9, <1>15 DEF Frame, Path
  <2>2. /\ g.type = "WriteRequest" /\ g.cmd = cmd /\ g.dest = Tail(dest)
        /\ g = [f EXCEPT !.dest = Shift(@)]
    BY <1>2, <1>7, <1>9, <1>15 DEF Frame, Shift
  <2>3. 2 * Len(dest) - 1 = 2 * Len(g.dest) + 1
    <3>1. Len(Tail(dest)) = Len(dest) - 1 /\ Len(dest) \in Nat
      BY <1>7, <2>1
    <3> QED BY SMTT(60), <2>2, <3>1
  <2>4. Halfway(issued, f, n)
    <3>1. <<>> \in Seq(Hop) /\ <<>> \o dest = dest
      BY DEF Path
    <3>2. Bonded(n, <<>>, n)
      BY BondedNowhere
    <3> QED BY <1>5, <1>6, <1>7, <3>1, <3>2 DEF Halfway
  <2>5. OnTrack(issued, [f EXCEPT !.dest = Shift(@)], n, children[n][Head(f.dest)].mac)
    BY <1>2, <1>7, <1>9, <1>15, <2>4, DescendOnTrack
  <2>6. OnTrack(issued, g, n, children[n][d.child].mac)
    BY <1>9, <1>15, <2>5
  <2>7. Fit(issued, g.cmd, 2 * Len(g.dest) + 1)
    BY ONLY <1>13, <2>2, <2>3
  <2>8. g \in Frame /\ d.child \in Used(children[n])
    BY <1>9, <1>15
  <2> HIDE DEF g
  <2>9. Ordered(ForwardToChild(issued, n, g, d.child))
    BY <1>11, <1>12, <2>2, <2>6, <2>7, <2>8, ForwardToChildOrdered
  <2> QED BY <1>8, <1>15, <2>9 DEF g
<1>16. CASE d.action \notin {"Deliver", "ToChild"}
  <2>1. Ordered(Refuse(issued, cmd))
    BY <1>1, <1>11, <1>12, RefuseOrdered DEF cmd
  <2> QED BY <1>8, <1>16, <2>1
<1> QED BY <1>14, <1>15, <1>16

LEMMA DeliverLinksOrdered ==
  ASSUME Bindings, NEW s, Tracked(s), Ordered(s), NEW n \in Node, NEW src, NEW maker \in Node
  PROVE  Ordered(DeliverLinks(s, n, src, maker))
<1> DEFINE l == CHOOSE l \in LinksFrom(n, src) : TRUE
<1>1. CASE LinksFrom(n, src) = {}
  BY <1>1 DEF DeliverLinks
<1>2. CASE LinksFrom(n, src) # {}
  <2>1. l \in LinksFrom(n, src)
    BY <1>2
  <2>2. l.dest \in Path
    BY <2>1 DEF LinksFrom
  <2> HIDE DEF l
  <2>3. Ordered(SendDownstream(s, n, l.dest, FALSE, maker))
    BY <2>2, SendDownstreamOrdered
  <2> QED BY <1>2, <2>3 DEF DeliverLinks, l
<1> QED BY <1>1, <1>2

LEMMA TapOrdered ==
  ASSUME Bindings, NEW s, Tracked(s), Ordered(s), NEW n \in Node, NEW f \in Frame
  PROVE  Ordered(Tap(s, n, f))
<1>1. f.by \in Node
  BY DEF Frame
<1> QED BY <1>1, DeliverLinksOrdered DEF Tap

\* What has waited fits in the air again.
LEMMA ReleasedFits ==
  ASSUME Bindings, OneIndexEach, NEW s, Tracked(s), Ordered(s), NEW n \in Node, NEW i \in Index,
         s.queue[n][i] # NoFrame, NEW u \in State, u.cmds = s.cmds, u.ran = s.ran,
         HeldBefore(s, u), u.queue[n][i] = NoFrame, \A k, q : ToGo(u, k, q) => ToGo(s, k, q)
  PROVE  Fit(u, s.queue[n][i].cmd, 2 * Len(s.queue[n][i].dest))
<1> DEFINE g == s.queue[n][i]
           m == Len(g.dest)
<1>1. s \in State /\ g \in Frame
  BY DEF Tracked, State
<1>2. m \in Nat
  <2>1. g.dest \in Seq(Hop)
    BY <1>1 DEF Frame, Path
  <2> QED BY SMTT(60), <2>1
<1>3. ToGo(s, g.cmd, 2 * m + 1)
  BY DEF ToGo, Waits
<1>4. Down(s, g, n, children[n][i].mac) /\ i \in Used(children[n])
  BY DEF Ordered, ForSleepers, Tracked, QueueOnTrack, OnTrack
<1>5. \A k, l : Before(u, k, l) <=> Before(s, k, l)
  BY DEF Before
<1>6. ASSUME NEW l, ToGo(u, l, 2 * m + 1), Before(s, l, g.cmd) PROVE FALSE
  <2>1. PICK a \in Node, j \in Index :
          /\ u.queue[a][j] \in Frame /\ u.queue[a][j] # NoFrame
          /\ u.queue[a][j].cmd = l /\ Len(u.queue[a][j].dest) = m
    BY SMTT(60), <1>2, <1>6, OddWaits
  <2> DEFINE h == s.queue[a][j]
             b == children[a][j].mac
  <2>2. u.queue[a][j] = h /\ h \in Frame /\ h # NoFrame /\ h.cmd = l /\ Len(h.dest) = m
    BY <2>1 DEF HeldBefore
  <2>3. Down(s, h, a, b) /\ j \in Used(children[a])
    BY <2>2 DEF Ordered, ForSleepers, Tracked, QueueOnTrack, OnTrack
  <2>4. s.cmds[h.cmd].by = s.cmds[g.cmd].by /\ s.cmds[h.cmd].dest = s.cmds[g.cmd].dest
    BY <1>6, <2>2 DEF Before
  <2> HIDE DEF h, g
  <2>5. a = n /\ b = children[n][i].mac
    BY <1>1, <1>4, <2>2, <2>3, <2>4, OneWay DEF m
  <2>6. j = i
    BY <1>4, <2>3, <2>5 DEF OneIndexEach
  <2> QED BY <2>1, <2>5, <2>6
<1> HIDE DEF g
<1>7. ASSUME NEW l, NEW q, ToGo(u, l, q)
      PROVE  (Before(u, l, g.cmd) => q =< 2 * m) /\ (Before(u, g.cmd, l) => 2 * m < q)
  <2>1. q \in Nat /\ ToGo(s, l, q)
    BY <1>1, <1>7, ToGoType
  <2>2. (Before(s, l, g.cmd) => q =< 2 * m + 1) /\ (Before(s, g.cmd, l) => 2 * m + 1 =< q)
    BY <1>3, <2>1 DEF Ordered, InLine
  <2>3. Before(s, l, g.cmd) => q # 2 * m + 1
    BY <1>6, <1>7
  <2> HIDE DEF m
  <2> QED BY <1>2, <1>5, <2>1, <2>2, <2>3
<1>8. \A j \in DOMAIN u.ran : ~Before(u, g.cmd, u.ran[j].cmd)
  BY <1>3, <1>5 DEF Ordered, NotOvertaken
<1>9. Fit(u, g.cmd, 2 * m)
  BY <1>7, <1>8 DEF Fit
<1> QED BY <1>9 DEF g

LEMMA FlushQueueOrdered ==
  ASSUME Bindings, OneIndexEach, NEW s, Tracked(s), Ordered(s), NEW n \in Node,
         NEW i, i = 0 \/ i \in Used(children[n])
  PROVE  Ordered(FlushQueue(s, n, i))
<1>1. CASE i = 0
  BY <1>1 DEF FlushQueue
<1>2. CASE i \in Used(children[n])
  <2> DEFINE c == children[n][i].mac
             g == s.queue[n][i]
             u == [s EXCEPT !.queue[n][i] = NoFrame]
             t == Transmit(u, n, c, g)
  <2>1. i \in Index /\ c \in Node /\ i # 0 /\ s \in State
    BY <1>2 DEF Used, Bindings, Child, Index, Tracked
  <2>2. CASE c \notin Battery \/ g = NoFrame
    BY <2>1, <2>2 DEF FlushQueue
  <2>3. CASE ~(c \notin Battery \/ g = NoFrame)
    <3>1. g \in Frame /\ g # NoFrame
      BY <2>1, <2>3 DEF State
    <3>2. /\ u \in State /\ u.air = s.air /\ u.cmds = s.cmds /\ u.ran = s.ran
          /\ u.queue = [s.queue EXCEPT ![n][i] = NoFrame]
      BY <2>1 DEF State
    <3>3. u.queue[n][i] = NoFrame /\ HeldBefore(s, u)
      BY <2>1, <3>2 DEF State, HeldBefore
    <3>4. FlushQueue(s, n, i) = t
      BY <2>1, <2>3 DEF FlushQueue
    <3> HIDE DEF u
    <3>5. Ordered(u) /\ \A k, q : ToGo(u, k, q) => ToGo(s, k, q)
      <4> DEFINE d == [x \in Node |-> [y \in Node |-> 0]]
      <4>1. d \in [Node -> [Node -> {0, 1}]] /\ \A x, y \in Node : d[x][y] = 0
        OBVIOUS
      <4> HIDE DEF d
      <4>2. ASSUME NEW x \in Node, NEW y \in Node, NEW k \in DOMAIN u.air[x][y]
            PROVE  k + d[x][y] = k
        <5>1. u.air[x][y] \in Seq(Frame)
          BY <3>2 DEF State
        <5>2. k \in Nat
          BY <4>2, <5>1
        <5> QED BY <4>1, <5>2
      <4>3. Behind(s, u, d)
        BY <3>2, <4>2 DEF Behind
      <4> QED BY <2>1, <3>2, <3>3, <4>1, <4>3, LessOrdered
    <3>6. Fit(u, g.cmd, 2 * Len(g.dest))
      BY <2>1, <3>1, <3>2, <3>3, <3>5, ReleasedFits
    <3> HIDE DEF g, c
    <3>7. Ordered(t)
      BY <2>1, <3>1, <3>2, <3>5, <3>6, TransmitOrdered
    <3> QED BY <3>4, <3>7
  <2> QED BY <2>2, <2>3
<1> QED BY <1>1, <1>2

\* What a channel holds when its first frame is taken.
LEMMA TakenBehind ==
  ASSUME TypeOK, NEW from \in Node, NEW n \in Node, air[from][n] # <<>>
  PROVE  /\ Taken(from, n) \in State /\ Taken(from, n).cmds = Now.cmds
         /\ Taken(from, n).ran = Now.ran /\ HeldBefore(Now, Taken(from, n))
         /\ \E d \in [Node -> [Node -> {0, 1}]] :
              d[from][n] = 1 /\ Behind(Now, Taken(from, n), d)
<1> DEFINE t == Taken(from, n)
           d == [x \in Node |-> [y \in Node |-> IF x = from /\ y = n THEN 1 ELSE 0]]
<1>1. t \in State
  BY ArrivingType
<1>2. /\ Now.air = air /\ Now.queue = queue /\ t.queue = queue /\ t.cmds = Now.cmds
      /\ t.ran = Now.ran /\ t.air = [air EXCEPT ![from][n] = Tail(@)]
  BY <1>1 DEF Taken, Now
<1>3. air \in [Node -> [Node -> Seq(Frame)]]
  BY DEF TypeOK
<1>4. d \in [Node -> [Node -> {0, 1}]] /\ d[from][n] = 1
  OBVIOUS
<1>5. ASSUME NEW x \in Node, NEW y \in Node, NEW k \in DOMAIN t.air[x][y]
      PROVE  k + d[x][y] \in DOMAIN air[x][y] /\ t.air[x][y][k] = air[x][y][k + d[x][y]]
  <2>1. CASE x = from /\ y = n
    <3>1. t.air[x][y] = Tail(air[x][y]) /\ air[x][y] \in Seq(Frame) /\ d[x][y] = 1
      BY <1>2, <1>3, <2>1
    <3> HIDE DEF t, d
    <3> QED BY <1>5, <2>1, <3>1
  <2>2. CASE ~(x = from /\ y = n)
    <3>1. t.air[x][y] = air[x][y] /\ d[x][y] = 0 /\ air[x][y] \in Seq(Frame)
      BY <1>2, <1>3, <2>2
    <3> HIDE DEF t, d
    <3>2. k + 0 = k
      BY <1>5, <3>1
    <3> QED BY <1>5, <3>1, <3>2
  <2> QED BY <2>1, <2>2
<1> HIDE DEF t, d
<1>6. Behind(Now, t, d)
  BY <1>2, <1>5 DEF Behind
<1>7. HeldBefore(Now, t)
  BY <1>2 DEF HeldBefore
<1> QED BY <1>1, <1>2, <1>4, <1>6, <1>7 DEF t

\* The first frame of a channel has nobody before it on its hop.
LEMMA TakenOrdered ==
  ASSUME Tracking, Ordered(Now), NEW from \in Node, NEW n \in Node, air[from][n] # <<>>
  PROVE  LET t == Taken(from, n) f == Arriving(from, n) IN
         /\ Ordered(t)
         /\ f.type = "WriteRequest" => f.cmd \in DOMAIN t.cmds /\ Fit(t, f.cmd, 2 * Len(f.dest) - 1)
<1> DEFINE t == Taken(from, n)
           f == Arriving(from, n)
           m == Len(f.dest)
<1>1. TypeOK /\ Bindings /\ Now \in State /\ Tracked(Now) /\ f \in Frame
  BY NowType, ArrivingType DEF Tracking, Addressing
<1>2. t \in State /\ t.cmds = Now.cmds /\ t.ran = Now.ran /\ HeldBefore(Now, t)
  BY <1>1, TakenBehind
<1>3. PICK d \in [Node -> [Node -> {0, 1}]] : d[from][n] = 1 /\ Behind(Now, t, d)
  BY <1>1, TakenBehind
<1>4. 1 \in DOMAIN Now.air[from][n] /\ f = Now.air[from][n][1]
  <2>1. air[from][n] \in Seq(Frame) /\ Now.air = air
    BY <1>1 DEF TypeOK, Now
  <2> QED BY <2>1 DEF Arriving
<1> HIDE DEF t, f
<1>5. Ordered(t) /\ \A k, q : ToGo(t, k, q) => ToGo(Now, k, q)
  BY <1>1, <1>2, <1>3, LessOrdered
<1>6. ASSUME f.type = "WriteRequest"
      PROVE  f.cmd \in DOMAIN t.cmds /\ Fit(t, f.cmd, 2 * m - 1)
  <2>1. m \in Nat
    BY <1>1 DEF Frame, Path
  <2>2. Down(Now, f, from, n)
    BY <1>1, <1>4, <1>6 DEF Tracked, AirOnTrack, OnTrack
  <2>3. ToGo(Now, f.cmd, 2 * m)
    BY <1>4, <1>6 DEF ToGo, Flies
  <2>4. \A k, l : Before(t, k, l) <=> Before(Now, k, l)
    BY <1>2 DEF Before
  <2>5. ASSUME NEW l, ToGo(t, l, 2 * m), Before(Now, l, f.cmd) PROVE FALSE
    <3>1. PICK a \in Node, b \in Node : \E j \in DOMAIN t.air[a][b] :
            /\ t.air[a][b][j] \in Frame /\ t.air[a][b][j].type = "WriteRequest"
            /\ t.air[a][b][j].cmd = l /\ Len(t.air[a][b][j].dest) = m
      <4> HIDE DEF m
      <4> QED BY SMTT(60), <1>2, <2>1, <2>5, EvenFlies
    <3>2. PICK j \in DOMAIN t.air[a][b] :
            /\ t.air[a][b][j] \in Frame /\ t.air[a][b][j].type = "WriteRequest"
            /\ t.air[a][b][j].cmd = l /\ Len(t.air[a][b][j].dest) = m
      BY <3>1
    <3> DEFINE g == t.air[a][b][j]
               v == j + d[a][b]
    <3>3. g \in Frame /\ g.type = "WriteRequest" /\ g.cmd = l /\ Len(g.dest) = m
      BY <3>2
    <3>4. v \in DOMAIN Now.air[a][b] /\ g = Now.air[a][b][v]
      BY <1>3 DEF Behind
    <3>5. j \in Nat /\ j >= 1
      <4>1. t.air[a][b] \in Seq(Frame)
        BY <1>2 DEF State
      <4> QED BY <4>1
    <3> HIDE DEF g, v
    <3>6. Down(Now, g, a, b)
      BY <1>1, <3>3, <3>4 DEF Tracked, AirOnTrack, OnTrack
    <3>7. /\ Now.cmds[g.cmd].by = Now.cmds[f.cmd].by
          /\ Now.cmds[g.cmd].dest = Now.cmds[f.cmd].dest
      BY <2>5, <3>3 DEF Before
    <3>8. a = from /\ b = n
      BY SMTT(60), <1>1, <2>2, <3>3, <3>6, <3>7, OneWay
    <3>9. v < 1
      BY <1>4, <1>6, <2>5, <3>3, <3>4, <3>8 DEF Ordered, OneAfterTheOther
    <3> QED BY <1>3, <3>5, <3>8, <3>9 DEF v
  <2>6. ASSUME NEW l, NEW q, ToGo(t, l, q)
        PROVE  (Before(t, l, f.cmd) => q =< 2 * m - 1) /\ (Before(t, f.cmd, l) => 2 * m - 1 < q)
    <3>1. q \in Nat /\ ToGo(Now, l, q)
      BY <1>2, <1>5, <2>6, ToGoType
    <3>2. (Before(Now, l, f.cmd) => q =< 2 * m) /\ (Before(Now, f.cmd, l) => 2 * m =< q)
      BY <2>3, <3>1 DEF Ordered, InLine
    <3>3. Before(Now, l, f.cmd) => q # 2 * m
      BY <2>5, <2>6
    <3> HIDE DEF m
    <3> QED BY <2>1, <2>4, <3>1, <3>2, <3>3
  <2>7. \A j \in DOMAIN t.ran : ~Before(t, f.cmd, t.ran[j].cmd)
    BY <1>2, <2>3, <2>4 DEF Ordered, NotOvertaken
  <2>8. f.cmd \in DOMAIN t.cmds
    BY <1>2, <2>2 DEF Down
  <2> QED BY <2>6, <2>7, <2>8 DEF Fit
<1> QED BY <1>5, <1>6 DEF t, f

LEMMA StaysOrdered ==
  ASSUME NEW s, Ordered(s), Now' = s, UNCHANGED binding
  PROVE  Ordered(Now)'
<1>1. children' = children
  BY DEF binding
<1>2. ForSleepers(Now)'
  BY <1>1 DEF Ordered, ForSleepers, Used
<1>3. \A k, q : ToGo(Now, k, q)' <=> ToGo(s, k, q)
  BY DEF ToGo, Flies, Waits
<1>4. \A k, l : Before(Now, k, l)' <=> Before(s, k, l)
  BY DEF Before
<1>5. InLine(Now)'
  BY ONLY SMTT(60), <1>3, <1>4, Ordered(s) DEF Ordered, InLine
<1>6. OneAfterTheOther(Now)'
  <2>1. OneAfterTheOther(s)
    BY DEF Ordered
  <2>2. Now' = s
    OBVIOUS
  <2> QED BY ONLY SMTT(60), <2>1, <2>2, <1>4 DEF OneAfterTheOther
<1>7. NotOvertaken(Now)' /\ RanInLine(Now)'
  BY <1>3, <1>4 DEF Ordered, NotOvertaken, RanInLine
<1> QED BY <1>2, <1>5, <1>6, <1>7 DEF Ordered

LEMMA BecomeOrdered ==
  ASSUME NEW s, Tracked(s), Ordered(s), Become(s), UNCHANGED binding
  PROVE  Ordered(Now)'
<1>1. s = [air |-> s.air, queue |-> s.queue, seq |-> s.seq, cmds |-> s.cmds,
           ran |-> s.ran, refused |-> s.refused]
  BY DEF Tracked, State
<1>2. Now' = s
  BY <1>1 DEF Now, Become
<1> QED BY <1>2, StaysOrdered

LEMMA BecomeFlushedOrdered ==
  ASSUME TypeOK, OneIndexEach, NEW s, Tracked(s), Ordered(s), NEW from \in Node, NEW n \in Node,
         BecomeFlushed(s, from, n), UNCHANGED binding
  PROVE  Ordered(Now)'
<1> DEFINE i == ChildByMac(children[n], from)
           t == FlushQueue(s, n, i)
<1>1. Bindings
  BY NowType
<1>2. i = 0 \/ i \in Used(children[n])
  <2>1. children[n] \in [Index -> Child \cup {NoChild}]
    BY <1>1 DEF Bindings
  <2> QED BY <2>1, ChildByMacType DEF IndicesOf
<1>3. Tracked(t) /\ Ordered(t)
  BY <1>1, <1>2, FlushQueueTracked, FlushQueueOrdered
<1>4. Become(t) \/ Become(s)
  BY DEF BecomeFlushed
<1> HIDE DEF t
<1> QED BY <1>3, <1>4, BecomeOrdered

LEMMA ReceiveOrdered ==
  ASSUME Tracking, Ordered(Now), NEW from \in Node, NEW n \in Node, Receive(from, n)
  PROVE  Ordered(Now)'
<1> DEFINE d == DecisionOn(from, n)
           s == Taken(from, n)
           f == Arriving(from, n)
<1>1. air[from][n] # <<>> /\ UNCHANGED binding
  BY DEF Receive, PassToParent, PassToChild, DeliverRequest, DeliverNews, DropFrame, OnFrame
<1>2. Addressing /\ OneIndexEach
  BY DEF Tracking
<1>3. Bindings /\ TypeOK /\ f \in Frame
  BY <1>1, <1>2, NowType, ArrivingType DEF Addressing
<1>4. Good(s, f, from, n) /\ Tracked(s) /\ s \in State /\ OnTrack(s, f, from, n)
  BY <1>1, <1>2, ArrivingGood, ArrivingTracked DEF Tracked
<1>5. d = Route(RouterOf(n), f, from) /\ d.frame \in Frame /\ d.child \in 0 .. MaxHop
  BY <1>3, RouteType DEF DecisionOn
<1>6. /\ Ordered(s)
      /\ f.type = "WriteRequest" => f.cmd \in DOMAIN s.cmds /\ Fit(s, f.cmd, 2 * Len(f.dest) - 1)
  BY <1>1, TakenOrdered
<1> HIDE DEF s, f, d
<1>7. CASE PassToParent(from, n)
  <2> DEFINE g == d.frame
             u == Tap(s, n, g)
             t == Transmit(u, n, parent[n], g)
  <2>1. d.action = "ToParent"
    BY <1>7 DEF PassToParent, OnFrame, d
  <2>2. /\ f.upstream /\ parent[n] \in Node /\ g = Climbed(n, from, f)
        /\ Sender(n, from) \in IndicesOf(children[n], from)
    BY ZenonT(60), <1>3, <1>5, <2>1, RouteType
  <2>3. g.type # "WriteRequest"
    BY <1>3, <1>4, <2>2 DEF Climbed, Frame, Good
  <2>4. OnTrack(s, g, n, parent[n])
    BY <1>2, <1>3, <1>4, <2>2, ClimbOnTrack DEF Good
  <2>5. g \in Frame
    BY <1>5
  <2> HIDE DEF g
  <2>6. Tracked(u) /\ OnTrack(u, g, n, parent[n]) /\ Ordered(u)
    BY <1>3, <1>4, <1>6, <2>4, <2>5, TapTracked, TapOrdered
  <2> HIDE DEF u
  <2>7. u \in State
    BY <2>6 DEF Tracked
  <2>8. Tracked(t) /\ Ordered(t)
    BY <2>2, <2>3, <2>5, <2>6, <2>7, TransmitTracked, TransmitOrdered
  <2> HIDE DEF t
  <2>9. BecomeFlushed(t, from, n)
    BY <1>7 DEF PassToParent, s, d, t, u, g
  <2> QED BY <1>1, <1>2, <1>3, <2>8, <2>9, BecomeFlushedOrdered
<1>8. CASE PassToChild(from, n)
  <2> DEFINE g == d.frame
             t == ForwardToChild(s, n, g, d.child)
  <2>1. d.action = "ToChild"
    BY <1>8 DEF PassToChild, OnFrame, d
  <2>2. /\ ~f.upstream /\ f.dest # <<>> /\ d.child = Head(f.dest)
        /\ d.child \in Used(children[n]) /\ g = [f EXCEPT !.dest = Shift(@)]
    BY <1>3, <1>5, <2>1, RouteType
  <2>3. from = parent[n]
    BY <1>3, <1>5, <2>1, RouteWay
  <2>4. f.type = "WriteRequest" /\ g.type = "WriteRequest" /\ g.cmd = f.cmd /\ g.dest = Tail(f.dest)
    BY <1>3, <1>4, <2>2 DEF Good, Frame, Shift
  <2>5. Halfway(s, f, n)
    BY <1>3, <1>4, <2>3, <2>4, TakenHalfway
  <2>6. Head(f.dest) \in Used(children[n]) /\ g \in Frame
    BY <1>5, <2>2
  <2>7. OnTrack(s, [f EXCEPT !.dest = Shift(@)], n, children[n][Head(f.dest)].mac)
    BY <1>3, <2>2, <2>4, <2>5, <2>6, DescendOnTrack
  <2> HIDE DEF g
  <2>8. OnTrack(s, g, n, children[n][d.child].mac)
    BY ONLY <2>2, <2>7
  <2>9. 2 * Len(f.dest) - 1 = 2 * Len(g.dest) + 1
    <3>1. f.dest \in Seq(Hop)
      BY <1>3 DEF Frame, Path
    <3>2. Len(Tail(f.dest)) = Len(f.dest) - 1 /\ Len(f.dest) \in Nat
      BY <2>2, <3>1
    <3> QED BY <2>4, <3>2
  <2>10. Fit(s, g.cmd, 2 * Len(g.dest) + 1)
    BY ONLY <1>6, <2>4, <2>9
  <2>11. Tracked(t) /\ Ordered(t)
    BY <1>3, <1>4, <1>6, <2>2, <2>4, <2>6, <2>8, <2>10,
       ForwardToChildTracked, ForwardToChildOrdered
  <2> HIDE DEF t
  <2>12. BecomeFlushed(t, from, n)
    BY <1>8 DEF PassToChild, s, d, t, g
  <2> QED BY <1>1, <1>2, <1>3, <2>11, <2>12, BecomeFlushedOrdered
<1>9. CASE DeliverRequest(from, n)
  <2> DEFINE t == HandleRequest(s, n, d.frame)
  <2>1. d.action = "Deliver" /\ d.frame.type = "WriteRequest"
    BY <1>9 DEF DeliverRequest, OnFrame, d
  <2>2. \/ f.upstream /\ d.frame = Climbed(n, from, f)
        \/ ~f.upstream /\ d.frame = f /\ f.dest = <<>>
    BY ZenonT(60), <1>3, <1>5, <2>1, RouteType
  <2>3. d.frame = f /\ f.type = "WriteRequest" /\ f.dest = <<>>
    BY <1>3, <1>4, <2>1, <2>2 DEF Climbed, Frame, Good
  <2>4. f.cmd \in DOMAIN s.cmds /\ Fit(s, f.cmd, -1)
    <3>1. 2 * Len(f.dest) - 1 = -1
      BY <2>3
    <3> QED BY ONLY <1>6, <2>3, <3>1
  <2>5. Tracked(t) /\ Ordered(t)
    BY <1>3, <1>4, <1>6, <2>3, <2>4, HandleRequestTracked, HandleRequestOrdered
  <2> HIDE DEF t
  <2>6. BecomeFlushed(t, from, n)
    BY <1>9 DEF DeliverRequest, s, d, t
  <2> QED BY <1>1, <1>2, <1>3, <2>5, <2>6, BecomeFlushedOrdered
<1>10. CASE DeliverNews(from, n)
  <2> DEFINE g == d.frame
             t == Tap(s, n, g)
  <2>1. d.action = "Deliver" /\ g.type # "WriteRequest"
    BY <1>10 DEF DeliverNews, OnFrame, d
  <2>2. /\ f.upstream /\ g = Climbed(n, from, f) /\ f.type # "WriteRequest"
        /\ Sender(n, from) \in IndicesOf(children[n], from)
    BY <1>3, <1>4, <1>5, <2>1, RouteType DEF Good
  <2>3. OnTrack(s, g, n, parent[n])
    BY <1>2, <1>3, <1>4, <2>2, ClimbOnTrack
  <2>4. Tracked(t) /\ Ordered(t)
    BY <1>3, <1>4, <1>5, <1>6, <2>3, TapTracked, TapOrdered
  <2> HIDE DEF t
  <2>5. BecomeFlushed(t, from, n)
    BY <1>10 DEF DeliverNews, s, d, t
  <2> QED BY <1>1, <1>2, <1>3, <2>4, <2>5, BecomeFlushedOrdered
<1>11. CASE DropFrame(from, n)
  <2> DEFINE r == Refuse(s, d.frame.cmd)
             t == SendUpstream(r, n, "RouteError", d.frame.seq, d.child, d.frame.cmd)
             u == IF d.reason = "NoSuchChild" THEN t ELSE s
  <2>1. d.frame.cmd \in Nat /\ d.frame.seq \in Seqs
    BY <1>5 DEF Frame
  <2>2. Tracked(u)
    BY <1>11, DropTracked DEF s, d
  <2>3. Tracked(r) /\ Ordered(r)
    BY <1>3, <1>4, <1>6, <2>1, RefuseTracked, RefuseOrdered
  <2>4. Ordered(t)
    BY <1>3, <1>5, <2>1, <2>3, SendUpstreamOrdered
  <2>5. Ordered(u)
    BY <1>6, <2>4
  <2>6. BecomeFlushed(u, from, n)
    BY <1>11 DEF DropFrame, s, d
  <2> HIDE DEF u
  <2> QED BY <1>1, <1>2, <1>3, <2>2, <2>5, <2>6, BecomeFlushedOrdered
<1> QED BY <1>7, <1>8, <1>9, <1>10, <1>11 DEF Receive

\* One order, in the air, in the slots and in what ran.
Ordering == Tracking /\ Fates /\ Ordered(Now)

LEMMA OrderingInit ==
  ASSUME NoTwins, Init
  PROVE  Ordering
<1>1. Tracking /\ Fates
  BY TrackingInit, FatesInit
<1>2. /\ Now.ran = <<>>
      /\ \A a, b \in Node : Now.air[a][b] = <<>>
      /\ \A n \in Node, i \in Index : Now.queue[n][i] = NoFrame
  BY DEF Init, Now
<1>3. \A k, q : ~ToGo(Now, k, q)
  BY <1>2 DEF ToGo, Flies, Waits
<1>4. Ordered(Now)
  BY <1>2, <1>3 DEF Ordered, InLine, OneAfterTheOther, ForSleepers, NotOvertaken, RanInLine
<1> QED BY <1>1, <1>4 DEF Ordering

LEMMA FewerOrdered ==
  ASSUME Ordered(Now), TypeOK, TypeOK', Thins
  PROVE  Ordered(Now)'
<1> DEFINE t == Now'
<1>1. UNCHANGED <<binding, history>> /\ HeldBefore(Now, t)
  BY ThinsBehind
<1>2. PICK d \in [Node -> [Node -> {0, 1}]] : Behind(Now, t, d)
  BY ThinsBehind
<1>3. t \in State
  BY DEF TypeOK, Now, State, Run
<1>4. t.cmds = Now.cmds /\ t.ran = Now.ran
  BY <1>1 DEF Now, history
<1>5. Now \in State
  BY NowType
<1> HIDE DEF t
<1>6. Ordered(t)
  BY <1>1, <1>2, <1>3, <1>4, <1>5, LessOrdered
<1> QED BY <1>1, <1>6, StaysOrdered DEF t

LEMMA OrderingNext == Ordering /\ [Next]_vars => Ordering'
<1> SUFFICES ASSUME Ordering, [Next]_vars PROVE Ordering'
  OBVIOUS
<1>1. Tracking /\ Fates /\ Ordered(Now) /\ Tracking' /\ Fates'
  BY TrackingNext, FatesNext DEF Ordering
<1>2. TypeOK /\ TypeOK' /\ Bindings /\ Tracked(Now)
  BY <1>1, NowType DEF Tracking, Addressing
<1>3. UNCHANGED binding
  BY BindingStays
<1>4. ASSUME NEW n \in Commanders, NEW dest \in Destinations, RequestWrite(n, dest)
      PROVE  Ordered(Now)'
  <2> DEFINE t == SendDownstream(Now, n, dest, TRUE, NoNode)
  <2>1. Tracked(t) /\ Ordered(t)
    BY <1>1, <1>2, SendDownstreamTracked, SendDownstreamOrdered
  <2>2. Become(t)
    BY <1>4 DEF RequestWrite
  <2> HIDE DEF t
  <2> QED BY <1>3, <2>1, <2>2, BecomeOrdered
<1>5. ASSUME NEW n \in Reporters, SendReport(n) PROVE Ordered(Now)'
  <2> DEFINE s == DeliverLinks(Now, n, <<>>, n)
             t == SendUpstream(s, n, "Report", 0, 0, 0)
  <2>1. Tracked(s) /\ Ordered(s)
    BY <1>1, <1>2, DeliverLinksTracked, DeliverLinksOrdered
  <2>2. 0 \in Seqs /\ 0 \in 0 .. MaxHop
    BY DEF Seqs
  <2>3. Become(t)
    BY <1>5 DEF SendReport
  <2> HIDE DEF s
  <2>4. Tracked(t) /\ Ordered(t)
    BY <1>2, <2>1, <2>2, SendUpstreamTracked, SendUpstreamOrdered
  <2> HIDE DEF t
  <2> QED BY <1>3, <2>3, <2>4, BecomeOrdered
<1>6. ASSUME Thins PROVE Ordered(Now)'
  BY <1>1, <1>2, <1>6, FewerOrdered
<1>7. Ordered(Now)'
  BY <1>1, <1>4, <1>5, <1>6, ReceiveOrdered DEF Next, Thins
<1> QED BY <1>1, <1>7 DEF Ordering

LEMMA OrderingImplies == Ordering => RunsInOrder
<1> SUFFICES ASSUME Ordering, NEW j \in DOMAIN ran, NEW k \in DOMAIN ran, j < k,
                    cmds[ran[j].cmd].by = cmds[ran[k].cmd].by,
                    cmds[ran[j].cmd].dest = cmds[ran[k].cmd].dest
             PROVE  ran[j].cmd < ran[k].cmd
  BY DEF RunsInOrder
<1>1. Now.ran = ran /\ Now.cmds = cmds /\ cmds \in Seq(Command) /\ ran \in Seq(Run)
  BY DEF Now, Ordering, Tracking, Addressing, TypeOK, Run
<1>2. /\ ran[j].cmd \in DOMAIN cmds /\ ran[k].cmd \in DOMAIN cmds
      /\ ~Before(Now, ran[k].cmd, ran[j].cmd)
  BY <1>1 DEF Ordering, Ordered, RanInLine
<1>3. ran[j].cmd # ran[k].cmd
  <2>1. j # k
    BY <1>1
  <2> QED BY <1>1, <2>1 DEF Ordering, Fates, Once, Ended
<1>4. ~(ran[k].cmd < ran[j].cmd)
  BY <1>1, <1>2 DEF Before
<1>5. ran[j].cmd \in Nat /\ ran[k].cmd \in Nat
  BY <1>1, <1>2
<1> QED BY <1>3, <1>4, <1>5

\* Commands of one node for one place run in the order they were issued - through
\* any number of hops, sleeping nodes, refusals, losses and restarts, as long as no
\* child table lists one device twice.
THEOREM CommandsRunInOrder ==
  ASSUME NoTwins
  PROVE  Spec => []RunsInOrder
<1>1. Init => Ordering
  BY OrderingInit
<1> QED BY <1>1, OrderingNext, OrderingImplies, PTL DEF Spec

-----------------------------------------------------------------------------
(* A command's fate and its slots in a state record, as FateOf and SlotsOf   *)
(* read them from the variables.                                            *)

Slots(s, k) == {x \in Node \X Index :
                  s.queue[x[1]][x[2]] # NoFrame /\ s.queue[x[1]][x[2]].cmd = k}

OnItsWay(s, k) == \E a, b \in Node : \E j \in DOMAIN s.air[a][b] :
                    s.air[a][b][j].type = "WriteRequest" /\ s.air[a][b][j].cmd = k

FateIn(s, k) ==
  IF k \notin DOMAIN s.cmds  THEN "none"
  ELSE IF Ran(s, k)          THEN "ran"
  ELSE IF k \in s.refused    THEN "refused"
  ELSE IF Slots(s, k) # {}   THEN "held"
  ELSE IF OnItsWay(s, k)     THEN "travelling"
  ELSE "lost"

Same(s, t, k) == FateIn(t, k) = FateIn(s, k) /\ Slots(t, k) = Slots(s, k)

EmptyIn(s, x) == s.queue[x[1]][x[2]] = NoFrame

\* Command k, nowhere in s, has a place in t; no other command has moved.
Placed(s, t, k) ==
  /\ \A j : j # k => Same(s, t, j)
  /\ \/ FateIn(t, k) \in {"travelling", "ran", "refused"} /\ Slots(t, k) = {}
     \/ /\ FateIn(t, k) = "held"
        /\ \E x \in Node \X Index : EmptyIn(s, x) /\ Slots(t, k) = {x}

LEMMA SlotsOfAbsent ==
  ASSUME NEW s, NEW k, Absent(s, k)
  PROVE  Slots(s, k) = {} /\ ~OnItsWay(s, k)
  BY DEF Absent, Slots, OnItsWay

\* A command that runs, is refused or is unknown has no request anywhere.
LEMMA NoRequestLeft ==
  ASSUME NEW s, Once(s), NEW k, k \notin DOMAIN s.cmds \/ Ran(s, k) \/ k \in s.refused
  PROVE  Slots(s, k) = {} /\ ~OnItsWay(s, k)
<1>1. ASSUME NEW x \in Node \X Index, s.queue[x[1]][x[2]] # NoFrame
      PROVE  s.queue[x[1]][x[2]].cmd # k
  <2>1. x[1] \in Node /\ x[2] \in Index
    OBVIOUS
  <2> QED BY <1>1, <2>1 DEF Once, AllFated, Fated
<1>2. ~OnItsWay(s, k)
  BY DEF Once, AllFated, Fated, OnItsWay
<1> QED BY SMTT(60), <1>1, <1>2 DEF Slots

LEMMA SameView ==
  ASSUME NEW s, NEW t, NEW k, k \in DOMAIN t.cmds <=> k \in DOMAIN s.cmds,
         Ran(t, k) <=> Ran(s, k), k \in t.refused <=> k \in s.refused,
         Slots(t, k) = Slots(s, k), OnItsWay(t, k) <=> OnItsWay(s, k)
  PROVE  Same(s, t, k)
  BY DEF Same, FateIn

LEMMA SameSame ==
  ASSUME NEW s, NEW t, NEW u, NEW k, Same(s, t, k), Same(t, u, k)
  PROVE  Same(s, u, k)
  BY DEF Same

\* What is added to one channel.
LEMMA TransmitAdds ==
  ASSUME NEW s \in State, NEW a \in Node, NEW b \in Node, NEW f \in Frame
  PROVE  LET t == Transmit(s, a, b, f) IN
         /\ t.queue = s.queue /\ t.cmds = s.cmds /\ t.ran = s.ran /\ t.refused = s.refused
         /\ \A k : Slots(t, k) = Slots(s, k) /\ (Ran(t, k) <=> Ran(s, k))
         /\ \A k : OnItsWay(t, k) <=> OnItsWay(s, k) \/ (f.type = "WriteRequest" /\ f.cmd = k)
<1> DEFINE t == Transmit(s, a, b, f)
<1>1. /\ t.queue = s.queue /\ t.cmds = s.cmds /\ t.ran = s.ran /\ t.refused = s.refused
      /\ t.air = [s.air EXCEPT ![a][b] = Append(@, f)]
  BY DEF Transmit, State
<1> HIDE DEF t
<1>2. s.air[a][b] \in Seq(Frame)
  BY DEF State
<1>3. ASSUME NEW x \in Node, NEW y \in Node, NEW k \in DOMAIN s.air[x][y]
      PROVE  k \in DOMAIN t.air[x][y] /\ t.air[x][y][k] = s.air[x][y][k]
  <2>1. CASE x = a /\ y = b
    <3>1. t.air[x][y] = Append(s.air[a][b], f)
      BY <1>1, <2>1 DEF State
    <3> QED BY <1>2, <1>3, <2>1, <3>1
  <2>2. CASE ~(x = a /\ y = b)
    <3>1. t.air[x][y] = s.air[x][y]
      BY <1>1, <2>2 DEF State
    <3> QED BY <1>3, <3>1
  <2> QED BY <2>1, <2>2
<1>4. ASSUME NEW x \in Node, NEW y \in Node, NEW k \in DOMAIN t.air[x][y]
      PROVE  (k \in DOMAIN s.air[x][y] /\ t.air[x][y][k] = s.air[x][y][k]) \/ t.air[x][y][k] = f
  <2>1. CASE x = a /\ y = b
    <3>1. t.air[x][y] = Append(s.air[a][b], f)
      BY <1>1, <2>1 DEF State
    <3> QED BY <1>2, <1>4, <2>1, <3>1
  <2>2. CASE ~(x = a /\ y = b)
    <3>1. t.air[x][y] = s.air[x][y]
      BY <1>1, <2>2 DEF State
    <3> QED BY <1>4, <3>1
  <2> QED BY <2>1, <2>2
<1>5. /\ Len(s.air[a][b]) + 1 \in DOMAIN t.air[a][b]
      /\ t.air[a][b][Len(s.air[a][b]) + 1] = f
  <2>1. t.air[a][b] = Append(s.air[a][b], f)
    BY <1>1 DEF State
  <2> QED BY SMTT(60), <1>2, <2>1
<1>6. ASSUME NEW k
      PROVE  OnItsWay(t, k) <=> OnItsWay(s, k) \/ (f.type = "WriteRequest" /\ f.cmd = k)
  <2>1. OnItsWay(t, k) => OnItsWay(s, k) \/ (f.type = "WriteRequest" /\ f.cmd = k)
    BY <1>4 DEF OnItsWay
  <2>2. OnItsWay(s, k) => OnItsWay(t, k)
    BY <1>3 DEF OnItsWay
  <2>3. f.type = "WriteRequest" /\ f.cmd = k => OnItsWay(t, k)
    BY <1>5 DEF OnItsWay
  <2> QED BY <2>1, <2>2, <2>3
<1>7. \A k : Slots(t, k) = Slots(s, k) /\ (Ran(t, k) <=> Ran(s, k))
  BY <1>1 DEF Slots, Ran
<1> QED BY <1>1, <1>6, <1>7 DEF t

LEMMA TransmitSame ==
  ASSUME NEW s \in State, NEW a \in Node, NEW b \in Node, NEW f \in Frame, f.type # "WriteRequest"
  PROVE  LET t == Transmit(s, a, b, f) IN t.cmds = s.cmds /\ \A k : Same(s, t, k)
<1> DEFINE t == Transmit(s, a, b, f)
<1>1. /\ t.cmds = s.cmds /\ t.refused = s.refused
      /\ \A k : Slots(t, k) = Slots(s, k) /\ (Ran(t, k) <=> Ran(s, k))
      /\ \A k : OnItsWay(t, k) <=> OnItsWay(s, k)
  BY TransmitAdds
<1> HIDE DEF t
<1> QED BY <1>1, SameView DEF t

LEMMA TransmitPlaces ==
  ASSUME NEW s, Once(s), NEW a \in Node, NEW b \in Node, NEW f \in Frame,
         f.type = "WriteRequest", Fated(s, f), Absent(s, f.cmd)
  PROVE  LET t == Transmit(s, a, b, f) IN t.cmds = s.cmds /\ Placed(s, t, f.cmd)
<1> DEFINE t == Transmit(s, a, b, f)
<1>1. /\ t.cmds = s.cmds /\ t.refused = s.refused
      /\ \A k : Slots(t, k) = Slots(s, k) /\ (Ran(t, k) <=> Ran(s, k))
      /\ \A k : OnItsWay(t, k) <=> OnItsWay(s, k) \/ f.cmd = k
  BY TransmitAdds DEF Once
<1> HIDE DEF t
<1>2. \A k : k # f.cmd => Same(s, t, k)
  BY <1>1, SameView
<1>3. f.cmd \in DOMAIN s.cmds /\ ~Ran(s, f.cmd) /\ f.cmd \notin s.refused
  BY DEF Fated
<1>4. FateIn(t, f.cmd) = "travelling" /\ Slots(t, f.cmd) = {}
  BY <1>1, <1>3, SlotsOfAbsent DEF FateIn
<1> QED BY <1>1, <1>2, <1>4 DEF Placed, t

LEMMA SendUpstreamSame ==
  ASSUME Bindings, NEW s \in State, NEW n \in Node, NEW type \in {"Report"} \cup Answers,
         NEW about \in Seqs, NEW hop \in 0 .. MaxHop, NEW cmd \in Nat
  PROVE  LET t == SendUpstream(s, n, type, about, hop, cmd) IN
         t.cmds = s.cmds /\ \A k : Same(s, t, k)
<1> DEFINE f == Upward(n, type, NextSeq(s, n), about, hop, cmd)
           u == [s EXCEPT !.seq[n] = NextSeq(s, n)]
           t == Transmit(u, n, parent[n], f)
<1>1. CASE parent[n] = NoNode
  BY <1>1 DEF SendUpstream, Same
<1>2. CASE parent[n] # NoNode
  <2>1. f \in Frame /\ parent[n] \in Node
    BY <1>2, NextSeqType, UpwardType DEF Bindings
  <2>2. f.type # "WriteRequest"
    BY DEF Upward, Answers
  <2>3. /\ u \in State /\ u.air = s.air /\ u.queue = s.queue /\ u.cmds = s.cmds
        /\ u.ran = s.ran /\ u.refused = s.refused
    BY NextSeqType DEF State
  <2>4. SendUpstream(s, n, type, about, hop, cmd) = t
    BY <1>2 DEF SendUpstream
  <2> HIDE DEF f, u
  <2>5. t.cmds = u.cmds /\ \A k : Same(u, t, k)
    BY <2>1, <2>2, <2>3, TransmitSame
  <2>6. \A k : Same(s, u, k)
    BY <2>3, SameView DEF Slots, OnItsWay, Ran
  <2> HIDE DEF t
  <2>7. \A k : Same(s, t, k)
    BY <2>5, <2>6, SameSame
  <2> QED BY <2>3, <2>4, <2>5, <2>7
<1> QED BY <1>1, <1>2

LEMMA PlacedSame ==
  ASSUME NEW s, NEW t, NEW u, NEW k, Placed(s, t, k), \A j : Same(t, u, j)
  PROVE  Placed(s, u, k)
<1>1. \A j : j # k => Same(s, u, j)
  BY SameSame DEF Placed
<1>2. FateIn(u, k) = FateIn(t, k) /\ Slots(u, k) = Slots(t, k)
  BY DEF Same
<1> QED BY <1>1, <1>2 DEF Placed

LEMMA SamePlaced ==
  ASSUME NEW s, NEW t, NEW u, NEW k, Placed(t, u, k), \A j : j # k => Same(s, t, j),
         t.queue = s.queue
  PROVE  Placed(s, u, k)
<1>1. \A j : j # k => Same(s, u, j)
  BY SameSame DEF Placed
<1>2. \A x : EmptyIn(t, x) => EmptyIn(s, x)
  BY DEF EmptyIn
<1> QED BY <1>1, <1>2 DEF Placed

LEMMA RefusePlaces ==
  ASSUME NEW s, Once(s), NEW k \in DOMAIN s.cmds, Absent(s, k), ~Ran(s, k)
  PROVE  LET t == Refuse(s, k) IN t.cmds = s.cmds /\ t.queue = s.queue /\ Placed(s, t, k)
<1> DEFINE t == Refuse(s, k)
<1>1. /\ t.air = s.air /\ t.queue = s.queue /\ t.cmds = s.cmds /\ t.ran = s.ran
      /\ t.refused = s.refused \cup {k}
  BY DEF Refuse, State, Once
<1> HIDE DEF t
<1>2. \A j : /\ Slots(t, j) = Slots(s, j) /\ (Ran(t, j) <=> Ran(s, j))
             /\ OnItsWay(t, j) <=> OnItsWay(s, j)
  BY <1>1 DEF Slots, Ran, OnItsWay
<1>3. \A j : j # k => Same(s, t, j)
  BY <1>1, <1>2, SameView
<1>4. FateIn(t, k) = "refused" /\ Slots(t, k) = {}
  BY <1>1, <1>2, SlotsOfAbsent DEF FateIn
<1> QED BY <1>1, <1>3, <1>4 DEF Placed, t

LEMMA HandleRequestPlaces ==
  ASSUME Bindings, NEW s, Once(s), NEW n \in Node, NEW f \in Frame,
         f.cmd \in DOMAIN s.cmds, ~Ran(s, f.cmd), f.cmd \notin s.refused, Absent(s, f.cmd)
  PROVE  LET t == HandleRequest(s, n, f) IN t.cmds = s.cmds /\ Placed(s, t, f.cmd)
<1> DEFINE r == [cmd |-> f.cmd, at |-> n]
           u == [s EXCEPT !.ran = Append(@, r)]
           g == Upward(n, "WriteResponse", f.seq, f.seq, 0, f.cmd)
           t == Respond(u, n, f)
<1>1. s \in State /\ s.ran \in Seq(Run) /\ r \in Run /\ f.seq \in Seqs /\ f.cmd \in Nat
  BY DEF Once, State, Run, Frame
<1>2. Append(s.ran, r) \in Seq(Run) /\ r.cmd = f.cmd
  BY <1>1
<1>3. /\ u \in State /\ u.air = s.air /\ u.queue = s.queue /\ u.cmds = s.cmds
      /\ u.refused = s.refused /\ u.ran = Append(s.ran, r)
  BY <1>1, <1>2 DEF State
<1> HIDE DEF r
<1>4. /\ \A k \in DOMAIN s.ran : k \in DOMAIN u.ran /\ u.ran[k] = s.ran[k]
      /\ \A k \in DOMAIN u.ran :
           (k \in DOMAIN s.ran /\ u.ran[k] = s.ran[k]) \/ (k = Len(s.ran) + 1 /\ u.ran[k] = r)
      /\ Len(s.ran) + 1 \in DOMAIN u.ran /\ u.ran[Len(s.ran) + 1] = r
  BY SMTT(60), <1>1, <1>3
<1>5. HandleRequest(s, n, f) = t
  BY DEF HandleRequest, r
<1> HIDE DEF u
<1>6. \A c : Ran(u, c) <=> (Ran(s, c) \/ c = f.cmd)
  BY <1>2, <1>4 DEF Ran
<1>7. \A c : Slots(u, c) = Slots(s, c) /\ (OnItsWay(u, c) <=> OnItsWay(s, c))
  BY <1>3 DEF Slots, OnItsWay
<1>8. \A c : c # f.cmd => Same(s, u, c)
  BY <1>3, <1>6, <1>7, SameView
<1>9. FateIn(u, f.cmd) = "ran" /\ Slots(u, f.cmd) = {}
  BY <1>3, <1>6, <1>7, SlotsOfAbsent DEF FateIn
<1>10. Placed(s, u, f.cmd)
  BY <1>8, <1>9 DEF Placed
<1>11. t.cmds = u.cmds /\ \A k : Same(u, t, k)
  <2>1. CASE parent[n] = NoNode
    BY <2>1 DEF Respond, Same
  <2>2. CASE parent[n] # NoNode
    <3>1. g \in Frame /\ parent[n] \in Node
      <4>1. "WriteResponse" \in {"Report"} \cup Answers /\ 0 \in 0 .. MaxHop
        BY DEF Answers
      <4>2. g \in Frame
        BY <1>1, <4>1, UpwardType
      <4> QED BY <2>2, <4>2 DEF Bindings
    <3>2. g.type # "WriteRequest"
      BY DEF Upward
    <3> HIDE DEF g
    <3>3. LET v == Transmit(u, n, parent[n], g) IN v.cmds = u.cmds /\ \A k : Same(u, v, k)
      BY <1>3, <3>1, <3>2, TransmitSame
    <3> QED BY <2>2, <3>3 DEF Respond, g
  <2> QED BY <2>1, <2>2
<1> HIDE DEF t
<1>12. Placed(s, t, f.cmd)
  BY <1>10, <1>11, PlacedSame
<1> QED BY <1>3, <1>5, <1>11, <1>12

LEMMA ForwardToChildPlaces ==
  ASSUME Bindings, NEW s, Once(s), NEW n \in Node, NEW f \in Frame,
         NEW i \in Used(children[n]), f.type = "WriteRequest", Fated(s, f), Absent(s, f.cmd)
  PROVE  LET t == ForwardToChild(s, n, f, i) IN t.cmds = s.cmds /\ Placed(s, t, f.cmd)
<1> DEFINE c == children[n][i].mac
<1>1. i \in Index /\ c \in Node /\ s \in State
  BY DEF Used, Bindings, Child, Once
<1>2. f.cmd \in DOMAIN s.cmds /\ ~Ran(s, f.cmd) /\ f.cmd \notin s.refused
  BY DEF Fated
<1>3. CASE c \notin Battery
  BY <1>1, <1>3, TransmitPlaces DEF ForwardToChild
<1>4. CASE c \in Battery /\ s.queue[n][i] = NoFrame
  <2> DEFINE g == [f EXCEPT !.queued = TRUE]
             t == [s EXCEPT !.queue[n][i] = g]
             x == <<n, i>>
  <2>1. g \in Frame /\ g.cmd = f.cmd /\ g # NoFrame
    <3>1. g \in Frame
      BY DEF Frame
    <3> QED BY <3>1, NoFrameAssumption DEF Frame
  <2>2. /\ t.air = s.air /\ t.cmds = s.cmds /\ t.ran = s.ran
        /\ t.refused = s.refused /\ t.queue = [s.queue EXCEPT ![n][i] = g]
    BY <1>1, <2>1 DEF State
  <2>3. ForwardToChild(s, n, f, i) = t
    BY <1>4 DEF ForwardToChild
  <2> HIDE DEF g, t
  <2>4. /\ t.queue[n][i] = g
        /\ \A m \in Node, j \in Index : ~(m = n /\ j = i) => t.queue[m][j] = s.queue[m][j]
    BY <1>1, <2>2 DEF State
  <2>5. \A k : (Ran(t, k) <=> Ran(s, k)) /\ (OnItsWay(t, k) <=> OnItsWay(s, k))
    BY <2>2 DEF Ran, OnItsWay
  <2>6. ASSUME NEW y \in Node \X Index, NEW k
        PROVE  y \in Slots(t, k) <=> y \in Slots(s, k) \/ (y = x /\ k = f.cmd)
    <3>1. y[1] \in Node /\ y[2] \in Index /\ (y = x <=> y[1] = n /\ y[2] = i)
      BY <1>1
    <3>2. CASE y = x
      BY <1>4, <2>1, <2>4, <3>1, <3>2 DEF Slots
    <3>3. CASE y # x
      BY <2>4, <3>1, <3>3 DEF Slots
    <3> QED BY <3>2, <3>3
  <2>7. \A k : k # f.cmd => Slots(t, k) = Slots(s, k)
    BY SMTT(30), <2>6 DEF Slots
  <2>8. Slots(t, f.cmd) = {x} /\ x \in Node \X Index
    <3>1. Slots(s, f.cmd) = {} /\ x \in Node \X Index
      BY <1>1, SlotsOfAbsent
    <3>2. \A y \in Node \X Index : y \in Slots(t, f.cmd) <=> y = x
      BY <2>6, <3>1
    <3>3. Slots(t, f.cmd) \subseteq Node \X Index
      BY DEF Slots
    <3> HIDE DEF x
    <3> QED BY <3>1, <3>2, <3>3
  <2>9. \A k : k # f.cmd => Same(s, t, k)
    BY <2>2, <2>5, <2>7, SameView
  <2>10. FateIn(t, f.cmd) = "held" /\ EmptyIn(s, x)
    BY <1>2, <1>4, <2>2, <2>5, <2>8 DEF FateIn, EmptyIn
  <2> QED BY <2>2, <2>3, <2>8, <2>9, <2>10 DEF Placed
<1>5. CASE c \in Battery /\ s.queue[n][i] # NoFrame
  <2> DEFINE r == Refuse(s, f.cmd)
             t == SendUpstream(r, n, "Nack", f.seq, 0, f.cmd)
  <2>1. f.cmd \in Nat /\ f.seq \in Seqs /\ 0 \in 0 .. MaxHop /\ "Nack" \in {"Report"} \cup Answers
    BY DEF Frame, Answers
  <2>2. r.cmds = s.cmds /\ Placed(s, r, f.cmd) /\ r \in State
    BY <1>1, <1>2, <2>1, RefusePlaces, RefuseType
  <2>3. ForwardToChild(s, n, f, i) = t
    BY <1>5 DEF ForwardToChild
  <2> HIDE DEF r
  <2>4. t.cmds = r.cmds /\ \A k : Same(r, t, k)
    BY <2>1, <2>2, SendUpstreamSame
  <2> HIDE DEF t
  <2>5. Placed(s, t, f.cmd)
    BY <2>2, <2>4, PlacedSame
  <2> QED BY <2>2, <2>3, <2>4, <2>5
<1> QED BY <1>3, <1>4, <1>5

\* What is issued gets a number of its own and a place.
Issued(s, t) ==
  Len(t.cmds) = Len(s.cmds) + 1 /\ Placed(s, t, Len(s.cmds) + 1)

LEMMA SendDownstreamIssues ==
  ASSUME Bindings, NEW s, Once(s), NEW n \in Node, NEW dest \in Path,
         NEW ack \in BOOLEAN, NEW heard \in Node \cup {NoNode}
  PROVE  Issued(s, SendDownstream(s, n, dest, ack, heard))
<1> DEFINE number == NextSeq(s, n)
           cmd == Len(s.cmds) + 1
           c == [by |-> n, seq |-> number, dest |-> dest, ack |-> ack, heard |-> heard]
           issued == [s EXCEPT !.seq[n] = number, !.cmds = Append(@, c)]
           f == [type |-> "WriteRequest", upstream |-> FALSE, ack |-> ack,
                 queued |-> FALSE, seq |-> number, dest |-> dest, src |-> <<>>,
                 about |-> 0, hop |-> 0, by |-> n, cmd |-> cmd]
           d == ResolveDownstream(RouterOf(n), f)
           t == SendDownstream(s, n, dest, ack, heard)
<1>1. s \in State /\ s.cmds \in Seq(Command) /\ number \in Seqs /\ cmd \in Nat
  <2>1. s \in State /\ s.cmds \in Seq(Command)
    BY DEF Once, State
  <2> QED BY <2>1, NextSeqType
<1>2. f \in Frame
  <2>1. <<>> \in Path /\ 0 \in 0 .. MaxHop
    BY DEF Path
  <2> QED BY <1>1, <2>1 DEF Frame, Seqs
<1>3. Append(s.cmds, c) \in Seq(Command)
  BY <1>1 DEF Command
<1>4. /\ issued \in State /\ issued.air = s.air /\ issued.queue = s.queue
      /\ issued.ran = s.ran /\ issued.refused = s.refused /\ issued.cmds = Append(s.cmds, c)
  BY <1>1, <1>3 DEF State
<1>5. /\ DOMAIN issued.cmds = DOMAIN s.cmds \cup {cmd} /\ cmd \notin DOMAIN s.cmds
      /\ Len(issued.cmds) = cmd
  BY SMTT(60), <1>1, <1>4
<1>6. f.type = "WriteRequest" /\ f.cmd = cmd
  OBVIOUS
<1>7. t = IF d.action = "Deliver" THEN HandleRequest(issued, n, f)
          ELSE IF d.action = "ToChild" THEN ForwardToChild(issued, n, d.frame, d.child)
          ELSE Refuse(issued, cmd)
  BY Zenon DEF SendDownstream
<1>8. /\ d.frame \in Frame
      /\ d.action = "ToChild" =>
           d.child \in Used(children[n]) /\ d.frame = [f EXCEPT !.dest = Shift(@)]
  BY <1>2, ResolveType
<1> HIDE DEF issued, c, f, cmd, d, t
<1>9. Once(issued)
  BY <1>4, <1>5, SameOnce
<1>10. Absent(issued, cmd) /\ ~Ran(issued, cmd) /\ cmd \notin issued.refused
  <2>1. Absent(s, cmd)
    BY <1>5 DEF Once, AllFated, Fated, Absent
  <2> QED BY <1>4, <1>5, <2>1 DEF Once, Ended, Ran, Absent
<1>11. \A k : k # cmd => Same(s, issued, k)
  BY SMTT(60), <1>4, <1>5, SameView DEF Slots, OnItsWay, Ran
<1>12. t.cmds = issued.cmds /\ Placed(issued, t, cmd)
  <2>1. CASE d.action = "Deliver"
    BY <1>2, <1>5, <1>6, <1>7, <1>9, <1>10, <2>1, HandleRequestPlaces
  <2>2. CASE d.action = "ToChild"
    <3>1. d.frame.type = "WriteRequest" /\ d.frame.cmd = cmd
      BY <1>2, <1>6, <1>8, <2>2 DEF Frame
    <3>2. Fated(issued, d.frame)
      BY <1>5, <1>10, <3>1 DEF Fated
    <3>3. LET u == ForwardToChild(issued, n, d.frame, d.child) IN
          u.cmds = issued.cmds /\ Placed(issued, u, cmd)
      BY <1>8, <1>9, <1>10, <2>2, <3>1, <3>2, ForwardToChildPlaces
    <3> QED BY <1>7, <2>2, <3>3
  <2>3. CASE d.action \notin {"Deliver", "ToChild"}
    BY <1>5, <1>7, <1>9, <1>10, <2>3, RefusePlaces
  <2> QED BY <2>1, <2>2, <2>3
<1>13. Placed(s, t, cmd)
  BY <1>4, <1>11, <1>12, SamePlaced
<1> QED BY <1>5, <1>12, <1>13 DEF Issued, cmd, t

LEMMA DeliverLinksIssues ==
  ASSUME Bindings, NEW s, Once(s), NEW n \in Node, NEW src, NEW maker \in Node
  PROVE  LET t == DeliverLinks(s, n, src, maker) IN
         \/ LinksFrom(n, src) = {} /\ t = s
         \/ LinksFrom(n, src) # {} /\ Issued(s, t)
<1> DEFINE l == CHOOSE l \in LinksFrom(n, src) : TRUE
<1>1. CASE LinksFrom(n, src) = {}
  BY <1>1 DEF DeliverLinks
<1>2. CASE LinksFrom(n, src) # {}
  <2>1. l \in LinksFrom(n, src)
    BY <1>2
  <2>2. l.dest \in Path
    BY <2>1 DEF LinksFrom
  <2> QED BY <1>2, <2>2, SendDownstreamIssues DEF DeliverLinks
<1> QED BY <1>1, <1>2

LEMMA TapIssues ==
  ASSUME Bindings, NEW s, Once(s), NEW n \in Node, NEW f \in Frame
  PROVE  \/ Tap(s, n, f) = s
         \/ f.type = "Report" /\ LinksFrom(n, f.src) # {} /\ Issued(s, Tap(s, n, f))
<1>1. f.by \in Node
  BY DEF Frame
<1> QED BY <1>1, DeliverLinksIssues DEF Tap

\* A held command that is sent on, and nothing else.
Released(s, t, j) ==
  /\ \A k : k # j => Same(s, t, k)
  /\ FateIn(s, j) = "held" /\ FateIn(t, j) = "travelling" /\ Slots(t, j) = {}

LEMMA FlushQueueReleases ==
  ASSUME Bindings, NEW s, Once(s), NEW n \in Node,
         NEW i, i = 0 \/ i \in Used(children[n])
  PROVE  LET t == FlushQueue(s, n, i) IN
         t.cmds = s.cmds /\ (t = s \/ \E j : Released(s, t, j))
<1>1. CASE i = 0
  BY <1>1 DEF FlushQueue
<1>2. CASE i \in Used(children[n])
  <2> DEFINE c == children[n][i].mac
             g == s.queue[n][i]
             x == <<n, i>>
             u == [s EXCEPT !.queue[n][i] = NoFrame]
             t == Transmit(u, n, c, g)
  <2>1. i \in Index /\ c \in Node /\ i # 0 /\ s \in State
    BY <1>2 DEF Used, Bindings, Child, Index, Once
  <2>2. CASE c \notin Battery \/ g = NoFrame
    BY <2>1, <2>2 DEF FlushQueue
  <2>3. CASE ~(c \notin Battery \/ g = NoFrame)
    <3>1. g \in Frame /\ g.type = "WriteRequest" /\ Fated(s, g)
      BY <2>1, <2>3 DEF State, Once, AllFated
    <3>2. g.cmd \in DOMAIN s.cmds /\ ~Ran(s, g.cmd) /\ g.cmd \notin s.refused
      BY <3>1 DEF Fated
    <3>3. /\ u \in State /\ u.air = s.air /\ u.cmds = s.cmds /\ u.ran = s.ran
          /\ u.refused = s.refused /\ u.queue = [s.queue EXCEPT ![n][i] = NoFrame]
      BY <2>1 DEF State
    <3>4. \A m \in Node, j \in Index :
            \/ m = n /\ j = i /\ u.queue[m][j] = NoFrame
            \/ ~(m = n /\ j = i) /\ u.queue[m][j] = s.queue[m][j]
      BY ZenonT(60), <2>1, <3>3 DEF State
    <3>5. FlushQueue(s, n, i) = t
      BY <2>1, <2>3 DEF FlushQueue
    <3>6. g # NoFrame
      BY <2>3
    <3> HIDE DEF u
    <3>7. ASSUME NEW y \in Node \X Index, NEW k
          PROVE  y \in Slots(u, k) <=> y \in Slots(s, k) /\ y # x
      <4>1. y[1] \in Node /\ y[2] \in Index /\ (y = x <=> y[1] = n /\ y[2] = i)
        BY <2>1
      <4>2. CASE y = x
        BY <3>4, <4>1, <4>2 DEF Slots
      <4>3. CASE y # x
        BY <3>4, <4>1, <4>3 DEF Slots
      <4> QED BY <4>2, <4>3
    <3>8. ASSUME NEW k PROVE (x \in Slots(s, k) <=> k = g.cmd) /\ x \in Node \X Index
      <4>1. x \in Node \X Index /\ x[1] = n /\ x[2] = i
        BY <2>1
      <4> QED BY <3>6, <4>1 DEF Slots
    <3>9. \A y \in Slots(s, g.cmd) : y = x
      <4>1. ASSUME NEW y \in Slots(s, g.cmd) PROVE y = x
        <5>1. /\ y[1] \in Node /\ y[2] \in Index /\ y = <<y[1], y[2]>>
              /\ s.queue[y[1]][y[2]] # NoFrame /\ s.queue[y[1]][y[2]].cmd = g.cmd
          BY DEF Slots
        <5>2. y[1] = n /\ y[2] = i
          BY <2>1, <3>6, <5>1 DEF Once, OnceHeld
        <5> QED BY <5>1, <5>2
      <4> QED BY <4>1
    <3>10. \A k : (Ran(u, k) <=> Ran(s, k)) /\ (OnItsWay(u, k) <=> OnItsWay(s, k))
      BY <3>3 DEF Ran, OnItsWay
    <3>11. /\ t.queue = u.queue /\ t.cmds = s.cmds /\ t.refused = s.refused
           /\ \A k : Slots(t, k) = Slots(u, k) /\ (Ran(t, k) <=> Ran(s, k))
           /\ \A k : OnItsWay(t, k) <=> OnItsWay(s, k) \/ g.cmd = k
      BY <2>1, <3>1, <3>3, <3>10, TransmitAdds
    <3> HIDE DEF t, x, g
    <3>12. ASSUME NEW k, k # g.cmd PROVE Same(s, t, k)
      <4>1. Slots(u, k) \subseteq Node \X Index /\ Slots(s, k) \subseteq Node \X Index
        BY DEF Slots
      <4>2. \A y \in Node \X Index : y \in Slots(u, k) <=> y \in Slots(s, k)
        <5>1. x \notin Slots(s, k)
          BY <3>8, <3>12
        <5> QED BY <3>7, <5>1
      <4>3. Slots(u, k) = Slots(s, k)
        BY <4>1, <4>2
      <4> QED BY <3>11, <3>12, <4>3, SameView
    <3>13. Slots(t, g.cmd) = {}
      <4>1. Slots(u, g.cmd) \subseteq Node \X Index
        BY DEF Slots
      <4> QED BY <3>7, <3>9, <3>11, <4>1
    <3>14. FateIn(s, g.cmd) = "held" /\ FateIn(t, g.cmd) = "travelling"
      BY <3>2, <3>8, <3>11, <3>13 DEF FateIn
    <3>15. Released(s, t, g.cmd)
      BY <3>12, <3>13, <3>14 DEF Released
    <3> QED BY <3>5, <3>11, <3>15
  <2> QED BY <2>2, <2>3
<1> QED BY <1>1, <1>2

LEMMA TailOf ==
  ASSUME NEW S, NEW q \in Seq(S), q # <<>>
  PROVE  /\ \A j \in DOMAIN Tail(q) :
              j + 1 \in DOMAIN q /\ Tail(q)[j] = q[j + 1] /\ j + 1 # 1
         /\ \A i \in DOMAIN q : i # 1 => i - 1 \in DOMAIN Tail(q) /\ Tail(q)[i - 1] = q[i]
  OBVIOUS

\* A request that arrives is nowhere while it is handled.
Lost(s, t, k) ==
  /\ \A j : j # k => Same(s, t, j)
  /\ FateIn(s, k) = "travelling" /\ Slots(s, k) = {}
  /\ FateIn(t, k) = "lost" /\ Slots(t, k) = {}

LEMMA TakenLoses ==
  ASSUME TypeOK, Once(Now), NEW from \in Node, NEW n \in Node, air[from][n] # <<>>,
         NEW t \in State, t.queue = queue, t.cmds = cmds, t.ran = ran, t.refused = refused,
         t.air = [air EXCEPT ![from][n] = Tail(@)]
  PROVE  LET f == Head(air[from][n]) IN
         IF f.type = "WriteRequest" THEN Lost(Now, t, f.cmd) ELSE \A k : Same(Now, t, k)
<1> DEFINE f == Head(air[from][n])
<1>1. /\ Now.air = air /\ Now.queue = queue /\ Now.cmds = cmds /\ Now.ran = ran
      /\ Now.refused = refused /\ Now \in State
  BY NowType DEF Now
<1>2. air \in [Node -> [Node -> Seq(Frame)]]
  BY DEF TypeOK
<1>3. 1 \in DOMAIN air[from][n] /\ f = air[from][n][1] /\ f \in Frame
  BY <1>2
<1> HIDE DEF f
<1>4. ASSUME NEW x \in Node, NEW y \in Node, NEW j \in DOMAIN t.air[x][y]
      PROVE  \E i \in DOMAIN air[x][y] :
               t.air[x][y][j] = air[x][y][i] /\ ~(x = from /\ y = n /\ i = 1)
  <2>1. CASE x = from /\ y = n
    <3>1. t.air[x][y] = Tail(air[x][y]) /\ air[x][y] \in Seq(Frame) /\ air[x][y] # <<>>
      BY <1>2, <2>1
    <3>2. j + 1 \in DOMAIN air[x][y] /\ t.air[x][y][j] = air[x][y][j + 1] /\ j + 1 # 1
      <4>1. \A l \in DOMAIN Tail(air[x][y]) :
              l + 1 \in DOMAIN air[x][y] /\ Tail(air[x][y])[l] = air[x][y][l + 1] /\ l + 1 # 1
        BY <3>1, TailOf, Zenon
      <4> QED BY <1>4, <3>1, <4>1, Zenon
    <3> QED BY <3>2
  <2>2. CASE ~(x = from /\ y = n)
    <3>1. t.air[x][y] = air[x][y]
      BY <1>2, <2>2
    <3> QED BY <1>4, <2>2, <3>1
  <2> QED BY <2>1, <2>2
<1>5. ASSUME NEW x \in Node, NEW y \in Node, NEW i \in DOMAIN air[x][y],
             ~(x = from /\ y = n /\ i = 1)
      PROVE  \E j \in DOMAIN t.air[x][y] : t.air[x][y][j] = air[x][y][i]
  <2>1. CASE x = from /\ y = n
    <3>1. t.air[x][y] = Tail(air[x][y]) /\ air[x][y] \in Seq(Frame) /\ air[x][y] # <<>>
      BY <1>2, <2>1
    <3>2. i # 1
      BY <1>5, <2>1
    <3>3. i - 1 \in DOMAIN t.air[x][y] /\ t.air[x][y][i - 1] = air[x][y][i]
      <4>1. \A l \in DOMAIN air[x][y] :
              l # 1 => /\ l - 1 \in DOMAIN Tail(air[x][y])
                       /\ Tail(air[x][y])[l - 1] = air[x][y][l]
        BY <3>1, TailOf, Zenon
      <4> QED BY <1>5, <3>1, <3>2, <4>1, Zenon
    <3> QED BY <3>3
  <2>2. CASE ~(x = from /\ y = n)
    <3>1. t.air[x][y] = air[x][y]
      BY <1>2, <2>2
    <3> QED BY <1>5, <3>1
  <2> QED BY <2>1, <2>2
<1>6. \A k : Slots(t, k) = Slots(Now, k) /\ (Ran(t, k) <=> Ran(Now, k))
  BY <1>1 DEF Slots, Ran
<1>7. \A k : OnItsWay(t, k) => OnItsWay(Now, k)
  BY SMTT(60), <1>1, <1>4 DEF OnItsWay
<1>8. ASSUME NEW k, f.type # "WriteRequest" \/ f.cmd # k, OnItsWay(Now, k)
      PROVE  OnItsWay(t, k)
  <2>1. PICK x \in Node, y \in Node : \E i \in DOMAIN air[x][y] :
          air[x][y][i].type = "WriteRequest" /\ air[x][y][i].cmd = k
    BY <1>1, <1>8 DEF OnItsWay
  <2>2. PICK i \in DOMAIN air[x][y] :
          air[x][y][i].type = "WriteRequest" /\ air[x][y][i].cmd = k
    BY <2>1
  <2>3. ~(x = from /\ y = n /\ i = 1)
    BY <1>3, <1>8, <2>2
  <2>4. \E j \in DOMAIN t.air[x][y] : t.air[x][y][j] = air[x][y][i]
    BY <1>5, <2>3
  <2> QED BY <2>2, <2>4 DEF OnItsWay
<1>9. \A k : f.type # "WriteRequest" \/ f.cmd # k => Same(Now, t, k)
  BY <1>1, <1>6, <1>7, <1>8, SameView
<1>10. ASSUME f.type = "WriteRequest" PROVE Lost(Now, t, f.cmd)
  <2>1. Fated(Now, f) /\ f.cmd # 0
    <3>1. Fated(Now, f)
      BY <1>1, <1>3 DEF Once, AllFated
    <3> QED BY <1>1, <1>10, <3>1, CmdsFromOne DEF Fated
  <2>2. f.cmd \in DOMAIN Now.cmds /\ ~Ran(Now, f.cmd) /\ f.cmd \notin Now.refused
    BY <1>10, <2>1 DEF Fated
  <2>3. Slots(Now, f.cmd) = {}
    <3>1. ASSUME NEW x \in Node \X Index, queue[x[1]][x[2]] # NoFrame
          PROVE  queue[x[1]][x[2]].cmd # f.cmd
      <4>1. x[1] \in Node /\ x[2] \in Index
        OBVIOUS
      <4> QED BY <1>1, <1>3, <3>1, <4>1 DEF Once, HeldOrInTheAir
    <3> QED BY <1>1, <3>1 DEF Slots
  <2>4. OnItsWay(Now, f.cmd)
    BY <1>1, <1>3, <1>10 DEF OnItsWay
  <2>5. ~OnItsWay(t, f.cmd)
    <3> SUFFICES ASSUME NEW x \in Node, NEW y \in Node, NEW j \in DOMAIN t.air[x][y],
                        t.air[x][y][j].cmd = f.cmd
                 PROVE  FALSE
      BY DEF OnItsWay
    <3>1. PICK i \in DOMAIN air[x][y] :
            t.air[x][y][j] = air[x][y][i] /\ ~(x = from /\ y = n /\ i = 1)
      BY <1>4
    <3>2. air[x][y][i].cmd = air[from][n][1].cmd /\ air[x][y][i].cmd # 0
      BY <1>3, <2>1, <3>1
    <3>3. x = from /\ y = n /\ i = 1
      BY <1>1, <1>3, <3>2 DEF Once, OnceInTheAir
    <3> QED BY <3>1, <3>3
  <2>6. FateIn(Now, f.cmd) = "travelling" /\ FateIn(t, f.cmd) = "lost"
    BY <1>1, <1>6, <2>2, <2>3, <2>4, <2>5 DEF FateIn
  <2> QED BY <1>6, <1>9, <2>3, <2>6 DEF Lost
<1> QED BY <1>9, <1>10 DEF f

-----------------------------------------------------------------------------
(* What a handler does before it flushes: one command at most moves. *)

Moves(s, t, k) ==
  /\ \A j : j # k => Same(s, t, j)
  /\ FateIn(s, k) \in {"none", "travelling"} /\ Slots(s, k) = {}
  /\ \/ FateIn(t, k) \in {"travelling", "ran", "refused"} /\ Slots(t, k) = {}
     \/ /\ FateIn(t, k) = "held"
        /\ \E x \in Node \X Index : EmptyIn(s, x) /\ Slots(t, k) = {x}
     \/ FateIn(s, k) = "travelling" /\ FateIn(t, k) = "lost" /\ Slots(t, k) = {}

Progress(s, t) == (\A k : Same(s, t, k)) \/ (\E k : Moves(s, t, k))

\* The bound on the commands issued, which the actions check.
Within(s, t) == t.cmds = s.cmds \/ (Len(s.cmds) < MaxCmds /\ Len(t.cmds) = Len(s.cmds) + 1)

LEMMA LostMoves ==
  ASSUME NEW s, NEW t, NEW k, Lost(s, t, k)
  PROVE  Moves(s, t, k)
  BY DEF Lost, Moves

LEMMA LostPlacedMoves ==
  ASSUME NEW s, NEW t, NEW u, NEW k, Lost(s, t, k), Placed(t, u, k), t.queue = s.queue
  PROVE  Moves(s, u, k)
<1>1. \A j : j # k => Same(s, t, j)
  BY DEF Lost
<1>2. Placed(s, u, k)
  BY <1>1, SamePlaced
<1> QED BY <1>2 DEF Placed, Lost, Moves

LEMMA IssuedMoves ==
  ASSUME NEW s, Once(s), NEW t, Issued(s, t)
  PROVE  Moves(s, t, Len(s.cmds) + 1)
<1> DEFINE k == Len(s.cmds) + 1
<1>1. k \notin DOMAIN s.cmds
  BY CmdsFromOne DEF Once
<1>2. FateIn(s, k) = "none" /\ Slots(s, k) = {}
  BY <1>1, NoRequestLeft DEF FateIn
<1>3. Placed(s, t, k)
  BY DEF Issued
<1> HIDE DEF k
<1>4. Moves(s, t, k)
  BY <1>2, <1>3 DEF Placed, Moves
<1> QED BY <1>4 DEF k

LEMMA MovesSame ==
  ASSUME NEW s, NEW t, NEW u, Progress(s, t), \A k : Same(t, u, k)
  PROVE  Progress(s, u)
<1>1. CASE \A k : Same(s, t, k)
  BY <1>1, SameSame DEF Progress
<1>2. ASSUME NEW k, Moves(s, t, k) PROVE Moves(s, u, k)
  <2>1. \A j : j # k => Same(s, u, j)
    BY <1>2, SameSame DEF Moves
  <2>2. FateIn(u, k) = FateIn(t, k) /\ Slots(u, k) = Slots(t, k)
    BY DEF Same
  <2> QED BY <1>2, <2>1, <2>2 DEF Moves
<1> QED BY <1>1, <1>2 DEF Progress

LEMMA SameMoves ==
  ASSUME NEW s, NEW t, NEW u, \A k : Same(s, t, k), t.queue = s.queue, Progress(t, u)
  PROVE  Progress(s, u)
<1>1. CASE \A k : Same(t, u, k)
  BY <1>1, SameSame DEF Progress
<1>2. ASSUME NEW k, Moves(t, u, k) PROVE Moves(s, u, k)
  <2>1. \A j : j # k => Same(s, u, j)
    BY <1>2, SameSame DEF Moves
  <2>2. FateIn(s, k) = FateIn(t, k) /\ Slots(s, k) = Slots(t, k)
    BY DEF Same
  <2>3. \A x : EmptyIn(t, x) => EmptyIn(s, x)
    BY DEF EmptyIn
  <2> QED BY <1>2, <2>1, <2>2, <2>3 DEF Moves
<1> QED BY <1>1, <1>2 DEF Progress

\* A frame is handled: it is taken, moves one command, and what is held for its
\* sender may then go.
LEMMA ReceiveProgress ==
  ASSUME Fates, NEW from \in Node, NEW n \in Node, Receive(from, n)
  PROVE  \E u : Once(u) /\ Progress(Now, u) /\ Within(Now, u) /\ BecomeFlushed(u, from, n)
<1> DEFINE d == DecisionOn(from, n)
           s == Taken(from, n)
           f == Arriving(from, n)
<1>1. air[from][n] # <<>>
  BY DEF Receive, PassToParent, PassToChild, DeliverRequest, DeliverNews, DropFrame, OnFrame
<1>2. Bindings /\ TypeOK /\ f \in Frame /\ s \in State /\ Now \in State
  BY <1>1, NowType, ArrivingType DEF Fates, Addressing
<1>3. f.type = "WriteRequest" <=> ~f.upstream
  BY <1>1, ArrivingGood DEF Fates, Good
<1>4. Once(s) /\ Fated(s, f) /\ (f.cmd # 0 => Absent(s, f.cmd))
  BY <1>1, <1>2, TakenOnce DEF Fates
<1>5. d = Route(RouterOf(n), f, from) /\ d.frame \in Frame /\ d.child \in 0 .. MaxHop
  BY <1>2, RouteType DEF DecisionOn
<1>6. f.type # "Report" => f.cmd \in DOMAIN s.cmds /\ f.cmd # 0 /\ Absent(s, f.cmd)
  BY <1>2, <1>4, CmdsFromOne DEF Fated
<1>7. /\ Now.cmds = cmds /\ s.queue = Now.queue /\ s.cmds = Now.cmds /\ Once(Now)
      /\ IF f.type = "WriteRequest" THEN Lost(Now, s, f.cmd) ELSE \A k : Same(Now, s, k)
  <2>1. /\ s.queue = queue /\ s.cmds = cmds /\ s.ran = ran /\ s.refused = refused
        /\ s.air = [air EXCEPT ![from][n] = Tail(@)]
        /\ Now.queue = queue /\ Now.cmds = cmds
    BY <1>2 DEF Taken, Now
  <2>2. Once(Now)
    BY DEF Fates
  <2> HIDE DEF s
  <2>3. IF f.type = "WriteRequest" THEN Lost(Now, s, f.cmd) ELSE \A k : Same(Now, s, k)
    BY <1>1, <1>2, <2>1, <2>2, TakenLoses DEF Arriving
  <2> QED BY <2>1, <2>2, <2>3
<1> HIDE DEF s, f, d
<1>8. Progress(Now, s) /\ Within(Now, s)
  BY <1>7, LostMoves DEF Progress, Within
<1>9. ASSUME f.upstream PROVE \A k : Same(Now, s, k)
  BY <1>3, <1>7, <1>9
\* A report is passed up, or an answer: a wire may send a command.
<1>10. ASSUME NEW g \in Frame, f.upstream, LinkBound(n, g)
       PROVE  LET u == Tap(s, n, g) IN Once(u) /\ Progress(Now, u) /\ Within(Now, u)
  <2> DEFINE u == Tap(s, n, g)
  <2>1. Once(u)
    BY <1>2, <1>4, TapOnce
  <2>2. u = s \/ (Len(cmds) < MaxCmds /\ Issued(s, u))
    BY <1>2, <1>4, <1>10, TapIssues DEF LinkBound
  <2> HIDE DEF u
  <2>3. CASE u = s
    BY <1>8, <2>1, <2>3 DEF u
  <2>4. CASE Len(cmds) < MaxCmds /\ Issued(s, u)
    <3>1. Progress(s, u)
      BY <1>4, <2>4, IssuedMoves DEF Progress
    <3>2. Progress(Now, u)
      BY <1>7, <1>9, <1>10, <3>1, SameMoves
    <3> QED BY <1>7, <2>1, <2>4, <3>2 DEF Within, Issued, u
  <2> QED BY <2>2, <2>3, <2>4
<1>11. CASE PassToParent(from, n)
  <2> DEFINE g == d.frame
             u == Tap(s, n, g)
             t == Transmit(u, n, parent[n], g)
  <2>1. d.action = "ToParent" /\ LinkBound(n, g)
    BY <1>11 DEF PassToParent, OnFrame, d
  <2>2. f.upstream /\ parent[n] \in Node /\ g = Climbed(n, from, f)
    BY ZenonT(60), <1>2, <1>5, <2>1, RouteType
  <2>3. g.type = f.type /\ g.cmd = f.cmd
    BY <1>2, <2>2 DEF Climbed, Frame
  <2>4. Once(u) /\ Progress(Now, u) /\ Within(Now, u)
    BY <1>5, <1>10, <2>1, <2>2
  <2>5. Fated(s, g) /\ g.type # "WriteRequest"
    BY <1>3, <1>4, <2>2, <2>3 DEF Fated
  <2>6. Leaves(s, u, 0) /\ (g.cmd = 0 \/ u = s)
    BY <1>2, <1>4, <1>5, <2>5, TapOnce DEF Tap, Fated
  <2>7. BecomeFlushed(t, from, n)
    BY <1>11 DEF PassToParent, s, d
  <2> HIDE DEF u, g
  <2>8. Fated(u, g)
    BY <2>5, <2>6 DEF Fated, Leaves
  <2>9. g.cmd = 0 \/ Absent(u, g.cmd)
    BY <1>6, <2>3, <2>6, <1>4
  <2>10. Once(t)
    BY <1>5, <2>2, <2>4, <2>8, <2>9, TransmitOnce DEF g
  <2>11. t.cmds = u.cmds /\ \A k : Same(u, t, k)
    BY <1>5, <2>2, <2>4, <2>5, TransmitSame DEF g, Once
  <2> HIDE DEF t
  <2>12. Progress(Now, t) /\ Within(Now, t)
    BY <2>4, <2>11, MovesSame DEF Within
  <2> QED BY <2>7, <2>10, <2>12
<1>12. CASE PassToChild(from, n)
  <2> DEFINE g == d.frame
             t == ForwardToChild(s, n, g, d.child)
  <2>1. d.action = "ToChild"
    BY <1>12 DEF PassToChild, OnFrame, d
  <2>2. ~f.upstream /\ d.child \in Used(children[n]) /\ g = [f EXCEPT !.dest = Shift(@)]
    BY <1>2, <1>5, <2>1, RouteType
  <2>3. g.type = "WriteRequest" /\ g.cmd = f.cmd
    BY <1>2, <1>3, <2>2 DEF Frame
  <2>4. Fated(s, g) /\ Absent(s, g.cmd)
    BY <1>3, <1>4, <1>6, <2>2, <2>3 DEF Fated
  <2>5. Once(t)
    BY <1>2, <1>4, <1>5, <2>2, <2>3, <2>4, ForwardToChildOnce
  <2>6. t.cmds = s.cmds /\ Placed(s, t, f.cmd)
    <3>1. t.cmds = s.cmds /\ Placed(s, t, g.cmd)
      BY <1>2, <1>4, <1>5, <2>2, <2>3, <2>4, ForwardToChildPlaces
    <3> HIDE DEF t, g
    <3> QED BY <2>3, <3>1
  <2>7. BecomeFlushed(t, from, n)
    BY <1>12 DEF PassToChild, s, d
  <2> HIDE DEF t
  <2>8. Moves(Now, t, f.cmd)
    BY <1>3, <1>7, <2>2, <2>6, LostPlacedMoves
  <2> QED BY <1>7, <2>5, <2>6, <2>7, <2>8 DEF Progress, Within
<1>13. CASE DeliverRequest(from, n)
  <2> DEFINE t == HandleRequest(s, n, d.frame)
  <2>1. d.action = "Deliver" /\ d.frame.type = "WriteRequest"
    BY <1>13 DEF DeliverRequest, OnFrame, d
  <2>2. \/ f.upstream /\ d.frame = Climbed(n, from, f)
        \/ ~f.upstream /\ d.frame = f /\ f.dest = <<>>
    BY ZenonT(60), <1>2, <1>5, <2>1, RouteType
  <2>3. d.frame = f /\ f.type = "WriteRequest"
    BY <1>2, <1>3, <2>1, <2>2 DEF Climbed, Frame
  <2>4. f.cmd \in DOMAIN s.cmds /\ ~Ran(s, f.cmd) /\ f.cmd \notin s.refused /\ Absent(s, f.cmd)
    BY <1>4, <1>6, <2>3 DEF Fated
  <2>5. Once(t)
    BY <1>2, <1>4, <2>3, <2>4, HandleRequestOnce
  <2>6. t.cmds = s.cmds /\ Placed(s, t, f.cmd)
    BY <1>2, <1>4, <2>3, <2>4, HandleRequestPlaces
  <2>7. BecomeFlushed(t, from, n)
    BY <1>13 DEF DeliverRequest, s, d
  <2> HIDE DEF t
  <2>8. Moves(Now, t, f.cmd)
    BY <1>7, <2>3, <2>6, LostPlacedMoves
  <2> QED BY <1>7, <2>5, <2>6, <2>7, <2>8 DEF Progress, Within
<1>14. CASE DeliverNews(from, n)
  <2> DEFINE g == d.frame
             t == Tap(s, n, g)
  <2>1. d.action = "Deliver" /\ g.type # "WriteRequest" /\ LinkBound(n, g)
    BY <1>14 DEF DeliverNews, OnFrame, d
  <2>2. f.upstream
    BY <1>2, <1>3, <1>5, <2>1, RouteType
  <2>3. BecomeFlushed(t, from, n)
    BY <1>14 DEF DeliverNews, s, d
  <2>4. Once(t) /\ Progress(Now, t) /\ Within(Now, t)
    BY <1>5, <1>10, <2>1, <2>2
  <2> HIDE DEF t
  <2> QED BY <2>3, <2>4
<1>15. CASE DropFrame(from, n)
  <2>1. d.action = "Drop"
    BY <1>15 DEF DropFrame, OnFrame, d
  <2>2. d.frame = f
    BY <1>2, <1>5, <2>1, RouteType
  <2>3. CASE d.reason = "NoSuchChild"
    <3> DEFINE r == Refuse(s, f.cmd)
               t == SendUpstream(r, n, "RouteError", f.seq, d.child, f.cmd)
    <3>1. f.type = "WriteRequest"
      BY <1>2, <1>3, <1>5, <2>3, MissingChild
    <3>2. f.cmd \in DOMAIN s.cmds /\ ~Ran(s, f.cmd) /\ Absent(s, f.cmd)
      BY <1>4, <1>6, <3>1 DEF Fated
    <3>3. Once(r) /\ f.cmd \in r.refused /\ Absent(r, f.cmd)
      BY <1>4, <3>2, RefuseOnce
    <3>4. f.cmd \in Nat /\ f.seq \in Seqs /\ "RouteError" \in {"Report"} \cup Answers
      BY <1>2 DEF Frame, Answers
    <3>5. BecomeFlushed(t, from, n)
      BY <1>15, <2>2, <2>3 DEF DropFrame, s, d
    <3>6. r.cmds = s.cmds /\ Placed(s, r, f.cmd)
      BY <1>4, <3>2, RefusePlaces
    <3> HIDE DEF r
    <3>7. Once(t)
      BY <1>2, <1>5, <3>3, <3>4, SendUpstreamOnce
    <3>8. t.cmds = r.cmds /\ \A k : Same(r, t, k)
      BY <1>2, <1>5, <3>3, <3>4, SendUpstreamSame DEF Once
    <3> HIDE DEF t
    <3>9. Moves(Now, t, f.cmd)
      BY <1>7, <3>1, <3>6, <3>8, PlacedSame, LostPlacedMoves
    <3> QED BY <1>7, <3>5, <3>6, <3>7, <3>8, <3>9 DEF Progress, Within
  <2>4. CASE d.reason # "NoSuchChild"
    <3>1. BecomeFlushed(s, from, n)
      BY <1>15, <2>4 DEF DropFrame, s, d
    <3> QED BY <1>4, <1>8, <3>1
  <2> QED BY <2>3, <2>4
<1> QED BY <1>11, <1>12, <1>13, <1>14, <1>15 DEF Receive

-----------------------------------------------------------------------------
(* The mapping *)

Map(s)      == [k \in 1 .. MaxCmds |-> FateIn(s, k)]
MapSlots(s) == [k \in 1 .. MaxCmds |-> Slots(s, k)]

Promise == Fates /\ Len(cmds) =< MaxCmds

LEMMA MapNow ==
  /\ Map(Now) = [k \in 1 .. MaxCmds |-> FateOf(k)]
  /\ MapSlots(Now) = [k \in 1 .. MaxCmds |-> SlotsOf(k)]
<1>1. /\ Now.air = air /\ Now.queue = queue /\ Now.cmds = cmds /\ Now.ran = ran
      /\ Now.refused = refused
  BY DEF Now
<1>2. ASSUME NEW k PROVE Slots(Now, k) = SlotsOf(k)
  BY <1>1 DEF Slots, SlotsOf
<1>3. ASSUME NEW k PROVE FateIn(Now, k) = FateOf(k)
  <2>1. (Ran(Now, k) <=> HasRun(k)) /\ (OnItsWay(Now, k) <=> Travels(k))
    BY <1>1 DEF Ran, HasRun, OnItsWay, Travels
  <2> QED BY <1>1, <1>2, <2>1 DEF FateIn, FateOf
<1> QED BY <1>2, <1>3 DEF Map, MapSlots

LEMMA InStep ==
  ASSUME NEW s, NEW t, NEW k, Same(s, t, k), k \in 1 .. MaxCmds
  PROVE  Map(t)[k] = Map(s)[k] /\ MapSlots(t)[k] = MapSlots(s)[k]
  BY DEF Same, Map, MapSlots

\* Commands that have a fate are within the bound.
LEMMA InBound ==
  ASSUME NEW s \in State, Len(s.cmds) =< MaxCmds, NEW k, FateIn(s, k) # "none"
  PROVE  k \in 1 .. MaxCmds
<1>1. k \in DOMAIN s.cmds
  BY DEF FateIn
<1>2. DOMAIN s.cmds = 1 .. Len(s.cmds) /\ Len(s.cmds) \in Nat
  BY CmdsFromOne
<1> QED BY <1>1, <1>2

LEMMA MapNext ==
  (/\ Map(Now) = [k \in 1 .. MaxCmds |-> FateOf(k)]
   /\ MapSlots(Now) = [k \in 1 .. MaxCmds |-> SlotsOf(k)])'
  BY MapNow, PTL

\* The promise's steps, between two pairs of a fate and a slot function.
MayBecome(F, S, k, f, x) ==
  \/ /\ F[k] \in {"none", "travelling"}
     /\ \/ f \in {"travelling", "ran", "refused"} /\ x = {}
        \/ /\ f = "held"
           /\ \E y \in Node \X Index : x = {y} /\ \A j \in 1 .. MaxCmds : y \notin S[j]
  \/ F[k] = "travelling" /\ f = "lost" /\ x = {}

LEMMA HandleStep ==
  ASSUME NEW k \in 1 .. MaxCmds, NEW f, NEW x, MayBecome(Map(Now), MapSlots(Now), k, f, x),
         Map(Now)' = [Map(Now) EXCEPT ![k] = f], MapSlots(Now)' = [MapSlots(Now) EXCEPT ![k] = x]
  PROVE  Commands!Next
<1> DEFINE F == Map(Now)
           S == MapSlots(Now)
           G == Map(Now)'
           T == MapSlots(Now)'
<1>1. F = [c \in 1 .. MaxCmds |-> FateOf(c)] /\ S = [c \in 1 .. MaxCmds |-> SlotsOf(c)]
  BY MapNow
<1>2. /\ G = [c \in 1 .. MaxCmds |-> FateOf(c)]'
      /\ T = [c \in 1 .. MaxCmds |-> SlotsOf(c)]'
  BY MapNext
<1>3. G = [F EXCEPT ![k] = f] /\ T = [S EXCEPT ![k] = x] /\ MayBecome(F, S, k, f, x)
  OBVIOUS
<1> HIDE DEF F, S, G, T
<1>4. f \in Commands!Fates /\ x \in Commands!AtMostOne
  BY <1>3 DEF MayBecome, Commands!Fates, Commands!AtMostOne
<1>5. Commands!Handled(k, f, x)
  BY <1>1, <1>3 DEF MayBecome, Commands!Handled, Commands!Free
<1>6. Commands!Handle(k)
  BY <1>1, <1>2, <1>3, <1>4, <1>5 DEF Commands!Handle
<1> QED BY <1>6 DEF Commands!Next

LEMMA HandleAndReleaseStep ==
  ASSUME NEW k \in 1 .. MaxCmds, NEW f, NEW x, MayBecome(Map(Now), MapSlots(Now), k, f, x),
         NEW j \in 1 .. MaxCmds, k # j, Map(Now)[j] = "held",
         Map(Now)' = [Map(Now) EXCEPT ![k] = f, ![j] = "travelling"],
         MapSlots(Now)' = [MapSlots(Now) EXCEPT ![k] = x, ![j] = {}]
  PROVE  Commands!Next
<1> DEFINE F == Map(Now)
           S == MapSlots(Now)
           G == Map(Now)'
           T == MapSlots(Now)'
<1>1. F = [c \in 1 .. MaxCmds |-> FateOf(c)] /\ S = [c \in 1 .. MaxCmds |-> SlotsOf(c)]
  BY MapNow
<1>2. /\ G = [c \in 1 .. MaxCmds |-> FateOf(c)]'
      /\ T = [c \in 1 .. MaxCmds |-> SlotsOf(c)]'
  BY MapNext
<1>3. /\ G = [F EXCEPT ![k] = f, ![j] = "travelling"] /\ T = [S EXCEPT ![k] = x, ![j] = {}]
      /\ MayBecome(F, S, k, f, x) /\ F[j] = "held"
  OBVIOUS
<1> HIDE DEF F, S, G, T
<1>4. f \in Commands!Fates /\ x \in Commands!AtMostOne
  BY <1>3 DEF MayBecome, Commands!Fates, Commands!AtMostOne
<1>5. Commands!Handled(k, f, x)
  BY <1>1, <1>3 DEF MayBecome, Commands!Handled, Commands!Free
<1>6. Commands!HandleAndRelease(k, j)
  BY <1>1, <1>2, <1>3, <1>4, <1>5 DEF Commands!HandleAndRelease
<1> QED BY <1>6 DEF Commands!Next

LEMMA ReleaseStep ==
  ASSUME NEW j \in 1 .. MaxCmds, Map(Now)[j] = "held",
         Map(Now)' = [Map(Now) EXCEPT ![j] = "travelling"],
         MapSlots(Now)' = [MapSlots(Now) EXCEPT ![j] = {}]
  PROVE  Commands!Next
<1> DEFINE F == Map(Now)
           S == MapSlots(Now)
           G == Map(Now)'
           T == MapSlots(Now)'
<1>1. F = [c \in 1 .. MaxCmds |-> FateOf(c)] /\ S = [c \in 1 .. MaxCmds |-> SlotsOf(c)]
  BY MapNow
<1>2. /\ G = [c \in 1 .. MaxCmds |-> FateOf(c)]'
      /\ T = [c \in 1 .. MaxCmds |-> SlotsOf(c)]'
  BY MapNext
<1>3. G = [F EXCEPT ![j] = "travelling"] /\ T = [S EXCEPT ![j] = {}] /\ F[j] = "held"
  OBVIOUS
<1> HIDE DEF F, S, G, T
<1>4. Commands!Release(j)
  BY <1>1, <1>2, <1>3 DEF Commands!Release
<1> QED BY <1>4 DEF Commands!Next

LEMMA ForgetStep ==
  ASSUME NEW K \in SUBSET (1 .. MaxCmds), K # {}, \A k \in K : Map(Now)[k] = "held",
         Map(Now)' = [k \in 1 .. MaxCmds |-> IF k \in K THEN "lost" ELSE Map(Now)[k]],
         MapSlots(Now)' = [k \in 1 .. MaxCmds |-> IF k \in K THEN {} ELSE MapSlots(Now)[k]]
  PROVE  Commands!Next
<1> DEFINE F == Map(Now)
           S == MapSlots(Now)
           G == Map(Now)'
           T == MapSlots(Now)'
<1>1. F = [c \in 1 .. MaxCmds |-> FateOf(c)] /\ S = [c \in 1 .. MaxCmds |-> SlotsOf(c)]
  BY MapNow
<1>2. /\ G = [c \in 1 .. MaxCmds |-> FateOf(c)]'
      /\ T = [c \in 1 .. MaxCmds |-> SlotsOf(c)]'
  BY MapNext
<1>3. /\ G = [k \in 1 .. MaxCmds |-> IF k \in K THEN "lost" ELSE F[k]]
      /\ T = [k \in 1 .. MaxCmds |-> IF k \in K THEN {} ELSE S[k]]
      /\ \A k \in K : F[k] = "held"
  OBVIOUS
<1> HIDE DEF F, S, G, T
<1>4. Commands!Forget(K)
  BY <1>1, <1>2, <1>3 DEF Commands!Forget
<1> QED BY <1>4 DEF Commands!Next

LEMMA StutterStep ==
  ASSUME Map(Now)' = Map(Now), MapSlots(Now)' = MapSlots(Now)
  PROVE  UNCHANGED Commands!vars
  BY MapNow, MapNext DEF Commands!vars

-----------------------------------------------------------------------------
(* Every step is a step the promise allows, or none. *)

\* A step of the network seen from the maps of its two states.
LEMMA MapsAlike ==
  ASSUME NEW s, NEW t, \A k : Same(s, t, k)
  PROVE  Map(t) = Map(s) /\ MapSlots(t) = MapSlots(s)
  BY DEF Same, Map, MapSlots

Put(F, k, v) == [F EXCEPT ![k] = v]

LEMMA MapsMove ==
  ASSUME NEW s, NEW t \in State, Len(t.cmds) =< MaxCmds, NEW k, Moves(s, t, k)
  PROVE  /\ k \in 1 .. MaxCmds
         /\ MayBecome(Map(s), MapSlots(s), k, FateIn(t, k), Slots(t, k))
         /\ Map(t) = Put(Map(s), k, FateIn(t, k))
         /\ MapSlots(t) = Put(MapSlots(s), k, Slots(t, k))
<1>1. k \in 1 .. MaxCmds
  BY InBound DEF Moves
<1>2. ASSUME NEW x \in Node \X Index, EmptyIn(s, x), NEW j PROVE x \notin Slots(s, j)
  BY <1>2 DEF EmptyIn, Slots
<1>3. MayBecome(Map(s), MapSlots(s), k, FateIn(t, k), Slots(t, k))
  <2>1. Map(s)[k] = FateIn(s, k) /\ \A j \in 1 .. MaxCmds : MapSlots(s)[j] = Slots(s, j)
    BY <1>1 DEF Map, MapSlots
  <2> QED BY <1>2, <2>1 DEF Moves, MayBecome
<1>4. \A j \in 1 .. MaxCmds : j # k => FateIn(t, j) = FateIn(s, j) /\ Slots(t, j) = Slots(s, j)
  BY DEF Moves, Same
<1>5. /\ Map(t) = Put(Map(s), k, FateIn(t, k))
      /\ MapSlots(t) = Put(MapSlots(s), k, Slots(t, k))
  BY <1>1, <1>4 DEF Map, MapSlots, Put
<1> QED BY <1>1, <1>3, <1>5

LEMMA MapsRelease ==
  ASSUME NEW s, NEW t \in State, Len(t.cmds) =< MaxCmds, NEW j, Released(s, t, j)
  PROVE  /\ j \in 1 .. MaxCmds /\ Map(s)[j] = "held"
         /\ Map(t) = [Map(s) EXCEPT ![j] = "travelling"]
         /\ MapSlots(t) = [MapSlots(s) EXCEPT ![j] = {}]
<1>1. j \in 1 .. MaxCmds
  BY InBound DEF Released
<1>2. \A k \in 1 .. MaxCmds : k # j => FateIn(t, k) = FateIn(s, k) /\ Slots(t, k) = Slots(s, k)
  BY DEF Released, Same
<1>3. FateIn(s, j) = "held" /\ FateIn(t, j) = "travelling" /\ Slots(t, j) = {}
  BY DEF Released
<1> QED BY <1>1, <1>2, <1>3 DEF Map, MapSlots

LEMMA MovedAllowed ==
  ASSUME NEW t \in State, Progress(Now, t), Now' = t, Len(t.cmds) =< MaxCmds
  PROVE  [Commands!Next]_(Commands!vars)
<1>1. Map(Now)' = Map(t) /\ MapSlots(Now)' = MapSlots(t)
  BY DEF Map, MapSlots
<1>2. CASE \A k : Same(Now, t, k)
  BY <1>1, <1>2, MapsAlike, StutterStep
<1>3. ASSUME NEW k, Moves(Now, t, k) PROVE Commands!Next
  <2> DEFINE f == FateIn(t, k)
             x == Slots(t, k)
  <2>1. /\ k \in 1 .. MaxCmds /\ MayBecome(Map(Now), MapSlots(Now), k, f, x)
        /\ Map(t) = Put(Map(Now), k, f) /\ MapSlots(t) = Put(MapSlots(Now), k, x)
    BY <1>3, MapsMove
  <2> HIDE DEF f, x
  <2>2. /\ Map(Now)' = [Map(Now) EXCEPT ![k] = f]
        /\ MapSlots(Now)' = [MapSlots(Now) EXCEPT ![k] = x]
    BY <1>1, <2>1 DEF Put
  <2> QED BY <2>1, <2>2, HandleStep
<1> QED BY <1>2, <1>3 DEF Progress

LEMMA FlushedAllowed ==
  ASSUME NEW u \in State, NEW t \in State, Progress(Now, u), NEW j, Released(u, t, j),
         u.cmds = t.cmds, Now' = t, Len(t.cmds) =< MaxCmds
  PROVE  [Commands!Next]_(Commands!vars)
<1>1. Map(Now)' = Map(t) /\ MapSlots(Now)' = MapSlots(t)
  BY DEF Map, MapSlots
<1>2. /\ j \in 1 .. MaxCmds /\ Map(u)[j] = "held"
      /\ Map(t) = [Map(u) EXCEPT ![j] = "travelling"]
      /\ MapSlots(t) = [MapSlots(u) EXCEPT ![j] = {}]
  BY MapsRelease
<1>3. CASE \A k : Same(Now, u, k)
  <2>1. Map(u) = Map(Now) /\ MapSlots(u) = MapSlots(Now)
    BY <1>3, MapsAlike
  <2> QED BY <1>1, <1>2, <2>1, ReleaseStep
<1>4. ASSUME NEW k, Moves(Now, u, k) PROVE [Commands!Next]_(Commands!vars)
  <2>1. LET f == FateIn(u, k)  x == Slots(u, k) IN
        /\ k \in 1 .. MaxCmds /\ MayBecome(Map(Now), MapSlots(Now), k, f, x)
        /\ Map(u) = Put(Map(Now), k, f) /\ MapSlots(u) = Put(MapSlots(Now), k, x)
    <3>1. Len(u.cmds) =< MaxCmds /\ Moves(Now, u, k)
      BY <1>4
    <3> QED BY <3>1, MapsMove
  <2> DEFINE F == Map(Now)
             S == MapSlots(Now)
             f == FateIn(u, k)
             x == Slots(u, k)
  <2>2. /\ k \in 1 .. MaxCmds /\ MayBecome(F, S, k, f, x)
        /\ Map(u) = [F EXCEPT ![k] = f] /\ MapSlots(u) = [S EXCEPT ![k] = x]
    BY <2>1 DEF Put
  <2>3. CASE k = j
    <3>1. \A c : c # k => Same(Now, t, c)
      BY <1>4, <2>3, SameSame DEF Moves, Released
    <3>2. Moves(Now, t, k)
      BY <1>4, <2>3, <3>1 DEF Moves, Released
    <3> QED BY <3>2, MovedAllowed DEF Progress
  <2>4. CASE k # j
    <3>1. F = [c \in 1 .. MaxCmds |-> F[c]] /\ S = [c \in 1 .. MaxCmds |-> S[c]]
      BY DEF Map, MapSlots
    <3> HIDE DEF F, S, f, x
    <3>2. /\ Map(t) = [F EXCEPT ![k] = f, ![j] = "travelling"]
          /\ MapSlots(t) = [S EXCEPT ![k] = x, ![j] = {}]
          /\ F[j] = "held"
      BY <1>2, <2>2, <2>4, <3>1
    <3>3. k \in 1 .. MaxCmds /\ j \in 1 .. MaxCmds
      BY <1>2, <2>2
    <3>4. /\ Map(Now)' = [Map(Now) EXCEPT ![k] = f, ![j] = "travelling"]
          /\ MapSlots(Now)' = [MapSlots(Now) EXCEPT ![k] = x, ![j] = {}]
          /\ Map(Now)[j] = "held" /\ MayBecome(Map(Now), MapSlots(Now), k, f, x)
      BY <1>1, <2>2, <3>2 DEF F, S
    <3>5. Commands!Next
      BY ONLY <2>4, <3>3, <3>4, HandleAndReleaseStep
    <3> QED BY <3>5
  <2> QED BY <2>3, <2>4
<1> QED BY <1>3, <1>4 DEF Progress

LEMMA BecomeIsNext ==
  ASSUME NEW s \in State, Become(s)
  PROVE  Now' = s
<1>1. s = [air |-> s.air, queue |-> s.queue, seq |-> s.seq, cmds |-> s.cmds,
           ran |-> s.ran, refused |-> s.refused]
  BY DEF State
<1> QED BY <1>1 DEF Now, Become

LEMMA WithinBound ==
  ASSUME NEW t \in State, Within(Now, t), Now.cmds = cmds, Len(cmds) =< MaxCmds
  PROVE  Len(t.cmds) =< MaxCmds
<1>1. Len(t.cmds) \in Nat
  BY CmdsFromOne
<1>2. CASE t.cmds = cmds
  BY <1>2
<1>3. CASE Len(cmds) < MaxCmds /\ Len(t.cmds) = Len(cmds) + 1
  <2>1. Len(cmds) \in Int
    BY <1>1, <1>3
  <2> QED BY <1>3, <1>1, <2>1
<1> QED BY <1>2, <1>3 DEF Within

LEMMA PromiseInit == Init => Promise /\ Commands!Init
<1> SUFFICES ASSUME Init PROVE Promise /\ Commands!Init
  OBVIOUS
<1>1. Promise
  BY FatesInit DEF Promise, Init
<1>2. cmds = <<>> /\ \A n \in Node, i \in Index : queue[n][i] = NoFrame
  BY DEF Init
<1>3. ASSUME NEW k PROVE FateOf(k) = "none" /\ SlotsOf(k) = {}
  <2>1. k \notin DOMAIN cmds
    BY <1>2
  <2>2. SlotsOf(k) = {}
    BY <1>2 DEF SlotsOf
  <2> QED BY <2>1, <2>2 DEF FateOf
<1>4. Commands!Init
  BY <1>3 DEF Commands!Init
<1> QED BY <1>1, <1>4

LEMMA BecomeAllowed ==
  ASSUME Promise, NEW t, Once(t), Become(t), Progress(Now, t), Within(Now, t)
  PROVE  Len(cmds)' =< MaxCmds /\ [Commands!Next]_(Commands!vars)
<1>1. t \in State
  BY DEF Once
<1>2. Now' = t /\ cmds' = t.cmds
  BY <1>1, BecomeIsNext DEF Become
<1>3. Now.cmds = cmds /\ Len(cmds) =< MaxCmds
  BY DEF Now, Promise
<1>4. Len(t.cmds) =< MaxCmds
  BY <1>1, <1>3, WithinBound
<1> QED BY <1>1, <1>2, <1>4, MovedAllowed

LEMMA BecomeFlushedAllowed ==
  ASSUME Promise, NEW u, Once(u), Progress(Now, u), Within(Now, u),
         NEW from \in Node, NEW n \in Node, BecomeFlushed(u, from, n)
  PROVE  Len(cmds)' =< MaxCmds /\ [Commands!Next]_(Commands!vars)
<1> DEFINE i == ChildByMac(children[n], from)
           t == FlushQueue(u, n, i)
<1>1. Bindings /\ u \in State
  BY NowType DEF Promise, Fates, Addressing, Once
<1>2. i = 0 \/ i \in Used(children[n])
  <2>1. children[n] \in [Index -> Child \cup {NoChild}]
    BY <1>1 DEF Bindings
  <2> QED BY <2>1, ChildByMacType DEF IndicesOf
<1>3. t \in State /\ t.cmds = u.cmds /\ (t = u \/ \E j : Released(u, t, j))
  BY <1>1, <1>2, FlushQueueType, FlushQueueReleases
<1>4. Become(t) \/ Become(u)
  BY DEF BecomeFlushed
<1> HIDE DEF t
<1>5. CASE Become(u)
  BY <1>5, BecomeAllowed
<1>6. CASE Become(t) /\ t # u
  <2>1. Now' = t /\ cmds' = t.cmds
    BY <1>3, <1>6, BecomeIsNext DEF Become
  <2>2. Now.cmds = cmds /\ Len(cmds) =< MaxCmds
    BY DEF Now, Promise
  <2>3. Len(t.cmds) =< MaxCmds
    BY <1>1, <1>3, <2>2, WithinBound
  <2>4. PICK j : Released(u, t, j)
    BY <1>3, <1>6
  <2> QED BY <1>1, <1>3, <2>1, <2>3, <2>4, FlushedAllowed
<1> QED BY <1>4, <1>5, <1>6

\* A restart forgets what the node held, and nothing else.
LEMMA RebootAllowed ==
  ASSUME Promise, NEW n \in Node, Reboot(n)
  PROVE  [Commands!Next]_(Commands!vars)
<1> DEFINE s == Now
           t == Now'
           K == {k \in 1 .. MaxCmds : \E i \in Index : <<n, i>> \in Slots(s, k)}
<1>1. /\ t.air = s.air /\ t.cmds = s.cmds /\ t.ran = s.ran /\ t.refused = s.refused
      /\ t.queue = queue' /\ s.queue = queue
  BY DEF Reboot, history, Now
<1>2. Once(s) /\ TypeOK
  BY DEF Promise, Fates, Addressing
<1>3. /\ \A i \in Index : t.queue[n][i] = NoFrame
      /\ \A m \in Node, i \in Index : m # n => t.queue[m][i] = s.queue[m][i]
  BY <1>1, <1>2 DEF Reboot, TypeOK
<1> HIDE DEF s, t
<1>4. \A k : (Ran(t, k) <=> Ran(s, k)) /\ (OnItsWay(t, k) <=> OnItsWay(s, k))
  BY <1>1 DEF Ran, OnItsWay
<1>5. ASSUME NEW k, NEW y \in Node \X Index
      PROVE  y \in Slots(t, k) <=> y \in Slots(s, k) /\ y[1] # n
  <2>1. y[1] \in Node /\ y[2] \in Index
    OBVIOUS
  <2> QED BY <1>3, <2>1 DEF Slots
<1>6. \A k : Slots(t, k) \subseteq Node \X Index /\ Slots(s, k) \subseteq Node \X Index
  BY DEF Slots
<1>7. ASSUME NEW k \in 1 .. MaxCmds, k \notin K PROVE Same(s, t, k)
  <2>1. ASSUME NEW y \in Slots(s, k), y[1] = n PROVE FALSE
    <3>1. y \in Node \X Index
      BY <1>6
    <3>2. y = <<n, y[2]>> /\ y[2] \in Index
      BY <2>1, <3>1
    <3> QED BY <1>7, <3>2
  <2>2. \A y \in Node \X Index : y \in Slots(t, k) <=> y \in Slots(s, k)
    BY <1>5, <2>1
  <2>3. Slots(t, k) = Slots(s, k)
    <3> HIDE DEF K
    <3> QED BY <1>6, <2>2
  <2> QED BY <1>1, <1>4, <2>3, SameView
<1>8. ASSUME NEW k \in K
      PROVE  FateIn(s, k) = "held" /\ FateIn(t, k) = "lost" /\ Slots(t, k) = {}
  <2>1. PICK i \in Index : <<n, i>> \in Slots(s, k)
    OBVIOUS
  <2>2. s.queue[n][i] # NoFrame /\ s.queue[n][i].cmd = k
    <3>1. <<n, i>>[1] = n /\ <<n, i>>[2] = i
      OBVIOUS
    <3> QED BY <2>1, <3>1 DEF Slots
  <2>3. k \in DOMAIN s.cmds /\ ~Ran(s, k) /\ k \notin s.refused
    BY <1>2, <2>1, NoRequestLeft
  <2>4. \A y \in Slots(s, k) : y[1] = n
    BY <1>2, <2>2 DEF Once, OnceHeld, Slots
  <2>5. Slots(t, k) = {}
    BY <1>5, <1>6, <2>4
  <2>6. ~OnItsWay(s, k)
    BY <1>2, <2>2 DEF Once, HeldOrInTheAir, OnItsWay
  <2> QED BY <1>1, <1>4, <2>1, <2>3, <2>5, <2>6 DEF FateIn
<1>9. K \in SUBSET (1 .. MaxCmds)
  OBVIOUS
<1> HIDE DEF K
<1>10. \A k \in 1 .. MaxCmds : Map(s)[k] = FateIn(s, k) /\ MapSlots(s)[k] = Slots(s, k)
  BY DEF Map, MapSlots
<1>11. /\ Map(t) = [k \in 1 .. MaxCmds |-> IF k \in K THEN "lost" ELSE Map(s)[k]]
       /\ MapSlots(t) = [k \in 1 .. MaxCmds |-> IF k \in K THEN {} ELSE MapSlots(s)[k]]
       /\ \A k \in K : Map(s)[k] = "held"
  <2>1. \A k \in 1 .. MaxCmds : FateIn(t, k) = IF k \in K THEN "lost" ELSE Map(s)[k]
    BY <1>7, <1>8, <1>10 DEF Same
  <2>2. \A k \in 1 .. MaxCmds : Slots(t, k) = IF k \in K THEN {} ELSE MapSlots(s)[k]
    BY <1>7, <1>8, <1>10 DEF Same
  <2>3. \A k \in K : Map(s)[k] = "held"
    BY <1>8, <1>9, <1>10
  <2> QED BY <2>1, <2>2, <2>3 DEF Map, MapSlots
<1>12. Map(Now)' = Map(t) /\ MapSlots(Now)' = MapSlots(t)
  BY DEF Map, MapSlots, t
<1>13. CASE K = {}
  <2>1. Map(t) = Map(s) /\ MapSlots(t) = MapSlots(s)
    BY <1>11, <1>13 DEF Map, MapSlots
  <2> QED BY <1>12, <2>1, StutterStep DEF s
<1>14. CASE K # {}
  BY <1>9, <1>11, <1>12, <1>14, ForgetStep DEF s
<1> QED BY <1>13, <1>14

LEMMA PromiseNext == Promise /\ [Next]_vars => Promise' /\ [Commands!Next]_(Commands!vars)
<1> SUFFICES ASSUME Promise, [Next]_vars
             PROVE  Promise' /\ [Commands!Next]_(Commands!vars)
  OBVIOUS
<1> DEFINE Goal == Len(cmds)' =< MaxCmds /\ [Commands!Next]_(Commands!vars)
<1>1. /\ Fates' /\ Fates /\ Bindings /\ TypeOK /\ Once(Now) /\ Now \in State
      /\ Now.cmds = cmds /\ Len(cmds) =< MaxCmds
  BY FatesNext, NowType DEF Promise, Fates, Addressing, Now
<1>2. ASSUME NEW n \in Commanders, NEW dest \in Destinations, RequestWrite(n, dest) PROVE Goal
  <2> DEFINE t == SendDownstream(Now, n, dest, TRUE, NoNode)
  <2>1. Once(t) /\ Issued(Now, t)
    BY <1>1, SendDownstreamOnce, SendDownstreamIssues
  <2>2. Become(t) /\ Len(cmds) < MaxCmds
    BY <1>2 DEF RequestWrite
  <2> HIDE DEF t
  <2>3. Progress(Now, t) /\ Within(Now, t)
    BY <1>1, <2>1, <2>2, IssuedMoves DEF Progress, Within, Issued
  <2> QED BY <2>1, <2>2, <2>3, BecomeAllowed
<1>3. ASSUME NEW n \in Reporters, SendReport(n) PROVE Goal
  <2> DEFINE s == DeliverLinks(Now, n, <<>>, n)
             t == SendUpstream(s, n, "Report", 0, 0, 0)
  <2>1. Once(s)
    BY <1>1, DeliverLinksOnce
  <2>2. Become(t) /\ (Len(cmds) < MaxCmds \/ LinksFrom(n, <<>>) = {})
    BY <1>3 DEF SendReport
  <2>3. \/ LinksFrom(n, <<>>) = {} /\ s = Now
        \/ LinksFrom(n, <<>>) # {} /\ Issued(Now, s)
    BY <1>1, DeliverLinksIssues
  <2>4. 0 \in Seqs /\ 0 \in 0 .. MaxHop
    BY DEF Seqs
  <2> HIDE DEF s
  <2>5. Progress(Now, s) /\ Within(Now, s)
    <3>1. CASE s = Now
      BY <3>1 DEF Progress, Within, Same
    <3>2. CASE Len(cmds) < MaxCmds /\ Issued(Now, s)
      BY <1>1, <3>2, IssuedMoves DEF Progress, Within, Issued
    <3> QED BY <2>2, <2>3, <3>1, <3>2
  <2>6. Once(t) /\ t.cmds = s.cmds /\ \A k : Same(s, t, k)
    <3>1. Once(t)
      BY <1>1, <2>1, <2>4, SendUpstreamOnce
    <3>2. t.cmds = s.cmds /\ \A k : Same(s, t, k)
      BY <1>1, <2>1, <2>4, SendUpstreamSame DEF Once
    <3> QED BY <3>1, <3>2
  <2> HIDE DEF t
  <2>7. Progress(Now, t) /\ Within(Now, t)
    BY <2>5, <2>6, MovesSame DEF Within
  <2> QED BY <2>2, <2>6, <2>7, BecomeAllowed
<1>4. ASSUME UNCHANGED <<queue, air, history>> PROVE Goal
  <2> DEFINE s == Now
             t == Now'
  <2>1. /\ t.air = s.air /\ t.queue = s.queue /\ t.cmds = s.cmds /\ t.ran = s.ran
        /\ t.refused = s.refused /\ cmds' = cmds
    BY <1>4 DEF Now, history
  <2>2. Map(Now)' = Map(t) /\ MapSlots(Now)' = MapSlots(t)
    BY DEF Map, MapSlots
  <2> HIDE DEF s, t
  <2>3. \A k : Same(s, t, k)
    BY <2>1 DEF Same, FateIn, Slots, Ran, OnItsWay
  <2>4. UNCHANGED Commands!vars
    BY <2>2, <2>3, MapsAlike, StutterStep DEF s
  <2> QED BY <1>1, <2>1, <2>4
<1>5. ASSUME NEW n \in Battery, Doze(n) PROVE Goal
  BY <1>4, <1>5 DEF Doze
<1>6. ASSUME NEW n \in Restarting, Reboot(n) PROVE Goal
  <2>1. cmds' = cmds
    BY <1>6 DEF Reboot, history
  <2> QED BY <1>1, <1>6, <2>1, RebootAllowed
<1>7. ASSUME NEW from \in Node, NEW n \in Node, NotHeard(from, n) PROVE Goal
  <2> DEFINE t == Now'
             f == Head(air[from][n])
  <2>1. TypeOK' /\ cmds' = cmds
    BY <1>1, <1>7, NextType DEF NotHeard, history
  <2>2. /\ t \in State /\ t.queue = queue /\ t.cmds = cmds /\ t.ran = ran /\ t.refused = refused
        /\ t.air = [air EXCEPT ![from][n] = Tail(@)] /\ air[from][n] # <<>>
    BY <1>7, <2>1 DEF NotHeard, Now, history, TypeOK, State, Run
  <2> HIDE DEF t
  <2>3. IF f.type = "WriteRequest" THEN Lost(Now, t, f.cmd) ELSE \A k : Same(Now, t, k)
    BY <1>1, <2>2, TakenLoses
  <2>4. Progress(Now, t)
    BY <2>3, LostMoves DEF Progress
  <2>5. [Commands!Next]_(Commands!vars)
    BY <1>1, <2>2, <2>4, MovedAllowed DEF t
  <2> QED BY <1>1, <2>1, <2>5
<1>8. ASSUME NEW from \in Node, NEW n \in Node, Receive(from, n) PROVE Goal
  <2>1. PICK u : Once(u) /\ Progress(Now, u) /\ Within(Now, u) /\ BecomeFlushed(u, from, n)
    BY <1>1, <1>8, ReceiveProgress
  <2> QED BY <2>1, BecomeFlushedAllowed
<1>9. ASSUME UNCHANGED vars PROVE Goal
  BY <1>4, <1>9 DEF vars, history
<1> HIDE DEF Goal
<1>10. Goal
  BY <1>2, <1>3, <1>5, <1>6, <1>7, <1>8, <1>9 DEF Next
<1> QED BY <1>1, <1>10 DEF Promise, Goal

\* In every topology each step of the network is one the promise HAPCommands
\* allows: a command is held in one slot at most, behind nothing, moves only
\* while its frame does, is forgotten only with the node that held it, and is
\* over once it ran or was refused.
THEOREM CommandsAreKept == Spec => ImplementsCommands
<1>1. Promise /\ [Next]_vars => [Commands!Next]_(Commands!vars) /\ Promise'
  BY PromiseNext
<1>2. Init => Promise /\ Commands!Init
  BY PromiseInit
<1> QED BY <1>1, <1>2, PTL DEF Spec, ImplementsCommands, Commands!Spec
=============================================================================
