--------------------------- MODULE HAPBinderProofs ---------------------------
(***************************************************************************)
(* Theorems about HAPBinder, for every set of devices, every number of keys *)
(* and children, every cast and every interleaving of handshakes, expiries, *)
(* resets, restarts and losses.                                             *)
(***************************************************************************)
EXTENDS HAPBinder, FiniteSetTheorems, LeastNatural

USE RouterAssumption, BinderAssumption

-----------------------------------------------------------------------------
(* The inductive invariant, in two parts: what each device's own record      *)
(* satisfies, and what relates it to packets and agreements.                *)

\* An address is in a table once.
MacsOnce(t) == \A i, j \in Used(t) : t[i].mac = t[j].mac => i = j

\* The index offered to the pending child is its own or free.
PlaceIsKept(d) ==
  /\ d.pending \in Node /\ d.linkKey \in Key /\ d.pendingIndex \in Index
  /\ \A i \in Used(d.children) : d.children[i].mac = d.pending <=> i = d.pendingIndex

\* What a restart would bring back of the tables.
TablesSaved(d) ==
  /\ d.saved.parent = d.parent /\ d.saved.index = d.index
  /\ d.saved.parent # NoNode => d.saved.key \in Key
  /\ \A i \in Used(d.children) : d.saved.children[i] = d.children[i]

Consistent(d) ==
  /\ MacsOnce(d.children) /\ MacsOnce(d.saved.children)
  /\ TablesSaved(d)
  /\ d.state = "Announcing" => d.parent = NoNode
  /\ d.state \in {"Listening", "Accepting"} => ~TableIsFull(d)
  /\ d.state = "Accepting" =>
       PlaceIsKept(d) /\ d.peers[d.pending] \in {Plain, NoPeer, d.linkKey}

\* The packets on their way from a to b.
Flying(a, b) == {air[a][b][k] : k \in DOMAIN air[a][b]}

\* Packets speak of keys that were made, and a confirmation of a bond.
PacketHolds(a, b, p) ==
  /\ p.type = "Accept" => p.key \in 1 .. keys /\ p.index \in Index
  /\ p.type = "Confirm" =>
       /\ p.seal \in Key
       /\ \E e \in bonds : e.master = b /\ e.slave = a /\ e.key = p.seal

\* The key of a handshake is of that handshake alone: whatever acceptance or
\* bond has it is between the two, about the index that was offered.
KeyIsOwn(n) ==
  LET d == node[n] IN
  /\ d.linkKey \in 1 .. keys
  /\ \A a, b \in Node : \A p \in Flying(a, b) :
       p.type = "Accept" /\ p.key = d.linkKey =>
         a = n /\ b = d.pending /\ p.index = d.pendingIndex
  /\ \A e \in bonds : e.key = d.linkKey =>
       e = [master |-> n, slave |-> d.pending, index |-> d.pendingIndex, key |-> d.linkKey]

Handshakes ==
  /\ \A a, b \in Node : \A p \in Flying(a, b) : PacketHolds(a, b, p)
  /\ \A n \in Node : node[n].state = "Accepting" => KeyIsOwn(n)
  /\ \A e \in bonds : e.key \in 1 .. keys

Inv ==
  /\ TypeOK
  /\ \A n \in Node : Consistent(node[n])
  /\ Handshakes
  /\ RecordedAsAgreed

-----------------------------------------------------------------------------
(* Child tables *)

LEMMA UsedIsFinite ==
  ASSUME NEW t
  PROVE  /\ Used(t) \in SUBSET Index /\ IsFiniteSet(Used(t))
         /\ Cardinality(Used(t)) \in Nat
<1>1. Used(t) \in SUBSET Index
  BY DEF Used
<1>2. IsFiniteSet(Index)
  BY FS_Interval DEF Index
<1>3. IsFiniteSet(Used(t))
  BY <1>1, <1>2, FS_Subset
<1> QED BY <1>1, <1>3, FS_CardinalityType

\* childByMac() finds the one entry an address has, if it has one.
LEMMA ByMac ==
  ASSUME NEW t, MacsOnce(t), NEW m
  PROVE  /\ ChildByMac(t, m) = 0 \/ ChildByMac(t, m) \in Used(t)
         /\ \A i \in Used(t) : t[i].mac = m <=> i = ChildByMac(t, m)
<1>1. Used(t) \subseteq Index /\ 0 \notin Index
  BY DEF Used, Index
<1>2. CASE IndicesOf(t, m) = {}
  BY <1>1, <1>2 DEF ChildByMac, IndicesOf
<1>3. CASE IndicesOf(t, m) # {}
  <2>1. ChildByMac(t, m) \in IndicesOf(t, m)
    BY <1>3 DEF ChildByMac
  <2> QED BY <2>1 DEF IndicesOf, MacsOnce
<1> QED BY <1>2, <1>3

\* A table that is not full has a lowest free index, and freeChildIndex() is it.
LEMMA FreeIndex ==
  ASSUME NEW d \in Device, ~TableIsFull(d)
  PROVE  FreeChildIndex(d) \in Index \ Used(d.children)
<1> DEFINE U == Used(d.children)
<1>1. U \in SUBSET Index /\ IsFiniteSet(U) /\ Cardinality(U) \in Nat
  BY UsedIsFinite
<1>2. IsFiniteSet(Index) /\ Cardinality(Index) = MaxChildren
  BY FS_Interval DEF Index
<1>3. ChildCapacity(d) =< MaxChildren /\ ChildCapacity(d) \in Int
  BY DEF ChildCapacity
<1>4. Cardinality(U) < MaxChildren
  BY <1>1, <1>3 DEF TableIsFull
<1>5. Index \ U # {}
  <2>1. U # Index
    BY <1>2, <1>4
  <2> QED BY <1>1, <2>1
<1>6. Index \ U \subseteq Nat
  BY DEF Index
<1>7. \E i \in Index \ U : \A j \in Index \ U : i =< j
  BY <1>5, <1>6, LeastExists
<1> QED BY <1>7 DEF FreeChildIndex

\* An index that is offered is the announcing device's own, or free.
LEMMA Offered ==
  ASSUME NEW d \in Device, MacsOnce(d.children), NEW m, OfferedIndex(d, m) # 0
  PROVE  /\ OfferedIndex(d, m) \in Index
         /\ \A i \in Used(d.children) : d.children[i].mac = m <=> i = OfferedIndex(d, m)
<1> DEFINE r == ChildByMac(d.children, m)
<1>1. /\ r = 0 \/ r \in Used(d.children)
      /\ \A i \in Used(d.children) : d.children[i].mac = m <=> i = r
  BY ByMac
<1>2. Used(d.children) \subseteq Index /\ 0 \notin Index
  BY DEF Used, Index
<1>3. CASE r # 0
  BY <1>1, <1>2, <1>3 DEF OfferedIndex
<1>4. CASE r = 0
  <2>1. OfferedIndex(d, m) = FreeChildIndex(d)
    BY <1>4 DEF OfferedIndex
  <2>2. ~TableIsFull(d)
    BY <2>1 DEF FreeChildIndex
  <2> QED BY <1>1, <1>2, <1>4, <2>1, <2>2, FreeIndex
<1> QED BY <1>3, <1>4

\* A table takes a new entry in a place of its own.
LEMMA AddedOnce ==
  ASSUME NEW t \in Table, MacsOnce(t), NEW i \in Index, NEW c \in Child,
         \A j \in Used(t) : t[j].mac # c.mac \/ j = i
  PROVE  /\ AddChild(t, i, c) \in Table
         /\ MacsOnce(AddChild(t, i, c))
         /\ \A j \in Used(AddChild(t, i, c)) : j = i \/ j \in Used(t)
<1>1. AddChild(t, i, c) \in Table
  BY DEF AddChild, Table
<1>2. \A j \in Used(AddChild(t, i, c)) : j = i \/ (j \in Used(t) /\ AddChild(t, i, c)[j] = t[j])
  BY DEF AddChild, Used, Table
<1>3. AddChild(t, i, c)[i] = c
  BY DEF AddChild, Table
<1> QED BY <1>1, <1>2, <1>3 DEF MacsOnce

-----------------------------------------------------------------------------
(* What each operator on a device's record leaves of it *)

SameTables(e, d) ==
  e.parent = d.parent /\ e.index = d.index /\ e.children = d.children /\ e.saved = d.saved

SameHandshake(e, d) ==
  e.pending = d.pending /\ e.pendingIndex = d.pendingIndex /\ e.linkKey = d.linkKey

LEMMA InState ==
  ASSUME NEW d \in Device,
         NEW s \in {"Idle", "Listening", "Accepting", "Announcing", "Bound"}
  PROVE  LET e == [d EXCEPT !.state = s] IN
         /\ e \in Device /\ SameTables(e, d) /\ SameHandshake(e, d)
         /\ e.state = s /\ e.peers = d.peers
<1>1. [d EXCEPT !.state = s] \in Device
  BY DEF Device
<1> QED BY <1>1 DEF Device, SameTables, SameHandshake

LEMMA WithReports ==
  ASSUME NEW d \in Device, NEW r \in Seq(Node)
  PROVE  LET e == [d EXCEPT !.reports = r] IN
         /\ e \in Device /\ SameTables(e, d) /\ SameHandshake(e, d)
         /\ e.state = d.state /\ e.peers = d.peers /\ e.reports = r
<1>1. [d EXCEPT !.reports = r] \in Device
  BY DEF Device
<1> QED BY <1>1 DEF Device, SameTables, SameHandshake

LEMMA AddPeerKeeps ==
  ASSUME NEW d \in Device, NEW m \in Node, NEW k \in Key \cup {Plain}
  PROVE  /\ AddPeer(d, m, k) \in Device
         /\ SameTables(AddPeer(d, m, k), d) /\ SameHandshake(AddPeer(d, m, k), d)
         /\ AddPeer(d, m, k).state = d.state
         /\ AddPeer(d, m, k).keySwitched = d.keySwitched
         /\ AddPeer(d, m, k).reports = d.reports
         /\ \A x \in Node \ {m} : AddPeer(d, m, k).peers[x] = d.peers[x]
         /\ AddPeer(d, m, k).peers[m] \in {k, d.peers[m]}
  BY DEF AddPeer, Device, SameTables, SameHandshake

LEMMA RemovePeerKeeps ==
  ASSUME NEW d \in Device, NEW m \in Node
  PROVE  /\ RemovePeer(d, m) \in Device
         /\ SameTables(RemovePeer(d, m), d) /\ SameHandshake(RemovePeer(d, m), d)
         /\ RemovePeer(d, m).state = d.state
         /\ RemovePeer(d, m).reports = d.reports
         /\ RemovePeer(d, m).peers[m] = NoPeer
         /\ \A x \in Node \ {m} : RemovePeer(d, m).peers[x] = d.peers[x]
  BY DEF RemovePeer, Device, SameTables, SameHandshake

LEMMA AbandonKeeps ==
  ASSUME NEW d \in Device
  PROVE  /\ AbandonAccept(d) \in Device
         /\ SameTables(AbandonAccept(d), d)
         /\ AbandonAccept(d).state = d.state
         /\ AbandonAccept(d).reports = d.reports
         /\ AbandonAccept(d).pending = NoNode
         /\ \A x \in Node \ {d.pending} : AbandonAccept(d).peers[x] = d.peers[x]
<1> DEFINE e == IF d.pending = NoNode THEN d ELSE RemovePeer(d, d.pending)
<1>1. e \in Device /\ SameTables(e, d) /\ e.state = d.state /\ e.reports = d.reports
      /\ \A x \in Node \ {d.pending} : e.peers[x] = d.peers[x]
  BY RemovePeerKeeps DEF Device, SameTables
<1>2. AbandonAccept(d) = [e EXCEPT !.pending = NoNode, !.pendingIndex = 0, !.keySwitched = FALSE]
  BY DEF AbandonAccept
<1> HIDE DEF e
<1>3. AbandonAccept(d) \in Device
  <2>1. 0 \in 0 .. MaxChildren
    OBVIOUS
  <2> QED BY <1>1, <1>2, <2>1 DEF Device
<1>4. /\ SameTables(AbandonAccept(d), e) /\ AbandonAccept(d).state = e.state
      /\ AbandonAccept(d).reports = e.reports /\ AbandonAccept(d).peers = e.peers
      /\ AbandonAccept(d).pending = NoNode
  BY <1>1, <1>2 DEF Device, SameTables
<1> QED BY <1>1, <1>3, <1>4 DEF SameTables

LEMMA SwitchKeeps ==
  ASSUME NEW d \in Device, d.linkKey \in Key
  PROVE  /\ SwitchToEncrypted(d) \in Device
         /\ SameTables(SwitchToEncrypted(d), d) /\ SameHandshake(SwitchToEncrypted(d), d)
         /\ SwitchToEncrypted(d).state = d.state
         /\ SwitchToEncrypted(d).reports = d.reports
         /\ \A x \in Node \ {d.pending} : SwitchToEncrypted(d).peers[x] = d.peers[x]
         /\ d.pending \in Node =>
              SwitchToEncrypted(d).peers[d.pending] \in {d.linkKey, d.peers[d.pending]}
<1>1. CASE d.keySwitched \/ d.pending = NoNode
  BY <1>1 DEF SwitchToEncrypted, SameTables, SameHandshake
<1>2. CASE ~(d.keySwitched \/ d.pending = NoNode)
  <2> DEFINE e == AddPeer(d, d.pending, d.linkKey)
  <2>1. d.pending \in Node
    BY <1>2 DEF Device
  <2>2. /\ e \in Device /\ SameTables(e, d) /\ SameHandshake(e, d)
        /\ e.state = d.state /\ e.reports = d.reports
        /\ \A x \in Node \ {d.pending} : e.peers[x] = d.peers[x]
        /\ e.peers[d.pending] \in {d.linkKey, d.peers[d.pending]}
    BY <2>1, AddPeerKeeps
  <2>3. SwitchToEncrypted(d) = [e EXCEPT !.keySwitched = TRUE]
    BY <1>2 DEF SwitchToEncrypted
  <2> HIDE DEF e
  <2> QED BY ZenonT(60), <2>2, <2>3 DEF Device, SameTables, SameHandshake
<1> QED BY <1>1, <1>2

LEMMA AcceptingKeeps ==
  ASSUME NEW d \in Device, NEW m \in Node, NEW i \in Index, NEW k \in Key
  PROVE  LET e == Accepting(d, m, i, k) IN
         /\ e \in Device /\ SameTables(e, d)
         /\ e.state = "Accepting" /\ e.reports = d.reports
         /\ e.pending = m /\ e.pendingIndex = i /\ e.linkKey = k
         /\ e.peers[m] = Plain
         /\ \A x \in Node \ {m} : e.peers[x] = d.peers[x]
<1> DEFINE f == [d EXCEPT !.state = "Accepting", !.pending = m, !.pendingIndex = i,
                          !.keySwitched = FALSE, !.linkKey = k]
<1>4. i \in 0 .. MaxChildren
  BY DEF Index
<1>5. f \in Device
  BY <1>4 DEF Device
<1>1. SameTables(f, d) /\ f.state = "Accepting" /\ f.pending = m
      /\ f.pendingIndex = i /\ f.linkKey = k /\ f.peers = d.peers /\ f.reports = d.reports
  BY DEF Device, SameTables
<1>2. Accepting(d, m, i, k) = AddPeer(f, m, Plain)
  BY DEF Accepting
<1>3. AddPeer(f, m, Plain).peers[m] = Plain
  BY <1>1, <1>5 DEF AddPeer, PeerFits, Device
<1> HIDE DEF f
<1>6. Plain \in Key \cup {Plain}
  OBVIOUS
<1> QED BY SMTT(30), <1>1, <1>2, <1>3, <1>5, <1>6, AddPeerKeeps DEF SameTables, SameHandshake

\* The child that confirms takes the index it was offered, in place of its own
\* old entry if it had one: there is always room for it.
LEMMA RecordedKeeps ==
  ASSUME NEW d \in Device, MacsOnce(d.children), PlaceIsKept(d), ~TableIsFull(d)
  PROVE  LET e == Recorded(d) IN
         /\ e \in Device /\ e.state = "Idle"
         /\ MacsOnce(e.children)
         /\ e.children[d.pendingIndex] = [mac |-> d.pending, key |-> d.linkKey]
         /\ Used(e.children) = Used(d.children) \cup {d.pendingIndex}
         /\ \A i \in Index \ {d.pendingIndex} : e.children[i] = d.children[i]
         /\ e.parent = d.parent /\ e.index = d.index /\ e.saved = d.saved
         /\ e.peers = d.peers /\ e.reports = d.reports /\ SameHandshake(e, d)
<1> DEFINE r == ChildByMac(d.children, d.pending)
           x == d.pendingIndex
           freed == IF r = 0 THEN d ELSE [d EXCEPT !.children = RemoveChild(@, r)]
           c == [mac |-> d.pending, key |-> d.linkKey]
           e == [freed EXCEPT !.state = "Idle", !.children = AddChild(@, x, c)]
<1>1. x \in Index /\ d.pending \in Node /\ d.linkKey \in Key /\ c \in Child
      /\ \A i \in Used(d.children) : d.children[i].mac = d.pending <=> i = x
  BY DEF PlaceIsKept, Child
<1>2. r = 0 \/ (r = x /\ x \in Used(d.children))
  BY <1>1, ByMac
<1>3. r = 0 => x \notin Used(d.children)
  BY <1>1, ByMac DEF Used, Index
<1>4. d.children \in Table /\ NoChild \notin Child
  BY DEF Device, Child
<1>5. /\ freed \in Device /\ freed.children \in Table /\ freed.children[x] = NoChild
      /\ \A i \in Index \ {x} : freed.children[i] = d.children[i]
  <2>1. CASE r = 0
    BY <1>1, <1>3, <1>4, <2>1 DEF Used
  <2>2. CASE r = x
    <3>1. RemoveChild(d.children, x) \in Table
      BY <1>1, <1>4 DEF RemoveChild, Table
    <3>2. freed = [d EXCEPT !.children = RemoveChild(@, x)]
      BY <1>1, <2>2 DEF Index
    <3>3. freed \in Device /\ freed.children = RemoveChild(d.children, x)
      BY <3>1, <3>2 DEF Device
    <3> QED BY <1>1, <1>4, <3>1, <3>3 DEF RemoveChild, Table
  <2> QED BY <1>2, <2>1, <2>2
<1>6. freed.parent = d.parent /\ freed.index = d.index /\ freed.saved = d.saved
      /\ freed.peers = d.peers /\ freed.reports = d.reports /\ SameHandshake(freed, d)
  BY DEF Device, SameHandshake
<1>7. Used(freed.children) = Used(d.children) \ {x}
  BY <1>1, <1>5 DEF Used
<1>8. Recorded(d) = IF MayAddChild(freed, x, d.pending) THEN e ELSE AbandonAccept(freed)
  BY <1>6 DEF Recorded, SameHandshake
<1> HIDE DEF freed, r
<1>9. MayAddChild(freed, x, d.pending)
  <2>1. Cardinality(Used(freed.children)) =< Cardinality(Used(d.children))
    BY <1>7, UsedIsFinite, FS_Subset
  <2>2. ~TableIsFull(freed)
    <3>1. ChildCapacity(freed) = ChildCapacity(d) /\ ChildCapacity(d) \in Int
      BY <1>6 DEF ChildCapacity
    <3> QED BY <2>1, <3>1, UsedIsFinite DEF TableIsFull
  <2>3. IndicesOf(freed.children, d.pending) = {}
    <3>1. ASSUME NEW i \in IndicesOf(freed.children, d.pending) PROVE FALSE
      <4>1. i \in Used(d.children) /\ i # x /\ i \in Index
        BY <1>7, <3>1 DEF IndicesOf, Used
      <4>2. d.children[i].mac = d.pending
        BY <1>5, <4>1, <3>1 DEF IndicesOf
      <4> QED BY <1>1, <4>1, <4>2
    <3> QED BY <3>1
  <2> QED BY <1>1, <1>5, <2>2, <2>3 DEF MayAddChild
<1>10. Recorded(d) = e
  BY <1>8, <1>9
<1>11. /\ e.children = AddChild(freed.children, x, c) /\ e.state = "Idle"
       /\ e.parent = d.parent /\ e.index = d.index /\ e.saved = d.saved
       /\ e.peers = d.peers /\ e.reports = d.reports /\ SameHandshake(e, d)
  BY <1>5, <1>6 DEF Device, SameHandshake
<1>12. /\ AddChild(freed.children, x, c) \in Table
       /\ MacsOnce(AddChild(freed.children, x, c))
  <2>1. MacsOnce(freed.children)
    BY <1>5, <1>7 DEF MacsOnce, Used
  <2>2. \A j \in Used(freed.children) : freed.children[j].mac # c.mac
    BY <1>1, <1>5, <1>7 DEF Used
  <2> QED BY <1>1, <1>5, <2>1, <2>2, AddedOnce
<1>13. e \in Device
  BY <1>5, <1>11, <1>12 DEF Device
<1>14. /\ e.children[x] = c
       /\ \A i \in Index \ {x} : e.children[i] = d.children[i]
  BY <1>1, <1>5, <1>11 DEF AddChild, Table
<1>15. Used(e.children) = Used(d.children) \cup {x}
  BY <1>1, <1>4, <1>14 DEF Used
<1> QED BY <1>10, <1>11, <1>12, <1>13, <1>14, <1>15

\* What a restart loads is of what was saved.
LEMMA LoadableKeeps ==
  ASSUME NEW d \in Device, NEW t \in Loadable(d)
  PROVE  /\ t \in Table
         /\ Used(t) \subseteq Used(d.saved.children)
         /\ \A i \in Used(t) : t[i] = d.saved.children[i]
         /\ MacsOnce(d.saved.children) => MacsOnce(t)
<1> DEFINE s == d.saved.children
<1>1. PICK I \in SUBSET Used(s) : t = [i \in Index |-> IF i \in I THEN s[i] ELSE NoChild]
  BY DEF Loadable
<1>2. s \in Table
  BY DEF Device, Saved
<1>3. t \in Table
  BY <1>1, <1>2 DEF Table
<1>4. \A i \in Used(t) : i \in Used(s) /\ t[i] = s[i]
  BY <1>1 DEF Used
<1> QED BY <1>3, <1>4 DEF MacsOnce

LEMMA NothingUsed ==
  /\ EmptyTable \in Table /\ Used(EmptyTable) = {} /\ MacsOnce(EmptyTable)
  /\ Forgotten \in Saved
<1>1. EmptyTable \in Table /\ Used(EmptyTable) = {}
  BY DEF EmptyTable, Table, Used
<1>2. 0 \in 0 .. MaxChildren /\ NoKey \in Key \cup {NoKey}
  OBVIOUS
<1> QED BY <1>1, <1>2 DEF Forgotten, Saved, MacsOnce

LEMMA BlankKeeps == Blank \in Device /\ Consistent(Blank)
<1>1. /\ 0 \in 0 .. MaxChildren /\ NoKey \in Key \cup {NoKey} /\ <<>> \in Seq(Node)
      /\ [m \in Node |-> NoPeer] \in [Node -> Key \cup {NoPeer, Plain}]
  OBVIOUS
<1>2. Blank \in Device
  BY NothingUsed, <1>1 DEF Blank, Device
<1> QED BY NothingUsed, <1>2 DEF Blank, Forgotten, Consistent, TablesSaved

LEMMA RestartedKeeps ==
  ASSUME NEW d \in Device, MacsOnce(d.saved.children),
         d.saved.parent # NoNode => d.saved.key \in Key,
         NEW t \in Loadable(d)
  PROVE  LET e == Restarted(d, t) IN
         /\ e \in Device /\ Consistent(e)
         /\ e.state = "Idle" /\ e.children = t /\ e.saved = d.saved
         /\ e.parent = d.saved.parent /\ e.reports = <<>> /\ e.pending = NoNode
<1> DEFINE e == Restarted(d, t)
           p == RestoredPeers(d, t)
<1>1. /\ t \in Table /\ MacsOnce(t)
      /\ \A i \in Used(t) : t[i] = d.saved.children[i]
  BY LoadableKeeps
<1>2. d.saved \in Saved
  BY DEF Device
<1>3. p \in [Node -> Key \cup {NoPeer, Plain}]
  <2>1. ASSUME NEW m \in Node PROVE p[m] \in Key \cup {NoPeer, Plain}
    <3>1. CASE ChildByMac(t, m) # 0
      <4>1. ChildByMac(t, m) \in Used(t)
        BY <1>1, <3>1, ByMac
      <4>2. t[ChildByMac(t, m)] \in Child
        BY <1>1, <4>1 DEF Used, Table
      <4> QED BY <3>1, <4>2 DEF RestoredPeers, Child
    <3>2. CASE ChildByMac(t, m) = 0
      BY <3>2 DEF RestoredPeers
    <3> QED BY <3>1, <3>2
  <2> QED BY <2>1 DEF RestoredPeers
<1>4. /\ e.state = "Idle" /\ e.children = t /\ e.saved = d.saved /\ e.index = d.saved.index
      /\ e.parent = d.saved.parent /\ e.reports = <<>> /\ e.pending = NoNode
  BY DEF Restarted, Blank
<1>5. e \in Device
  <2>1. d.saved.parent \in Node \cup {NoNode} /\ d.saved.index \in 0 .. MaxChildren
    BY <1>2 DEF Saved
  <2>2. e = [Blank EXCEPT !.parent = d.saved.parent, !.index = d.saved.index,
                          !.children = t, !.peers = p, !.saved = d.saved]
    BY DEF Restarted
  <2> HIDE DEF e, p
  <2> QED BY BlankKeeps, <1>1, <1>2, <1>3, <2>1, <2>2 DEF Device
<1>6. TablesSaved(e)
  BY <1>1, <1>4 DEF TablesSaved
<1> QED BY <1>1, <1>4, <1>5, <1>6 DEF Consistent

LEMMA ResetKeeps ==
  ASSUME NEW d \in Device, Consistent(d)
  PROVE  LET e == Reset(d) IN
         /\ e \in Device /\ Consistent(e)
         /\ e.state = d.state /\ SameHandshake(e, d) /\ e.reports = d.reports
         /\ Used(e.children) = {} /\ Used(e.saved.children) = {}
         /\ e.saved = Forgotten
<1> DEFINE e == Reset(d)
<1>3. /\ e.parent = NoNode /\ e.index = 0 /\ e.children = EmptyTable /\ e.saved = Forgotten
      /\ e.state = d.state /\ SameHandshake(e, d) /\ e.reports = d.reports
      /\ \A m \in Node : e.peers[m] \in {NoPeer, d.peers[m]}
  BY DEF Reset, Device, SameHandshake
<1>4. e \in Device
  <2> DEFINE q == [m \in Node |-> IF m = d.saved.parent \/ m \in Macs(d.children)
                                 THEN NoPeer ELSE d.peers[m]]
  <2>1. q \in [Node -> Key \cup {NoPeer, Plain}] /\ 0 \in 0 .. MaxChildren
    BY DEF Device
  <2>2. e = [d EXCEPT !.parent = NoNode, !.index = 0, !.children = EmptyTable,
                      !.saved = Forgotten, !.peers = q]
    BY DEF Reset
  <2> HIDE DEF e, q
  <2> QED BY NothingUsed, <2>1, <2>2 DEF Device
<1> HIDE DEF e
<1>6. TablesSaved(e)
  BY NothingUsed, <1>3 DEF TablesSaved, Forgotten
<1>7. ~TableIsFull(e)
  <2>1. Cardinality(Used(e.children)) = 0
    BY NothingUsed, <1>3, FS_EmptySet
  <2> QED BY <1>3, <2>1 DEF TableIsFull, ChildCapacity
<1>8. e.state = "Accepting" =>
        PlaceIsKept(e) /\ e.peers[e.pending] \in {Plain, NoPeer, e.linkKey}
  BY NothingUsed, <1>3 DEF Consistent, PlaceIsKept, SameHandshake
<1>9. e.saved.children = EmptyTable
  BY <1>3 DEF Forgotten
<1>10. Consistent(e)
  BY NothingUsed, <1>3, <1>6, <1>7, <1>8, <1>9 DEF Consistent
<1> QED BY NothingUsed, <1>3, <1>4, <1>9, <1>10 DEF e

\* A device that keeps its tables keeps what is consistent about them.
LEMMA ConsistentKept ==
  ASSUME NEW d \in Device, Consistent(d), NEW e \in Device, SameTables(e, d),
         e.state = "Announcing" => d.parent = NoNode,
         e.state \in {"Listening", "Accepting"} => ~TableIsFull(d),
         e.state = "Accepting" =>
           PlaceIsKept(e) /\ e.peers[e.pending] \in {Plain, NoPeer, e.linkKey}
  PROVE  Consistent(e)
<1>1. TableIsFull(e) <=> TableIsFull(d)
  BY DEF SameTables, TableIsFull, ChildCapacity
<1>2. TablesSaved(e)
  BY DEF Consistent, TablesSaved, SameTables
<1> QED BY <1>1, <1>2 DEF Consistent, SameTables

-----------------------------------------------------------------------------
(* Steps *)

\* What device n's tables say was agreed is among the agreements B.
AgreedIn(n, d, B) ==
  \A t \in {d.children, d.saved.children} : \A i \in Used(t) :
    [master |-> n, slave |-> t[i].mac, index |-> i, key |-> t[i].key] \in B

LEMMA RestartAgreed ==
  ASSUME NEW n \in Node, NEW B, NEW d \in Device, AgreedIn(n, d, B), NEW t \in Loadable(d)
  PROVE  AgreedIn(n, Restarted(d, t), B)
<1>1. Restarted(d, t).children = t /\ Restarted(d, t).saved = d.saved
  BY DEF Restarted, Blank
<1>2. Used(t) \subseteq Used(d.saved.children) /\ \A i \in Used(t) : t[i] = d.saved.children[i]
  BY LoadableKeeps
<1> QED BY <1>1, <1>2 DEF AgreedIn

LEMMA TakeKeeps ==
  ASSUME TypeOK, NEW from \in Node, NEW n \in Node, air[from][n] # <<>>, Take(from, n)
  PROVE  /\ air' \in [Node -> [Node -> Seq(Packet)]]
         /\ \A a, b \in Node : Flying(a, b)' \subseteq Flying(a, b)
<1>1. air \in [Node -> [Node -> Seq(Packet)]]
  BY DEF TypeOK
<1>2. Tail(air[from][n]) \in Seq(Packet)
  BY <1>1
<1>3. air' = [air EXCEPT ![from] = [air[from] EXCEPT ![n] = Tail(air[from][n])]]
  BY DEF Take
<1>4. air' \in [Node -> [Node -> Seq(Packet)]]
  BY <1>1, <1>2, <1>3
<1>5. ASSUME NEW a \in Node, NEW b \in Node PROVE Flying(a, b)' \subseteq Flying(a, b)
  <2>1. CASE a = from /\ b = n
    <3>1. air'[a][b] = Tail(air[a][b])
      BY <1>1, <1>3, <2>1
    <3>2. \A k \in DOMAIN Tail(air[a][b]) :
            Tail(air[a][b])[k] = air[a][b][k + 1] /\ k + 1 \in DOMAIN air[a][b]
      BY <1>1, <2>1
    <3> QED BY <3>1, <3>2 DEF Flying
  <2>2. CASE ~(a = from /\ b = n)
    BY <1>1, <1>3, <2>2 DEF Flying
  <2> QED BY <2>1, <2>2
<1> QED BY <1>4, <1>5

LEMMA AnswerKeeps ==
  ASSUME TypeOK, NEW from \in Node, NEW n \in Node, NEW p \in Packet,
         air[from][n] # <<>>, Answer(from, n, p)
  PROVE  /\ air' \in [Node -> [Node -> Seq(Packet)]]
         /\ \A a, b \in Node : \A q \in Flying(a, b)' :
              q \in Flying(a, b) \/ (a = n /\ b = from /\ q = p)
<1> DEFINE taken == [air EXCEPT ![from][n] = Tail(@)]
<1>1. air \in [Node -> [Node -> Seq(Packet)]]
  BY DEF TypeOK
<1>2. Tail(air[from][n]) \in Seq(Packet)
  BY <1>1
<1>3. taken \in [Node -> [Node -> Seq(Packet)]]
  BY <1>1, <1>2
<1>4. air' = [taken EXCEPT ![n][from] = Append(@, p)]
  BY DEF Answer
<1>5. \A a, b \in Node : \A k \in DOMAIN taken[a][b] : taken[a][b][k] \in Flying(a, b)
  <2>1. ASSUME NEW a \in Node, NEW b \in Node, NEW k \in DOMAIN taken[a][b]
        PROVE  taken[a][b][k] \in Flying(a, b)
    <3>1. CASE a = from /\ b = n
      <4>1. taken[a][b] = Tail(air[a][b])
        BY <1>1, <3>1
      <4>2. taken[a][b][k] = air[a][b][k + 1] /\ k + 1 \in DOMAIN air[a][b]
        BY <1>1, <2>1, <3>1, <4>1
      <4> QED BY <4>2 DEF Flying
    <3>2. CASE ~(a = from /\ b = n)
      BY <1>1, <2>1, <3>2 DEF Flying
    <3> QED BY <3>1, <3>2
  <2> QED BY <2>1
<1> HIDE DEF taken
<1>6. Append(taken[n][from], p) \in Seq(Packet)
  BY <1>3
<1>7. air' \in [Node -> [Node -> Seq(Packet)]]
  BY <1>3, <1>4, <1>6
<1>8. ASSUME NEW a \in Node, NEW b \in Node, NEW q \in Flying(a, b)'
      PROVE  q \in Flying(a, b) \/ (a = n /\ b = from /\ q = p)
  <2>1. PICK k \in DOMAIN air'[a][b] : q = air'[a][b][k]
    BY <1>8 DEF Flying
  <2>2. CASE a = n /\ b = from
    <3>1. air'[a][b] = Append(taken[a][b], p) /\ taken[a][b] \in Seq(Packet)
      BY <1>3, <1>4, <2>2
    <3>2. q = p \/ (k \in DOMAIN taken[a][b] /\ q = taken[a][b][k])
      BY <2>1, <3>1
    <3> QED BY <1>5, <2>2, <3>2
  <2>3. CASE ~(a = n /\ b = from)
    BY <1>3, <1>4, <1>5, <2>1, <2>3
  <2> QED BY <2>2, <2>3
<1> QED BY <1>7, <1>8

\* A device that comes out of a step consistent, by itself and with what was
\* agreed, in the handshake it was in if in one, leaves the invariant standing.
LEMMA DeviceStep ==
  ASSUME Inv, NEW n \in Node, NEW e \in Device, Update(n, e), Consistent(e),
         AgreedIn(n, e, bonds),
         e.state = "Accepting" => node[n].state = "Accepting" /\ SameHandshake(e, node[n]),
         air' \in [Node -> [Node -> Seq(Packet)]],
         \A a, b \in Node : \A q \in Flying(a, b)' : q \in Flying(a, b) \/ q.type = "Announce",
         keys' = keys, bonds' = bonds
  PROVE  Inv'
<1>1. node \in [Node -> Device] /\ node' = [node EXCEPT ![n] = e]
  BY DEF Inv, TypeOK, Update
<1>2. TypeOK'
  BY <1>1 DEF Inv, TypeOK
<1>3. \A m \in Node : Consistent(node'[m])
  BY <1>1 DEF Inv
<1>4. Handshakes'
  <2>1. \A a, b \in Node : \A q \in Flying(a, b)' : PacketHolds(a, b, q)'
    BY DEF Inv, Handshakes, PacketHolds
  <2>2. ASSUME NEW m \in Node, node'[m].state = "Accepting" PROVE KeyIsOwn(m)'
    <3>1. node[m].state = "Accepting" /\ SameHandshake(node'[m], node[m])
      BY <1>1, <2>2 DEF SameHandshake
    <3>2. KeyIsOwn(m)
      BY <3>1 DEF Inv, Handshakes
    <3> QED BY SMTT(30), <3>1, <3>2 DEF KeyIsOwn, SameHandshake
  <2> QED BY <2>1, <2>2 DEF Inv, Handshakes
<1>5. RecordedAsAgreed'
  BY <1>1 DEF Inv, RecordedAsAgreed, AgreedIn
<1> QED BY <1>2, <1>3, <1>4, <1>5 DEF Inv

\* The same when nothing but the device changes.
LEMMA LocalStep ==
  ASSUME Inv, NEW n \in Node, NEW e \in Device, Update(n, e), Consistent(e),
         AgreedIn(n, e, bonds),
         e.state = "Accepting" => node[n].state = "Accepting" /\ SameHandshake(e, node[n]),
         UNCHANGED <<air, keys, bonds, cast>>
  PROVE  Inv'
<1>1. air' \in [Node -> [Node -> Seq(Packet)]]
  BY DEF Inv, TypeOK
<1>2. \A a, b \in Node : Flying(a, b)' = Flying(a, b)
  BY DEF Flying
<1> QED BY <1>1, <1>2, DeviceStep

LEMMA OfInv ==
  ASSUME Inv, NEW n \in Node
  PROVE  /\ node[n] \in Device /\ Consistent(node[n]) /\ AgreedIn(n, node[n], bonds)
         /\ node[n].state = "Accepting" => node[n].linkKey \in Key
BY DEF Inv, TypeOK, RecordedAsAgreed, AgreedIn, Consistent, PlaceIsKept

LEMMA ListenStep == ASSUME Inv, NEW n \in Node, Listen(n) PROVE Inv'
<1> DEFINE e == [node[n] EXCEPT !.state = "Listening"]
<1>1. e \in Device /\ SameTables(e, node[n]) /\ e.state = "Listening"
  BY OfInv, InState
<1>2. Update(n, e) /\ ~TableIsFull(node[n]) /\ UNCHANGED <<air, keys, bonds, cast>>
  BY DEF Listen
<1> HIDE DEF e
<1>3. Consistent(e) /\ AgreedIn(n, e, bonds)
  BY <1>1, <1>2, OfInv, ConsistentKept DEF AgreedIn, SameTables
<1> QED BY <1>1, <1>2, <1>3, LocalStep

\* A handshake that is abandoned, whatever state the device goes on in.
LEMMA AbandonStep ==
  ASSUME Inv, NEW n \in Node, NEW s \in {"Idle", "Listening"},
         node[n].state \in {"Listening", "Accepting"},
         Update(n, [AbandonAccept(node[n]) EXCEPT !.state = s]),
         UNCHANGED <<air, keys, bonds, cast>>
  PROVE  Inv'
<1> DEFINE f == AbandonAccept(node[n])
           e == [f EXCEPT !.state = s]
<1>1. f \in Device /\ SameTables(f, node[n])
  BY OfInv, AbandonKeeps
<1>2. ~TableIsFull(node[n])
  BY OfInv DEF Consistent
<1> HIDE DEF f
<1>3. e \in Device /\ SameTables(e, node[n]) /\ e.state = s
  <2>1. e \in Device /\ SameTables(e, f) /\ e.state = s
    BY ZenonT(60), <1>1, InState
  <2> QED BY <1>1, <2>1 DEF SameTables
<1>4. Update(n, e)
  BY DEF f
<1> HIDE DEF e
<1>5. Consistent(e) /\ AgreedIn(n, e, bonds)
  BY <1>2, <1>3, OfInv, ConsistentKept DEF AgreedIn, SameTables
<1> QED BY <1>3, <1>4, <1>5, LocalStep

LEMMA StopListeningStep == ASSUME Inv, NEW n \in Node, StopListening(n) PROVE Inv'
  BY AbandonStep DEF StopListening

LEMMA ConfirmExpiresStep == ASSUME Inv, NEW n \in Node, ConfirmExpires(n) PROVE Inv'
  BY AbandonStep DEF ConfirmExpires

LEMMA AnnounceStep == ASSUME Inv, NEW n \in Node, Announce(n) PROVE Inv'
<1> DEFINE e == [node[n] EXCEPT !.state = "Announcing"]
<1>1. PICK H \in SUBSET (Node \ {n}) :
        air' = [air EXCEPT ![n] = [m \in Node |-> IF m \in H THEN <<Announcement>> ELSE @[m]]]
  BY DEF Announce
<1>2. e \in Device /\ SameTables(e, node[n]) /\ e.state = "Announcing"
  BY OfInv, InState
<1>3. Update(n, e) /\ node[n].parent = NoNode /\ UNCHANGED <<keys, bonds, cast>>
  BY DEF Announce
<1> HIDE DEF e
<1>4. Consistent(e) /\ AgreedIn(n, e, bonds)
  BY <1>2, <1>3, OfInv, ConsistentKept DEF AgreedIn, SameTables
<1>5. Announcement \in Packet /\ Announcement.type = "Announce"
  <2>1. 0 \in 0 .. MaxChildren
    OBVIOUS
  <2> QED BY <2>1 DEF Announcement, Packet
<1>6. air \in [Node -> [Node -> Seq(Packet)]]
  BY DEF Inv, TypeOK
<1>7. air' \in [Node -> [Node -> Seq(Packet)]]
  <2>1. <<Announcement>> \in Seq(Packet)
    BY <1>5
  <2>2. [m \in Node |-> IF m \in H THEN <<Announcement>> ELSE air[n][m]] \in [Node -> Seq(Packet)]
    BY <1>6, <2>1
  <2> QED BY <1>1, <1>6, <2>2
<1>8. ASSUME NEW a \in Node, NEW b \in Node, NEW q \in Flying(a, b)'
      PROVE  q \in Flying(a, b) \/ q.type = "Announce"
  <2>1. air'[a][b] = air[a][b] \/ air'[a][b] = <<Announcement>>
    BY <1>1, <1>6
  <2>2. CASE air'[a][b] = air[a][b]
    BY <1>8, <2>2 DEF Flying
  <2>3. CASE air'[a][b] = <<Announcement>>
    BY <1>5, <1>8, <2>3 DEF Flying
  <2> QED BY <2>1, <2>2, <2>3
<1> QED BY <1>2, <1>3, <1>4, <1>7, <1>8, DeviceStep

LEMMA StopAnnouncingStep == ASSUME Inv, NEW n \in Node, StopAnnouncing(n) PROVE Inv'
<1> DEFINE e == [node[n] EXCEPT !.state = "Idle"]
<1>1. e \in Device /\ SameTables(e, node[n]) /\ e.state = "Idle"
  BY OfInv, InState
<1>2. Update(n, e) /\ UNCHANGED <<air, keys, bonds, cast>>
  BY DEF StopAnnouncing
<1> HIDE DEF e
<1>3. Consistent(e) /\ AgreedIn(n, e, bonds)
  BY <1>1, OfInv, ConsistentKept DEF AgreedIn, SameTables
<1> QED BY <1>1, <1>2, <1>3, LocalStep

LEMMA NotHeardStep == ASSUME Inv, NEW from \in Node, NEW n \in Node, NotHeard(from, n) PROVE Inv'
<1>1. /\ air' \in [Node -> [Node -> Seq(Packet)]]
      /\ \A a, b \in Node : Flying(a, b)' \subseteq Flying(a, b)
  BY TakeKeeps DEF NotHeard, Inv
<1>2. Update(n, node[n])
  BY DEF Inv, TypeOK, NotHeard, Update
<1>3. keys' = keys /\ bonds' = bonds /\ SameHandshake(node[n], node[n])
  BY DEF NotHeard, SameHandshake
<1> QED BY <1>1, <1>2, <1>3, OfInv, DeviceStep

\* The radio given the pending child's key, by the report or by the timeout.
LEMMA SwitchConsistent ==
  ASSUME NEW d \in Device, Consistent(d), d.state = "Accepting"
  PROVE  Consistent(SwitchToEncrypted(d))
<1> DEFINE e == SwitchToEncrypted(d)
<1>1. d.linkKey \in Key /\ d.pending \in Node /\ PlaceIsKept(d) /\ ~TableIsFull(d)
      /\ d.peers[d.pending] \in {Plain, NoPeer, d.linkKey}
  BY DEF Consistent, PlaceIsKept
<1>2. /\ e \in Device /\ SameTables(e, d) /\ SameHandshake(e, d) /\ e.state = d.state
      /\ e.peers[d.pending] \in {d.linkKey, d.peers[d.pending]}
  BY <1>1, SwitchKeeps
<1> HIDE DEF e
<1>3. PlaceIsKept(e) /\ e.peers[e.pending] \in {Plain, NoPeer, e.linkKey}
  BY <1>1, <1>2 DEF PlaceIsKept, SameTables, SameHandshake
<1>4. Consistent(e)
  BY <1>1, <1>2, <1>3, ConsistentKept
<1> QED BY <1>4 DEF e

LEMMA NotifySentStep ==
  ASSUME Inv, NEW n \in Node, NEW delivered \in BOOLEAN, NotifySent(n, delivered)
  PROVE  Inv'
<1> DEFINE d == [node[n] EXCEPT !.reports = Tail(@)]
<1>1. node[n].reports \in Seq(Node) /\ node[n].reports # <<>>
  BY OfInv DEF NotifySent, Device
<1>2. d \in Device /\ SameTables(d, node[n]) /\ SameHandshake(d, node[n])
      /\ d.state = node[n].state /\ d.peers = node[n].peers
  <2>1. Tail(node[n].reports) \in Seq(Node)
    BY <1>1
  <2> QED BY <2>1, OfInv, WithReports
<1>3. UNCHANGED <<air, keys, bonds, cast>> /\ (Update(n, d) \/ (d.state = "Accepting" /\ Update(n, SwitchToEncrypted(d))))
  BY DEF NotifySent
<1> HIDE DEF d
<1>4. Consistent(d) /\ AgreedIn(n, d, bonds)
  <2>1. node[n].state = "Accepting" =>
          PlaceIsKept(d) /\ d.peers[d.pending] \in {Plain, NoPeer, d.linkKey}
    BY <1>2, OfInv DEF Consistent, PlaceIsKept, SameTables, SameHandshake
  <2>2. /\ node[n].state = "Announcing" => node[n].parent = NoNode
        /\ node[n].state \in {"Listening", "Accepting"} => ~TableIsFull(node[n])
    BY OfInv DEF Consistent
  <2> QED BY <1>2, <2>1, <2>2, OfInv, ConsistentKept DEF AgreedIn, SameTables
<1>5. CASE Update(n, d)
  BY <1>2, <1>3, <1>4, <1>5, LocalStep
<1>6. CASE d.state = "Accepting" /\ Update(n, SwitchToEncrypted(d))
  <2> DEFINE e == SwitchToEncrypted(d)
  <2>1. e \in Device /\ SameTables(e, d) /\ SameHandshake(e, d) /\ e.state = d.state
    BY <1>2, <1>4, <1>6, SwitchKeeps DEF Consistent, PlaceIsKept
  <2>2. Consistent(e)
    BY <1>2, <1>4, <1>6, SwitchConsistent
  <2>3. Update(n, e)
    BY <1>6
  <2> HIDE DEF e
  <2>4. AgreedIn(n, e, bonds) /\ SameHandshake(e, node[n])
    BY <1>2, <1>4, <2>1 DEF AgreedIn, SameTables, SameHandshake
  <2> QED BY <1>2, <1>3, <1>6, <2>1, <2>2, <2>3, <2>4, LocalStep
<1> QED BY <1>3, <1>5, <1>6

LEMMA KeySwitchTimeoutStep == ASSUME Inv, NEW n \in Node, KeySwitchTimeout(n) PROVE Inv'
<1> DEFINE d == node[n]
           e == SwitchToEncrypted(d)
<1>1. d \in Device /\ Consistent(d) /\ d.state = "Accepting" /\ d.linkKey \in Key
      /\ AgreedIn(n, d, bonds)
  BY OfInv DEF KeySwitchTimeout
<1>2. e \in Device /\ SameTables(e, d) /\ SameHandshake(e, d) /\ e.state = d.state
  BY <1>1, SwitchKeeps
<1>3. Consistent(e)
  BY <1>1, SwitchConsistent
<1>4. Update(n, e) /\ UNCHANGED <<air, keys, bonds, cast>>
  BY DEF KeySwitchTimeout
<1> HIDE DEF e, d
<1>5. AgreedIn(n, e, bonds)
  BY <1>1, <1>2 DEF AgreedIn, SameTables
<1> QED BY <1>1, <1>2, <1>3, <1>4, <1>5, LocalStep DEF d

LEMMA FactoryResetStep == ASSUME Inv, NEW n \in Node, FactoryReset(n) PROVE Inv'
<1> DEFINE e == Reset(node[n])
<1>1. /\ e \in Device /\ Consistent(e) /\ e.state = node[n].state /\ SameHandshake(e, node[n])
      /\ Used(e.children) = {} /\ Used(e.saved.children) = {}
  BY OfInv, ResetKeeps
<1>2. Update(n, e) /\ UNCHANGED <<air, keys, bonds, cast>>
  BY DEF FactoryReset
<1> HIDE DEF e
<1>3. AgreedIn(n, e, bonds)
  BY <1>1 DEF AgreedIn
<1> QED BY <1>1, <1>2, <1>3, LocalStep

LEMMA RestartStep == ASSUME Inv, NEW n \in Node, Restart(n) PROVE Inv'
<1>1. PICK t \in Loadable(node[n]) : Update(n, Restarted(node[n], t))
  BY DEF Restart
<1> DEFINE e == Restarted(node[n], t)
<1>2. e \in Device /\ Consistent(e) /\ e.state = "Idle"
  BY OfInv, RestartedKeeps DEF Consistent, TablesSaved
<1>3. AgreedIn(n, e, bonds)
  BY OfInv, RestartAgreed
<1>4. UNCHANGED <<air, keys, bonds, cast>>
  BY DEF Restart
<1> HIDE DEF e
<1> QED BY <1>1, <1>2, <1>3, <1>4, LocalStep DEF e

\* A new handshake: its key is new, so no packet and no bond has it but the
\* acceptance that carries it.
LEMMA HandleAnnounceStep ==
  ASSUME Inv, NEW from \in Node, NEW n \in Node, HandleAnnounce(from, n)
  PROVE  Inv'
<1> DEFINE d == node[n]
           i == OfferedIndex(d, from)
           k == keys + 1
           a == Accepting(d, from, i, k)
           p == [type |-> "Accept", seal |-> Plain, index |-> i, key |-> k]
           e == [a EXCEPT !.reports = Append(@, from)]
<1>1. d \in Device /\ Consistent(d) /\ AgreedIn(n, d, bonds) /\ d.state = "Listening"
  BY OfInv DEF HandleAnnounce
<1>2. ~TableIsFull(d) /\ MacsOnce(d.children)
  BY <1>1 DEF Consistent
<1>3. i \in Index /\ \A j \in Used(d.children) : d.children[j].mac = from <=> j = i
  BY <1>1, <1>2, Offered DEF HandleAnnounce
<1>4. keys \in Nat /\ k \in Key /\ keys' = k /\ bonds' = bonds /\ air[from][n] # <<>>
  BY SMTT(60) DEF HandleAnnounce, Inv, TypeOK, Key, Arrives
<1>5. /\ a \in Device /\ SameTables(a, d) /\ a.state = "Accepting" /\ a.reports = d.reports
      /\ a.pending = from /\ a.pendingIndex = i /\ a.linkKey = k /\ a.peers[from] = Plain
  BY <1>1, <1>3, <1>4, AcceptingKeeps
<1>6. \/ Answer(from, n, p) /\ Update(n, e)
      \/ Take(from, n) /\ \E s \in {"Idle", "Listening"} :
                             Update(n, [AbandonAccept(a) EXCEPT !.state = s])
  BY DEF HandleAnnounce
<1>7. TypeOK /\ node \in [Node -> Device]
  BY DEF Inv, TypeOK
<1>8. PlaceIsKept(a)
  BY <1>3, <1>4, <1>5 DEF PlaceIsKept, SameTables
<1>9. p \in Packet
  <2>1. i \in 0 .. MaxChildren
    BY <1>3 DEF Index
  <2> QED BY <1>4, <2>1 DEF Packet
<1> HIDE DEF a
<1>10. CASE Answer(from, n, p) /\ Update(n, e)
  <2>1. Append(a.reports, from) \in Seq(Node)
    BY <1>5 DEF Device
  <2>2. /\ e \in Device /\ SameTables(e, a) /\ SameHandshake(e, a)
        /\ e.state = a.state /\ e.peers = a.peers
    BY <1>5, <2>1, WithReports
  <2>3. Update(n, e)
    BY <1>10
  <2> HIDE DEF e
  <2>4. Consistent(e)
    <3>1. PlaceIsKept(e) /\ e.peers[e.pending] \in {Plain, NoPeer, e.linkKey} /\ SameTables(e, d)
      BY <1>5, <1>8, <2>2 DEF PlaceIsKept, SameTables, SameHandshake
    <3> QED BY <1>1, <1>2, <1>5, <2>2, <3>1, ConsistentKept
  <2>5. AgreedIn(n, e, bonds)
    BY <1>1, <1>5, <2>2 DEF AgreedIn, SameTables
  <2>6. node' \in [Node -> Device] /\ node'[n] = e /\ \A m \in Node \ {n} : node'[m] = node[m]
    BY <1>7, <2>2, <2>3 DEF Update
  <2>7. /\ air' \in [Node -> [Node -> Seq(Packet)]]
        /\ \A x, y \in Node : \A q \in Flying(x, y)' :
             q \in Flying(x, y) \/ (x = n /\ y = from /\ q = p)
    BY <1>4, <1>7, <1>9, <1>10, AnswerKeeps
  <2>8. \A x, y \in Node : \A q \in Flying(x, y) : PacketHolds(x, y, q)
    BY DEF Inv, Handshakes
  <2>9. \A x, y \in Node : \A q \in Flying(x, y)' : PacketHolds(x, y, q)'
    <3>1. ASSUME NEW x \in Node, NEW y \in Node, NEW q \in Flying(x, y)'
          PROVE  PacketHolds(x, y, q)'
      <4>1. CASE q \in Flying(x, y)
        BY <1>4, <2>8, <4>1 DEF PacketHolds
      <4>2. CASE q = p
        BY <1>3, <1>4, <4>2 DEF PacketHolds
      <4> QED BY <2>7, <3>1, <4>1, <4>2
    <3> QED BY <3>1
  <2>10. \A b \in bonds : b.key \in 1 .. keys
    BY DEF Inv, Handshakes
  <2>11. KeyIsOwn(n)'
    <3>1. e.linkKey = k /\ e.pending = from /\ e.pendingIndex = i /\ k \in 1 .. k
      BY <1>4, <1>5, <2>2 DEF SameHandshake
    <3>2. \A x, y \in Node : \A q \in Flying(x, y)' :
            q.type = "Accept" /\ q.key = k => x = n /\ y = from /\ q.index = i
      <4>1. ASSUME NEW x \in Node, NEW y \in Node, NEW q \in Flying(x, y),
                   q.type = "Accept"
            PROVE  q.key # k
        BY <1>4, <2>8, <4>1 DEF PacketHolds
      <4>2. p.index = i
        OBVIOUS
      <4> HIDE DEF p, i, k
      <4> QED BY <2>7, <4>1, <4>2
    <3>3. \A b \in bonds : b.key # k
      BY <1>4, <2>10
    <3> QED BY <1>4, <2>6, <3>1, <3>2, <3>3 DEF KeyIsOwn
  <2>12. ASSUME NEW m \in Node \ {n}, node'[m].state = "Accepting" PROVE KeyIsOwn(m)'
    <3>1. KeyIsOwn(m) /\ node'[m] = node[m]
      BY <2>6, <2>12 DEF Inv, Handshakes
    <3>2. node[m].linkKey # k /\ node[m].linkKey \in 1 .. k
      BY <1>4, <3>1 DEF KeyIsOwn
    <3>3. \A x, y \in Node : \A q \in Flying(x, y)' :
            q.type = "Accept" /\ q.key = node[m].linkKey => q \in Flying(x, y)
      BY <2>7, <3>2
    <3> QED BY <1>4, <3>1, <3>2, <3>3 DEF KeyIsOwn
  <2>13. Handshakes'
    <3>1. \A b \in bonds : b.key \in 1 .. k
      BY <1>4, <2>10
    <3> QED BY <1>4, <2>9, <2>11, <2>12, <3>1 DEF Handshakes
  <2>14. TypeOK'
    BY <1>4, <1>7, <2>6, <2>7 DEF TypeOK, Key
  <2>15. \A m \in Node : Consistent(node'[m])
    BY <2>4, <2>6 DEF Inv
  <2>16. RecordedAsAgreed'
    BY <1>4, <2>5, <2>6 DEF Inv, RecordedAsAgreed, AgreedIn
  <2> QED BY <2>13, <2>14, <2>15, <2>16 DEF Inv
<1>11. ASSUME NEW s \in {"Idle", "Listening"}, Take(from, n),
              Update(n, [AbandonAccept(a) EXCEPT !.state = s])
       PROVE  Inv'
  <2> DEFINE f == AbandonAccept(a)
             g == [f EXCEPT !.state = s]
  <2>1. f \in Device /\ SameTables(f, a)
    BY <1>5, AbandonKeeps
  <2> HIDE DEF f
  <2>2. g \in Device /\ SameTables(g, f) /\ g.state = s
    BY ZenonT(60), <2>1, InState
  <2>3. Update(n, g)
    BY <1>11 DEF f
  <2> HIDE DEF g
  <2>4. SameTables(g, d)
    BY <1>5, <2>1, <2>2 DEF SameTables
  <2>5. Consistent(g) /\ AgreedIn(n, g, bonds)
    BY <1>1, <1>2, <2>2, <2>4, ConsistentKept DEF AgreedIn, SameTables
  <2>6. node' \in [Node -> Device] /\ node'[n] = g /\ \A m \in Node \ {n} : node'[m] = node[m]
    BY <1>7, <2>2, <2>3 DEF Update
  <2>7. /\ air' \in [Node -> [Node -> Seq(Packet)]]
        /\ \A x, y \in Node : Flying(x, y)' \subseteq Flying(x, y)
    BY <1>4, <1>7, <1>11, TakeKeeps
  <2>8. Handshakes'
    <3>1. \A x, y \in Node : \A q \in Flying(x, y)' : PacketHolds(x, y, q)'
      BY SMTT(30), <1>4, <2>7 DEF Inv, Handshakes, PacketHolds
    <3>2. ASSUME NEW m \in Node, node'[m].state = "Accepting" PROVE KeyIsOwn(m)'
      <4>1. KeyIsOwn(m) /\ node'[m] = node[m]
        BY <2>2, <2>6, <3>2 DEF Inv, Handshakes
      <4> QED BY SMTT(60), <1>4, <2>7, <4>1 DEF KeyIsOwn
    <3>3. \A b \in bonds : b.key \in 1 .. k
      BY <1>4 DEF Inv, Handshakes
    <3> QED BY <1>4, <3>1, <3>2, <3>3 DEF Handshakes
  <2>9. TypeOK'
    BY SMTT(60), <1>4, <1>7, <2>6, <2>7 DEF TypeOK, Key
  <2>10. \A m \in Node : Consistent(node'[m])
    BY <2>5, <2>6 DEF Inv
  <2>11. RecordedAsAgreed'
    BY <1>4, <2>5, <2>6 DEF Inv, RecordedAsAgreed, AgreedIn
  <2> QED BY <2>8, <2>9, <2>10, <2>11 DEF Inv
<1> QED BY <1>6, <1>10, <1>11

\* The packet at the head of a channel holds what packets hold.
LEMMA HeadHolds ==
  ASSUME Inv, NEW from \in Node, NEW n \in Node, air[from][n] # <<>>
  PROVE  /\ Head(air[from][n]) \in Packet
         /\ Head(air[from][n]) \in Flying(from, n)
         /\ PacketHolds(from, n, Head(air[from][n]))
<1>1. air[from][n] \in Seq(Packet)
  BY DEF Inv, TypeOK
<1>2. Head(air[from][n]) = air[from][n][1] /\ 1 \in DOMAIN air[from][n]
  BY <1>1
<1>3. Head(air[from][n]) \in Flying(from, n)
  BY <1>2 DEF Flying
<1> QED BY <1>1, <1>2, <1>3 DEF Inv, Handshakes

\* A confirmation that the radio lets through is of the handshake under way.
LEMMA ConfirmedAgrees ==
  ASSUME Inv, NEW from \in Node, NEW n \in Node,
         Arrives(from, n, "Confirm"), node[n].state = "Accepting", node[n].pending = from
  PROVE  [master |-> n, slave |-> from, index |-> node[n].pendingIndex,
          key |-> node[n].linkKey] \in bonds
<1> DEFINE p == Head(air[from][n])
<1>1. /\ p.type = "Confirm" /\ p.seal \in Key
      /\ \E b \in bonds : b.master = n /\ b.slave = from /\ b.key = p.seal
  BY HeadHolds DEF Arrives, PacketHolds
<1>2. node[n].peers[from] = p.seal
  BY <1>1 DEF Arrives, Hears, BinderAssumption
<1>3. node[n].peers[from] \in {Plain, NoPeer, node[n].linkKey}
  BY OfInv DEF Consistent
<1>4. p.seal = node[n].linkKey
  BY <1>1, <1>2, <1>3
<1>5. KeyIsOwn(n)
  BY DEF Inv, Handshakes
<1> QED BY <1>1, <1>4, <1>5 DEF KeyIsOwn

LEMMA HandleConfirmStep ==
  ASSUME Inv, NEW from \in Node, NEW n \in Node, HandleConfirm(from, n)
  PROVE  Inv'
<1> DEFINE d == node[n]
           r == Recorded(d)
<1>1. d \in Device /\ Consistent(d) /\ AgreedIn(n, d, bonds) /\ d.state = "Accepting"
      /\ d.pending = from
  BY OfInv DEF HandleConfirm
<1>2. MacsOnce(d.children) /\ PlaceIsKept(d) /\ ~TableIsFull(d)
  BY <1>1 DEF Consistent
<1>3. /\ r \in Device /\ r.state = "Idle" /\ MacsOnce(r.children)
      /\ r.children[d.pendingIndex] = [mac |-> d.pending, key |-> d.linkKey]
      /\ Used(r.children) = Used(d.children) \cup {d.pendingIndex}
      /\ \A i \in Index \ {d.pendingIndex} : r.children[i] = d.children[i]
      /\ r.parent = d.parent /\ r.index = d.index /\ r.saved = d.saved
  BY <1>1, <1>2, RecordedKeeps
<1>4. AgreedIn(n, r, bonds)
  <2>1. [master |-> n, slave |-> from, index |-> d.pendingIndex, key |-> d.linkKey] \in bonds
    BY ConfirmedAgrees DEF HandleConfirm
  <2>2. ASSUME NEW i \in Used(r.children)
        PROVE  [master |-> n, slave |-> r.children[i].mac, index |-> i,
                key |-> r.children[i].key] \in bonds
    <3>1. CASE i = d.pendingIndex
      BY <1>1, <1>3, <2>1, <3>1
    <3>2. CASE i # d.pendingIndex
      <4>1. i \in Used(d.children) /\ i \in Index /\ r.children[i] = d.children[i]
        BY <1>3, <2>2, <3>2 DEF Used
      <4> QED BY <1>1, <4>1 DEF AgreedIn
    <3> QED BY <3>1, <3>2
  <2> QED BY <1>1, <1>3, <2>2 DEF AgreedIn
<1>5. /\ air' \in [Node -> [Node -> Seq(Packet)]]
      /\ \A x, y \in Node : Flying(x, y)' \subseteq Flying(x, y)
      /\ keys' = keys /\ bonds' = bonds
  BY TakeKeeps DEF HandleConfirm, Inv, Arrives
<1>6. Update(n, SaveChildren(r)) \/ \E t \in Loadable(r) : Update(n, Restarted(r, t))
  BY <1>3 DEF HandleConfirm
<1> HIDE DEF r
<1>7. CASE Update(n, SaveChildren(r))
  <2> DEFINE e == SaveChildren(r)
  <2>1. e \in Device
    BY <1>3 DEF SaveChildren, Device, Saved
  <2>2. /\ e.state = "Idle" /\ e.children = r.children /\ e.saved.children = r.children
        /\ e.parent = d.parent /\ e.index = d.index
        /\ e.saved.parent = d.saved.parent /\ e.saved.index = d.saved.index
        /\ e.saved.key = d.saved.key
    BY <1>3 DEF SaveChildren, Device, Saved
  <2>3. Update(n, e)
    BY <1>7
  <2> HIDE DEF e
  <2>4. Consistent(e)
    BY <1>1, <1>3, <2>2 DEF Consistent, TablesSaved
  <2>5. AgreedIn(n, e, bonds)
    BY <1>4, <2>2 DEF AgreedIn
  <2> QED BY <1>5, <2>1, <2>2, <2>3, <2>4, <2>5, DeviceStep
<1>8. ASSUME NEW t \in Loadable(r), Update(n, Restarted(r, t)) PROVE Inv'
  <2> DEFINE e == Restarted(r, t)
  <2>1. e \in Device /\ Consistent(e) /\ e.state = "Idle"
    BY <1>1, <1>3, RestartedKeeps DEF Consistent, TablesSaved
  <2>2. AgreedIn(n, e, bonds)
    BY <1>3, <1>4, RestartAgreed
  <2>3. Update(n, e)
    BY <1>8
  <2> HIDE DEF e
  <2> QED BY <1>5, <2>1, <2>2, <2>3, DeviceStep
<1> QED BY <1>6, <1>7, <1>8

\* A slave that takes an acceptance agrees to it, and says so; or it cannot.
LEMMA HandleAcceptStep ==
  ASSUME Inv, NEW from \in Node, NEW n \in Node, HandleAccept(from, n)
  PROVE  Inv'
<1> DEFINE p == Head(air[from][n])
           k == p.key
           d == [node[n] EXCEPT !.linkKey = k]
           confirm == [type |-> "Confirm", seal |-> k, index |-> 0, key |-> NoKey]
           f == AddPeer(d, from, k)
           bound == BoundTo(f, from, p.index)
           b == [master |-> from, slave |-> n, index |-> p.index, key |-> k]
<1>1. /\ node[n] \in Device /\ Consistent(node[n]) /\ AgreedIn(n, node[n], bonds)
      /\ node[n].state = "Announcing" /\ node[n].parent = NoNode
  BY OfInv DEF HandleAccept, Consistent
<1>2. air[from][n] # <<>> /\ p.type = "Accept" /\ keys' = keys /\ keys \in 0 .. MaxKeys
  BY DEF HandleAccept, Arrives, Inv, TypeOK
<1>3. p \in Packet /\ p \in Flying(from, n) /\ k \in 1 .. keys /\ p.index \in Index
  BY <1>2, HeadHolds DEF PacketHolds
<1>4. k \in Key
  BY <1>2, <1>3 DEF Key
<1>5. TypeOK /\ node \in [Node -> Device] /\ bonds \subseteq Bond
  BY DEF Inv, TypeOK
<1>6. d \in Device /\ SameTables(d, node[n]) /\ d.state = "Announcing"
  BY <1>1, <1>4 DEF Device, SameTables
<1>7. \/ Take(from, n) /\ Update(n, d) /\ bonds' = bonds
      \/ /\ Answer(from, n, confirm) /\ bonds' = bonds \cup {b}
         /\ \/ Update(n, SaveBind(bound))
            \/ \E t \in Loadable(bound) : Update(n, Restarted(bound, t))
      \/ Take(from, n) /\ Update(n, RemovePeer(d, from)) /\ bonds' = bonds
  BY DEF HandleAccept
<1>8. b \in Bond
  BY <1>3, <1>4 DEF Bond
<1> HIDE DEF d, p, b
<1>9. ASSUME NEW e \in Device, SameTables(e, node[n]), e.state = "Announcing",
             Take(from, n), Update(n, e), bonds' = bonds
      PROVE  Inv'
  <2>1. /\ air' \in [Node -> [Node -> Seq(Packet)]]
        /\ \A x, y \in Node : Flying(x, y)' \subseteq Flying(x, y)
    BY <1>2, <1>5, <1>9, TakeKeeps
  <2>2. Consistent(e) /\ AgreedIn(n, e, bonds)
    BY <1>1, <1>9, ConsistentKept DEF AgreedIn, SameTables
  <2> QED BY <1>2, <1>9, <2>1, <2>2, DeviceStep
<1>10. CASE Take(from, n) /\ Update(n, d) /\ bonds' = bonds
  BY <1>6, <1>9, <1>10
<1>11. CASE Take(from, n) /\ Update(n, RemovePeer(d, from)) /\ bonds' = bonds
  <2> DEFINE e == RemovePeer(d, from)
  <2>1. e \in Device /\ SameTables(e, d) /\ e.state = d.state
    BY <1>6, RemovePeerKeeps
  <2>2. Update(n, e)
    BY <1>11
  <2> HIDE DEF e
  <2>3. SameTables(e, node[n])
    BY <1>6, <2>1 DEF SameTables
  <2> QED BY <1>6, <1>9, <1>11, <2>1, <2>2, <2>3
<1>12. CASE /\ Answer(from, n, confirm) /\ bonds' = bonds \cup {b}
            /\ \/ Update(n, SaveBind(bound))
               \/ \E t \in Loadable(bound) : Update(n, Restarted(bound, t))
  <2>1. f \in Device /\ SameTables(f, d) /\ f.linkKey = k
    <3>1. d.linkKey = k
      BY <1>1 DEF d, Device
    <3> QED BY <1>4, <1>6, <3>1, AddPeerKeeps DEF SameHandshake
  <2> HIDE DEF f
  <2>2. p.index \in 0 .. MaxChildren
    BY <1>3 DEF Index
  <2>3. /\ bound \in Device /\ bound.state = "Bound" /\ bound.parent = from
        /\ bound.index = p.index /\ bound.children = node[n].children
        /\ bound.saved = node[n].saved /\ bound.linkKey = k
    <3>1. bound \in Device
      BY <2>1, <2>2 DEF BoundTo, Device
    <3> QED BY <1>6, <2>1, <3>1 DEF BoundTo, Device, SameTables
  <2> HIDE DEF bound
  <2>4. AgreedIn(n, bound, bonds')
    BY <1>1, <1>12, <2>3 DEF AgreedIn
  <2>5. \E e \in Device :
          Update(n, e) /\ Consistent(e) /\ AgreedIn(n, e, bonds') /\ e.state # "Accepting"
    <3>1. CASE Update(n, SaveBind(bound))
      <4> DEFINE e == SaveBind(bound)
      <4>1. e \in Device
        BY <2>3 DEF SaveBind, Device, Saved
      <4>2. /\ e.state = "Bound" /\ e.children = node[n].children
            /\ e.parent = from /\ e.index = p.index
            /\ e.saved.parent = from /\ e.saved.index = p.index /\ e.saved.key = k
            /\ e.saved.children = node[n].saved.children
        BY <2>3 DEF SaveBind, Device, Saved
      <4> HIDE DEF e
      <4>3. Consistent(e)
        BY <1>1, <1>4, <4>2 DEF Consistent, TablesSaved
      <4>4. AgreedIn(n, e, bonds')
        BY <2>3, <2>4, <4>2 DEF AgreedIn
      <4>5. Update(n, e)
        BY <3>1 DEF e
      <4> QED BY <4>1, <4>2, <4>3, <4>4, <4>5
    <3>2. ASSUME NEW t \in Loadable(bound), Update(n, Restarted(bound, t))
          PROVE  \E e \in Device :
            Update(n, e) /\ Consistent(e) /\ AgreedIn(n, e, bonds') /\ e.state # "Accepting"
      <4>1. /\ Restarted(bound, t) \in Device /\ Consistent(Restarted(bound, t))
            /\ Restarted(bound, t).state = "Idle"
        BY <1>1, <2>3, RestartedKeeps DEF Consistent, TablesSaved
      <4>2. AgreedIn(n, Restarted(bound, t), bonds')
        BY <2>3, <2>4, RestartAgreed
      <4> QED BY <3>2, <4>1, <4>2
    <3> QED BY <1>12, <3>1, <3>2
  <2>6. PICK e \in Device :
          Update(n, e) /\ Consistent(e) /\ AgreedIn(n, e, bonds') /\ e.state # "Accepting"
    BY <2>5
  <2>7. node' \in [Node -> Device] /\ node'[n] = e /\ \A m \in Node \ {n} : node'[m] = node[m]
    BY <1>5, <2>6 DEF Update
  <2>8. confirm \in Packet
    <3>1. 0 \in 0 .. MaxChildren
      OBVIOUS
    <3> QED BY <1>4, <3>1 DEF Packet
  <2>9. /\ air' \in [Node -> [Node -> Seq(Packet)]]
        /\ \A x, y \in Node : \A q \in Flying(x, y)' :
             q \in Flying(x, y) \/ (x = n /\ y = from /\ q = confirm)
    BY <1>2, <1>5, <1>12, <2>8, AnswerKeeps
  <2>10. \A x, y \in Node : \A q \in Flying(x, y)' : PacketHolds(x, y, q)'
    <3>1. ASSUME NEW x \in Node, NEW y \in Node, NEW q \in Flying(x, y)'
          PROVE  PacketHolds(x, y, q)'
      <4>1. CASE q \in Flying(x, y)
        <5>1. PacketHolds(x, y, q)
          BY <4>1 DEF Inv, Handshakes
        <5> QED BY <1>2, <1>12, <5>1 DEF PacketHolds
      <4>2. CASE x = n /\ y = from /\ q = confirm
        <5>1. b.master = from /\ b.slave = n /\ b.key = k
          BY DEF b
        <5> QED BY <1>4, <1>12, <4>2, <5>1 DEF PacketHolds
      <4> QED BY <2>9, <3>1, <4>1, <4>2
    <3> QED BY <3>1
  <2>11. ASSUME NEW m \in Node, node'[m].state = "Accepting" PROVE KeyIsOwn(m)'
    <3>1. m # n /\ node'[m] = node[m]
      BY <2>6, <2>7, <2>11
    <3>2. KeyIsOwn(m)
      BY <2>11, <3>1 DEF Inv, Handshakes
    <3>3. \A x, y \in Node : \A q \in Flying(x, y)' : q.type = "Accept" => q \in Flying(x, y)
      BY <2>9
    <3>4. b.key = node[m].linkKey =>
            b = [master |-> m, slave |-> node[m].pending, index |-> node[m].pendingIndex,
                 key |-> node[m].linkKey]
      BY <1>2, <1>3, <3>2 DEF KeyIsOwn, b
    <3> QED BY <1>2, <1>12, <3>1, <3>2, <3>3, <3>4 DEF KeyIsOwn
  <2>12. Handshakes'
    <3>1. \A c \in bonds' : c.key \in 1 .. keys'
      BY <1>2, <1>3, <1>12 DEF Inv, Handshakes, b
    <3> QED BY <2>10, <2>11, <3>1 DEF Handshakes
  <2>13. TypeOK'
    BY <1>2, <1>5, <1>8, <1>12, <2>7, <2>9 DEF TypeOK
  <2>14. \A m \in Node : Consistent(node'[m])
    BY <2>6, <2>7 DEF Inv
  <2>15. RecordedAsAgreed'
    BY <1>12, <2>6, <2>7 DEF Inv, RecordedAsAgreed, AgreedIn
  <2> QED BY <2>12, <2>13, <2>14, <2>15 DEF Inv
<1> QED BY <1>7, <1>10, <1>11, <1>12

-----------------------------------------------------------------------------
(* The theorems *)

LEMMA InitInv == Init => Inv
<1> SUFFICES ASSUME Init PROVE Inv
  OBVIOUS
<1>1. node \in [Node -> Device] /\ \A n \in Node : node[n] = Blank /\ Consistent(node[n])
  BY BlankKeeps DEF Init
<1>2. air \in [Node -> [Node -> Seq(Packet)]] /\ \A a, b \in Node : Flying(a, b) = {}
  BY DEF Init, Flying
<1>3. TypeOK
  BY <1>1, <1>2 DEF Init, TypeOK
<1>4. Handshakes
  BY <1>1, <1>2 DEF Init, Handshakes, Blank
<1>5. RecordedAsAgreed
  BY <1>1, NothingUsed DEF RecordedAsAgreed, Blank, Forgotten
<1> QED BY <1>1, <1>3, <1>4, <1>5 DEF Inv

LEMMA NextInv == Inv /\ [Next]_vars => Inv'
<1> SUFFICES ASSUME Inv, [Next]_vars PROVE Inv'
  OBVIOUS
<1>1. ASSUME NEW from \in Node, NEW n \in Node,
             \/ HandleAnnounce(from, n) \/ HandleAccept(from, n) \/ HandleConfirm(from, n)
             \/ NotHeard(from, n)
      PROVE  Inv'
  BY <1>1, HandleAnnounceStep, HandleAcceptStep, HandleConfirmStep, NotHeardStep
<1>2. ASSUME NEW n \in Node,
             \/ Listen(n) \/ StopListening(n) \/ Announce(n) \/ StopAnnouncing(n)
             \/ \E delivered \in BOOLEAN : NotifySent(n, delivered)
             \/ KeySwitchTimeout(n) \/ ConfirmExpires(n)
             \/ FactoryReset(n) \/ Restart(n)
      PROVE  Inv'
  BY <1>2, ListenStep, StopListeningStep, AnnounceStep, StopAnnouncingStep, NotifySentStep,
     KeySwitchTimeoutStep, ConfirmExpiresStep, FactoryResetStep, RestartStep
<1>3. CASE UNCHANGED vars
  <2>1. UNCHANGED node /\ UNCHANGED air /\ UNCHANGED keys /\ UNCHANGED bonds
    BY <1>3 DEF vars
  <2> QED BY <2>1 DEF Inv, TypeOK, Handshakes, RecordedAsAgreed, PacketHolds, KeyIsOwn, Flying
<1> QED BY <1>1, <1>2, <1>3 DEF Next

LEMMA AlwaysInv == Spec => []Inv
  BY InitInv, NextInv, PTL DEF Spec

\* The devices' records, the packets in the air, the keys and the agreements keep
\* their types: no handshake, restart or reset leaves an index or a key outside
\* its range, or a peer with a key that was never made.
THEOREM TypeCorrect == Spec => []TypeOK
<1>1. Inv => TypeOK
  BY DEF Inv
<1> QED BY <1>1, AlwaysInv, PTL

\* addChild() never refuses at the last step (HAPBinder::handleConfirm): the index
\* a handshake offered is free for the child, or its own, until it ends.
THEOREM ConfirmationAlwaysFits == Spec => []ConfirmationFits
<1>1. Inv => ConfirmationFits
  <2> SUFFICES ASSUME Inv, NEW n \in Node, node[n].state = "Accepting"
               PROVE  Recorded(node[n]).state = "Idle"
    BY DEF ConfirmationFits
  <2> QED BY OfInv, RecordedKeeps DEF Consistent
<1> QED BY <1>1, AlwaysInv, PTL

\* A master's entry for a child is what that child agreed to, however many
\* handshakes were abandoned, repeated or interleaved before.
THEOREM RecordedIsAgreed == Spec => []RecordedAsAgreed
<1>1. Inv => RecordedAsAgreed
  BY DEF Inv
<1> QED BY <1>1, AlwaysInv, PTL

-----------------------------------------------------------------------------
(* A child keeps its index *)

\* What a step that takes a device's record from d to e may do to its children.
ChildrenKept(d, e) ==
  \A i \in Used(d.children) :
    IF i \in Used(e.children) THEN e.children[i].mac = d.children[i].mac
    ELSE e.saved = Forgotten \/ TableIsFull(e)

\* A restart drops children of d only if it brings back as many as there is room for.
LEMMA RestartKeepsChildren ==
  ASSUME NEW d \in Device, NEW c \in Device,
         \A i \in Used(c.children) : d.saved.children[i] = c.children[i],
         NEW t \in Loadable(d)
  PROVE  ChildrenKept(c, Restarted(d, t))
<1> DEFINE e == Restarted(d, t)
           s == d.saved.children
           room == ChildCapacity(d.saved)
           stored == Cardinality(Used(s))
<1>1. e.children = t /\ e.parent = d.saved.parent
  BY DEF Restarted, Blank
<1>2. Used(t) \subseteq Used(s) /\ \A i \in Used(t) : t[i] = s[i]
  BY LoadableKeeps
<1>3. Used(c.children) \subseteq Used(s)
  BY DEF Used
<1>4. Cardinality(Used(t)) = IF stored > room THEN room ELSE stored
  BY DEF Loadable
<1>5. room \in Int /\ ChildCapacity(e) = room
  BY <1>1 DEF ChildCapacity
<1> HIDE DEF e, s, room
<1>6. CASE stored > room
  BY <1>1, <1>2, <1>4, <1>5, <1>6, UsedIsFinite DEF ChildrenKept, TableIsFull, e, s
<1>7. CASE ~(stored > room)
  <2>1. Used(t) = Used(s)
    BY <1>2, <1>4, <1>7, UsedIsFinite, FS_Subset
  <2> QED BY <1>1, <1>2, <1>3, <2>1 DEF ChildrenKept, e, s
<1> QED BY <1>6, <1>7 DEF e

LEMMA SameTablesKept ==
  ASSUME NEW d, NEW e, e.children = d.children
  PROVE  ChildrenKept(d, e)
  BY DEF ChildrenKept

\* What a step does to the device it is about.
LEMMA StepKeepsChildren ==
  ASSUME Inv, Next
  PROVE  node' = node \/ \E n \in Node : \E e \in Device :
                            Update(n, e) /\ ChildrenKept(node[n], e)
<1> DEFINE Goal == node' = node \/ \E n \in Node : \E e \in Device :
                                     Update(n, e) /\ ChildrenKept(node[n], e)
<1>1. ASSUME NEW n \in Node, NEW e \in Device, Update(n, e), SameTables(e, node[n])
      PROVE  Goal
  BY <1>1, SameTablesKept DEF SameTables
<1>2. ASSUME NEW n \in Node, NEW d \in Device, d.saved = node[n].saved,
             NEW t \in Loadable(d), Update(n, Restarted(d, t))
      PROVE  Goal
  <2>1. \A i \in Used(node[n].children) : d.saved.children[i] = node[n].children[i]
    BY <1>2, OfInv DEF Consistent, TablesSaved
  <2>2. ChildrenKept(node[n], Restarted(d, t))
    BY <2>1, OfInv, RestartKeepsChildren
  <2>3. Restarted(d, t) \in Device
    BY <1>2, OfInv, RestartedKeeps DEF Consistent, TablesSaved
  <2> QED BY <1>2, <2>2, <2>3
<1>3. ASSUME NEW n \in Node, NEW d \in Device, SameTables(d, node[n]),
             NEW s \in {"Idle", "Listening", "Accepting", "Announcing", "Bound"},
             Update(n, [d EXCEPT !.state = s])
      PROVE  Goal
  <2> DEFINE e == [d EXCEPT !.state = s]
  <2>1. e \in Device /\ SameTables(e, node[n])
    <3>1. e \in Device /\ SameTables(e, d)
      BY InState
    <3> HIDE DEF e
    <3> QED BY <1>3, <3>1 DEF SameTables
  <2> QED BY <1>1, <1>3, <2>1
<1> HIDE DEF Goal
<1>4. ASSUME NEW from \in Node, NEW n \in Node, HandleAnnounce(from, n) PROVE Goal
  <2> DEFINE i == OfferedIndex(node[n], from)
             a == Accepting(node[n], from, i, keys + 1)
  <2>1. i \in Index
    BY <1>4, OfInv, Offered DEF HandleAnnounce, Consistent
  <2>2. keys + 1 \in Key
    BY <1>4 DEF HandleAnnounce, Inv, TypeOK, Key
  <2>3. a \in Device /\ SameTables(a, node[n])
    BY <2>1, <2>2, OfInv, AcceptingKeeps
  <2>4. \/ Update(n, [a EXCEPT !.reports = Append(@, from)])
        \/ \E s \in {"Idle", "Listening"} : Update(n, [AbandonAccept(a) EXCEPT !.state = s])
    BY <1>4 DEF HandleAnnounce
  <2> HIDE DEF a
  <2>5. CASE Update(n, [a EXCEPT !.reports = Append(@, from)])
    <3> DEFINE e == [a EXCEPT !.reports = Append(@, from)]
    <3>1. Append(a.reports, from) \in Seq(Node)
      BY <2>3 DEF Device
    <3>2. e \in Device /\ SameTables(e, a)
      BY <2>3, <3>1, WithReports
    <3>3. Update(n, e)
      BY <2>5
    <3> HIDE DEF e
    <3>4. SameTables(e, node[n])
      BY <2>3, <3>2 DEF SameTables
    <3> QED BY <1>1, <3>2, <3>3, <3>4
  <2>6. ASSUME NEW s \in {"Idle", "Listening"}, Update(n, [AbandonAccept(a) EXCEPT !.state = s])
        PROVE  Goal
    <3>1. AbandonAccept(a) \in Device /\ SameTables(AbandonAccept(a), node[n])
      BY <2>3, AbandonKeeps DEF SameTables
    <3> QED BY <1>3, <2>6, <3>1
  <2> QED BY <2>4, <2>5, <2>6
<1>5. ASSUME NEW from \in Node, NEW n \in Node, HandleAccept(from, n) PROVE Goal
  <2> DEFINE p == Head(air[from][n])
             d == [node[n] EXCEPT !.linkKey = p.key]
             f == AddPeer(d, from, p.key)
             bound == BoundTo(f, from, p.index)
  <2>1. p.key \in Key /\ p.index \in 0 .. MaxChildren
    <3>1. p.key \in 1 .. keys /\ p.index \in Index /\ keys \in 0 .. MaxKeys
      BY <1>5, HeadHolds DEF HandleAccept, Arrives, PacketHolds, Inv, TypeOK
    <3> QED BY <3>1 DEF Key, Index
  <2>2. d \in Device /\ SameTables(d, node[n])
    BY SMTT(30), <2>1, OfInv DEF Device, SameTables
  <2>3. \/ Update(n, d) \/ Update(n, RemovePeer(d, from)) \/ Update(n, SaveBind(bound))
        \/ \E t \in Loadable(bound) : Update(n, Restarted(bound, t))
    BY <1>5 DEF HandleAccept
  <2> HIDE DEF d, p
  <2>4. f \in Device /\ SameTables(f, d)
    BY <2>1, <2>2, AddPeerKeeps
  <2> HIDE DEF f
  <2>5. bound \in Device /\ bound.children = node[n].children /\ bound.saved = node[n].saved
    <3>1. bound \in Device
      BY <2>1, <2>4 DEF BoundTo, Device
    <3> QED BY <2>2, <2>4, <3>1 DEF BoundTo, Device, SameTables
  <2> HIDE DEF bound
  <2>6. CASE Update(n, RemovePeer(d, from))
    <3>1. RemovePeer(d, from) \in Device /\ SameTables(RemovePeer(d, from), node[n])
      BY <2>2, RemovePeerKeeps DEF SameTables
    <3> QED BY <1>1, <2>6, <3>1
  <2>7. CASE Update(n, SaveBind(bound))
    <3>1. SaveBind(bound) \in Device /\ SaveBind(bound).children = bound.children
      BY <2>5 DEF SaveBind, Device, Saved
    <3> QED BY <2>5, <2>7, <3>1, SameTablesKept DEF Goal
  <2> QED BY <1>1, <1>2, <2>2, <2>3, <2>5, <2>6, <2>7
<1>6. ASSUME NEW from \in Node, NEW n \in Node, HandleConfirm(from, n) PROVE Goal
  <2> DEFINE d == node[n]
             r == Recorded(d)
  <2>1. d \in Device /\ Consistent(d) /\ d.state = "Accepting"
    BY <1>6, OfInv DEF HandleConfirm
  <2>2. MacsOnce(d.children) /\ PlaceIsKept(d) /\ ~TableIsFull(d)
    BY <2>1 DEF Consistent
  <2>3. /\ r \in Device /\ r.state = "Idle"
        /\ r.children[d.pendingIndex] = [mac |-> d.pending, key |-> d.linkKey]
        /\ Used(r.children) = Used(d.children) \cup {d.pendingIndex}
        /\ \A i \in Index \ {d.pendingIndex} : r.children[i] = d.children[i]
        /\ r.saved = d.saved
    BY <2>1, <2>2, RecordedKeeps
  <2>4. Update(n, SaveChildren(r)) \/ \E t \in Loadable(r) : Update(n, Restarted(r, t))
    BY <1>6, <2>3 DEF HandleConfirm
  <2> HIDE DEF r
  <2>5. CASE Update(n, SaveChildren(r))
    <3>1. SaveChildren(r) \in Device /\ SaveChildren(r).children = r.children
      BY <2>3 DEF SaveChildren, Device, Saved
    <3>2. ASSUME NEW i \in Used(d.children)
          PROVE  i \in Used(r.children) /\ r.children[i].mac = d.children[i].mac
      <4>1. CASE i = d.pendingIndex
        BY <2>2, <2>3, <3>2, <4>1 DEF PlaceIsKept
      <4>2. CASE i # d.pendingIndex
        BY <2>3, <3>2, <4>2 DEF Used
      <4> QED BY <4>1, <4>2
    <3>3. ChildrenKept(d, SaveChildren(r))
      BY <3>1, <3>2 DEF ChildrenKept
    <3> QED BY <2>5, <3>1, <3>3 DEF Goal
  <2> QED BY <1>2, <2>3, <2>4, <2>5
<1>7. ASSUME NEW from \in Node, NEW n \in Node, NotHeard(from, n) PROVE Goal
  BY <1>7 DEF NotHeard, Goal
<1>8. ASSUME NEW n \in Node,
             Listen(n) \/ StopListening(n) \/ Announce(n) \/ StopAnnouncing(n) \/ ConfirmExpires(n)
      PROVE  Goal
  <2>1. SameTables(node[n], node[n])
    BY DEF SameTables
  <2>2. AbandonAccept(node[n]) \in Device /\ SameTables(AbandonAccept(node[n]), node[n])
    BY OfInv, AbandonKeeps
  <2> QED BY <1>3, <1>8, <2>1, <2>2, OfInv
        DEF Listen, StopListening, Announce, StopAnnouncing, ConfirmExpires
<1>9. ASSUME NEW n \in Node, NEW delivered \in BOOLEAN, NotifySent(n, delivered) PROVE Goal
  <2> DEFINE d == [node[n] EXCEPT !.reports = Tail(@)]
  <2>1. Tail(node[n].reports) \in Seq(Node)
    BY <1>9, OfInv DEF NotifySent, Device
  <2>2. d \in Device /\ SameTables(d, node[n]) /\ SameHandshake(d, node[n]) /\ d.state = node[n].state
    BY <2>1, OfInv, WithReports
  <2>3. Update(n, d) \/ (d.state = "Accepting" /\ Update(n, SwitchToEncrypted(d)))
    BY <1>9 DEF NotifySent
  <2> HIDE DEF d
  <2>4. CASE d.state = "Accepting" /\ Update(n, SwitchToEncrypted(d))
    <3>1. d.linkKey \in Key
      BY <2>2, <2>4, OfInv DEF SameHandshake
    <3>2. SwitchToEncrypted(d) \in Device /\ SameTables(SwitchToEncrypted(d), node[n])
      BY <2>2, <3>1, SwitchKeeps DEF SameTables
    <3> QED BY <1>1, <2>4, <3>2
  <2> QED BY <1>1, <2>2, <2>3, <2>4
<1>10. ASSUME NEW n \in Node, KeySwitchTimeout(n) PROVE Goal
  <2>1. SwitchToEncrypted(node[n]) \in Device /\ SameTables(SwitchToEncrypted(node[n]), node[n])
    BY <1>10, OfInv, SwitchKeeps DEF KeySwitchTimeout
  <2> QED BY <1>1, <1>10, <2>1 DEF KeySwitchTimeout
<1>11. ASSUME NEW n \in Node, FactoryReset(n) PROVE Goal
  <2>1. Reset(node[n]) \in Device /\ Used(Reset(node[n]).children) = {}
        /\ Reset(node[n]).saved = Forgotten
    BY OfInv, ResetKeeps
  <2>2. ChildrenKept(node[n], Reset(node[n]))
    BY <2>1 DEF ChildrenKept
  <2> QED BY <1>11, <2>1, <2>2 DEF FactoryReset, Goal
<1>12. ASSUME NEW n \in Node, Restart(n) PROVE Goal
  BY <1>2, <1>12, OfInv DEF Restart
<1> QED BY <1>4, <1>5, <1>6, <1>7, <1>8, <1>9, <1>10, <1>11, <1>12 DEF Next, Goal

\* A child keeps its index for life: it leaves the table when the master is reset,
\* or restarts with no room for it beside its own parent (HAPStack::begin), and no
\* handshake moves it.
THEOREM AnIndexIsKept == Spec => IndexIsKept
<1> DEFINE A == \A n \in Node : \A i \in Used(node[n].children) :
                  IF i \in Used(node'[n].children)
                  THEN node'[n].children[i].mac = node[n].children[i].mac
                  ELSE node'[n].saved = Forgotten \/ TableIsFull(node'[n])
<1>1. Inv /\ Next => A
  <2> SUFFICES ASSUME Inv, Next PROVE A
    OBVIOUS
  <2>1. CASE node' = node
    BY <2>1
  <2>2. ASSUME NEW m \in Node, NEW e \in Device, Update(m, e), ChildrenKept(node[m], e)
        PROVE  A
    <3>1. node'[m] = e /\ \A n \in Node \ {m} : node'[n] = node[n]
      BY <2>2 DEF Inv, TypeOK, Update
    <3> QED BY <2>2, <3>1 DEF ChildrenKept
  <2> QED BY <2>1, <2>2, StepKeepsChildren
<1>2. Inv /\ [Next]_vars => [A]_vars
  BY <1>1
<1>3. Spec => [][A]_vars
  BY <1>2, AlwaysInv, PTL DEF Spec
<1> QED BY <1>3 DEF IndexIsKept

-----------------------------------------------------------------------------
(* The parent's key.  Two devices that take each other's announcements lose it: *)
(* what is given to the pending child is given to the parent's address, and      *)
(* taken back from it.  It is kept as long as there is an order, "above", in     *)
(* which announcements are only taken by a device above the one that announces.  *)

Asymmetric(above) ==
  above \subseteq Node \X Node /\ \A m, n \in Node : <<m, n>> \in above => <<n, m>> \notin above

InOrder(above, n, d) ==
  /\ d.pending # NoNode => <<n, d.pending>> \in above
  /\ d.parent # NoNode => <<d.parent, n>> \in above /\ d.peers[d.parent] = d.saved.key
  /\ \A t \in {d.children, d.saved.children} : \A i \in Used(t) : <<n, t[i].mac>> \in above

Ordered(above) ==
  /\ \A n \in Node : InOrder(above, n, node[n])
  /\ \A a, b \in Node : \A p \in Flying(a, b) : p.type = "Accept" => <<a, b>> \in above

\* Every announcement that is taken is taken by a device above its sender.
TakenFromBelow(above) ==
  [][\A from, n \in Node : HandleAnnounce(from, n) => <<n, from>> \in above]_vars

\* Nothing but the pending child's peer and the handshake changes.
LEMMA OrderKept ==
  ASSUME NEW above, Asymmetric(above), NEW n \in Node, NEW d \in Device, InOrder(above, n, d),
         NEW e \in Device, SameTables(e, d), e.pending \in {d.pending, NoNode},
         \A x \in Node \ {d.pending} : e.peers[x] = d.peers[x]
  PROVE  InOrder(above, n, e)
<1>1. d.parent # NoNode => d.parent \in Node /\ d.parent # d.pending
  BY DEF InOrder, Asymmetric, Device
<1> QED BY <1>1 DEF InOrder, SameTables

LEMMA RestartInOrder ==
  ASSUME NEW above, Asymmetric(above), NEW n \in Node, NEW d \in Device,
         NEW t \in Loadable(d), MacsOnce(d.saved.children),
         d.saved.parent # NoNode => <<d.saved.parent, n>> \in above,
         \A i \in Used(d.saved.children) : <<n, d.saved.children[i].mac>> \in above
  PROVE  InOrder(above, n, Restarted(d, t))
<1> DEFINE e == Restarted(d, t)
<1>1. /\ e.children = t /\ e.saved = d.saved /\ e.parent = d.saved.parent /\ e.pending = NoNode
      /\ e.peers = RestoredPeers(d, t)
  BY DEF Restarted, Blank
<1>2. /\ Used(t) \subseteq Used(d.saved.children) /\ MacsOnce(t)
      /\ \A i \in Used(t) : t[i] = d.saved.children[i]
  BY LoadableKeeps
<1>3. \A i \in Used(t) : <<n, t[i].mac>> \in above
  BY <1>2
<1>4. ASSUME d.saved.parent # NoNode PROVE e.peers[d.saved.parent] = d.saved.key
  <2>1. d.saved.parent \in Node
    BY <1>4 DEF Device, Saved
  <2>2. ChildByMac(t, d.saved.parent) = 0
    BY ZenonT(60), <1>2, <1>3, <1>4, <2>1, ByMac DEF Asymmetric
  <2> QED BY <1>1, <2>1, <2>2 DEF RestoredPeers
<1> HIDE DEF e
<1> QED BY <1>1, <1>3, <1>4 DEF InOrder, e

LEMMA OrderedByDevice ==
  ASSUME NEW above, Asymmetric(above), Inv, Ordered(above), NEW n \in Node, NEW e \in Device,
         Update(n, e), InOrder(above, n, e),
         \A a, b \in Node : \A p \in Flying(a, b)' :
           p.type = "Accept" => p \in Flying(a, b) \/ <<a, b>> \in above
  PROVE  Ordered(above)'
<1>1. node'[n] = e /\ \A m \in Node \ {n} : node'[m] = node[m]
  BY DEF Inv, TypeOK, Update
<1> QED BY <1>1 DEF Ordered

LEMMA OrderedStep ==
  ASSUME NEW above, Asymmetric(above), Inv, Ordered(above), Next,
         \A from, n \in Node : HandleAnnounce(from, n) => <<n, from>> \in above
  PROVE  Ordered(above)'
<1>1. ASSUME NEW n \in Node, NEW e \in Device, Update(n, e), InOrder(above, n, e), air' = air
      PROVE  Ordered(above)'
  BY <1>1, OrderedByDevice DEF Flying
<1>2. ASSUME NEW n \in Node, NEW e \in Device, Update(n, e), SameTables(e, node[n]),
             e.pending \in {node[n].pending, NoNode},
             \A x \in Node \ {node[n].pending} : e.peers[x] = node[n].peers[x],
             \A a, b \in Node : \A p \in Flying(a, b)' :
               p.type = "Accept" => p \in Flying(a, b) \/ <<a, b>> \in above
      PROVE  Ordered(above)'
  BY <1>2, OfInv, OrderKept, OrderedByDevice DEF Ordered
<1>3. ASSUME NEW from \in Node, NEW n \in Node, HandleAnnounce(from, n) PROVE Ordered(above)'
  <2> DEFINE d == node[n]
             i == OfferedIndex(d, from)
             a == Accepting(d, from, i, keys + 1)
             p == [type |-> "Accept", seal |-> Plain, index |-> i, key |-> keys + 1]
  <2>1. i \in Index /\ keys + 1 \in Key
    BY <1>3, OfInv, Offered DEF HandleAnnounce, Consistent, Inv, TypeOK, Key
  <2>2. /\ a \in Device /\ SameTables(a, d) /\ a.pending = from
        /\ \A x \in Node \ {from} : a.peers[x] = d.peers[x]
    BY <2>1, OfInv, AcceptingKeeps
  <2>3. InOrder(above, n, d) /\ <<n, from>> \in above /\ d \in Device
    BY <1>3, OfInv DEF Ordered
  <2>4. d.parent # NoNode => d.parent \in Node /\ d.parent # from
    BY <2>3 DEF InOrder, Asymmetric, Device
  <2>5. \/ Answer(from, n, p) /\ Update(n, [a EXCEPT !.reports = Append(@, from)])
        \/ Take(from, n) /\ \E s \in {"Idle", "Listening"} :
                               Update(n, [AbandonAccept(a) EXCEPT !.state = s])
    BY <1>3 DEF HandleAnnounce
  <2> HIDE DEF a, d
  <2>6. InOrder(above, n, a)
    BY <2>2, <2>3, <2>4 DEF InOrder, SameTables
  <2>7. p \in Packet
    <3>1. i \in 0 .. MaxChildren
      BY <2>1 DEF Index
    <3> QED BY <2>1, <3>1 DEF Packet
  <2>8. air[from][n] # <<>> /\ TypeOK
    BY <1>3 DEF HandleAnnounce, Arrives, Inv
  <2>9. CASE Answer(from, n, p) /\ Update(n, [a EXCEPT !.reports = Append(@, from)])
    <3> DEFINE e == [a EXCEPT !.reports = Append(@, from)]
    <3>1. Append(a.reports, from) \in Seq(Node)
      BY <2>2 DEF Device
    <3>2. e \in Device /\ SameTables(e, a) /\ SameHandshake(e, a) /\ e.peers = a.peers
      BY <2>2, <3>1, WithReports
    <3>3. Update(n, e)
      BY <2>9
    <3> HIDE DEF e
    <3>4. InOrder(above, n, e)
      BY <2>2, <2>6, <3>2, OrderKept DEF SameHandshake
    <3>5. \A x, y \in Node : \A q \in Flying(x, y)' : q \in Flying(x, y) \/ <<x, y>> \in above
      BY <2>3, <2>7, <2>8, <2>9, AnswerKeeps
    <3> QED BY <3>2, <3>3, <3>4, <3>5, OrderedByDevice
  <2>10. ASSUME NEW s \in {"Idle", "Listening"}, Take(from, n),
                Update(n, [AbandonAccept(a) EXCEPT !.state = s])
         PROVE  Ordered(above)'
    <3> DEFINE f == AbandonAccept(a)
               e == [f EXCEPT !.state = s]
    <3>1. f \in Device /\ SameTables(f, a) /\ f.pending = NoNode
          /\ \A x \in Node \ {a.pending} : f.peers[x] = a.peers[x]
      BY <2>2, AbandonKeeps
    <3> HIDE DEF f
    <3>2. e \in Device /\ SameTables(e, f) /\ SameHandshake(e, f) /\ e.peers = f.peers
      <4>1. s \in {"Idle", "Listening", "Accepting", "Announcing", "Bound"}
        BY <2>10
      <4> QED BY <3>1, <4>1, InState
    <3>3. Update(n, e)
      BY <2>10 DEF f
    <3> HIDE DEF e
    <3>4. InOrder(above, n, f)
      BY <2>2, <2>6, <3>1, OrderKept
    <3>5. InOrder(above, n, e)
      BY <3>1, <3>2, <3>4, OrderKept DEF SameHandshake
    <3>6. \A x, y \in Node : Flying(x, y)' \subseteq Flying(x, y)
      BY <2>8, <2>10, TakeKeeps
    <3> QED BY <3>2, <3>3, <3>5, <3>6, OrderedByDevice
  <2> QED BY <2>5, <2>9, <2>10
<1>4. ASSUME NEW from \in Node, NEW n \in Node, HandleAccept(from, n) PROVE Ordered(above)'
  <2> DEFINE p == Head(air[from][n])
             d == [node[n] EXCEPT !.linkKey = p.key]
             f == AddPeer(d, from, p.key)
             bound == BoundTo(f, from, p.index)
             confirm == [type |-> "Confirm", seal |-> p.key, index |-> 0, key |-> NoKey]
  <2>1. p.key \in Key /\ p.index \in 0 .. MaxChildren /\ <<from, n>> \in above
    <3>1. p.key \in 1 .. keys /\ p.index \in Index /\ keys \in 0 .. MaxKeys
          /\ p \in Flying(from, n) /\ p.type = "Accept"
      BY <1>4, HeadHolds DEF HandleAccept, Arrives, PacketHolds, Inv, TypeOK
    <3> QED BY <3>1 DEF Key, Index, Ordered
  <2>2. /\ node[n] \in Device /\ Consistent(node[n]) /\ InOrder(above, n, node[n])
        /\ node[n].parent = NoNode /\ node[n].saved.parent = NoNode
    BY <1>4, OfInv DEF Ordered, HandleAccept, Consistent, TablesSaved
  <2>3. d \in Device /\ SameTables(d, node[n]) /\ d.pending = node[n].pending /\ d.linkKey = p.key
    BY <2>1, <2>2 DEF Device, SameTables
  <2>4. \/ Take(from, n) /\ Update(n, d)
        \/ Take(from, n) /\ Update(n, RemovePeer(d, from))
        \/ /\ Answer(from, n, confirm) /\ PeerFits(d, from, p.key)
           /\ Update(n, SaveBind(bound)) \/ \E t \in Loadable(bound) : Update(n, Restarted(bound, t))
    BY <1>4 DEF HandleAccept
  <2>5. air[from][n] # <<>> /\ TypeOK
    BY <1>4 DEF HandleAccept, Arrives, Inv
  <2> HIDE DEF d, p
  <2>6. \A e \in Device : SameTables(e, node[n]) /\ e.pending = node[n].pending => InOrder(above, n, e)
    BY <2>2 DEF InOrder, SameTables
  <2>7. CASE Take(from, n) /\ Update(n, d)
    BY <2>3, <2>5, <2>6, <2>7, TakeKeeps, OrderedByDevice
  <2>8. CASE Take(from, n) /\ Update(n, RemovePeer(d, from))
    <3> DEFINE e == RemovePeer(d, from)
    <3>1. e \in Device /\ SameTables(e, d) /\ e.pending = d.pending
      BY <2>3, RemovePeerKeeps DEF SameHandshake
    <3>2. Update(n, e)
      BY <2>8
    <3> HIDE DEF e
    <3>3. InOrder(above, n, e)
      BY <2>3, <2>6, <3>1 DEF SameTables
    <3> QED BY <2>5, <2>8, <3>1, <3>2, <3>3, TakeKeeps, OrderedByDevice
  <2>9. CASE /\ Answer(from, n, confirm) /\ PeerFits(d, from, p.key)
             /\ Update(n, SaveBind(bound)) \/ \E t \in Loadable(bound) : Update(n, Restarted(bound, t))
    <3>1. /\ f \in Device /\ SameTables(f, d) /\ f.pending = d.pending /\ f.linkKey = p.key
      BY <2>1, <2>3, AddPeerKeeps DEF SameHandshake
    <3>2. f.peers[from] = p.key
      BY <2>3, <2>9 DEF AddPeer, Device
    <3> HIDE DEF f
    <3>3. /\ bound \in Device /\ bound.parent = from /\ bound.children = node[n].children
          /\ bound.saved = node[n].saved /\ bound.linkKey = p.key
          /\ bound.pending = node[n].pending /\ bound.peers[from] = p.key
      <4>1. bound \in Device
        BY <2>1, <3>1 DEF BoundTo, Device
      <4> QED BY <2>3, <3>1, <3>2, <4>1 DEF BoundTo, Device, SameTables
    <3> HIDE DEF bound
    <3>4. \E e \in Device : Update(n, e) /\ InOrder(above, n, e)
      <4>1. CASE Update(n, SaveBind(bound))
        <5> DEFINE e == SaveBind(bound)
        <5>1. e \in Device
          BY <3>3 DEF SaveBind, Device, Saved
        <5>2. /\ e.children = node[n].children /\ e.parent = from /\ e.peers = bound.peers
              /\ e.saved.key = p.key /\ e.saved.children = node[n].saved.children
              /\ e.pending = node[n].pending
          BY <3>3 DEF SaveBind, Device, Saved
        <5>3. Update(n, e)
          BY <4>1
        <5> HIDE DEF e
        <5>4. InOrder(above, n, e)
          BY <2>1, <2>2, <3>3, <5>2 DEF InOrder
        <5> QED BY <5>1, <5>3, <5>4
      <4>2. ASSUME NEW t \in Loadable(bound), Update(n, Restarted(bound, t))
            PROVE  \E e \in Device : Update(n, e) /\ InOrder(above, n, e)
        <5>1. Restarted(bound, t) \in Device
          BY <2>2, <3>3, RestartedKeeps DEF Consistent
        <5>2. InOrder(above, n, Restarted(bound, t))
          <6>1. /\ MacsOnce(bound.saved.children) /\ bound.saved.parent = NoNode
                /\ \A i \in Used(bound.saved.children) :
                     <<n, bound.saved.children[i].mac>> \in above
            BY <2>2, <3>3 DEF Consistent, InOrder
          <6> QED BY <3>3, <6>1, RestartInOrder
        <5> QED BY <4>2, <5>1, <5>2
      <4> QED BY <2>9, <4>1, <4>2
    <3>5. confirm \in Packet /\ confirm.type # "Accept"
      <4>1. 0 \in 0 .. MaxChildren
        OBVIOUS
      <4> QED BY <2>1, <4>1 DEF Packet
    <3>6. \A x, y \in Node : \A q \in Flying(x, y)' : q.type = "Accept" => q \in Flying(x, y)
      BY <2>5, <2>9, <3>5, AnswerKeeps
    <3> QED BY <3>4, <3>6, OrderedByDevice
  <2> QED BY <2>4, <2>7, <2>8, <2>9
<1>5. ASSUME NEW from \in Node, NEW n \in Node, HandleConfirm(from, n) PROVE Ordered(above)'
  <2> DEFINE d == node[n]
             r == Recorded(d)
  <2>1. d \in Device /\ Consistent(d) /\ d.state = "Accepting" /\ InOrder(above, n, d)
    BY <1>5, OfInv DEF HandleConfirm, Ordered
  <2>2. MacsOnce(d.children) /\ PlaceIsKept(d) /\ ~TableIsFull(d) /\ <<n, d.pending>> \in above
    BY <2>1 DEF Consistent, PlaceIsKept, InOrder, RouterAssumption
  <2>3. /\ r \in Device /\ r.state = "Idle"
        /\ r.children[d.pendingIndex] = [mac |-> d.pending, key |-> d.linkKey]
        /\ Used(r.children) = Used(d.children) \cup {d.pendingIndex}
        /\ \A i \in Index \ {d.pendingIndex} : r.children[i] = d.children[i]
        /\ r.parent = d.parent /\ r.saved = d.saved /\ r.peers = d.peers /\ SameHandshake(r, d)
    BY <2>1, <2>2, RecordedKeeps
  <2>4. /\ Take(from, n)
        /\ Update(n, SaveChildren(r)) \/ \E t \in Loadable(r) : Update(n, Restarted(r, t))
    BY <1>5, <2>3 DEF HandleConfirm
  <2>5. \A x, y \in Node : Flying(x, y)' \subseteq Flying(x, y)
    BY <1>5, TakeKeeps DEF HandleConfirm, Arrives, Inv
  <2>6. \A i \in Used(r.children) : <<n, r.children[i].mac>> \in above
    <3>1. ASSUME NEW i \in Used(r.children) PROVE <<n, r.children[i].mac>> \in above
      <4>1. CASE i = d.pendingIndex
        BY <2>2, <2>3, <4>1
      <4>2. CASE i # d.pendingIndex
        BY <2>1, <2>3, <3>1, <4>2 DEF InOrder, Used
      <4> QED BY <4>1, <4>2
    <3> QED BY <3>1
  <2> HIDE DEF r
  <2>7. CASE Update(n, SaveChildren(r))
    <3> DEFINE e == SaveChildren(r)
    <3>1. e \in Device
      BY <2>3 DEF SaveChildren, Device, Saved
    <3>2. /\ e.children = r.children /\ e.saved.children = r.children /\ e.parent = d.parent
          /\ e.saved.key = d.saved.key /\ e.peers = d.peers /\ e.pending = d.pending
      BY <2>3 DEF SaveChildren, Device, Saved, SameHandshake
    <3>3. Update(n, e)
      BY <2>7
    <3> HIDE DEF e
    <3>4. InOrder(above, n, e)
      BY <2>1, <2>6, <3>2 DEF InOrder
    <3> QED BY <2>5, <3>1, <3>3, <3>4, OrderedByDevice
  <2>8. ASSUME NEW t \in Loadable(r), Update(n, Restarted(r, t)) PROVE Ordered(above)'
    <3>1. Restarted(r, t) \in Device
      BY <2>1, <2>3, RestartedKeeps DEF Consistent, TablesSaved
    <3>2. InOrder(above, n, Restarted(r, t))
      BY SMTT(30), <2>1, <2>3, RestartInOrder DEF Consistent, TablesSaved, InOrder
    <3> QED BY <2>5, <2>8, <3>1, <3>2, OrderedByDevice
  <2> QED BY <2>4, <2>7, <2>8
<1>6. ASSUME NEW from \in Node, NEW n \in Node, NotHeard(from, n) PROVE Ordered(above)'
  <2>1. \A x, y \in Node : Flying(x, y)' \subseteq Flying(x, y)
    BY <1>6, TakeKeeps DEF NotHeard, Inv
  <2>2. node' = node
    BY <1>6 DEF NotHeard
  <2> QED BY <2>1, <2>2 DEF Ordered
<1>7. ASSUME NEW n \in Node, NEW s \in {"Idle", "Listening", "Accepting", "Announcing", "Bound"},
             NEW d \in Device, SameTables(d, node[n]), d.pending \in {node[n].pending, NoNode},
             \A x \in Node \ {node[n].pending} : d.peers[x] = node[n].peers[x],
             Update(n, [d EXCEPT !.state = s]),
             \A a, b \in Node : \A p \in Flying(a, b)' : p.type = "Accept" => p \in Flying(a, b)
      PROVE  Ordered(above)'
  <2> DEFINE e == [d EXCEPT !.state = s]
  <2>1. e \in Device /\ SameTables(e, d) /\ SameHandshake(e, d) /\ e.peers = d.peers
    BY InState
  <2>2. Update(n, e)
    BY <1>7
  <2> HIDE DEF e
  <2>3. SameTables(e, node[n]) /\ e.pending = d.pending
    BY <1>7, <2>1 DEF SameTables, SameHandshake
  <2> QED BY <1>2, <1>7, <2>1, <2>2, <2>3
<1>8. ASSUME NEW n \in Node, Announce(n) PROVE Ordered(above)'
  <2>1. \A a, b \in Node : air'[a][b] = air[a][b] \/ air'[a][b] = <<Announcement>>
    BY <1>8 DEF Announce, Inv, TypeOK
  <2>2. ASSUME NEW a \in Node, NEW b \in Node, NEW p \in Flying(a, b)', p.type = "Accept"
        PROVE  p \in Flying(a, b)
    BY <2>1, <2>2 DEF Flying, Announcement
  <2>3. SameTables(node[n], node[n])
    BY DEF SameTables
  <2> QED BY <1>7, <1>8, <2>2, <2>3, OfInv DEF Announce
<1>9. ASSUME NEW n \in Node,
             Listen(n) \/ StopListening(n) \/ StopAnnouncing(n) \/ ConfirmExpires(n)
      PROVE  Ordered(above)'
  <2>1. SameTables(node[n], node[n])
    BY DEF SameTables
  <2>2. /\ AbandonAccept(node[n]) \in Device /\ SameTables(AbandonAccept(node[n]), node[n])
        /\ AbandonAccept(node[n]).pending = NoNode
        /\ \A x \in Node \ {node[n].pending} : AbandonAccept(node[n]).peers[x] = node[n].peers[x]
    BY OfInv, AbandonKeeps
  <2>3. \A a, b \in Node : Flying(a, b)' = Flying(a, b)
    BY <1>9 DEF Listen, StopListening, StopAnnouncing, ConfirmExpires, Flying
  <2>4. CASE Listen(n) \/ StopAnnouncing(n)
    BY <1>7, <2>1, <2>3, <2>4, OfInv DEF Listen, StopAnnouncing
  <2>5. CASE StopListening(n) \/ ConfirmExpires(n)
    BY <1>7, <2>2, <2>3, <2>5 DEF StopListening, ConfirmExpires
  <2> QED BY <1>9, <2>4, <2>5
<1>10. ASSUME NEW n \in Node, NEW delivered \in BOOLEAN, NotifySent(n, delivered)
       PROVE  Ordered(above)'
  <2> DEFINE d == [node[n] EXCEPT !.reports = Tail(@)]
  <2>1. Tail(node[n].reports) \in Seq(Node)
    BY <1>10, OfInv DEF NotifySent, Device
  <2>2. d \in Device /\ SameTables(d, node[n]) /\ SameHandshake(d, node[n])
        /\ d.state = node[n].state /\ d.peers = node[n].peers
    BY <2>1, OfInv, WithReports
  <2>3. (Update(n, d) \/ (d.state = "Accepting" /\ Update(n, SwitchToEncrypted(d)))) /\ air' = air
    BY <1>10 DEF NotifySent
  <2> HIDE DEF d
  <2>4. \A a, b \in Node : Flying(a, b)' = Flying(a, b)
    BY <2>3 DEF Flying
  <2>5. CASE Update(n, d)
    BY <1>2, <2>2, <2>4, <2>5 DEF SameHandshake
  <2>6. CASE d.state = "Accepting" /\ Update(n, SwitchToEncrypted(d))
    <3> DEFINE e == SwitchToEncrypted(d)
    <3>1. /\ e \in Device /\ SameTables(e, d) /\ SameHandshake(e, d)
          /\ \A x \in Node \ {d.pending} : e.peers[x] = d.peers[x]
      BY ZenonT(60), <2>2, <2>6, OfInv, SwitchKeeps DEF SameHandshake
    <3>2. Update(n, e)
      BY <2>6
    <3> HIDE DEF e
    <3>3. /\ SameTables(e, node[n]) /\ e.pending = node[n].pending
          /\ \A x \in Node \ {node[n].pending} : e.peers[x] = node[n].peers[x]
      BY <2>2, <3>1 DEF SameTables, SameHandshake
    <3> QED BY <1>2, <2>4, <3>1, <3>2, <3>3
  <2> QED BY <2>3, <2>5, <2>6
<1>11. ASSUME NEW n \in Node, KeySwitchTimeout(n) PROVE Ordered(above)'
  <2> DEFINE e == SwitchToEncrypted(node[n])
  <2>1. /\ e \in Device /\ SameTables(e, node[n]) /\ SameHandshake(e, node[n])
        /\ \A x \in Node \ {node[n].pending} : e.peers[x] = node[n].peers[x]
    BY <1>11, OfInv, SwitchKeeps DEF KeySwitchTimeout
  <2>2. Update(n, e) /\ \A a, b \in Node : Flying(a, b)' = Flying(a, b)
    BY <1>11 DEF KeySwitchTimeout, Flying
  <2> HIDE DEF e
  <2> QED BY <1>2, <2>1, <2>2 DEF SameHandshake
<1>12. ASSUME NEW n \in Node, FactoryReset(n) PROVE Ordered(above)'
  <2> DEFINE e == Reset(node[n])
  <2>1. /\ e \in Device /\ Used(e.children) = {} /\ Used(e.saved.children) = {}
        /\ SameHandshake(e, node[n])
    BY OfInv, ResetKeeps
  <2>2. e.parent = NoNode
    BY OfInv DEF Reset, Device
  <2>3. Update(n, e) /\ air' = air
    BY <1>12 DEF FactoryReset
  <2> HIDE DEF e
  <2>4. InOrder(above, n, e)
    BY <2>1, <2>2 DEF InOrder, Ordered, SameHandshake
  <2> QED BY <1>1, <2>1, <2>3, <2>4
<1>13. ASSUME NEW n \in Node, Restart(n) PROVE Ordered(above)'
  <2>1. PICK t \in Loadable(node[n]) : Update(n, Restarted(node[n], t)) /\ air' = air
    BY <1>13 DEF Restart
  <2>2. Restarted(node[n], t) \in Device
    BY OfInv, RestartedKeeps DEF Consistent, TablesSaved
  <2>3. InOrder(above, n, Restarted(node[n], t))
    <3> DEFINE d == node[n]
    <3>1. d \in Device /\ Consistent(d) /\ InOrder(above, n, d)
      BY OfInv DEF Ordered
    <3> HIDE DEF d
    <3>2. /\ MacsOnce(d.saved.children)
          /\ d.saved.parent # NoNode => <<d.saved.parent, n>> \in above
          /\ \A i \in Used(d.saved.children) : <<n, d.saved.children[i].mac>> \in above
      BY <3>1 DEF Consistent, TablesSaved, InOrder
    <3>3. InOrder(above, n, Restarted(d, t))
      BY <3>1, <3>2, RestartInOrder DEF d
    <3> QED BY <3>3 DEF d
  <2> QED BY <1>1, <2>1, <2>2, <2>3
<1> QED BY <1>3, <1>4, <1>5, <1>6, <1>8, <1>9, <1>10, <1>11, <1>12, <1>13 DEF Next

\* Whatever moment power is lost at, a restart brings back the parent and every
\* child that was in use (HAPStack::begin): the tables are saved in the step that
\* changes them, and the parent is still the peer it was bound to - unless two
\* devices take each other's announcements.
THEOREM NothingIsUnsaved ==
  ASSUME NEW CONSTANT above, Asymmetric(above)
  PROVE  Spec /\ TakenFromBelow(above) => []NothingUnsaved
<1> DEFINE OnlyBelow == \A from, n \in Node : HandleAnnounce(from, n) => <<n, from>> \in above
<1>1. Init => Ordered(above)
  <2> SUFFICES ASSUME Init PROVE Ordered(above)
    OBVIOUS
  <2>1. \A n \in Node : node[n] = Blank /\ \A m \in Node : Flying(n, m) = {}
    BY DEF Init, Flying
  <2> QED BY <2>1, NothingUsed DEF Ordered, InOrder, Blank, Forgotten
<1>2. Inv /\ Ordered(above) /\ [Next]_vars /\ [OnlyBelow]_vars => Ordered(above)'
  <2> SUFFICES ASSUME Inv, Ordered(above), [Next]_vars, [OnlyBelow]_vars PROVE Ordered(above)'
    OBVIOUS
  <2>1. CASE UNCHANGED vars
    BY <2>1 DEF vars, Ordered, Flying
  <2>2. CASE Next /\ OnlyBelow
    BY <2>2, OrderedStep
  <2> QED BY <2>1, <2>2
<1>3. Inv /\ Ordered(above) => NothingUnsaved
  BY DEF Inv, Ordered, InOrder, Consistent, TablesSaved, NothingUnsaved
<1> QED BY <1>1, <1>2, <1>3, AlwaysInv, PTL DEF Spec, TakenFromBelow
=============================================================================
