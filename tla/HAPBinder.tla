------------------------------ MODULE HAPBinder ------------------------------
(***************************************************************************)
(* Who is bound to whom: the HAPBinder handshake of every node, over a radio *)
(* that loses packets and discards what is sealed with the wrong key, with   *)
(* what HAPStack does around it - saving both tables, restoring them in      *)
(* begin() and forgetting everything in factoryReset().                      *)
(*                                                                          *)
(*   slave                         master                                   *)
(*   announce()  --Announce------>  handleAnnounce: index, new key           *)
(*   handleAccept  <--Accept-----  plain peer, then keyed once it was sent  *)
(*               --Confirm[key]->  handleConfirm: into the child table      *)
(*                                                                          *)
(* Time is not measured: a window, a dwell or a confirmation may run out     *)
(* whenever it is running.  A channel the two ends do not share is one more  *)
(* way for a packet to be lost.                                             *)
(***************************************************************************)
EXTENDS HAPRouter

CONSTANTS NoPeer,     \* an address the radio does not know
          Plain,      \* a peer without a key, a packet in the clear
          MaxPeers,   \* ESP_NOW_MAX_ENCRYPT_PEER_NUM
          MaxKeys,    \* bound: acceptances sent in a behaviour
          Casts       \* what may be done to which nodes, one cast or another

Key   == 1 .. MaxKeys
NoKey == 0

ASSUME BinderAssumption ==
  /\ MaxKeys \in Nat /\ MaxPeers \in Nat /\ MaxChildren =< MaxPeers
  /\ NoPeer \notin Key /\ Plain \notin Key /\ NoPeer # Plain
  /\ NoChild \notin [mac : Node, key : Key]
  /\ \A c \in Casts :
       /\ c.listeners \subseteq Node   \* somebody opens the bind window here,
       /\ c.announcers \subseteq Node  \* makes these announce,
       /\ c.resetting \subseteq Node   \* resets these,
       /\ c.restarting \subseteq Node  \* and these may lose power

VARIABLES node,   \* the state of each device
          air,    \* air[a][b]: packets from a to b, in order
          keys,   \* how many link keys were made: the last one's number
          bonds,  \* history: what each slave agreed to
          cast    \* the cast of this behaviour

vars == <<node, air, keys, bonds, cast>>

Child  == [mac : Node, key : Key]
Table  == [Index -> Child \cup {NoChild}]
Saved  == [parent : Node \cup {NoNode}, index : 0 .. MaxChildren,
           key : Key \cup {NoKey}, children : Table]
Device ==
  [state : {"Idle", "Listening", "Accepting", "Announcing", "Bound"},
   pending : Node \cup {NoNode}, pendingIndex : 0 .. MaxChildren,
   keySwitched : BOOLEAN, linkKey : Key \cup {NoKey},
   parent : Node \cup {NoNode}, index : 0 .. MaxChildren, children : Table,
   peers : [Node -> Key \cup {NoPeer, Plain}],
   reports : Seq(Node),    \* acceptances the radio has yet to report sent
   saved : Saved]          \* bind.json and children.json
Packet ==
  [type : {"Announce", "Accept", "Confirm"}, seal : Key \cup {Plain},
   index : 0 .. MaxChildren, key : Key \cup {NoKey}]
Bond == [master : Node, slave : Node, index : Index, key : Key]

Forgotten == [parent |-> NoNode, index |-> 0, key |-> NoKey, children |-> EmptyTable]
Blank ==
  [state |-> "Idle", pending |-> NoNode, pendingIndex |-> 0, keySwitched |-> FALSE,
   linkKey |-> NoKey, parent |-> NoNode, index |-> 0, children |-> EmptyTable,
   peers |-> [m \in Node |-> NoPeer], reports |-> <<>>, saved |-> Forgotten]

-----------------------------------------------------------------------------
(* The radio of one device, as operators on its record *)

Encrypted(d) == {m \in Node : d.peers[m] \in Key}

\* addPeer(): a key is refused to an address without one once the radio's table
\* of encrypted peers is full.
PeerFits(d, m, k) ==
  k = Plain \/ m \in Encrypted(d) \/ Cardinality(Encrypted(d)) < MaxPeers
AddPeer(d, m, k) == IF PeerFits(d, m, k) THEN [d EXCEPT !.peers[m] = k] ELSE d
RemovePeer(d, m) == [d EXCEPT !.peers[m] = NoPeer]

\* A sealed packet is opened only with its own key; an unsealed one is taken
\* from anybody but an encrypted peer - unless it is a broadcast.
Hears(d, from, p) ==
  IF p.seal # Plain THEN d.peers[from] = p.seal
  ELSE p.type = "Announce" \/ d.peers[from] \notin Key

-----------------------------------------------------------------------------
(* The binder of one device *)

AbandonAccept(d) ==
  [IF d.pending = NoNode THEN d ELSE RemovePeer(d, d.pending)
     EXCEPT !.pending = NoNode, !.pendingIndex = 0, !.keySwitched = FALSE]

SwitchToEncrypted(d) ==
  IF d.keySwitched \/ d.pending = NoNode THEN d
  ELSE [AddPeer(d, d.pending, d.linkKey) EXCEPT !.keySwitched = TRUE]

\* Mutant: a device that comes back gets the next index.
OfferedAfresh(d, m) == FreeChildIndex(d)

\* The index an announcing node is offered: its own if it is a child already.
OfferedIndex(d, m) ==
  LET returning == ChildByMac(d.children, m) IN
  IF returning # 0 THEN returning ELSE FreeChildIndex(d)

\* The state once an acceptance to m, with a new key k, has gone out.
Accepting(d, m, i, k) ==
  AddPeer([d EXCEPT !.state = "Accepting", !.pending = m, !.pendingIndex = i,
                    !.keySwitched = FALSE, !.linkKey = k], m, Plain)

\* Bound to the master m as its child i.
BoundTo(d, m, i) == [d EXCEPT !.state = "Bound", !.parent = m, !.index = i]

\* Mutant: the stale entry of a returning child stays.
RecordedBesideStale(d) ==
  IF MayAddChild(d, d.pendingIndex, d.pending)
  THEN [d EXCEPT !.state = "Idle",
                 !.children = AddChild(@, d.pendingIndex,
                                [mac |-> d.pending, key |-> d.linkKey])]
  ELSE AbandonAccept(d)

\* Mutant: the pending address is cleared before it is recorded.
RecordedOnceCleared(d) ==
  [d EXCEPT !.state = "Idle", !.pending = NoNode,
            !.children = AddChild(@, d.pendingIndex, [mac |-> NoNode, key |-> d.linkKey])]

\* The table once the pending child is recorded: its old entry goes first.
Recorded(d) ==
  LET i     == ChildByMac(d.children, d.pending)
      freed == IF i = 0 THEN d ELSE [d EXCEPT !.children = RemoveChild(@, i)]
  IN  IF MayAddChild(freed, d.pendingIndex, d.pending)
      THEN [freed EXCEPT !.state = "Idle",
                         !.children = AddChild(@, d.pendingIndex,
                                        [mac |-> d.pending, key |-> d.linkKey])]
      ELSE AbandonAccept(freed)

-----------------------------------------------------------------------------
(* HAPStack's part: what survives, and what is forgotten *)

\* Mutant: the bind is saved without its key.
SaveBindUnkeyed(d) == [d EXCEPT !.saved.parent = d.parent, !.saved.index = d.index]

SaveBind(d) == [d EXCEPT !.saved.parent = d.parent, !.saved.index = d.index,
                         !.saved.key = d.linkKey]

\* Mutant: the children are saved without their keys.
SaveChildrenUnkeyed(d) ==
  [d EXCEPT !.saved.children =
     [i \in Index |-> IF i \in Used(d.children) THEN [d.children[i] EXCEPT !.key = NoKey]
                      ELSE NoChild]]

SaveChildren(d) == [d EXCEPT !.saved.children = d.children]

\* The tables begin() may load: as many of the saved children as there is room
\* for beside the parent.
Loadable(d) ==
  {t \in {[i \in Index |-> IF i \in I THEN d.saved.children[i] ELSE NoChild] :
            I \in SUBSET Used(d.saved.children)} :
     Cardinality(Used(t)) =
       LET room == ChildCapacity(d.saved) stored == Cardinality(Used(d.saved.children))
       IN  IF stored > room THEN room ELSE stored}

RestoredPeers(d, t) ==
  [m \in Node |->
     IF ChildByMac(t, m) # 0 THEN t[ChildByMac(t, m)].key
     ELSE IF m = d.saved.parent THEN d.saved.key ELSE NoPeer]

Restarted(d, t) ==
  [Blank EXCEPT !.parent = d.saved.parent, !.index = d.saved.index, !.children = t,
                !.peers = RestoredPeers(d, t), !.saved = d.saved]

Reset(d) ==
  [d EXCEPT !.parent = NoNode, !.index = 0, !.children = EmptyTable,
            !.saved = Forgotten,
            !.peers = [m \in Node |-> IF m = d.saved.parent \/ m \in Macs(d.children)
                                      THEN NoPeer ELSE d.peers[m]]]

-----------------------------------------------------------------------------
Init ==
  /\ node = [n \in Node |-> Blank]
  /\ air = [a \in Node |-> [b \in Node |-> <<>>]]
  /\ keys = 0
  /\ bonds = {}
  /\ cast \in Casts

Update(n, d) == node' = [node EXCEPT ![n] = d]

Listen(n) ==
  /\ n \in cast.listeners
  /\ ~TableIsFull(node[n])
  /\ Update(n, [node[n] EXCEPT !.state = "Listening"])
  /\ UNCHANGED <<air, keys, bonds, cast>>

\* Stopped by the user, or the window closes with nobody bound.
StopListening(n) ==
  /\ node[n].state \in {"Listening", "Accepting"}
  /\ Update(n, [AbandonAccept(node[n]) EXCEPT !.state = "Idle"])
  /\ UNCHANGED <<air, keys, bonds, cast>>

Announcement == [type |-> "Announce", seal |-> Plain, index |-> 0, key |-> NoKey]

\* The first announcement, and the ones update() repeats; heard by those that
\* share the channel just then.  Bound: one announcement in flight to a node.
Announce(n) ==
  /\ n \in cast.announcers
  /\ node[n].parent = NoNode
  /\ \E H \in SUBSET (Node \ {n}) :
       /\ \A m \in H : air[n][m] = <<>>
       /\ air' = [air EXCEPT ![n] = [m \in Node |-> IF m \in H THEN <<Announcement>>
                                                  ELSE @[m]]]
  /\ Update(n, [node[n] EXCEPT !.state = "Announcing"])
  /\ UNCHANGED <<keys, bonds, cast>>

StopAnnouncing(n) ==
  /\ node[n].state = "Announcing"
  /\ Update(n, [node[n] EXCEPT !.state = "Idle"])
  /\ UNCHANGED <<air, keys, bonds, cast>>

\* The packet at the head of a channel, of the given type, as n takes it.
Arrives(from, n, type) ==
  /\ air[from][n] # <<>>
  /\ Head(air[from][n]).type = type
  /\ Hears(node[n], from, Head(air[from][n]))

Take(from, n)       == air' = [air EXCEPT ![from][n] = Tail(@)]
Answer(from, n, p)  ==
  air' = [[air EXCEPT ![from][n] = Tail(@)] EXCEPT ![n][from] = Append(@, p)]

HandleAnnounce(from, n) ==
  LET i == OfferedIndex(node[n], from)
      d == Accepting(node[n], from, i, keys + 1)
  IN
  /\ Arrives(from, n, "Announce")
  /\ node[n].state = "Listening"
  /\ i # 0
  /\ keys < MaxKeys
  /\ keys' = keys + 1
  /\ \/ /\ Answer(from, n, [type |-> "Accept", seal |-> Plain, index |-> i, key |-> keys'])
        /\ Update(n, [d EXCEPT !.reports = Append(@, from)])
     \/ \* The radio would not send it.
        /\ Take(from, n)
        /\ \E after \in {"Idle", "Listening"} :
             Update(n, [AbandonAccept(d) EXCEPT !.state = after])
  /\ UNCHANGED <<bonds, cast>>

HandleAccept(from, n) ==
  LET p == Head(air[from][n])
      d == [node[n] EXCEPT !.linkKey = p.key]
      confirm == [type |-> "Confirm", seal |-> p.key, index |-> 0, key |-> NoKey]
      bound   == BoundTo(AddPeer(d, from, p.key), from, p.index)
  IN
  /\ Arrives(from, n, "Accept")
  /\ node[n].state = "Announcing"
  /\ IF ~PeerFits(d, from, p.key)
     THEN Take(from, n) /\ Update(n, d) /\ UNCHANGED bonds
     ELSE \/ /\ Answer(from, n, confirm)
             /\ bonds' = bonds \cup {[master |-> from, slave |-> n, index |-> p.index,
                                      key |-> p.key]}
             /\ \/ Update(n, SaveBind(bound))
                \/ \* Power is lost before the bind is saved.
                   /\ n \in cast.restarting
                   /\ \E t \in Loadable(bound) : Update(n, Restarted(bound, t))
          \/ \* The radio would not send it.
             /\ Take(from, n)
             /\ Update(n, RemovePeer(d, from))
             /\ UNCHANGED bonds
  /\ UNCHANGED <<keys, cast>>

\* Mutant: anybody's confirmation is taken for the pending child's.
HandleConfirmOfAnybody(from, n) ==
  /\ Arrives(from, n, "Confirm")
  /\ node[n].state = "Accepting"
  /\ Take(from, n)
  /\ Update(n, SaveChildren(Recorded(node[n])))
  /\ UNCHANGED <<keys, bonds, cast>>

HandleConfirm(from, n) ==
  /\ Arrives(from, n, "Confirm")
  /\ node[n].state = "Accepting"
  /\ node[n].pending = from
  /\ Take(from, n)
  /\ LET d == Recorded(node[n]) IN
     \/ Update(n, IF d.state = "Idle" THEN SaveChildren(d) ELSE d)
     \/ \* Power is lost before the table is saved.
        /\ n \in cast.restarting
        /\ \E t \in Loadable(d) : Update(n, Restarted(d, t))
  /\ UNCHANGED <<keys, bonds, cast>>

\* Lost in the air, discarded by the radio, or of no use to the binder.
NotHeard(from, n) ==
  /\ air[from][n] # <<>>
  /\ Take(from, n)
  /\ UNCHANGED <<node, keys, bonds, cast>>

\* The radio reports, from its own task, an acceptance as sent or not.
NotifySent(n, delivered) ==
  LET d == [node[n] EXCEPT !.reports = Tail(@)] IN
  /\ node[n].reports # <<>>
  /\ Update(n, IF delivered /\ d.state = "Accepting" /\ Head(node[n].reports) = d.pending
               THEN SwitchToEncrypted(d) ELSE d)
  /\ UNCHANGED <<air, keys, bonds, cast>>

KeySwitchTimeout(n) ==
  /\ node[n].state = "Accepting"
  /\ ~node[n].keySwitched
  /\ Update(n, SwitchToEncrypted(node[n]))
  /\ UNCHANGED <<air, keys, bonds, cast>>

ConfirmExpires(n) ==
  /\ node[n].state = "Accepting"
  /\ \E after \in {"Idle", "Listening"} :
       Update(n, [AbandonAccept(node[n]) EXCEPT !.state = after])
  /\ UNCHANGED <<air, keys, bonds, cast>>

FactoryReset(n) ==
  /\ n \in cast.resetting
  /\ Update(n, Reset(node[n]))
  /\ UNCHANGED <<air, keys, bonds, cast>>

Restart(n) ==
  /\ n \in cast.restarting
  /\ \E t \in Loadable(node[n]) : Update(n, Restarted(node[n], t))
  /\ UNCHANGED <<air, keys, bonds, cast>>

Next ==
  \/ \E from, n \in Node :
       \/ HandleAnnounce(from, n) \/ HandleAccept(from, n) \/ HandleConfirm(from, n)
       \/ NotHeard(from, n)
  \/ \E n \in Node :
       \/ Listen(n) \/ StopListening(n) \/ Announce(n) \/ StopAnnouncing(n)
       \/ \E delivered \in BOOLEAN : NotifySent(n, delivered)
       \/ KeySwitchTimeout(n) \/ ConfirmExpires(n)
       \/ FactoryReset(n) \/ Restart(n)

Spec == Init /\ [][Next]_vars

-----------------------------------------------------------------------------
(* Properties *)

TypeOK ==
  /\ node \in [Node -> Device]
  /\ air \in [Node -> [Node -> Seq(Packet)]]
  /\ keys \in 0 .. MaxKeys
  /\ bonds \subseteq Bond

\* However a handshake is interleaved with resets, restarts, other handshakes
\* and impatient users, the index it offers stays there to be taken: a slave
\* that confirmed is never refused at the last step.
ConfirmationFits ==
  \A n \in Node : node[n].state = "Accepting" => Recorded(node[n]).state = "Idle"

\* A master's entry for a child is, index and key, what that child agreed to:
\* no confirmation of an earlier, abandoned or other handshake is taken for it.
RecordedAsAgreed ==
  \A n \in Node : \A t \in {node[n].children, node[n].saved.children} :
    \A i \in Used(t) : [master |-> n, slave |-> t[i].mac, index |-> i,
                        key |-> t[i].key] \in bonds

\* Whatever moment power is lost at, a restart brings back the parent, and no
\* child that it does not bring back unchanged was in use.
NothingUnsaved ==
  \A n \in Node :
    LET d == node[n] IN
    /\ d.saved.parent = d.parent /\ d.saved.index = d.index
    /\ d.parent # NoNode => d.peers[d.parent] = d.saved.key
    /\ \A i \in Used(d.children) : d.saved.children[i] = d.children[i]

\* A child keeps its index for life: no handshake, failed or repeated, moves or
\* drops it.  It leaves the table when the master is factory-reset, or restarts
\* with no room for it beside its parent.
IndexIsKept ==
  [][\A n \in Node : \A i \in Used(node[n].children) :
       IF i \in Used(node'[n].children)
       THEN node'[n].children[i].mac = node[n].children[i].mac
       ELSE node'[n].saved = Forgotten \/ TableIsFull(node'[n])]_vars

-----------------------------------------------------------------------------
(* What the documents say, and the code does otherwise *)

\* A master that is idle can talk to every child in its table: abandoning a
\* handshake takes back what was given to a device that never finished it.
ChildrenStayPeers ==
  \A n \in Node : node[n].state = "Idle" =>
    \A i \in Used(node[n].children) :
      node[n].peers[node[n].children[i].mac] = node[n].children[i].key

Above(n) == IF node[n].parent = NoNode THEN {} ELSE {node[n].parent}

\* A slave has one parent, which keeps the graph a tree.
IsTree ==
  \A n \in Node :
    LET up[k \in 0 .. Cardinality(Node)] ==
          IF k = 0 THEN Above(n) ELSE up[k - 1] \cup UNION {Above(m) : m \in up[k - 1]}
    IN  n \notin up[Cardinality(Node)]

=============================================================================
