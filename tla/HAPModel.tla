------------------------------ MODULE HAPModel ------------------------------
(***************************************************************************)
(* What a master knows about the tree below it (HAPModel/HAPModel.cpp): a   *)
(* table of entries, one for each path it has heard from.  This module has  *)
(* the table's operations as functions of the table; HAPMaster gives them a *)
(* life.                                                                    *)
(*                                                                          *)
(* A table is a function from paths to entries.  Of an entry it keeps the   *)
(* device's identity, the interval a silence is measured against, the       *)
(* silence itself and the verdict.  Names, instances, values and revisions  *)
(* are left out: none of them says who a device is or whether it lives.     *)
(***************************************************************************)
EXTENDS Naturals, Sequences, FiniteSets

CONSTANTS
  MaxNodes,           \* HAP_MODEL_MAX_NODES: how many entries a table holds
  MaxDepth,           \* HAP_MAX_DEPTH: how long a path may be
  OfflineIntervals,   \* HAP_OFFLINE_INTERVALS: silences before a node is lost
  NoMac               \* the zero address of an entry nobody has named

ASSUME ModelAssumption ==
  /\ MaxNodes \in Nat \ {0}
  /\ MaxDepth \in Nat \ {0}
  /\ OfflineIntervals \in Nat \ {0}

NoNodes == [p \in {} |-> NoMac]

(* A new entry holds nothing but its path: no identity, and an interval of  *)
(* zero, which promises nothing.                                            *)
Fresh == [mac |-> NoMac, interval |-> 0, silence |-> 0, online |-> TRUE]

Heard(entry) == [entry EXCEPT !.silence = 0, !.online = TRUE]

(* touch(): a path that was heard from, unless it is new and the table has   *)
(* no room for it.                                                           *)
Touch(nodes, path) ==
  IF path \in DOMAIN nodes
    THEN [nodes EXCEPT ![path] = Heard(@)]
    ELSE IF Cardinality(DOMAIN nodes) >= MaxNodes
      THEN nodes
      ELSE [p \in DOMAIN nodes \cup {path} |->
              IF p = path THEN Fresh ELSE nodes[p]]

(* What a caller of touch() writes into the entry, if there is one.          *)
SetInterval(nodes, path, interval) ==
  [p \in DOMAIN nodes |->
     IF p = path THEN [nodes[p] EXCEPT !.interval = interval] ELSE nodes[p]]

SetMac(nodes, path, mac) ==
  [p \in DOMAIN nodes |->
     IF p = path THEN [nodes[p] EXCEPT !.mac = mac] ELSE nodes[p]]

Forget(nodes, paths) == [p \in DOMAIN nodes \ paths |-> nodes[p]]

-----------------------------------------------------------------------------
(* One operator for each message that says something about a node.          *)

NoteReport(nodes, path) == Touch(nodes, path)

NoteDescribe(nodes, path, interval) ==
  SetInterval(Touch(nodes, path), path, interval)

\* Mutant: the zero of a refusal is taken for an interval.
NotePolicyRefused(nodes, path, answer) ==
  SetInterval(Touch(nodes, path), path, answer.interval)

(* Only an accepted policy is a promise. *)
NotePolicy(nodes, path, answer) ==
  IF answer.ok
    THEN SetInterval(Touch(nodes, path), path, answer.interval)
    ELSE Touch(nodes, path)

FindByMac(nodes, mac) == {p \in DOMAIN nodes : nodes[p].mac = mac /\ mac # NoMac}

Named(nodes, path, mac, interval) ==
  SetInterval(SetMac(Touch(nodes, path), path, mac), path, interval)

\* Mutant: the entry at the old path stays.
NoteChildBesideOld(nodes, parentPath, attached) ==
  Named(nodes, Append(parentPath, attached.childIndex),
        attached.mac, attached.interval)

(* The same device at another path is one device that moved. *)
NoteChildAttached(nodes, parentPath, attached) ==
  LET path == Append(parentPath, attached.childIndex)
      previous == FindByMac(nodes, attached.mac) \ {path}
  IN  IF Len(path) > MaxDepth
        THEN nodes
        ELSE Named(Forget(nodes, previous), path, attached.mac, attached.interval)

\* Mutant: one silence fewer is enough.
SweepEarly(nodes) ==
  [p \in DOMAIN nodes |->
     [nodes[p] EXCEPT !.online =
        /\ @
        /\ nodes[p].interval # 0 =>
             nodes[p].silence < nodes[p].interval * (OfflineIntervals - 1)]]

(* A node that reports on change alone is never called offline. *)
SweepOffline(nodes) ==
  [p \in DOMAIN nodes |->
     IF /\ nodes[p].interval # 0
        /\ nodes[p].silence >= nodes[p].interval * OfflineIntervals
       THEN [nodes[p] EXCEPT !.online = FALSE]
       ELSE nodes[p]]

(* One unit of the clock a silence is measured on.  Every message that       *)
(* changes an interval ends the silence too, so a silence need not be counted *)
(* beyond the one its entry is allowed.                                       *)
Aged(nodes) ==
  [p \in DOMAIN nodes |->
     IF nodes[p].silence < nodes[p].interval * OfflineIntervals
       THEN [nodes[p] EXCEPT !.silence = @ + 1]
       ELSE nodes[p]]

-----------------------------------------------------------------------------
(* The file: what HAPStore::saveModel() keeps, and what loadModel() makes of *)
(* it.  An entry with no identity is not worth keeping.                      *)

\* Mutant: entries without an identity are kept as well.
SaveModelOfAll(nodes) ==
  [p \in DOMAIN nodes |-> [mac |-> nodes[p].mac, interval |-> nodes[p].interval]]

SaveModel(nodes) ==
  [p \in {q \in DOMAIN nodes : nodes[q].mac # NoMac} |->
     [mac |-> nodes[p].mac, interval |-> nodes[p].interval]]

LoadModel(file) ==
  [p \in DOMAIN file |->
     [Fresh EXCEPT !.mac = file[p].mac, !.interval = file[p].interval]]
=============================================================================
