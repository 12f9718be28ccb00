-------------------------- MODULE HAPMasterProofs ---------------------------
(***************************************************************************)
(* Theorems about HAPMaster, for every tree of devices, every itinerary and *)
(* every bound on what is lost and how often the master restarts.           *)
(***************************************************************************)
EXTENDS HAPMaster, LeastNatural, FiniteSetTheorems, SequenceTheorems

USE ModelAssumption, MasterAssumption

-----------------------------------------------------------------------------
(* begin() seeds the model child by child: the fold as a function. *)

SeedOne(table, nodes, i) ==
  NoteChildAttached(nodes, <<>>, [childIndex |-> i, mac |-> table[i].mac,
                                  interval |-> table[i].interval])

SeedStep(table, file, s, g) ==
  IF s = {} THEN LoadModel(file)
  ELSE LET x == CHOOSE y \in s : TRUE IN SeedOne(table, g[s \ {x}], x)

Seeding(table, file, g, sets) == g = [s \in sets |-> SeedStep(table, file, s, g)]

LEMMA SeededIsChosen ==
  ASSUME NEW table, NEW file
  PROVE  Seeded(table, file)
           = (CHOOSE g : Seeding(table, file, g, SUBSET (DOMAIN table)))[DOMAIN table]
  BY DEF Seeded, FoldSet, MapThenFoldSet, Seeding, SeedStep, SeedOne

\* What one child less leaves.
LEMMA OneLess ==
  ASSUME NEW s, IsFiniteSet(s), s # {}
  PROVE  LET x == CHOOSE y \in s : TRUE IN
         /\ x \in s /\ IsFiniteSet(s \ {x})
         /\ Cardinality(s) \in Nat /\ Cardinality(s \ {x}) = Cardinality(s) - 1
<1> DEFINE x == CHOOSE y \in s : TRUE
<1>1. x \in s
  OBVIOUS
<1> HIDE DEF x
<1>2. Cardinality(s) \in Nat
  BY FS_CardinalityType
<1>3. IsFiniteSet(s \ {x}) /\ Cardinality(s \ {x}) = Cardinality(s) - 1
  BY <1>1, FS_RemoveElement
<1> QED BY <1>1, <1>2, <1>3 DEF x

\* As many children as there are, one more each time.
Few(table, n) == {s \in SUBSET (DOMAIN table) : Cardinality(s) =< n}

LEMMA SeedingExists ==
  ASSUME NEW table, NEW file, IsFiniteSet(DOMAIN table)
  PROVE  \E g : Seeding(table, file, g, SUBSET (DOMAIN table))
<1> DEFINE Has(n) == \E g : Seeding(table, file, g, Few(table, n))
<1>s. ASSUME NEW s \in SUBSET (DOMAIN table)
      PROVE  IsFiniteSet(s) /\ Cardinality(s) \in Nat
  BY <1>s, FS_Subset, FS_CardinalityType
<1>1. Has(0)
  <2>1. \A s \in Few(table, 0) : s = {}
    BY <1>s, FS_EmptySet DEF Few
  <2> DEFINE g == [s \in Few(table, 0) |-> LoadModel(file)]
  <2>2. g = [s \in Few(table, 0) |-> SeedStep(table, file, s, g)]
    BY <2>1 DEF SeedStep
  <2> QED BY <2>2 DEF Seeding
<1>2. ASSUME NEW n \in Nat, Has(n) PROVE Has(n + 1)
  <2>1. PICK g : Seeding(table, file, g, Few(table, n))
    BY <1>2
  <2> DEFINE h == [s \in Few(table, n + 1) |-> SeedStep(table, file, s, g)]
  <2>2. ASSUME NEW s \in Few(table, n + 1)
        PROVE  SeedStep(table, file, s, h) = SeedStep(table, file, s, g)
    <3>1. CASE s = {}
      BY <3>1 DEF SeedStep
    <3>2. CASE s # {}
      <4> DEFINE x == CHOOSE y \in s : TRUE
      <4>1. IsFiniteSet(s) /\ s \in SUBSET (DOMAIN table) /\ Cardinality(s) =< n + 1
        BY <1>s DEF Few
      <4>2. Cardinality(s) \in Nat /\ Cardinality(s \ {x}) = Cardinality(s) - 1
        BY <3>2, <4>1, OneLess
      <4> HIDE DEF x
      <4>3. s \ {x} \in Few(table, n) /\ s \ {x} \in Few(table, n + 1)
        BY <4>1, <4>2 DEF Few
      <4>4. h[s \ {x}] = SeedStep(table, file, s \ {x}, g)
        BY <4>3
      <4>5. g[s \ {x}] = SeedStep(table, file, s \ {x}, g)
        BY <2>1, <4>3 DEF Seeding
      <4> QED BY <4>4, <4>5 DEF SeedStep, x
    <3> QED BY <3>1, <3>2
  <2>3. h = [s \in Few(table, n + 1) |-> SeedStep(table, file, s, h)]
    BY <2>2
  <2> HIDE DEF h
  <2> QED BY <2>3 DEF Seeding
<1> HIDE DEF Has
<1>3. ASSUME NEW k \in Nat PROVE Has(k)
  <2> DEFINE bad == {n \in Nat : ~Has(n)}
  <2>1. SUFFICES bad = {}
    OBVIOUS
  <2>2. SUFFICES ASSUME bad # {} PROVE FALSE
    OBVIOUS
  <2>3. PICK m \in bad : \A n \in bad : m =< n
    BY <2>2, LeastExists
  <2>4. m # 0 /\ m \in Nat /\ ~Has(m)
    BY <1>1, <2>3
  <2>5. m - 1 \in Nat /\ Has(m - 1)
    BY <2>3, <2>4
  <2> QED BY <1>2, <2>4, <2>5
<1>4. Few(table, Cardinality(DOMAIN table)) = SUBSET (DOMAIN table)
  BY FS_Subset DEF Few
<1>5. Cardinality(DOMAIN table) \in Nat
  BY FS_CardinalityType
<1> QED BY ZenonT(60), <1>3, <1>4, <1>5 DEF Has

\* Whatever the file is and one child after another makes of it, seeding all
\* of them ends there: S holds, for each set of children, the models that may
\* be reached when these were seeded.
LEMMA SeededBy ==
  ASSUME NEW table, IsFiniteSet(DOMAIN table), NEW file, NEW S, LoadModel(file) \in S[{}],
         \A s \in SUBSET (DOMAIN table) : \A i \in s : \A nodes \in S[s \ {i}] :
           SeedOne(table, nodes, i) \in S[s]
  PROVE  Seeded(table, file) \in S[DOMAIN table]
<1> DEFINE All == SUBSET (DOMAIN table)
           h   == CHOOSE g : Seeding(table, file, g, All)
<1>1. Seeding(table, file, h, All) /\ Seeded(table, file) = h[DOMAIN table]
  BY SeedingExists, SeededIsChosen
<1> HIDE DEF h
<1>s. ASSUME NEW s \in All PROVE IsFiniteSet(s) /\ Cardinality(s) \in Nat
  BY <1>s, FS_Subset, FS_CardinalityType
<1> DEFINE bad == {n \in Nat : \E s \in All : Cardinality(s) = n /\ h[s] \notin S[s]}
<1>2. ASSUME bad # {} PROVE FALSE
  <2>1. PICK m \in bad : \A n \in bad : m =< n
    BY <1>2, LeastExists
  <2>2. PICK s \in All : Cardinality(s) = m /\ h[s] \notin S[s]
    BY <2>1
  <2>3. h[s] = SeedStep(table, file, s, h)
    BY <1>1, <2>2 DEF Seeding
  <2>4. CASE s = {}
    BY <2>2, <2>3, <2>4 DEF SeedStep
  <2>5. CASE s # {}
    <3> DEFINE x == CHOOSE y \in s : TRUE
    <3>1. x \in s /\ Cardinality(s) \in Nat /\ Cardinality(s \ {x}) = Cardinality(s) - 1
      BY <1>s, <2>2, <2>5, OneLess
    <3>2. h[s] = SeedOne(table, h[s \ {x}], x)
      BY <2>3, <2>5 DEF SeedStep
    <3> HIDE DEF x
    <3>3. s \ {x} \in All /\ Cardinality(s \ {x}) \in Nat
      BY <1>s
    <3>4. Cardinality(s \ {x}) \notin bad
      <4>1. m \in Nat /\ \A n \in bad : n \in Nat
        OBVIOUS
      <4> HIDE DEF bad
      <4> QED BY <2>1, <2>2, <3>1, <3>3, <4>1
    <3>5. h[s \ {x}] \in S[s \ {x}]
      BY <3>3, <3>4
    <3>6. s \in SUBSET (DOMAIN table)
      OBVIOUS
    <3>7. SeedOne(table, h[s \ {x}], x) \in S[s]
      BY <3>1, <3>5, <3>6, Zenon
    <3> QED BY <2>2, <3>2, <3>7
  <2> QED BY <2>4, <2>5
<1>3. h[DOMAIN table] \in S[DOMAIN table]
  BY <1>2, <1>s
<1> QED BY <1>1, <1>3

-----------------------------------------------------------------------------
(* What a table is, and what each message makes of it. *)

Entry == [mac : Devices \cup {NoMac}, interval : 0..Longest,
          silence : 0..Longest * OfflineIntervals, online : BOOLEAN]

Fits(nodes) ==
  /\ DOMAIN nodes \subseteq Paths
  /\ IsFiniteSet(DOMAIN nodes) /\ Cardinality(DOMAIN nodes) =< MaxNodes

Table(nodes) == Fits(nodes) /\ nodes \in [DOMAIN nodes -> Entry]

\* No two entries have one identity.
Once(nodes) ==
  \A p, q \in DOMAIN nodes : nodes[p].mac = nodes[q].mac /\ nodes[p].mac # NoMac => p = q

\* Of an entry: who, and what it promised.
Said(nodes, p) == <<nodes[p].mac, nodes[p].interval>>

LEMMA ZeroTypes ==
  /\ 0 \in 0..Longest /\ 0 \in 0..Longest * OfflineIntervals
  /\ Longest * OfflineIntervals \in Nat
  OBVIOUS

LEMMA ChildPath ==
  ASSUME NEW i \in Nat
  PROVE  Append(<<>>, i) = <<i>> /\ Len(<<i>>) = 1 /\ <<i>>[1] = i
  OBVIOUS

\* A message from a path: the entry there is heard, nothing else is moved.
LEMMA TouchKeeps ==
  ASSUME NEW nodes, Table(nodes), NEW path \in Paths
  PROVE  LET t == Touch(nodes, path) IN
         /\ Table(t)
         /\ DOMAIN nodes \subseteq DOMAIN t /\ DOMAIN t \subseteq DOMAIN nodes \cup {path}
         /\ \A p \in DOMAIN nodes : Said(t, p) = Said(nodes, p)
         /\ \A p \in DOMAIN t \ DOMAIN nodes : t[p].mac = NoMac
         /\ Cardinality(DOMAIN nodes) < MaxNodes => path \in DOMAIN t
<1>1. Fresh \in Entry /\ Fresh.mac = NoMac
  BY ZeroTypes DEF Fresh, Entry
<1>2. CASE path \in DOMAIN nodes
  <2> DEFINE t == [nodes EXCEPT ![path] = Heard(@)]
  <2>1. Heard(nodes[path]) \in Entry /\ Heard(nodes[path]).mac = nodes[path].mac
        /\ Heard(nodes[path]).interval = nodes[path].interval
    BY ZenonT(60), <1>2, ZeroTypes DEF Table, Entry, Heard
  <2>2. /\ DOMAIN t = DOMAIN nodes /\ t \in [DOMAIN nodes -> Entry]
        /\ \A p \in DOMAIN nodes : Said(t, p) = Said(nodes, p)
    BY <2>1 DEF Table, Said
  <2>3. Touch(nodes, path) = t
    BY <1>2 DEF Touch
  <2> HIDE DEF t
  <2> QED BY <1>2, <2>2, <2>3 DEF Table, Fits
<1>3. CASE path \notin DOMAIN nodes /\ Cardinality(DOMAIN nodes) >= MaxNodes
  <2>1. Cardinality(DOMAIN nodes) \in Nat
    BY FS_CardinalityType DEF Table, Fits
  <2> QED BY <1>3, <2>1 DEF Touch
<1>4. CASE path \notin DOMAIN nodes /\ ~(Cardinality(DOMAIN nodes) >= MaxNodes)
  <2> DEFINE t == [p \in DOMAIN nodes \cup {path} |-> IF p = path THEN Fresh ELSE nodes[p]]
  <2>1. Touch(nodes, path) = t
    BY <1>4 DEF Touch
  <2>2. /\ DOMAIN t = DOMAIN nodes \cup {path} /\ t \in [DOMAIN t -> Entry]
        /\ \A p \in DOMAIN nodes : Said(t, p) = Said(nodes, p)
        /\ t[path].mac = NoMac
    BY <1>1, <1>4 DEF Table, Said
  <2>3. /\ IsFiniteSet(DOMAIN nodes \cup {path})
        /\ Cardinality(DOMAIN nodes \cup {path}) = Cardinality(DOMAIN nodes) + 1
        /\ Cardinality(DOMAIN nodes) \in Nat
    BY <1>4, FS_AddElement, FS_CardinalityType DEF Table, Fits
  <2> HIDE DEF t
  <2>4. Table(t)
    BY <1>4, <2>2, <2>3 DEF Table, Fits
  <2> QED BY <2>1, <2>2, <2>4
<1> QED BY <1>2, <1>3, <1>4

\* What is written into an entry that is there.
LEMMA IntervalKeeps ==
  ASSUME NEW nodes, Table(nodes), NEW path, NEW interval \in 0..Longest
  PROVE  LET t == SetInterval(nodes, path, interval) IN
         /\ Table(t) /\ DOMAIN t = DOMAIN nodes
         /\ \A p \in DOMAIN nodes : t[p].mac = nodes[p].mac
         /\ \A p \in DOMAIN nodes \ {path} : Said(t, p) = Said(nodes, p)
         /\ path \in DOMAIN nodes => Said(t, path) = <<nodes[path].mac, interval>>
<1> DEFINE t == SetInterval(nodes, path, interval)
<1>1. /\ DOMAIN t = DOMAIN nodes
      /\ \A p \in DOMAIN nodes : t[p] = IF p = path THEN [nodes[p] EXCEPT !.interval = interval]
                                        ELSE nodes[p]
  BY DEF SetInterval
<1>2. t = [p \in DOMAIN nodes |-> t[p]]
  BY DEF SetInterval
<1> HIDE DEF t
<1>3. \A p \in DOMAIN nodes : /\ t[p] \in Entry /\ t[p].mac = nodes[p].mac
                              /\ t[p].interval = IF p = path THEN interval ELSE nodes[p].interval
  BY <1>1 DEF Table, Entry
<1>4. t \in [DOMAIN nodes -> Entry]
  BY <1>2, <1>3
<1> QED BY <1>1, <1>3, <1>4 DEF t, Table, Fits, Said

LEMMA MacKeeps ==
  ASSUME NEW nodes, Table(nodes), NEW path, NEW mac \in Devices
  PROVE  LET t == SetMac(nodes, path, mac) IN
         /\ Table(t) /\ DOMAIN t = DOMAIN nodes
         /\ \A p \in DOMAIN nodes \ {path} : Said(t, p) = Said(nodes, p)
         /\ path \in DOMAIN nodes => t[path].mac = mac
<1> DEFINE t == SetMac(nodes, path, mac)
<1>1. /\ DOMAIN t = DOMAIN nodes
      /\ \A p \in DOMAIN nodes : t[p] = IF p = path THEN [nodes[p] EXCEPT !.mac = mac]
                                        ELSE nodes[p]
  BY DEF SetMac
<1>2. t = [p \in DOMAIN nodes |-> t[p]]
  BY DEF SetMac
<1> HIDE DEF t
<1>3. ASSUME NEW p \in DOMAIN nodes
      PROVE  /\ t[p] \in Entry /\ t[p].interval = nodes[p].interval
             /\ t[p].mac = IF p = path THEN mac ELSE nodes[p].mac
  <2>1. nodes[p] \in Entry /\ mac \in Devices \cup {NoMac}
    BY DEF Table
  <2>2. CASE p = path
    <3>1. t[p] = [nodes[p] EXCEPT !.mac = mac]
      BY <1>1, <2>2
    <3> QED BY <2>1, <2>2, <3>1 DEF Entry
  <2>3. CASE p # path
    BY <1>1, <2>1, <2>3
  <2> QED BY <2>2, <2>3
<1>4. t \in [DOMAIN nodes -> Entry]
  BY <1>2, <1>3
<1> QED BY <1>1, <1>3, <1>4 DEF t, Table, Fits, Said

LEMMA ForgetKeeps ==
  ASSUME NEW nodes, Table(nodes), NEW paths
  PROVE  LET t == Forget(nodes, paths) IN
         /\ Table(t) /\ DOMAIN t = DOMAIN nodes \ paths
         /\ \A p \in DOMAIN t : Said(t, p) = Said(nodes, p)
<1>1. DOMAIN nodes \ paths \in SUBSET DOMAIN nodes /\ Cardinality(DOMAIN nodes) \in Nat
  BY FS_CardinalityType DEF Table, Fits
<1>2. IsFiniteSet(DOMAIN nodes \ paths)
      /\ Cardinality(DOMAIN nodes \ paths) =< Cardinality(DOMAIN nodes)
  BY <1>1, FS_Subset DEF Table, Fits
<1>3. Cardinality(DOMAIN nodes \ paths) \in Nat
  BY <1>2, FS_CardinalityType
<1> QED BY <1>1, <1>2, <1>3 DEF Forget, Table, Fits, Said

\* A known device at another path has moved: its entry there goes, and one with
\* its identity and interval comes - where there is room, and not too deep.
LEMMA AttachedKeeps ==
  ASSUME NEW nodes, Table(nodes), Once(nodes), NEW parentPath, NEW attached,
         attached.mac \in Devices, attached.interval \in 0..Longest,
         Append(parentPath, attached.childIndex) \in Paths
  PROVE  LET path == Append(parentPath, attached.childIndex)
             t    == NoteChildAttached(nodes, parentPath, attached) IN
         /\ Table(t) /\ Once(t)
         /\ DOMAIN t \subseteq DOMAIN nodes \cup {path}
         /\ Len(path) > MaxDepth => t = nodes
         /\ ~(Len(path) > MaxDepth) =>
              /\ \A p \in DOMAIN t \ {path} :
                   Said(t, p) = Said(nodes, p) /\ nodes[p].mac # attached.mac
              /\ \A p \in DOMAIN nodes \ {path} :
                   nodes[p].mac # attached.mac => p \in DOMAIN t
              /\ path \in DOMAIN t => Said(t, path) = <<attached.mac, attached.interval>>
              /\ path \in DOMAIN nodes \/ Cardinality(DOMAIN nodes) < MaxNodes
                   => path \in DOMAIN t
<1> DEFINE path == Append(parentPath, attached.childIndex)
           mac  == attached.mac
           previous == FindByMac(nodes, mac) \ {path}
           t == NoteChildAttached(nodes, parentPath, attached)
           a == Forget(nodes, previous)
           b == Touch(a, path)
           c == SetMac(b, path, mac)
           d == SetInterval(c, path, attached.interval)
<1>1. CASE Len(path) > MaxDepth
  <2>1. t = nodes
    BY <1>1 DEF NoteChildAttached
  <2> QED BY <1>1, <2>1
<1>2. CASE ~(Len(path) > MaxDepth)
  <2>1. t = d
    BY <1>2 DEF NoteChildAttached, Named
  <2>2. mac # NoMac /\ mac \in Devices /\ path \in Paths /\ attached.interval \in 0..Longest
    OBVIOUS
  <2>p. \A p \in DOMAIN nodes : p \in previous <=> nodes[p].mac = mac /\ p # path
    BY <2>2 DEF FindByMac
  <2>3. /\ Table(a) /\ DOMAIN a = DOMAIN nodes \ previous
        /\ \A p \in DOMAIN a : Said(a, p) = Said(nodes, p)
    BY ForgetKeeps
  <2> HIDE DEF t, a, previous, path, mac
  <2>4. /\ Table(b) /\ DOMAIN a \subseteq DOMAIN b /\ DOMAIN b \subseteq DOMAIN a \cup {path}
        /\ \A p \in DOMAIN a : Said(b, p) = Said(a, p)
        /\ Cardinality(DOMAIN a) < MaxNodes => path \in DOMAIN b
    BY ONLY <2>2, <2>3, TouchKeeps
  <2> HIDE DEF b
  <2>5. /\ Table(c) /\ DOMAIN c = DOMAIN b
        /\ \A p \in DOMAIN b \ {path} : Said(c, p) = Said(b, p)
        /\ path \in DOMAIN b => c[path].mac = mac
    BY ONLY <2>2, <2>4, MacKeeps
  <2> HIDE DEF c
  <2>6. /\ Table(d) /\ DOMAIN d = DOMAIN c
        /\ \A p \in DOMAIN c \ {path} : Said(d, p) = Said(c, p)
        /\ path \in DOMAIN c => Said(d, path) = <<c[path].mac, attached.interval>>
    BY ONLY <2>2, <2>5, IntervalKeeps
  <2> HIDE DEF d
  <2>8. DOMAIN t \subseteq DOMAIN nodes \cup {path}
    BY <2>1, <2>3, <2>4, <2>5, <2>6
  <2>9. \A p \in DOMAIN t \ {path} : Said(t, p) = Said(nodes, p) /\ nodes[p].mac # mac
    BY <2>1, <2>3, <2>4, <2>5, <2>6, <2>p
  <2>10. \A p \in DOMAIN nodes \ {path} : nodes[p].mac # mac => p \in DOMAIN t
    BY <2>1, <2>3, <2>4, <2>5, <2>6, <2>p
  <2>11. path \in DOMAIN t => Said(t, path) = <<mac, attached.interval>>
    BY <2>1, <2>5, <2>6
  <2>12. path \in DOMAIN nodes \/ Cardinality(DOMAIN nodes) < MaxNodes => path \in DOMAIN t
    <3>1. CASE path \in DOMAIN nodes
      BY <2>1, <2>3, <2>4, <2>5, <2>6, <2>p, <3>1
    <3>2. CASE Cardinality(DOMAIN nodes) < MaxNodes
      <4>1. DOMAIN a \in SUBSET DOMAIN nodes
        BY <2>3
      <4>2. Cardinality(DOMAIN a) =< Cardinality(DOMAIN nodes)
        BY <4>1, FS_Subset DEF Table, Fits
      <4>3. Cardinality(DOMAIN a) \in Nat /\ Cardinality(DOMAIN nodes) \in Nat
        BY <2>3, FS_CardinalityType DEF Table, Fits
      <4> QED BY <2>1, <2>4, <2>5, <2>6, <3>2, <4>2, <4>3
    <3> QED BY <3>1, <3>2
  <2>13. Once(t)
    <3>1. \A p \in DOMAIN t \ {path} : p \in DOMAIN nodes /\ t[p].mac = nodes[p].mac
                                       /\ t[p].mac # mac
      BY <2>8, <2>9 DEF Said
    <3>2. path \in DOMAIN t => t[path].mac = mac
      BY <2>11 DEF Said
    <3> QED BY <3>1, <3>2 DEF Once
  <2> QED BY <1>2, <2>1, <2>6, <2>8, <2>9, <2>10, <2>11, <2>12, <2>13 DEF path, mac, t
<1> QED BY <1>1, <1>2

\* A message that says nothing of who and of what was promised.
LEMMA TouchOnce ==
  ASSUME NEW nodes, Table(nodes), Once(nodes), NEW path \in Paths
  PROVE  Once(Touch(nodes, path))
<1> DEFINE t == Touch(nodes, path)
<1>1. /\ DOMAIN t \subseteq DOMAIN nodes \cup {path}
      /\ \A p \in DOMAIN nodes : t[p].mac = nodes[p].mac
      /\ \A p \in DOMAIN t \ DOMAIN nodes : t[p].mac = NoMac
  BY TouchKeeps DEF Said
<1> HIDE DEF t
<1>2. Once(t)
  BY <1>1 DEF Once
<1> QED BY <1>2 DEF t

LEMMA IntervalOnce ==
  ASSUME NEW nodes, Table(nodes), Once(nodes), NEW path, NEW interval \in 0..Longest
  PROVE  Once(SetInterval(nodes, path, interval))
<1> DEFINE t == SetInterval(nodes, path, interval)
<1>1. DOMAIN t = DOMAIN nodes /\ \A p \in DOMAIN nodes : t[p].mac = nodes[p].mac
  BY IntervalKeeps
<1> HIDE DEF t
<1>2. Once(t)
  BY <1>1 DEF Once
<1> QED BY <1>2 DEF t

\* Silence counts, and ends in a verdict; it says nothing either.
LEMMA SweepKeeps ==
  ASSUME NEW nodes, Table(nodes)
  PROVE  LET t == SweepOffline(nodes) IN
         Table(t) /\ DOMAIN t = DOMAIN nodes /\ \A p \in DOMAIN nodes : Said(t, p) = Said(nodes, p)
<1> DEFINE t == SweepOffline(nodes)
<1>1. DOMAIN t = DOMAIN nodes /\ t = [p \in DOMAIN nodes |-> t[p]]
  BY DEF SweepOffline
<1>2. ASSUME NEW p \in DOMAIN nodes PROVE t[p] \in Entry /\ Said(t, p) = Said(nodes, p)
  <2>1. t[p] = nodes[p] \/ t[p] = [nodes[p] EXCEPT !.online = FALSE]
    BY DEF SweepOffline
  <2>2. nodes[p] \in Entry
    BY DEF Table
  <2> HIDE DEF t
  <2> QED BY <2>1, <2>2 DEF Entry, Said
<1> HIDE DEF t
<1>3. t \in [DOMAIN nodes -> Entry]
  BY <1>1, <1>2
<1> QED BY <1>1, <1>2, <1>3 DEF t, Table, Fits

LEMMA Within ==
  ASSUME NEW a \in 0..Longest
  PROVE  a * OfflineIntervals \in Nat /\ a * OfflineIntervals =< Longest * OfflineIntervals
  OBVIOUS

LEMMA AgedKeeps ==
  ASSUME NEW nodes, Table(nodes)
  PROVE  LET t == Aged(nodes) IN
         Table(t) /\ DOMAIN t = DOMAIN nodes /\ \A p \in DOMAIN nodes : Said(t, p) = Said(nodes, p)
<1> DEFINE t == Aged(nodes)
<1>1. DOMAIN t = DOMAIN nodes /\ t = [p \in DOMAIN nodes |-> t[p]]
  BY DEF Aged
<1>2. ASSUME NEW p \in DOMAIN nodes PROVE t[p] \in Entry /\ Said(t, p) = Said(nodes, p)
  <2> DEFINE most == nodes[p].interval * OfflineIntervals
             all  == Longest * OfflineIntervals
  <2>1. nodes[p] \in Entry
    BY DEF Table
  <2>2. most \in Nat /\ most =< all /\ all \in Nat
    BY <2>1, Within, ZeroTypes DEF Entry
  <2>3. \/ t[p] = nodes[p]
        \/ nodes[p].silence < most /\ t[p] = [nodes[p] EXCEPT !.silence = @ + 1]
    BY DEF Aged
  <2> HIDE DEF t, most
  <2>4. CASE t[p] = nodes[p]
    BY <2>1, <2>4 DEF Said
  <2>5. CASE nodes[p].silence < most /\ t[p] = [nodes[p] EXCEPT !.silence = @ + 1]
    <3>1. nodes[p].silence \in 0..all
      BY <2>1 DEF Entry
    <3> HIDE DEF all
    <3>2. nodes[p].silence + 1 \in 0..all
      BY <2>2, <2>5, <3>1
    <3>3. t[p] \in Entry
      BY <2>1, <2>5, <3>2 DEF Entry, all
    <3> QED BY <2>1, <2>5, <3>3 DEF Said, Entry
  <2> QED BY <2>3, <2>4, <2>5
<1> HIDE DEF t
<1>3. t \in [DOMAIN nodes -> Entry]
  BY <1>1, <1>2
<1> QED BY <1>1, <1>2, <1>3 DEF t, Table, Fits

-----------------------------------------------------------------------------
(* The two files, and what a restart makes of them. *)

Pair == [mac : Devices, interval : 0..Longest]

Kept(file) == Fits(file) /\ file \in [DOMAIN file -> Pair] /\ Once(file)

\* The child table: where there is a place for a child.
Known(table) ==
  /\ \A i \in DOMAIN table : i \in Nat /\ <<i>> \in Paths
  /\ IsFiniteSet(DOMAIN table) /\ table \in [DOMAIN table -> Pair]

LEMMA LoadKeeps ==
  ASSUME NEW file, Kept(file)
  PROVE  /\ Table(LoadModel(file)) /\ Once(LoadModel(file))
         /\ DOMAIN LoadModel(file) = DOMAIN file
         /\ \A p \in DOMAIN file : Said(LoadModel(file), p) = Said(file, p)
<1> DEFINE t == LoadModel(file)
<1>1. DOMAIN t = DOMAIN file /\ t = [p \in DOMAIN file |-> t[p]]
  BY DEF LoadModel
<1>2. ASSUME NEW p \in DOMAIN file PROVE t[p] \in Entry /\ Said(t, p) = Said(file, p)
  <2>1. t[p] = [Fresh EXCEPT !.mac = file[p].mac, !.interval = file[p].interval]
    BY DEF LoadModel
  <2>2. file[p] \in Pair
    BY DEF Kept
  <2> HIDE DEF t
  <2> QED BY <2>1, <2>2, ZeroTypes DEF Entry, Said, Pair, Fresh
<1> HIDE DEF t
<1>3. t \in [DOMAIN file -> Entry]
  BY <1>1, <1>2
<1>4. \A p \in DOMAIN file : t[p].mac = file[p].mac
  BY <1>2 DEF Said
<1> QED BY ZenonT(60), <1>1, <1>2, <1>3, <1>4 DEF t, Table, Fits, Kept, Once

\* Who has a name in a table.
NamedIn(nodes) == {p \in DOMAIN nodes : nodes[p].mac # NoMac}

LEMMA SaveKeeps ==
  ASSUME NEW nodes, Table(nodes), Once(nodes)
  PROVE  /\ Kept(SaveModel(nodes)) /\ DOMAIN SaveModel(nodes) = NamedIn(nodes)
         /\ \A p \in NamedIn(nodes) : Said(SaveModel(nodes), p) = Said(nodes, p)
<1> DEFINE t == SaveModel(nodes)
<1>1. DOMAIN t = NamedIn(nodes) /\ t = [p \in NamedIn(nodes) |-> t[p]]
      /\ \A p \in NamedIn(nodes) : t[p] = [mac |-> nodes[p].mac, interval |-> nodes[p].interval]
  BY DEF SaveModel, NamedIn
<1> HIDE DEF t
<1>2. ASSUME NEW p \in NamedIn(nodes) PROVE t[p] \in Pair /\ Said(t, p) = Said(nodes, p)
  <2>1. nodes[p] \in Entry /\ nodes[p].mac # NoMac
    BY DEF NamedIn, Table
  <2>2. t[p] = [mac |-> nodes[p].mac, interval |-> nodes[p].interval]
    BY <1>1
  <2> QED BY <2>1, <2>2 DEF Entry, Pair, Said
<1>3. t \in [NamedIn(nodes) -> Pair]
  BY <1>1, <1>2
<1>4. NamedIn(nodes) \in SUBSET DOMAIN nodes /\ Cardinality(DOMAIN nodes) \in Nat
  BY FS_CardinalityType DEF Table, Fits, NamedIn
<1>5. IsFiniteSet(NamedIn(nodes)) /\ Cardinality(NamedIn(nodes)) =< Cardinality(DOMAIN nodes)
  BY <1>4, FS_Subset DEF Table, Fits
<1>6. Cardinality(NamedIn(nodes)) \in Nat
  BY <1>5, FS_CardinalityType
<1>7. Fits(t)
  BY <1>1, <1>4, <1>5, <1>6 DEF Table, Fits
<1>8. Once(t)
  BY <1>1, <1>2 DEF Once, Said, NamedIn
<1> QED BY <1>1, <1>2, <1>3, <1>7, <1>8 DEF t, Kept

\* Two tables that say the same of the same are saved as one file.
LEMMA SavedAlike ==
  ASSUME NEW m, NEW n, NamedIn(m) = NamedIn(n), \A p \in NamedIn(m) : Said(m, p) = Said(n, p)
  PROVE  SaveModel(m) = SaveModel(n)
<1>1. \A p \in NamedIn(m) : m[p].mac = n[p].mac /\ m[p].interval = n[p].interval
  BY DEF Said
<1> QED BY <1>1 DEF SaveModel, NamedIn

Tables == {n \in UNION {[D -> Entry] : D \in SUBSET Paths} : Table(n) /\ Once(n)}

LEMMA InTables ==
  ASSUME NEW n
  PROVE  n \in Tables <=> Table(n) /\ Once(n)
<1>1. Table(n) => DOMAIN n \in SUBSET Paths /\ n \in [DOMAIN n -> Entry]
  BY DEF Table, Fits
<1> QED BY <1>1 DEF Tables

\* The table's child i, as begin() puts it into the model.
LEMMA SeedKeeps ==
  ASSUME NEW table, Known(table), NEW i \in DOMAIN table, NEW nodes, Table(nodes), Once(nodes)
  PROVE  LET t == SeedOne(table, nodes, i) IN
         /\ Table(t) /\ Once(t)
         /\ DOMAIN t \subseteq DOMAIN nodes \cup {<<i>>}
         /\ \A p \in DOMAIN t \ {<<i>>} :
              Said(t, p) = Said(nodes, p) /\ nodes[p].mac # table[i].mac
         /\ \A p \in DOMAIN nodes \ {<<i>>} : nodes[p].mac # table[i].mac => p \in DOMAIN t
         /\ <<i>> \in DOMAIN t => Said(t, <<i>>) = Said(table, i)
         /\ <<i>> \in DOMAIN nodes \/ Cardinality(DOMAIN nodes) < MaxNodes => <<i>> \in DOMAIN t
<1> DEFINE attached == [childIndex |-> i, mac |-> table[i].mac, interval |-> table[i].interval]
           t == SeedOne(table, nodes, i)
<1>1. /\ i \in Nat /\ <<i>> \in Paths /\ table[i] \in Pair
      /\ Append(<<>>, i) = <<i>> /\ Len(<<i>>) = 1
  BY ChildPath DEF Known
<1>2. /\ attached.mac \in Devices /\ attached.interval \in 0..Longest /\ attached.childIndex = i
      /\ attached.mac = table[i].mac /\ attached.interval = table[i].interval
  BY <1>1 DEF Pair
<1>3. t = NoteChildAttached(nodes, <<>>, attached) /\ ~(Len(<<i>>) > MaxDepth)
  BY <1>1 DEF SeedOne
<1> DEFINE path == Append(<<>>, attached.childIndex)
<1>4. path = <<i>> /\ path \in Paths
  BY <1>1, <1>2
<1> HIDE DEF attached
<1> DEFINE u == NoteChildAttached(nodes, <<>>, attached)
<1>5. /\ Table(u) /\ Once(u)
      /\ DOMAIN u \subseteq DOMAIN nodes \cup {path}
      /\ ~(Len(path) > MaxDepth) =>
           /\ \A p \in DOMAIN u \ {path} : Said(u, p) = Said(nodes, p) /\ nodes[p].mac # attached.mac
           /\ \A p \in DOMAIN nodes \ {path} : nodes[p].mac # attached.mac => p \in DOMAIN u
           /\ path \in DOMAIN u => Said(u, path) = <<attached.mac, attached.interval>>
           /\ path \in DOMAIN nodes \/ Cardinality(DOMAIN nodes) < MaxNodes => path \in DOMAIN u
  BY ONLY Table(nodes), Once(nodes), <1>2, <1>4, AttachedKeeps
<1> HIDE DEF t, u, path
<1> QED BY <1>2, <1>3, <1>4, <1>5 DEF t, u, Said

LEMMA RebuiltKeeps ==
  ASSUME NEW table, Known(table), NEW file, Kept(file)
  PROVE  LET t == Rebuilt(table, file) IN
         Table(t) /\ Once(t) /\ \A p \in DOMAIN t : p[1] \in DOMAIN table
<1> DEFINE S == [s \in SUBSET (DOMAIN table) |-> Tables]
           nodes == Seeded(table, file)
           t == Rebuilt(table, file)
<1>1. LoadModel(file) \in S[{}]
  BY LoadKeeps, InTables
<1>2. ASSUME NEW s \in SUBSET (DOMAIN table), NEW i \in s, NEW m \in S[s \ {i}]
      PROVE  SeedOne(table, m, i) \in S[s]
  <2>1. s \ {i} \in SUBSET (DOMAIN table) /\ i \in DOMAIN table
    OBVIOUS
  <2>2. Table(m) /\ Once(m)
    BY <2>1, InTables
  <2> QED BY <2>1, <2>2, SeedKeeps, InTables
<1>3. IsFiniteSet(DOMAIN table)
  BY DEF Known
<1> HIDE DEF S
<1>4. nodes \in S[DOMAIN table]
  BY <1>1, <1>2, <1>3, SeededBy
<1>5. Table(nodes) /\ Once(nodes)
  BY <1>4, InTables DEF S
<1>6. t = Forget(nodes, Orphans(table, nodes))
  BY DEF Rebuilt
<1> HIDE DEF nodes, t
<1>7. /\ Table(t) /\ DOMAIN t = DOMAIN nodes \ Orphans(table, nodes)
      /\ \A p \in DOMAIN t : Said(t, p) = Said(nodes, p)
  BY ONLY <1>5, <1>6, ForgetKeeps
<1>8. Once(t)
  BY <1>5, <1>7 DEF Once, Said
<1>9. \A p \in DOMAIN t : p[1] \in DOMAIN table
  BY <1>7 DEF Orphans
<1> QED BY <1>7, <1>8, <1>9 DEF t

-----------------------------------------------------------------------------
(* Types *)

Frames ==
  [kind : {"report"}, src : Paths]
    \cup [kind : {"describe"}, src : Paths, interval : 0..Longest]
    \cup [kind : {"policy"}, src : Paths, answer : [ok : BOOLEAN, interval : 0..Longest]]
    \cup {f \in [kind : {"attached"}, src : Seq(Nat),
                 attached : [childIndex : Nat, mac : Devices, interval : 0..Longest]] :
            Append(f.src, f.attached.childIndex) \in Paths}

Mastered ==
  /\ Table(model) /\ Once(model) /\ Kept(saved) /\ Known(children)
  /\ restarts \in 0..MaxRestarts
  /\ missed \in [Devices -> Nat] /\ \A d \in Devices : missed[d] =< lost

Staged ==
  /\ stage \in [Devices -> Nat] /\ \A d \in Devices : stage[d] =< Len(Itinerary[d])
  /\ every \in [Devices -> 0..Longest] /\ since \in [Devices -> 0..Never]
  /\ alive \subseteq Devices

\* Only who can be reached is asked, and none binds before it has answered.
Asking ==
  /\ down = [d \in Devices |-> down[d]]
  /\ \A d \in Devices : /\ down[d] \in Requests(d) \cup {NoRequest}
                        /\ down[d] # NoRequest => Reached(d)

Flying ==
  /\ up \in [Hops -> Seq(Frames)] /\ \A h \in Hops : Len(up[h]) =< MaxFlight
  /\ lost \in 0..MaxLost

Typed == Mastered /\ Staged /\ Asking /\ Flying

LEMMA StopType ==
  ASSUME NEW d \in Devices, NEW k \in 1..Len(Itinerary[d])
  PROVE  /\ Itinerary[d][k] \in Paths
         /\ Itinerary[d] \in Seq(Seq(Nat) \ {<<>>}) /\ Len(Itinerary[d]) \in Nat
<1>1. Itinerary[d] \in Seq(Seq(Nat) \ {<<>>})
  OBVIOUS
<1>2. Itinerary[d][k] \in {Itinerary[d][j] : j \in 1..Len(Itinerary[d])}
  OBVIOUS
<1>3. Itinerary[d][k] \in Paths
  BY ONLY <1>2, d \in Devices DEF Paths
<1>4. Len(Itinerary[d]) \in Nat
  BY ONLY <1>1
<1> QED BY ONLY <1>1, <1>3, <1>4

LEMMA PathType ==
  ASSUME NEW p \in Paths
  PROVE  /\ p \in Seq(Nat) /\ p # <<>> /\ Len(p) \in Nat \ {0}
         /\ p[1] \in Nat /\ p[1] \in Hops
<1>0. PICK d \in Devices : \E k \in 1..Len(Itinerary[d]) : p = Itinerary[d][k]
  BY DEF Paths
<1>1. PICK k \in 1..Len(Itinerary[d]) : p = Itinerary[d][k]
  BY <1>0
<1>2. Itinerary[d] \in Seq(Seq(Nat) \ {<<>>})
  OBVIOUS
<1>3. p \in Seq(Nat) \ {<<>>}
  BY <1>1, <1>2
<1>4. Len(p) \in Nat /\ Len(p) # 0 /\ p[1] \in Nat
  BY SMTT(30), <1>3
<1> QED BY <1>3, <1>4 DEF Hops

LEMMA PlaceType ==
  ASSUME Staged, NEW d \in Devices, Bound(d)
  PROVE  Place(d) \in Paths /\ stage[d] \in 1..Len(Itinerary[d])
<1>0. Itinerary[d] \in Seq(Seq(Nat) \ {<<>>})
  OBVIOUS
<1>1. stage[d] \in 1..Len(Itinerary[d])
  BY <1>0 DEF Staged, Bound
<1> QED BY <1>1, StopType DEF Place

\* A path is what is above its end, and the end.
LEMMA FrontLast ==
  ASSUME NEW p \in Seq(Nat), p # <<>>
  PROVE  /\ Front(p) \in Seq(Nat) /\ Last(p) \in Nat /\ Append(Front(p), Last(p)) = p
         /\ Len(Front(p)) = Len(p) - 1
         /\ Len(p) > 1 => Front(p)[1] = p[1]
<1> DEFINE f == SubSeq(p, 1, Len(p) - 1)
<1>1. Len(p) \in Nat /\ Len(p) >= 1 /\ p[Len(p)] \in Nat
  OBVIOUS
<1>2. f \in Seq(Nat) /\ Len(f) = Len(p) - 1 /\ \A i \in 1..Len(p) - 1 : f[i] = p[i]
  <2>1. 1 \in Int /\ Len(p) - 1 \in Int /\ \A i \in 1..Len(p) - 1 : p[i] \in Nat
    BY <1>1
  <2>2. /\ SubSeq(p, 1, Len(p) - 1) \in Seq(Nat)
        /\ Len(SubSeq(p, 1, Len(p) - 1)) = IF 1 =< (Len(p) - 1) THEN (Len(p) - 1) - 1 + 1 ELSE 0
        /\ \A i \in 1..(Len(p) - 1) - 1 + 1 : SubSeq(p, 1, Len(p) - 1)[i] = p[1 + i - 1]
    BY ONLY <2>1, SubSeqProperties
  <2> DEFINE n == Len(p) - 1
  <2>3. n \in Nat /\ \A i \in 1..n : i \in 1..n - 1 + 1 /\ 1 + i - 1 = i
    BY <1>1
  <2>4. f \in Seq(Nat) /\ Len(f) = IF 1 =< n THEN n - 1 + 1 ELSE 0
    BY <2>2
  <2>5. \A i \in 1..n - 1 + 1 : f[i] = p[1 + i - 1]
    BY <2>2
  <2> HIDE DEF f, n
  <2>6. Len(f) = n
    BY ONLY <2>3, <2>4
  <2>7. \A i \in 1..n : f[i] = p[i]
    BY ONLY <2>3, <2>5
  <2> QED BY <2>4, <2>6, <2>7 DEF n
<1> HIDE DEF f
<1>3. Append(f, p[Len(p)]) \in Seq(Nat) /\ Len(Append(f, p[Len(p)])) = Len(p)
  BY <1>1, <1>2
<1>4. \A i \in 1..Len(p) : Append(f, p[Len(p)])[i] = p[i]
  BY <1>1, <1>2
<1>5. Append(f, p[Len(p)]) = p
  BY <1>3, <1>4
<1> QED BY <1>1, <1>2, <1>5 DEF f, Front, Last

\* Power that goes leaves the two files, and the model they make.
LEMMA BootKeeps ==
  ASSUME Mastered, lost \in 0..MaxLost, NEW table, Known(table), Boot(table, saved), lost' = lost
  PROVE  Mastered'
<1> DEFINE t == Rebuilt(table, saved)
<1>1. Table(t) /\ Once(t)
  BY RebuiltKeeps DEF Mastered
<1> HIDE DEF t
<1>2. Kept(SaveModel(t)) /\ Kept(saved)
  BY <1>1, SaveKeeps DEF Mastered
<1>3. /\ children' = table /\ model' = t
      /\ restarts < MaxRestarts /\ restarts' = restarts + 1
      /\ missed' = [d \in Devices |-> 0]
      /\ saved' = saved \/ saved' = SaveModel(t)
  BY DEF Boot, t
<1>4. restarts' \in 0..MaxRestarts
  BY <1>3 DEF Mastered
<1>5. Kept(saved')
  BY <1>2, <1>3
<1> QED BY <1>1, <1>3, <1>4, <1>5 DEF Mastered

LEMMA AdoptKeeps ==
  ASSUME Mastered, lost \in 0..MaxLost, NEW table, Known(table),
         NEW nodes, Table(nodes), Once(nodes), NEW file, Kept(file), NEW heard,
         Adopt(table, nodes, file, heard), lost' = lost
  PROVE  Mastered'
<1>1. CASE /\ children' = table /\ model' = nodes /\ saved' = file
           /\ missed' = [d \in Devices |-> IF d \in heard THEN 0 ELSE missed[d]]
           /\ UNCHANGED restarts
  BY <1>1 DEF Mastered
<1>2. CASE Boot(table, saved)
  BY <1>2, BootKeeps
<1> QED BY <1>1, <1>2 DEF Adopt

\* What the master adopts of what it is told.
LEMMA ReportKept ==
  ASSUME Mastered, NEW path \in Paths
  PROVE  Table(NoteReport(model, path)) /\ Once(NoteReport(model, path))
  BY TouchKeeps, TouchOnce DEF Mastered, NoteReport

LEMMA DescribeKept ==
  ASSUME Mastered, NEW path \in Paths, NEW interval \in 0..Longest
  PROVE  Table(NoteDescribe(model, path, interval)) /\ Once(NoteDescribe(model, path, interval))
<1> DEFINE t == Touch(model, path)
<1>1. Table(t) /\ Once(t)
  BY TouchKeeps, TouchOnce DEF Mastered
<1> HIDE DEF t
<1>2. Table(SetInterval(t, path, interval)) /\ Once(SetInterval(t, path, interval))
  BY <1>1, IntervalKeeps, IntervalOnce
<1> QED BY <1>2 DEF t, NoteDescribe

LEMMA PolicyKept ==
  ASSUME Mastered, NEW path \in Paths, NEW answer, answer.interval \in 0..Longest
  PROVE  Table(NotePolicy(model, path, answer)) /\ Once(NotePolicy(model, path, answer))
<1>1. CASE answer.ok
  BY <1>1, DescribeKept DEF NotePolicy, NoteDescribe
<1>2. CASE ~answer.ok
  BY <1>2, ReportKept DEF NotePolicy, NoteReport
<1> QED BY <1>1, <1>2

LEMMA WithIntervalKept ==
  ASSUME Mastered, NEW path, NEW interval \in 0..Longest
  PROVE  Known(WithInterval(path, interval))
<1>1. CASE Len(path) = 1 /\ path[1] \in DOMAIN children
  <2> DEFINE i == path[1]
             t == [children EXCEPT ![i].interval = interval]
  <2>1. t = WithInterval(path, interval)
    BY <1>1 DEF WithInterval
  <2>2. /\ children \in [DOMAIN children -> Pair] /\ i \in DOMAIN children
        /\ DOMAIN t = DOMAIN children
    BY <1>1 DEF Mastered, Known
  <2>3. [children[i] EXCEPT !.interval = interval] \in Pair
    BY ZenonT(60), <2>2 DEF Pair
  <2>4. t \in [DOMAIN children -> Pair]
    BY <2>2, <2>3
  <2> HIDE DEF t, i
  <2> QED BY <2>1, <2>2, <2>4 DEF Mastered, Known
<1>2. CASE ~(Len(path) = 1 /\ path[1] \in DOMAIN children)
  BY <1>2 DEF WithInterval, Mastered
<1> QED BY <1>1, <1>2

\* Every element of a set, in some order.
LEMMA InARow ==
  ASSUME NEW T, IsFiniteSet(T)
  PROVE  /\ SetToSeq(T) \in Seq(T) /\ Len(SetToSeq(T)) = Cardinality(T)
         /\ \A x \in T : \E i \in 1..Len(SetToSeq(T)) : SetToSeq(T)[i] = x
<1> DEFINE n == Cardinality(T)
           s == SetToSeq(T)
<1>1. n \in Nat /\ ExistsBijection(1..n, T)
  BY FS_CardinalityType
<1>2. \E f \in [1..n -> T] : IsInjective(f)
  BY <1>1 DEF ExistsBijection, Bijection, Injection
<1>3. s \in [1..n -> T] /\ IsInjective(s)
  BY <1>2 DEF SetToSeq
<1>4. s \in Seq(T) /\ Len(s) = n /\ DOMAIN s = 1..n
  BY SMTT(30), <1>1, <1>3
<1>5. IsFiniteSet(1..n) /\ Cardinality(1..n) = n
  BY <1>1, FS_Interval
<1> HIDE DEF s
<1>6. s \in Surjection(1..n, T)
  <2> DEFINE hit == {s[i] : i \in 1..n}
  <2>2. hit \in SUBSET T
    BY <1>3
  <2>3. ExistsBijection(1..n, hit)
    <3>1. s \in [1..n -> hit] /\ \A t \in hit : \E i \in 1..n : s[i] = t
      BY <1>3
    <3> HIDE DEF hit
    <3>2. s \in Bijection(1..n, hit)
      BY <1>3, <3>1 DEF Bijection, Injection, Surjection
    <3> QED BY <3>2 DEF ExistsBijection
  <2> HIDE DEF hit
  <2>4. Cardinality(hit) = n
    BY <1>1, <2>3, FS_CountingElements
  <2>5. hit = T
    BY <2>2, <2>4, FS_Subset
  <2> QED BY <1>3, <2>5 DEF hit, Surjection
<1> QED BY <1>4, <1>6 DEF s, Surjection

\* A device's own news, at whichever stop it is.
LEMMA AttachedFrame ==
  ASSUME NEW d \in Devices, NEW k \in 1..Len(Itinerary[d])
  PROVE  [kind |-> "attached", src |-> Front(Itinerary[d][k]), attached |-> Attached(d, k)]
           \in Frames
<1> DEFINE p == Itinerary[d][k]
<1>1. p \in Paths
  BY StopType
<1> HIDE DEF p
<1>2. Front(p) \in Seq(Nat) /\ Last(p) \in Nat /\ Append(Front(p), Last(p)) = p
  BY <1>1, PathType, FrontLast
<1>3. Own[d] \in 0..Longest
  OBVIOUS
<1> QED BY <1>1, <1>2, <1>3 DEF Frames, Attached, p

-----------------------------------------------------------------------------
(* Who is above a place, and who was below it. *)

\* A device that somebody binds below binds once, right above.
LEMMA ParentOnce ==
  ASSUME NEW p \in Paths, NEW d \in ParentAt(p)
  PROVE  /\ d \in Devices /\ 1 \in 1..Len(Itinerary[d]) /\ Len(Itinerary[d]) = 1
         /\ Itinerary[d][1] = Front(p) /\ Front(p) \in Paths
<1>1. d \in Devices /\ \E k \in 1..Len(Itinerary[d]) : Itinerary[d][k] = Front(p)
  BY DEF ParentAt
<1>2. PICK k \in 1..Len(Itinerary[d]) : Itinerary[d][k] = Front(p)
  BY <1>1
<1>3. \E c \in Devices : \E j \in 1..Len(Itinerary[c]) : p = Itinerary[c][j]
  BY DEF Paths
<1>4. Below(d) # {}
  BY <1>3 DEF Below
<1>5. Len(Itinerary[d]) = 1
  BY ONLY <1>1, <1>4, ItineraryAssumption
<1>6. Front(p) \in Paths
  BY ONLY SMTT(60), <1>1, <1>2, StopType
<1> QED BY <1>1, <1>2, <1>5, <1>6

\* Only one device binds there.
LEMMA StopOnce ==
  ASSUME NEW c \in Devices, NEW j \in 1..Len(Itinerary[c]),
         NEW d \in Devices, NEW k \in 1..Len(Itinerary[d]), Itinerary[c][j] = Itinerary[d][k]
  PROVE  c = d
  BY ONLY ItineraryAssumption, c \in Devices, j \in 1..Len(Itinerary[c]),
          d \in Devices, k \in 1..Len(Itinerary[d]), Itinerary[c][j] = Itinerary[d][k]

LEMMA ParentAlone ==
  ASSUME NEW p \in Paths, NEW c \in ParentAt(p), NEW d \in ParentAt(p)
  PROVE  c = d
<1>1. /\ c \in Devices /\ 1 \in 1..Len(Itinerary[c]) /\ Itinerary[c][1] = Front(p)
      /\ d \in Devices /\ 1 \in 1..Len(Itinerary[d]) /\ Itinerary[d][1] = Front(p)
  BY ParentOnce
<1> QED BY <1>1, StopOnce

LEMMA NobodyAbove ==
  ASSUME NEW p, Len(p) = 1
  PROVE  Above(p) = {} 
  BY DEF Above

LEMMA ParentIsAbove ==
  ASSUME NEW p \in Paths
  PROVE  ParentAt(p) \subseteq Above(p)
<1> SUFFICES ASSUME NEW d \in ParentAt(p) PROVE d \in Above(p)
  OBVIOUS
<1>1. /\ d \in Devices /\ 1 \in 1..Len(Itinerary[d]) /\ Itinerary[d][1] = Front(p)
      /\ Front(p) \in Paths
  BY ParentOnce
<1>2. p \in Seq(Nat) /\ p # <<>> /\ Len(p) \in Nat
  BY PathType
<1>3. Len(Front(p)) \in Nat \ {0} /\ Len(Front(p)) = Len(p) - 1
  BY <1>1, <1>2, PathType, FrontLast
<1>4. Len(p) - 1 \in 1..Len(p) - 1 /\ Front(p) = SubSeq(p, 1, Len(p) - 1)
  BY <1>2, <1>3 DEF Front
<1> QED BY <1>1, <1>4 DEF Above

\* Whoever is above a place is right above it, or above whoever is.
LEMMA AboveFront ==
  ASSUME NEW p \in Paths, NEW d \in Above(p), d \notin ParentAt(p)
  PROVE  d \in Above(Front(p))
<1>1. p \in Seq(Nat) /\ p # <<>> /\ Len(p) \in Nat
  BY PathType
<1>2. d \in Devices /\ \E k \in 1..Len(Itinerary[d]), n \in 1..Len(p) - 1 :
                         Itinerary[d][k] = SubSeq(p, 1, n)
  BY DEF Above
<1>3. PICK k \in 1..Len(Itinerary[d]), n \in 1..Len(p) - 1 : Itinerary[d][k] = SubSeq(p, 1, n)
  BY <1>2
<1>4. Front(p) \in Seq(Nat) /\ Len(Front(p)) = Len(p) - 1 /\ Front(p) = SubSeq(p, 1, Len(p) - 1)
  BY <1>1, FrontLast DEF Front
<1>5. n # Len(p) - 1
  BY <1>2, <1>3, <1>4 DEF ParentAt
<1>6. n \in 1..Len(Front(p)) - 1 /\ n \in Nat
  BY <1>1, <1>3, <1>4, <1>5
<1>7. SubSeq(Front(p), 1, n) = SubSeq(p, 1, n)
  <2>1. \A i \in 1..n : i \in 1..Len(p) /\ i \in 1..Len(p) - 1
    BY ONLY <1>1, n \in 1..Len(p) - 1
  <2>2. \A i \in 1..Len(p) - 1 : Front(p)[i] = p[i]
    BY <1>1 DEF Front
  <2> QED BY <2>1, <2>2
<1> QED BY <1>2, <1>3, <1>6, <1>7 DEF Above

LEMMA AboveTwo ==
  ASSUME NEW p \in Paths, Len(p) = 2
  PROVE  Above(p) = ParentAt(p)
<1>1. Front(p) = SubSeq(p, 1, 1)
  BY DEF Front
<1>2. \A n \in 1..Len(p) - 1 : n = 1
  BY SMTT(30)
<1>3. 1 \in 1..Len(p) - 1
  OBVIOUS
<1> QED BY <1>1, <1>2, <1>3 DEF Above, ParentAt

-----------------------------------------------------------------------------
(* News. *)

\* The news of a device itself, and of everyone it holds.
OwnNews(d, k) ==
  [kind |-> "attached", src |-> Front(Itinerary[d][k]), attached |-> Attached(d, k)]
OfChildren(d) == {Announcement(d, c) : c \in Adopted(d)}
NewsOf(d, k) == (IF Len(Itinerary[d][k]) = 1 THEN {} ELSE {OwnNews(d, k)}) \cup OfChildren(d)

\* Whoever a device holds bound below it.
LEMMA AdoptedStop ==
  ASSUME Staged, NEW d \in Devices, NEW c \in Adopted(d)
  PROVE  /\ c \in Devices
         /\ \E k \in 1..Len(Itinerary[c]) :
              /\ k \in 1..stage[c] /\ d \in ParentAt(Itinerary[c][k])
              /\ Announcement(d, c) = OwnNews(c, k)
<1>1. c \in Devices /\ \E j \in 1..stage[c] : d \in ParentAt(Itinerary[c][j])
  BY DEF Adopted
<1> DEFINE k == CHOOSE j \in 1..stage[c] : d \in ParentAt(Itinerary[c][j])
<1>2. k \in 1..stage[c] /\ d \in ParentAt(Itinerary[c][k])
  BY <1>1
<1>3. Announcement(d, c) = OwnNews(c, k)
  BY DEF Announcement, OwnNews
<1> HIDE DEF k
<1>4. Len(Itinerary[c]) \in Nat /\ stage[c] \in Nat /\ stage[c] =< Len(Itinerary[c])
  BY <1>1, LenProperties DEF Staged
<1>5. k \in 1..Len(Itinerary[c])
  BY ONLY <1>2, <1>4
<1> QED BY <1>1, <1>2, <1>3, <1>5

LEMMA OfChildrenKeeps ==
  ASSUME Staged, NEW d \in Devices
  PROVE  /\ OfChildren(d) \subseteq Frames /\ IsFiniteSet(OfChildren(d))
         /\ Cardinality(OfChildren(d)) \in Nat /\ Cardinality(OfChildren(d)) < MaxFlight
<1> DEFINE who == Adopted(d)
           f   == [c \in who |-> Announcement(d, c)]
           all == OfChildren(d)
<1>1. all = {Announcement(d, c) : c \in who}
  BY DEF OfChildren
<1>2. ASSUME NEW c \in who PROVE c \in Below(d) /\ Announcement(d, c) \in Frames
  <2>1. c \in Devices
    BY AdoptedStop
  <2>2. PICK k \in 1..Len(Itinerary[c]) : /\ d \in ParentAt(Itinerary[c][k])
                                          /\ Announcement(d, c) = OwnNews(c, k)
    BY AdoptedStop
  <2> QED BY <2>1, <2>2, AttachedFrame DEF Below, OwnNews
<1>3. Below(d) \in SUBSET Devices
  BY DEF Below
<1>4. IsFiniteSet(Below(d)) /\ Cardinality(Below(d)) < MaxFlight
  BY <1>3, FS_Subset
<1>5. who \in SUBSET Below(d)
  BY <1>2
<1>6. f \in Surjection(who, all)
  <2>1. f \in [who -> all]
    BY <1>1
  <2> QED BY <1>1, <2>1 DEF Surjection
<1> HIDE DEF who, f, all
<1>7. IsFiniteSet(who) /\ Cardinality(who) =< Cardinality(Below(d))
  BY <1>4, <1>5, FS_Subset
<1>8. IsFiniteSet(all) /\ Cardinality(all) =< Cardinality(who)
  BY <1>6, <1>7, FS_Surjection
<1>9. /\ Cardinality(all) \in Nat /\ Cardinality(who) \in Nat
      /\ Cardinality(Below(d)) \in Nat /\ MaxFlight \in Nat
  BY <1>4, <1>7, <1>8, FS_CardinalityType
<1>10. Cardinality(all) < MaxFlight
  BY ONLY <1>4, <1>7, <1>8, <1>9
<1>11. all \subseteq Frames
  BY <1>1, <1>2
<1> QED BY <1>8, <1>9, <1>10, <1>11 DEF all

LEMMA NewsKeeps ==
  ASSUME Staged, NEW d \in Devices, NEW k \in 1..Len(Itinerary[d])
  PROVE  /\ News(d, k) \in Seq(Frames) /\ Len(News(d, k)) =< MaxFlight
         /\ \A i \in 1..Len(News(d, k)) : News(d, k)[i] \in NewsOf(d, k)
         /\ \A x \in NewsOf(d, k) : \E i \in 1..Len(News(d, k)) : News(d, k)[i] = x
<1> DEFINE t == SetToSeq(OfChildren(d))
           own == IF Len(Itinerary[d][k]) = 1 THEN <<>> ELSE <<OwnNews(d, k)>>
           s == own \o t
<1>1. News(d, k) = s
  BY DEF News, OwnNews, OfChildren
<1>2. /\ t \in Seq(OfChildren(d)) /\ Len(t) = Cardinality(OfChildren(d)) /\ Len(t) \in Nat
      /\ \A x \in OfChildren(d) : \E i \in 1..Len(t) : t[i] = x
  BY OfChildrenKeeps, InARow
<1>3. t \in Seq(Frames) /\ Len(t) < MaxFlight /\ MaxFlight \in Nat /\ OwnNews(d, k) \in Frames
  <2>1. OfChildren(d) \subseteq Frames /\ Cardinality(OfChildren(d)) < MaxFlight
    BY OfChildrenKeeps
  <2>2. OwnNews(d, k) \in Frames
    BY AttachedFrame DEF OwnNews
  <2> HIDE DEF t
  <2> QED BY <1>2, <2>1, <2>2
<1> HIDE DEF t
<1>4. CASE Len(Itinerary[d][k]) = 1
  <2>1. s = t
    BY <1>3, <1>4, ConcatEmptySeq
  <2>2. NewsOf(d, k) = OfChildren(d)
    BY <1>4 DEF NewsOf
  <2>3. \A i \in 1..Len(t) : t[i] \in OfChildren(d)
    BY <1>2
  <2> HIDE DEF s
  <2> QED BY <1>1, <1>2, <1>3, <2>1, <2>2, <2>3
<1>5. CASE Len(Itinerary[d][k]) # 1
  <2> DEFINE x == OwnNews(d, k)
  <2>1. own = <<x>>
    BY <1>5
  <2>2. NewsOf(d, k) = {x} \cup OfChildren(d)
    BY <1>5 DEF NewsOf
  <2> HIDE DEF x, own
  <2>3. own \in Seq(Frames) /\ Len(own) = 1 /\ own[1] = x
    BY <1>3, <2>1 DEF x
  <2>4. /\ s \in Seq(Frames) /\ Len(s) = Len(own) + Len(t)
        /\ \A i \in 1..Len(own) + Len(t) : s[i] = IF i <= Len(own) THEN own[i] ELSE t[i - Len(own)]
    <3>1. own \in Seq(Frames) /\ t \in Seq(Frames)
      BY <1>3, <2>3
    <3> QED BY ONLY <3>1, ConcatProperties
  <2> HIDE DEF s
  <2>5. ASSUME NEW i \in 1..Len(s) PROVE s[i] \in NewsOf(d, k)
    <3>1. CASE i = 1
      BY <2>2, <2>3, <2>4, <3>1
    <3>2. CASE i # 1
      <4>1. i - 1 \in 1..Len(t) /\ s[i] = t[i - 1]
        BY ONLY Len(t) \in Nat, <1>2, <2>3, <2>4, <3>2, i \in 1..Len(s)
      <4> QED BY <1>2, <2>2, <4>1
    <3> QED BY <3>1, <3>2
  <2>6. ASSUME NEW y \in NewsOf(d, k) PROVE \E i \in 1..Len(s) : s[i] = y
    <3>1. CASE y = x
      <4>1. 1 \in 1..Len(s) /\ s[1] = x
        BY <1>2, <2>3, <2>4
      <4> QED BY <3>1, <4>1
    <3>2. CASE y \in OfChildren(d)
      <4>1. PICK i \in 1..Len(t) : t[i] = y
        BY <1>2, <3>2
      <4>2. i + 1 \in 1..Len(s) /\ s[i + 1] = t[i]
        <5>1. /\ Len(t) \in Nat /\ i \in 1..Len(t) /\ Len(s) = 1 + Len(t)
              /\ \A j \in 1..1 + Len(t) : s[j] = IF j <= 1 THEN own[j] ELSE t[j - 1]
          BY <1>2, <2>3, <2>4
        <5>2. i + 1 \in 1..1 + Len(t) /\ ~(i + 1 <= 1) /\ (i + 1) - 1 = i
          BY ONLY <5>1
        <5> QED BY ONLY <5>1, <5>2
      <4> QED BY <4>1, <4>2
    <3> QED BY <2>2, <3>1, <3>2
  <2>7. Len(s) =< MaxFlight
    BY <1>2, <1>3, <2>3, <2>4
  <2> QED BY <1>1, <2>4, <2>5, <2>6, <2>7
<1> QED BY <1>4, <1>5

\* A frame more, and a frame less.
LEMMA SentKeeps ==
  ASSUME Flying, NEW p \in Paths, NEW frame \in Frames, Len(up[p[1]]) < MaxFlight
  PROVE  LET u == Sent(up, p, frame) IN
         u \in [Hops -> Seq(Frames)] /\ \A h \in Hops : Len(u[h]) =< MaxFlight
<1>1. p[1] \in Hops
  BY PathType
<1>2. up[p[1]] \in Seq(Frames)
  BY <1>1 DEF Flying
<1>3. /\ Append(up[p[1]], frame) \in Seq(Frames)
      /\ Len(Append(up[p[1]], frame)) = Len(up[p[1]]) + 1 /\ Len(up[p[1]]) \in Nat
  BY <1>2
<1>4. MaxFlight \in Nat /\ Len(Append(up[p[1]], frame)) =< MaxFlight
  BY <1>3
<1> QED BY <1>1, <1>3, <1>4 DEF Sent, Flying

LEMMA TakenKeeps ==
  ASSUME Flying, NEW h \in Hops, up[h] # <<>>
  PROVE  LET u == [up EXCEPT ![h] = Tail(@)] IN
         /\ u \in [Hops -> Seq(Frames)] /\ \A i \in Hops : Len(u[i]) =< MaxFlight
         /\ Head(up[h]) \in Frames
<1>1. up[h] \in Seq(Frames) /\ Len(up[h]) =< MaxFlight /\ MaxFlight \in Nat
  BY DEF Flying
<1>2. /\ Tail(up[h]) \in Seq(Frames) /\ Len(Tail(up[h])) = Len(up[h]) - 1
      /\ Len(up[h]) \in Nat /\ Head(up[h]) \in Frames
  BY <1>1
<1>3. Len(Tail(up[h])) =< MaxFlight
  BY <1>1, <1>2
<1> QED BY <1>2, <1>3 DEF Flying

LEMMA TypedInit == Init => Typed
<1> SUFFICES ASSUME Init PROVE Typed
  OBVIOUS
<1>0. IsFiniteSet({}) /\ Cardinality({}) = 0
  BY FS_EmptySet
<1>1. Table(NoNodes) /\ Once(NoNodes) /\ Kept(NoNodes)
  BY <1>0 DEF NoNodes, Table, Fits, Once, Kept
<1>2. Known(children)
  BY <1>0 DEF Init, Known
<1>3. Mastered
  BY <1>1, <1>2 DEF Init, Mastered
<1>4. Staged
  <2>1. \A d \in Devices : Len(Itinerary[d]) \in Nat
    BY LenProperties
  <2> QED BY <2>1 DEF Init, Staged, Never
<1>5. Asking /\ Flying
  BY DEF Init, Asking, Flying, NoRequest
<1> QED BY <1>3, <1>4, <1>5 DEF Typed

LEMMA PlacesStay ==
  ASSUME stage' = stage, NEW c
  PROVE  (Reached(c)' <=> Reached(c)) /\ Place(c)' = Place(c)
  BY DEF Reached, Bound, Place

\* Nobody binds while anybody is asked, and nothing else moves a device.
LEMMA AskingStays ==
  ASSUME Asking, UNCHANGED stage,
         \A d \in Devices : down'[d] \in {down[d], NoRequest},
         down' = [d \in Devices |-> down'[d]]
  PROVE  Asking'
<1>1. \A d \in Devices : Reached(d)' <=> Reached(d)
  BY PlacesStay
<1> QED BY <1>1 DEF Asking

\* A child more, or another at its place.
WithChild(table, i, pair) == [j \in DOMAIN table \cup {i} |-> IF j = i THEN pair ELSE table[j]]

LEMMA ChildKeeps ==
  ASSUME NEW table, Known(table), NEW i \in Nat, <<i>> \in Paths, NEW pair \in Pair
  PROVE  LET t == WithChild(table, i, pair) IN
         /\ Known(t) /\ DOMAIN t = DOMAIN table \cup {i} /\ t[i] = pair
         /\ \A j \in DOMAIN table \ {i} : t[j] = table[j]
<1> DEFINE t == WithChild(table, i, pair)
<1>1. /\ t = [j \in DOMAIN t |-> t[j]] /\ DOMAIN t = DOMAIN table \cup {i} /\ t[i] = pair
      /\ \A j \in DOMAIN table \ {i} : t[j] = table[j]
  BY DEF WithChild
<1> HIDE DEF t
<1>2. IsFiniteSet(DOMAIN table) /\ IsFiniteSet(DOMAIN table \cup {i})
  BY FS_AddElement DEF Known
<1>3. ASSUME NEW j \in DOMAIN t PROVE j \in Nat /\ <<j>> \in Paths /\ t[j] \in Pair
  <2>1. CASE j = i
    BY <1>1, <2>1
  <2>2. CASE j # i
    <3>1. j \in DOMAIN table /\ t[j] = table[j]
      BY <1>1, <2>2
    <3> QED BY <3>1 DEF Known
  <2> QED BY <2>1, <2>2
<1>4. t \in [DOMAIN t -> Pair] /\ IsFiniteSet(DOMAIN t)
  BY <1>1, <1>2, <1>3
<1>5. Known(t)
  BY <1>3, <1>4 DEF Known
<1> QED BY <1>1, <1>5 DEF t

LEMMA TypedBind ==
  ASSUME Typed, NEW d \in Devices, Bind(d)
  PROVE  Typed'
<1> DEFINE k == stage[d] + 1
           path == Itinerary[d][k]
           table == [i \in DOMAIN children \cup {path[1]} |->
                     IF i = path[1] THEN [mac |-> d, interval |-> Own[d]] ELSE children[i]]
<1>0. Itinerary[d] \in Seq(Seq(Nat) \ {<<>>}) /\ stage[d] \in Nat /\ stage[d] < Len(Itinerary[d])
  BY DEF Typed, Staged, Bind
<1>1. k \in 1..Len(Itinerary[d]) /\ k \in Nat
  BY SMTT(30), <1>0
<1>2. path \in Paths /\ path[1] \in Hops /\ path[1] \in Nat /\ path \in Seq(Nat) /\ path # <<>>
  BY <1>1, StopType, PathType
<1>3. /\ Silent
      /\ stage' = [stage EXCEPT ![d] = k]
      /\ up' = up \/ up' = [up EXCEPT ![path[1]] = News(d, k)]
      /\ every' = [every EXCEPT ![d] = Own[d]] /\ since' = [since EXCEPT ![d] = Never]
      /\ UNCHANGED <<alive, down, lost>>
  BY DEF Bind
<1>4. \/ UNCHANGED <<master, missed, restarts>>
      \/ Len(path) = 1 /\ AdoptAttached(table, <<>>, Attached(d, k))
  BY DEF Bind
<1>5. Staged'
  <2>1. Own[d] \in 0..Longest /\ Never \in 0..Never
    BY DEF Never
  <2> HIDE DEF path, k
  <2>2. stage' \in [Devices -> Nat] /\ \A c \in Devices : stage'[c] =< Len(Itinerary[c])
    BY SMTT(30), <1>1, <1>3 DEF Typed, Staged
  <2> QED BY <1>3, <2>1, <2>2 DEF Typed, Staged
<1>6. Asking'
  BY <1>3 DEF Silent, Asking, Typed
<1>7. Flying'
  <2> HIDE DEF path
  <2>1. News(d, k) \in Seq(Frames) /\ Len(News(d, k)) =< MaxFlight
    BY <1>1, NewsKeeps DEF Typed
  <2> QED BY ZenonT(60), <1>2, <1>3, <2>1 DEF Flying, Typed
<1>8. Mastered'
  <2>1. CASE UNCHANGED <<master, missed, restarts>>
    BY <1>3, <2>1 DEF Typed, Mastered, master
  <2>2. CASE Len(path) = 1 /\ AdoptAttached(table, <<>>, Attached(d, k))
    <3> DEFINE i == path[1]
               a == Attached(d, k)
               nodes == NoteChildAttached(model, <<>>, a)
               heard == At(Append(<<>>, a.childIndex))
    <3>1. path = <<i>> /\ Last(path) = i /\ Append(<<>>, i) = path
      BY SMTT(30), <1>2, <2>2 DEF Last
    <3>2. a.childIndex = i /\ a.mac = d /\ a.interval = Own[d] /\ Own[d] \in 0..Longest
      BY <3>1 DEF Attached
    <3>3. Adopt(table, nodes, SaveModel(nodes), heard)
      BY <2>2 DEF AdoptAttached
    <3>4. Known(table)
      <4>1. Known(children) /\ i \in Nat /\ <<i>> \in Paths
        BY <1>2, <3>1 DEF Typed, Mastered
      <4>2. [mac |-> d, interval |-> Own[d]] \in Pair
        BY <3>2 DEF Pair
      <4>3. table = WithChild(children, i, [mac |-> d, interval |-> Own[d]])
        BY DEF WithChild
      <4> HIDE DEF table, i
      <4> QED BY <4>1, <4>2, <4>3, ChildKeeps
    <3> HIDE DEF table, a, i
    <3>5. Append(<<>>, a.childIndex) \in Paths /\ Table(model) /\ Once(model)
      BY <1>2, <3>1, <3>2 DEF Typed, Mastered
    <3>6. Table(nodes) /\ Once(nodes)
      BY <3>2, <3>5, AttachedKeeps
    <3> HIDE DEF nodes, heard
    <3>7. Kept(SaveModel(nodes))
      BY <3>6, SaveKeeps
    <3>8. Mastered /\ lost \in 0..MaxLost /\ lost' = lost
      BY <1>3 DEF Typed, Flying
    <3> QED BY ONLY <3>3, <3>4, <3>6, <3>7, <3>8, AdoptKeeps
  <2> QED BY <1>4, <2>1, <2>2
<1> QED BY <1>5, <1>6, <1>7, <1>8 DEF Typed

LEMMA TypedReport ==
  ASSUME Typed, NEW d \in Devices, Report(d)
  PROVE  Typed'
<1> DEFINE frame == [kind |-> "report", src |-> Place(d)]
<1>1. /\ since' = [since EXCEPT ![d] = 0] /\ Bound(d) /\ Room(d)
      /\ up' = IF Reached(d) THEN Sent(up, Place(d), frame) ELSE up
      /\ UNCHANGED <<master, stage, every, alive, down, lost, missed, restarts>>
  BY DEF Report
<1>2. Place(d) \in Paths /\ frame \in Frames
  BY <1>1, PlaceType DEF Typed, Frames
<1> HIDE DEF frame
<1>3. Flying'
  <2>1. CASE up' = up
    BY <1>1, <2>1 DEF Typed, Flying
  <2>2. CASE Reached(d) /\ up' = Sent(up, Place(d), frame)
    BY <1>1, <1>2, <2>2, SentKeeps DEF Typed, Flying, Room
  <2> QED BY <1>1, <2>1, <2>2
<1>4. Staged' /\ Mastered'
  BY <1>1 DEF Typed, Staged, Mastered, master, Never
<1>5. Asking'
  BY <1>1, AskingStays DEF Typed, Asking
<1> QED BY <1>3, <1>4, <1>5 DEF Typed

LEMMA TypedServe ==
  ASSUME Typed, NEW d \in Devices, Serve(d)
  PROVE  Typed'
<1>1. /\ Room(d) /\ down' = [down EXCEPT ![d] = NoRequest]
      /\ UNCHANGED <<master, stage, since, alive, lost, missed, restarts>>
  BY DEF Serve
<1>2. down[d] # NoRequest /\ Reached(d)
  <2>1. down[d].kind \in {"describe", "policy"}
    BY DEF Serve
  <2>2. down[d] # NoRequest
    BY <2>1 DEF NoRequest
  <2> QED BY <2>2 DEF Typed, Asking
<1>3. Bound(d) /\ Place(d) \in Paths
  BY <1>2, PlaceType DEF Typed, Reached
<1>4. \E frame \in Frames : up' = Sent(up, Place(d), frame)
  <2>1. CASE down[d].kind = "describe" /\ up' = Sent(up, Place(d), Description(d))
    <3>1. Own[d] \in 0..Longest
      OBVIOUS
    <3> QED BY <1>3, <2>1, <3>1 DEF Description, Frames
  <2>2. CASE down[d].kind = "policy" /\ up' = Sent(up, Place(d), PolicyTaken(d, down[d]))
    <3>1. down[d].interval \in 0..Longest /\ down[d].port \in BOOLEAN
      BY <1>2, <2>2 DEF Typed, Asking, Requests, NoRequest
    <3>2. PolicyTaken(d, down[d]) \in Frames
      BY <1>3, <3>1 DEF PolicyTaken, Frames
    <3> QED BY <2>2, <3>2
  <2> QED BY <2>1, <2>2 DEF Serve
<1>5. Flying'
  BY <1>1, <1>2, <1>3, <1>4, SentKeeps DEF Typed, Flying, Room
<1>6. Staged'
  <2>1. \/ every' = every
        \/ down[d].kind = "policy" /\ every' = [every EXCEPT ![d] = down[d].interval]
    BY DEF Serve
  <2>2. down[d].kind = "policy" => down[d].interval \in 0..Longest
    BY <1>2 DEF Typed, Asking, Requests, NoRequest
  <2> QED BY <1>1, <2>1, <2>2 DEF Typed, Staged
<1>7. Mastered'
  BY <1>1 DEF Typed, Mastered, master
<1>8. Asking'
  BY <1>1, AskingStays DEF Typed, Asking
<1> QED BY <1>5, <1>6, <1>7, <1>8 DEF Typed

LEMMA TypedDevice ==
  ASSUME Typed, NEW d \in Devices, Die(d) \/ Ask(d) \/ LoseDown(d)
  PROVE  Typed'
<1>1. CASE Die(d)
  <2>1. Asking'
    BY <1>1, AskingStays DEF Typed, Asking, Die
  <2> QED BY <1>1, <2>1 DEF Typed, Die, Staged, Mastered, Flying, master
<1>2. CASE Ask(d)
  <2>1. Asking'
    <3>1. PICK request \in Requests(d) : down' = [down EXCEPT ![d] = request]
      BY <1>2 DEF Ask
    <3>2. Reached(d) /\ UNCHANGED stage
      BY <1>2 DEF Ask, device
    <3>3. \A c \in Devices : Reached(c)' <=> Reached(c)
      BY <3>2, PlacesStay
    <3> QED BY <3>1, <3>2, <3>3 DEF Typed, Asking
  <2> QED BY <1>2, <2>1 DEF Typed, Ask, Staged, Mastered, Flying, master, device
<1>3. CASE LoseDown(d)
  <2>1. Asking'
    BY <1>3, AskingStays DEF Typed, Asking, LoseDown, device
  <2>2. Mastered'
    BY <1>3 DEF LoseDown, Typed, Mastered, Flying, master
  <2> QED BY <1>3, <2>1, <2>2 DEF Typed, LoseDown, Staged, Flying, device
<1> QED BY <1>1, <1>2, <1>3

LEMMA TypedReceive ==
  ASSUME Typed, NEW h \in Hops, Receive(h)
  PROVE  Typed'
<1> DEFINE frame == Head(up[h])
<1>1. /\ up[h] # <<>> /\ up' = [up EXCEPT ![h] = Tail(@)]
      /\ UNCHANGED <<device, down, lost>>
  BY DEF Receive
<1>2. Flying' /\ frame \in Frames
  BY <1>1, TakenKeeps DEF Typed, Flying
<1>3. Staged' /\ Asking'
  BY <1>1, AskingStays DEF Typed, Staged, Asking, device
<1>4. Mastered /\ lost \in 0..MaxLost /\ lost' = lost
      /\ Table(model) /\ Once(model) /\ Known(children) /\ Kept(saved)
  BY <1>1 DEF Typed, Flying, Mastered
<1>5. Mastered'
  <2>1. CASE frame.kind = "report"
             /\ Adopt(children, NoteReport(model, frame.src), saved, At(frame.src))
    <3>1. frame.src \in Paths
      BY <1>2, <2>1 DEF Frames
    <3> DEFINE nodes == NoteReport(model, frame.src)
    <3>2. Table(nodes) /\ Once(nodes)
      BY <1>4, <3>1, ReportKept
    <3> HIDE DEF nodes, frame
    <3>3. Adopt(children, nodes, saved, At(frame.src))
      BY <2>1 DEF nodes
    <3> QED BY ONLY <1>4, <3>2, <3>3, AdoptKeeps
  <2>2. CASE frame.kind = "policy" /\ AdoptPolicy(frame.src, frame.answer)
    <3>1. frame.src \in Paths /\ frame.answer \in [ok : BOOLEAN, interval : 0..Longest]
      BY <1>2, <2>2 DEF Frames
    <3> DEFINE src == frame.src
               answer == frame.answer
               nodes == NotePolicy(model, src, answer)
               table == IF answer.ok THEN WithInterval(src, answer.interval) ELSE children
               changed == /\ answer.ok
                          /\ src \in DOMAIN model => model[src].interval # answer.interval
               file == IF changed THEN SaveModel(nodes) ELSE saved
    <3>2. Adopt(table, nodes, file, At(src))
      BY <2>2 DEF AdoptPolicy
    <3> HIDE DEF frame
    <3>3. src \in Paths /\ answer.interval \in 0..Longest
      BY <3>1
    <3> HIDE DEF src, answer
    <3>4. Table(nodes) /\ Once(nodes)
      BY ONLY <1>4, <3>3, PolicyKept
    <3>5. Known(WithInterval(src, answer.interval))
      BY <1>4, <3>3, WithIntervalKept
    <3>6. Known(table)
      BY <1>4, <3>5
    <3> HIDE DEF nodes, changed
    <3>7. Kept(file)
      BY <1>4, <3>4, SaveKeeps
    <3> HIDE DEF table, file
    <3> QED BY ONLY <1>4, <3>2, <3>4, <3>6, <3>7, AdoptKeeps
  <2>3. CASE frame.kind = "describe" /\ AdoptDescribe(frame.src, frame.interval)
    <3>1. frame.src \in Paths /\ frame.interval \in 0..Longest
      BY <1>2, <2>3 DEF Frames
    <3> DEFINE src == frame.src
               interval == frame.interval
               nodes == NoteDescribe(model, src, interval)
               table == WithInterval(src, interval)
               moved == src \in DOMAIN model /\ model[src].interval # interval
               file == IF moved THEN SaveModel(nodes) ELSE saved
    <3>2. Adopt(table, nodes, file, At(src))
      BY <2>3 DEF AdoptDescribe
    <3> HIDE DEF frame
    <3>3. src \in Paths /\ interval \in 0..Longest
      BY <3>1
    <3> HIDE DEF src, interval
    <3>4. Table(nodes) /\ Once(nodes)
      BY ONLY <1>4, <3>3, DescribeKept
    <3>5. Known(table)
      BY <1>4, <3>3, WithIntervalKept
    <3> HIDE DEF nodes, moved, table
    <3>6. Kept(file)
      BY <1>4, <3>4, SaveKeeps
    <3> HIDE DEF file
    <3> QED BY ONLY <1>4, <3>2, <3>4, <3>5, <3>6, AdoptKeeps
  <2>4. CASE frame.kind = "attached" /\ AdoptAttached(children, frame.src, frame.attached)
    <3>1. /\ frame.attached.mac \in Devices /\ frame.attached.interval \in 0..Longest
          /\ Append(frame.src, frame.attached.childIndex) \in Paths
      BY <1>2, <2>4 DEF Frames
    <3> DEFINE src == frame.src
               a == frame.attached
               nodes == NoteChildAttached(model, src, a)
               heard == At(Append(src, a.childIndex))
    <3>2. Adopt(children, nodes, SaveModel(nodes), heard)
      BY <2>4 DEF AdoptAttached
    <3> HIDE DEF frame
    <3>3. a.mac \in Devices /\ a.interval \in 0..Longest /\ Append(src, a.childIndex) \in Paths
      BY <3>1
    <3> HIDE DEF src, a
    <3>4. Table(nodes) /\ Once(nodes)
      BY <1>4, <3>3, AttachedKeeps
    <3> HIDE DEF nodes, heard
    <3>5. Kept(SaveModel(nodes))
      BY <3>4, SaveKeeps
    <3> QED BY ONLY <1>4, <3>2, <3>4, <3>5, AdoptKeeps
  <2> QED BY <2>1, <2>2, <2>3, <2>4 DEF Receive
<1> QED BY <1>2, <1>3, <1>5 DEF Typed

LEMMA TypedClock ==
  ASSUME Typed, Sweep \/ Restart \/ Tick
  PROVE  Typed'
<1>1. CASE Sweep
  <2>1. model' = SweepOffline(model)
        /\ UNCHANGED <<children, saved, device, down, up, lost, missed, restarts>>
    BY <1>1 DEF Sweep
  <2>2. Table(model') /\ Once(model')
    BY <2>1, SweepKeeps DEF Typed, Mastered, Once, Said
  <2>3. Asking'
    BY <2>1, AskingStays DEF Typed, Asking, device
  <2> QED BY <2>1, <2>2, <2>3 DEF Typed, Mastered, Staged, Flying, device
<1>2. CASE Restart
  <2>1. Boot(children, saved) /\ UNCHANGED <<device, down, up, lost>>
    BY <1>2 DEF Restart
  <2>2. Mastered'
    BY <2>1, BootKeeps DEF Typed, Mastered, Flying
  <2>3. Asking'
    BY <2>1, AskingStays DEF Typed, Asking, device
  <2> QED BY <2>1, <2>2, <2>3 DEF Typed, Staged, Flying, device
<1>3. CASE Tick
  <2>1. /\ model' = Aged(model)
        /\ since' = [d \in Devices |-> IF since[d] < Longest THEN since[d] + 1 ELSE since[d]]
        /\ UNCHANGED <<children, saved, stage, every, alive, down, up, lost, missed, restarts>>
    BY <1>3 DEF Tick
  <2>2. Table(model') /\ Once(model')
    BY <2>1, AgedKeeps DEF Typed, Mastered, Once, Said
  <2>3. Asking'
    BY <2>1, AskingStays DEF Typed, Asking
  <2>4. Staged'
    BY <2>1 DEF Typed, Staged, Never
  <2> QED BY <2>1, <2>2, <2>3, <2>4 DEF Typed, Mastered, Flying
<1> QED BY <1>1, <1>2, <1>3

LEMMA TypedLoseUp ==
  ASSUME Typed, NEW h \in Hops, LoseUp(h)
  PROVE  Typed'
<1>1. /\ lost < MaxLost /\ lost' = lost + 1
      /\ up[h] # <<>> /\ up' = [up EXCEPT ![h] = Tail(@)]
      /\ UNCHANGED <<master, device, down, restarts>>
      /\ missed' = [d \in Devices |-> missed'[d]]
      /\ \A d \in Devices : missed'[d] \in {missed[d], missed[d] + 1}
  BY DEF LoseUp
<1>2. Flying'
  BY <1>1, TakenKeeps DEF Typed, Flying
<1>3. Asking'
  BY <1>1, AskingStays DEF Typed, Asking, device
<1>4. Mastered'
  <2>1. ASSUME NEW d \in Devices PROVE missed'[d] \in Nat /\ missed'[d] =< lost + 1
    <3>1. missed[d] \in Nat /\ missed[d] =< lost /\ lost \in Nat
      BY DEF Typed, Mastered, Flying
    <3>2. missed'[d] \in {missed[d], missed[d] + 1}
      BY <1>1
    <3> QED BY <3>1, <3>2
  <2> QED BY <1>1, <2>1 DEF Typed, Mastered, master
<1> QED BY <1>1, <1>2, <1>3, <1>4 DEF Typed, Staged, device

LEMMA TypedNext == Typed /\ [Next]_vars => Typed'
<1> SUFFICES ASSUME Typed, [Next]_vars PROVE Typed'
  OBVIOUS
<1>1. ASSUME NEW d \in Devices,
             Bind(d) \/ Report(d) \/ Serve(d) \/ Die(d) \/ Ask(d) \/ LoseDown(d)
      PROVE  Typed'
  BY <1>1, TypedBind, TypedReport, TypedServe, TypedDevice
<1>2. ASSUME NEW h \in Hops, Receive(h) \/ LoseUp(h) PROVE Typed'
  BY <1>2, TypedReceive, TypedLoseUp
<1>3. CASE Sweep \/ Restart \/ Tick
  BY <1>3, TypedClock
<1>4. CASE UNCHANGED vars
  <2>1. Asking'
    BY <1>4, AskingStays DEF Typed, Asking, vars, device
  <2> QED BY <1>4, <2>1 DEF Typed, Mastered, Staged, Flying, vars, master, device
<1> QED BY <1>1, <1>2, <1>3, <1>4 DEF Next

LEMMA TypedAlways == Spec => []Typed
  BY TypedInit, TypedNext, PTL DEF Spec

(* The state is well formed: the model's entries and the file's are of paths  *)
(* there are and within the table's room, a device is never past its last     *)
(* stop, no link up holds more frames than a device's children have news,     *)
(* however a frame is lost or the power goes.                                 *)
THEOREM TypeCorrect == Spec => []TypeOK
<1>1. Typed => TypeOK
  <2> SUFFICES ASSUME Typed PROVE TypeOK
    OBVIOUS
  <2>1. \A i \in DOMAIN children : i \in Hops
    <3>1. ASSUME NEW i \in DOMAIN children PROVE i \in Hops
      <4>1. <<i>> \in Paths /\ i \in Nat
        BY DEF Typed, Mastered, Known
      <4> QED BY <4>1, PathType, ChildPath
    <3> QED BY <3>1
  <2>2. missed \in [Devices -> 0..MaxLost]
    BY DEF Typed, Mastered, Flying
  <2>3. \A d \in Devices : stage[d] \in 0..Len(Itinerary[d])
    <3>1. \A d \in Devices : Len(Itinerary[d]) \in Nat
      BY LenProperties
    <3> QED BY <3>1 DEF Typed, Staged
  <2>4. DOMAIN model \subseteq Paths /\ Cardinality(DOMAIN model) =< MaxNodes
        /\ \A p \in DOMAIN model : model[p] \in Entry
    BY DEF Typed, Mastered, Table, Fits
  <2>5. DOMAIN saved \subseteq Paths
        /\ \A p \in DOMAIN saved : saved[p] \in [mac : Devices, interval : 0..Longest]
    BY DEF Typed, Mastered, Kept, Fits, Pair
  <2>6. \A i \in DOMAIN children : children[i] \in [mac : Devices, interval : 0..Longest]
    BY DEF Typed, Mastered, Known, Pair
  <2>7. /\ every \in [Devices -> 0..Longest] /\ since \in [Devices -> 0..Never]
        /\ alive \subseteq Devices
        /\ \A d \in Devices : down[d] \in Requests(d) \cup {NoRequest}
        /\ \A h \in Hops : Len(up[h]) =< MaxFlight
        /\ lost \in 0..MaxLost /\ restarts \in 0..MaxRestarts
    BY DEF Typed, Mastered, Staged, Asking, Flying
  <2> QED BY <2>1, <2>2, <2>3, <2>4, <2>5, <2>6, <2>7 DEF TypeOK, Entry
<1> QED BY <1>1, TypedAlways, PTL

(* A device that was re-bound elsewhere is shown once: whatever was lost,     *)
(* however often the power went, and whichever of the two files was written   *)
(* last, no two entries of the model have one identity.                       *)
THEOREM OneEntryEach == Spec => []ShownOnce
<1>1. Typed => ShownOnce
  BY DEF Typed, Mastered, Once, ShownOnce
<1> QED BY <1>1, TypedAlways, PTL

-----------------------------------------------------------------------------
(* The picture persists.                                                      *)

\* A tree as it is meant to be set up: of two levels, within the table's room;
\* whoever is once bound to the master itself stays there, and nobody leaves a
\* controller before that one is bound.
Settled ==
  /\ IsFiniteSet(Paths) /\ Cardinality(Paths) =< MaxNodes
  /\ \A d \in Devices : \A k \in 1..Len(Itinerary[d]) :
       Len(Itinerary[d][k]) = 1 => k = Len(Itinerary[d])
  /\ \A p \in Paths : Len(p) =< 2
  /\ Hasty = {}

\* A model that knows every child of a table by what the table says of it, and
\* nobody below anyone else.
Agreed(table, nodes) ==
  /\ \A i \in DOMAIN table : <<i>> \in DOMAIN nodes /\ Said(nodes, <<i>>) = Said(table, i)
  /\ \A p \in NamedIn(nodes) : p[1] \in DOMAIN table

Distinct(table) ==
  \A i, j \in DOMAIN table : table[i].mac = table[j].mac => i = j

LEMMA RoomForAll ==
  ASSUME Settled, NEW nodes, Table(nodes), NEW p \in Paths
  PROVE  p \in DOMAIN nodes \/ Cardinality(DOMAIN nodes) < MaxNodes
<1> SUFFICES ASSUME p \notin DOMAIN nodes PROVE Cardinality(DOMAIN nodes) < MaxNodes
  OBVIOUS
<1>1. DOMAIN nodes \in SUBSET Paths /\ DOMAIN nodes # Paths
  BY DEF Table, Fits
<1>2. /\ IsFiniteSet(Paths) /\ Cardinality(Paths) \in Nat /\ Cardinality(Paths) =< MaxNodes
      /\ Cardinality(DOMAIN nodes) \in Nat
  BY FS_CardinalityType DEF Settled, Table, Fits
<1>3. Cardinality(DOMAIN nodes) =< Cardinality(Paths)
      /\ Cardinality(DOMAIN nodes) # Cardinality(Paths)
  BY <1>1, <1>2, FS_Subset
<1> QED BY <1>2, <1>3

\* What a restart makes of any file agrees with the table it was made by.
LEMMA RebuiltAgrees ==
  ASSUME Settled, NEW table, Known(table), Distinct(table), NEW file, Kept(file)
  PROVE  Agreed(table, Rebuilt(table, file))
<1> DEFINE Put(s) == {n \in Tables : \A i \in s : <<i>> \in DOMAIN n
                                                   /\ Said(n, <<i>>) = Said(table, i)}
           S == [s \in SUBSET (DOMAIN table) |-> Put(s)]
           nodes == Seeded(table, file)
           t == Rebuilt(table, file)
<1>1. LoadModel(file) \in S[{}]
  BY LoadKeeps, InTables
<1>2. ASSUME NEW s \in SUBSET (DOMAIN table), NEW i \in s, NEW m \in S[s \ {i}]
      PROVE  SeedOne(table, m, i) \in S[s]
  <2>1. s \ {i} \in SUBSET (DOMAIN table) /\ i \in DOMAIN table
    OBVIOUS
  <2>2. /\ Table(m) /\ Once(m)
        /\ \A j \in s \ {i} : <<j>> \in DOMAIN m /\ Said(m, <<j>>) = Said(table, j)
    BY <2>1, InTables
  <2> DEFINE u == SeedOne(table, m, i)
  <2>3. /\ Table(u) /\ Once(u)
        /\ \A p \in DOMAIN u \ {<<i>>} : Said(u, p) = Said(m, p)
        /\ \A p \in DOMAIN m \ {<<i>>} : m[p].mac # table[i].mac => p \in DOMAIN u
        /\ <<i>> \in DOMAIN u => Said(u, <<i>>) = Said(table, i)
        /\ <<i>> \in DOMAIN m \/ Cardinality(DOMAIN m) < MaxNodes => <<i>> \in DOMAIN u
    BY <2>1, <2>2, SeedKeeps
  <2> HIDE DEF u
  <2>4. <<i>> \in Paths
    BY <2>1 DEF Known
  <2>5. <<i>> \in DOMAIN u
    BY <2>2, <2>3, <2>4, RoomForAll
  <2>6. ASSUME NEW j \in s PROVE <<j>> \in DOMAIN u /\ Said(u, <<j>>) = Said(table, j)
    <3>1. CASE j = i
      BY <2>3, <2>5, <3>1
    <3>2. CASE j # i
      <4>1. <<j>> # <<i>> /\ <<j>> \in DOMAIN m /\ Said(m, <<j>>) = Said(table, j)
        <5>1. <<j>>[1] = j /\ <<i>>[1] = i
          OBVIOUS
        <5> QED BY <2>2, <3>2, <5>1
      <4>2. m[<<j>>].mac # table[i].mac
        BY <2>1, <3>2, <4>1 DEF Said, Distinct
      <4> QED BY <2>3, <4>1, <4>2
    <3> QED BY <3>1, <3>2
  <2> QED BY <2>3, <2>6, InTables DEF u
<1>3. IsFiniteSet(DOMAIN table)
  BY DEF Known
<1> HIDE DEF S
<1>4. nodes \in S[DOMAIN table]
  BY <1>1, <1>2, <1>3, SeededBy
<1>5. /\ Table(nodes) /\ Once(nodes)
      /\ \A i \in DOMAIN table : <<i>> \in DOMAIN nodes /\ Said(nodes, <<i>>) = Said(table, i)
  BY <1>4, InTables DEF S
<1>6. t = Forget(nodes, Orphans(table, nodes))
  BY DEF Rebuilt
<1> HIDE DEF nodes, t
<1>7. /\ DOMAIN t = DOMAIN nodes \ Orphans(table, nodes)
      /\ \A p \in DOMAIN t : Said(t, p) = Said(nodes, p)
  BY ONLY <1>5, <1>6, ForgetKeeps
<1>8. ASSUME NEW i \in DOMAIN table PROVE <<i>> \in DOMAIN t
  <2> DEFINE p == <<i>>
  <2>1. p[1] = i /\ p \in DOMAIN nodes
    BY <1>5
  <2> HIDE DEF p
  <2>2. p \notin Orphans(table, nodes)
    BY <2>1 DEF Orphans
  <2>3. p \in DOMAIN t
    BY <1>7, <2>1, <2>2
  <2> QED BY <2>3 DEF p
<1>9. \A p \in DOMAIN t : p[1] \in DOMAIN table
  BY <1>7 DEF Orphans
<1> QED BY <1>5, <1>7, <1>8, <1>9 DEF t, Agreed, NamedIn

\* A file and a table that agree are what the master knows.
LEMMA RebuiltIsFile ==
  ASSUME NEW table, Known(table), NEW file, Kept(file), Agreed(table, file)
  PROVE  SaveModel(Rebuilt(table, file)) = file
<1>0. ASSUME NEW p \in DOMAIN file
      PROVE  /\ file[p].mac \in Devices /\ file[p].mac # NoMac
             /\ file[p] = [mac |-> file[p].mac, interval |-> file[p].interval]
  BY DEF Kept, Pair
<1> DEFINE Same == {n \in Tables : /\ DOMAIN n = DOMAIN file
                                   /\ \A p \in DOMAIN file : Said(n, p) = Said(file, p)}
           S == [s \in SUBSET (DOMAIN table) |-> Same]
           nodes == Seeded(table, file)
           t == Rebuilt(table, file)
<1>1. LoadModel(file) \in S[{}]
  BY LoadKeeps, InTables
<1>2. ASSUME NEW s \in SUBSET (DOMAIN table), NEW i \in s, NEW m \in S[s \ {i}]
      PROVE  SeedOne(table, m, i) \in S[s]
  <2>1. s \ {i} \in SUBSET (DOMAIN table) /\ i \in DOMAIN table
    OBVIOUS
  <2>2. /\ Table(m) /\ Once(m) /\ DOMAIN m = DOMAIN file
        /\ \A p \in DOMAIN file : Said(m, p) = Said(file, p)
    BY <2>1, InTables
  <2> DEFINE u == SeedOne(table, m, i)
  <2>3. /\ Table(u) /\ Once(u)
        /\ DOMAIN u \subseteq DOMAIN m \cup {<<i>>}
        /\ \A p \in DOMAIN u \ {<<i>>} : Said(u, p) = Said(m, p)
        /\ \A p \in DOMAIN m \ {<<i>>} : m[p].mac # table[i].mac => p \in DOMAIN u
        /\ <<i>> \in DOMAIN u => Said(u, <<i>>) = Said(table, i)
        /\ <<i>> \in DOMAIN m => <<i>> \in DOMAIN u
    BY <2>1, <2>2, SeedKeeps
  <2> HIDE DEF u
  <2>4. <<i>> \in DOMAIN file /\ Said(file, <<i>>) = Said(table, i)
    BY <2>1 DEF Agreed
  <2>5. ASSUME NEW p \in DOMAIN file PROVE p \in DOMAIN u /\ Said(u, p) = Said(file, p)
    <3>1. CASE p = <<i>>
      BY <2>2, <2>3, <2>4, <3>1
    <3>2. CASE p # <<i>>
      <4>1. m[p].mac = file[p].mac /\ table[i].mac = file[<<i>>].mac
        BY <2>2, <2>4 DEF Said
      <4>2. m[p].mac # table[i].mac
        BY <1>0, <2>4, <3>2, <4>1 DEF Kept, Once
      <4> QED BY <2>2, <2>3, <3>2, <4>2
    <3> QED BY <3>1, <3>2
  <2>6. DOMAIN u = DOMAIN file
    BY <2>2, <2>3, <2>4, <2>5
  <2> QED BY <2>3, <2>5, <2>6, InTables DEF u
<1>3. IsFiniteSet(DOMAIN table)
  BY DEF Known
<1> HIDE DEF S
<1>4. nodes \in S[DOMAIN table]
  BY <1>1, <1>2, <1>3, SeededBy
<1>5. /\ Table(nodes) /\ DOMAIN nodes = DOMAIN file
      /\ \A p \in DOMAIN file : Said(nodes, p) = Said(file, p)
  BY <1>4, InTables DEF S
<1>6. t = Forget(nodes, Orphans(table, nodes))
  BY DEF Rebuilt
<1> HIDE DEF nodes, t
<1>7. /\ DOMAIN t = DOMAIN nodes \ Orphans(table, nodes)
      /\ \A p \in DOMAIN t : Said(t, p) = Said(nodes, p)
  BY ONLY <1>5, <1>6, ForgetKeeps
<1>8. Orphans(table, nodes) = {}
  BY <1>0, <1>5 DEF Orphans, Agreed, NamedIn
<1>9. DOMAIN t = DOMAIN file
      /\ \A p \in DOMAIN file : t[p].mac = file[p].mac /\ t[p].interval = file[p].interval
  BY <1>5, <1>7, <1>8 DEF Said
<1> DEFINE v == SaveModel(t)
<1>10. /\ v = [p \in DOMAIN v |-> v[p]] /\ DOMAIN v = DOMAIN file
       /\ \A p \in DOMAIN file : v[p] = [mac |-> t[p].mac, interval |-> t[p].interval]
  <2>1. {q \in DOMAIN t : t[q].mac # NoMac} = DOMAIN file
    BY <1>0, <1>9
  <2>2. v = [p \in DOMAIN file |-> [mac |-> t[p].mac, interval |-> t[p].interval]]
    BY <2>1 DEF SaveModel
  <2> HIDE DEF v
  <2> QED BY <2>2
<1>11. \A p \in DOMAIN file : v[p] = file[p]
  BY <1>0, <1>9, <1>10
<1> HIDE DEF v
<1>12. file = [p \in DOMAIN file |-> file[p]]
  BY DEF Kept
<1> QED BY <1>10, <1>11, <1>12 DEF v, t

\* Where every child of the table is, and that it has no other place in it.
Listed ==
  \A i \in DOMAIN children :
    Bound(children[i].mac) /\ Place(children[i].mac) = <<i>>

\* News on its way is true when it comes, and of someone below a known child.
Honest(frame, at, table) ==
  frame.kind = "attached" =>
    LET c == frame.attached.mac IN
    /\ at[c] > 0 /\ Itinerary[c][at[c]] = Append(frame.src, frame.attached.childIndex)
    /\ Len(frame.src) >= 1 /\ frame.src[1] \in DOMAIN table

Truthful == \A h \in Hops : \A n \in 1..Len(up[h]) : Honest(up[h][n], stage, children)

\* Whoever is bound to the master has a place in the table.
Direct ==
  \A d \in Devices : Bound(d) /\ Len(Place(d)) = 1 => Place(d)[1] \in DOMAIN children

\* Every controller that somebody left was bound by then.
Patient ==
  \A c \in Devices : \A k \in 1..Len(Itinerary[c]) :
    k < stage[c] => \A d \in ParentAt(Itinerary[c][k]) : Bound(d)

Picture ==
  Listed /\ Agreed(children, model) /\ Truthful /\ Direct /\ Patient /\ PicturePersists

LEMMA ListedOnce ==
  ASSUME Listed
  PROVE  Distinct(children)
<1> SUFFICES ASSUME NEW i \in DOMAIN children, NEW j \in DOMAIN children,
                    children[i].mac = children[j].mac
             PROVE  i = j
  BY DEF Distinct
<1>1. <<i>> = <<j>>
  BY DEF Listed
<1> QED BY <1>1

\* A file of a model that agrees agrees as well.
LEMMA SavedAgreed ==
  ASSUME NEW table, Known(table), NEW nodes, Table(nodes), Once(nodes), Agreed(table, nodes)
  PROVE  Kept(SaveModel(nodes)) /\ Agreed(table, SaveModel(nodes))
<1> DEFINE file == SaveModel(nodes)
<1>1. /\ Kept(file) /\ DOMAIN file = NamedIn(nodes)
      /\ \A p \in NamedIn(nodes) : Said(file, p) = Said(nodes, p)
  BY SaveKeeps
<1> HIDE DEF file
<1>2. ASSUME NEW i \in DOMAIN table
      PROVE  <<i>> \in DOMAIN file /\ Said(file, <<i>>) = Said(table, i)
  <2> DEFINE p == <<i>>
  <2>1. p \in DOMAIN nodes /\ Said(nodes, p) = Said(table, i)
    BY DEF Agreed
  <2> HIDE DEF p
  <2>2. table[i].mac # NoMac
    BY DEF Known, Pair
  <2>3. p \in NamedIn(nodes)
    BY <2>1, <2>2 DEF Said, NamedIn
  <2>4. p \in DOMAIN file /\ Said(file, p) = Said(table, i)
    BY <1>1, <2>1, <2>3
  <2> QED BY <2>4 DEF p
<1>3. \A p \in NamedIn(file) : p[1] \in DOMAIN table
  <2>1. NamedIn(file) \subseteq NamedIn(nodes)
    BY <1>1 DEF NamedIn
  <2> QED BY <2>1 DEF Agreed
<1> QED BY <1>1, <1>2, <1>3 DEF file, Agreed

LEMMA BootPersists ==
  ASSUME Settled, Mastered, NEW table, Known(table), Distinct(table), Boot(table, saved)
  PROVE  children' = table /\ Agreed(table, model') /\ PicturePersists'
<1> DEFINE t == Rebuilt(table, saved)
<1>1. Table(t) /\ Once(t) /\ Agreed(table, t)
  BY RebuiltKeeps, RebuiltAgrees DEF Mastered
<1>2. children' = table /\ model' = t /\ (saved' = saved \/ saved' = SaveModel(t))
  BY DEF Boot
<1> HIDE DEF t
<1>3. CASE saved' = saved
  BY <1>1, <1>2, <1>3 DEF t, PicturePersists
<1>4. CASE saved' = SaveModel(t)
  <2>1. Kept(SaveModel(t)) /\ Agreed(table, SaveModel(t))
    BY <1>1, SavedAgreed
  <2>2. SaveModel(Rebuilt(table, SaveModel(t))) = SaveModel(t)
    BY <2>1, RebuiltIsFile
  <2> QED BY <1>1, <1>2, <1>4, <2>2 DEF PicturePersists
<1> QED BY <1>1, <1>2, <1>3, <1>4

\* A handler that saves what it makes of the model, or changes neither file and
\* nothing that would be saved.
LEMMA AdoptPersists ==
  ASSUME Settled, Mastered, PicturePersists,
         NEW table, Known(table), Distinct(table),
         NEW nodes, Table(nodes), Once(nodes), Agreed(table, nodes),
         NEW file, NEW heard, Adopt(table, nodes, file, heard),
         \/ file = SaveModel(nodes)
         \/ file = saved /\ table = children /\ SaveModel(nodes) = SaveModel(model)
  PROVE  children' = table /\ Agreed(table, model') /\ PicturePersists'
<1>1. CASE Boot(table, saved)
  BY <1>1, BootPersists
<1>2. CASE children' = table /\ model' = nodes /\ saved' = file
  <2>1. CASE file = SaveModel(nodes)
    <3>1. SaveModel(Rebuilt(table, file)) = file
      BY <2>1, SavedAgreed, RebuiltIsFile
    <3> QED BY <1>2, <2>1, <3>1 DEF PicturePersists
  <2>2. CASE file = saved /\ table = children /\ SaveModel(nodes) = SaveModel(model)
    BY SMTT(60), <1>2, <2>2 DEF PicturePersists
  <2> QED BY <1>2, <2>1, <2>2
<1> QED BY <1>1, <1>2 DEF Adopt

LEMMA HonestStays ==
  ASSUME NEW f, NEW at, NEW table, Honest(f, at, table), NEW after,
         DOMAIN table \subseteq DOMAIN after
  PROVE  Honest(f, at, after)
  BY DEF Honest

\* Frames that go on, one that is added, one that is taken.
LEMMA HonestSays ==
  ASSUME NEW f, NEW at, NEW table, Honest(f, at, table), f.kind = "attached"
  PROVE  /\ at[f.attached.mac] > 0
         /\ Itinerary[f.attached.mac][at[f.attached.mac]]
              = Append(f.src, f.attached.childIndex)
  BY DEF Honest

LEMMA HeadHonest ==
  ASSUME Flying, Truthful, NEW h \in Hops, up[h] # <<>>
  PROVE  Honest(Head(up[h]), stage, children)
<1>1. up[h] \in Seq(Frames) /\ up[h] # <<>>
  BY DEF Flying
<1>2. Len(up[h]) \in Nat \ {0} /\ Head(up[h]) = up[h][1]
  BY <1>1
<1> QED BY <1>2 DEF Truthful

LEMMA TailTruthful ==
  ASSUME Flying, Truthful, NEW h \in Hops, up[h] # <<>>,
         up' = [up EXCEPT ![h] = Tail(@)],
         stage' = stage, DOMAIN children \subseteq DOMAIN children'
  PROVE  Truthful'
<1>1. up[h] \in Seq(Frames) /\ up[h] # <<>>
  BY DEF Flying
<1>2. Len(up[h]) \in Nat \ {0}
  BY <1>1
<1>4. /\ Len(Tail(up[h])) = Len(up[h]) - 1
      /\ \A n \in 1..Len(up[h]) - 1 : Tail(up[h])[n] = up[h][n + 1] /\ n + 1 \in 1..Len(up[h])
  BY <1>1, <1>2
<1>5. ASSUME NEW i \in Hops, NEW n \in 1..Len(up'[i])
      PROVE  Honest(up'[i][n], stage, children)
  <2>1. CASE i # h
    BY <2>1 DEF Truthful, Flying
  <2>2. CASE i = h
    <3>1. up'[i] = Tail(up[h])
      BY <2>2 DEF Flying
    <3> QED BY <1>4, <3>1 DEF Truthful
  <2> QED BY <2>1, <2>2
<1> QED BY <1>5, HonestStays DEF Truthful

LEMMA SentTruthful ==
  ASSUME Flying, Truthful, NEW p \in Paths, NEW frame, frame.kind # "attached",
         up' = Sent(up, p, frame), stage' = stage, children' = children
  PROVE  Truthful'
<1>1. p[1] \in Hops
  BY PathType
<1> DEFINE old == up[p[1]]
           new == Append(old, frame)
<1>2. old \in Seq(Frames)
  BY <1>1 DEF Flying
<1>3. \A n \in 1..Len(old) : Honest(old[n], stage, children)
  BY <1>1 DEF Truthful
<1>4. /\ up'[p[1]] = new /\ \A i \in Hops \ {p[1]} : up'[i] = up[i]
  BY <1>1 DEF Flying, Sent
<1>5. Honest(frame, stage, children)
  BY DEF Honest
<1> HIDE DEF old
<1>6. ASSUME NEW n \in 1..Len(new) PROVE Honest(new[n], stage, children)
  <2>1. Len(old) \in Nat /\ Len(new) = Len(old) + 1
    BY <1>2
  <2>2. CASE n = Len(old) + 1
    <3>1. new[n] = frame
      BY <1>2, <2>1, <2>2
    <3> QED BY <1>5, <3>1
  <2>3. CASE n # Len(old) + 1
    <3>1. n \in 1..Len(old) /\ new[n] = old[n]
      BY <1>2, <2>1, <2>3
    <3> QED BY <1>3, <3>1
  <2> QED BY <2>2, <2>3
<1> HIDE DEF new
<1>7. ASSUME NEW i \in Hops, NEW n \in 1..Len(up'[i])
      PROVE  Honest(up'[i][n], stage, children)
  <2>1. CASE i = p[1]
    BY <1>4, <1>6, <2>1
  <2>2. CASE i # p[1]
    <3>1. up'[i] = up[i]
      BY <1>4, <2>2
    <3> QED BY <3>1 DEF Truthful
  <2> QED BY <2>1, <2>2
<1> QED BY <1>7 DEF Truthful

\* A model in which nothing was said of anyone.
LEMMA Unsaid ==
  ASSUME NEW m, NEW n, DOMAIN m \subseteq DOMAIN n,
         \A p \in DOMAIN m : Said(n, p) = Said(m, p),
         \A p \in DOMAIN n \ DOMAIN m : n[p].mac = NoMac,
         NEW table, Agreed(table, m)
  PROVE  SaveModel(n) = SaveModel(m) /\ Agreed(table, n)
<1>1. NamedIn(n) = NamedIn(m)
  BY DEF NamedIn, Said
<1>2. \A p \in NamedIn(n) : Said(n, p) = Said(m, p)
  BY <1>1 DEF NamedIn
<1>3. SaveModel(n) = SaveModel(m)
  BY <1>1, <1>2, SavedAlike
<1>4. ASSUME NEW i \in DOMAIN table
      PROVE  <<i>> \in DOMAIN n /\ Said(n, <<i>>) = Said(table, i)
  <2> DEFINE p == <<i>>
  <2>1. p \in DOMAIN m /\ Said(m, p) = Said(table, i)
    BY DEF Agreed
  <2> HIDE DEF p
  <2>2. p \in DOMAIN n /\ Said(n, p) = Said(table, i)
    BY <2>1
  <2> QED BY <2>2 DEF p
<1> QED BY <1>1, <1>3, <1>4 DEF Agreed

\* What an interval that was told makes of the model.
Told(p, interval) == SetInterval(Touch(model, p), p, interval)

LEMMA ToldSaid ==
  ASSUME Mastered, NEW p \in Paths, NEW x \in 0..Longest
  PROVE  LET n == Told(p, x) IN
         /\ Table(n) /\ Once(n)
         /\ DOMAIN model \subseteq DOMAIN n
         /\ \A q \in DOMAIN model \ {p} : Said(n, q) = Said(model, q)
         /\ p \in DOMAIN model => Said(n, p) = <<model[p].mac, x>>
         /\ \A q \in DOMAIN n \ DOMAIN model : n[q].mac = NoMac
<1> DEFINE t == Touch(model, p)
           n == SetInterval(t, p, x)
<1>1. /\ Table(t) /\ Once(t)
      /\ DOMAIN model \subseteq DOMAIN t
      /\ \A q \in DOMAIN model : Said(t, q) = Said(model, q)
      /\ \A q \in DOMAIN t \ DOMAIN model : t[q].mac = NoMac
  BY TouchKeeps, TouchOnce DEF Mastered
<1> HIDE DEF t
<1>2. /\ Table(n) /\ Once(n) /\ DOMAIN n = DOMAIN t
      /\ \A q \in DOMAIN t : n[q].mac = t[q].mac
      /\ \A q \in DOMAIN t \ {p} : Said(n, q) = Said(t, q)
      /\ p \in DOMAIN t => Said(n, p) = <<t[p].mac, x>>
  BY <1>1, IntervalKeeps, IntervalOnce
<1>3. n = Told(p, x)
  BY DEF Told, t
<1> HIDE DEF n
<1>4. p \in DOMAIN model => t[p].mac = model[p].mac
  BY <1>1 DEF Said
<1> QED BY <1>1, <1>2, <1>3, <1>4

\* What it makes of the table: an own child's interval, and nothing else.
LEMMA WithIntervalSaid ==
  ASSUME Mastered, NEW p \in Paths, NEW x \in 0..Longest
  PROVE  LET t == WithInterval(p, x) IN
         /\ DOMAIN t = DOMAIN children
         /\ \A i \in DOMAIN children : t[i].mac = children[i].mac
         /\ \A i \in DOMAIN children :
              t[i].interval = IF p = <<i>> THEN x ELSE children[i].interval
<1>0. p \in Seq(Nat) /\ Len(p) \in Nat
  BY PathType
<1>p. \A i \in DOMAIN children : p = <<i>> <=> Len(p) = 1 /\ p[1] = i
  BY <1>0
<1>1. CASE ~(Len(p) = 1 /\ p[1] \in DOMAIN children)
  BY <1>1, <1>p DEF WithInterval
<1>2. CASE Len(p) = 1 /\ p[1] \in DOMAIN children
  <2> DEFINE j == p[1]
             t == [children EXCEPT ![j].interval = x]
  <2>1. WithInterval(p, x) = t
    BY <1>2 DEF WithInterval
  <2>2. children \in [DOMAIN children -> Pair] /\ j \in DOMAIN children
    BY <1>2 DEF Mastered, Known
  <2>3. ASSUME NEW i \in DOMAIN children
        PROVE  /\ t[i].mac = children[i].mac
               /\ t[i].interval = IF i = j THEN x ELSE children[i].interval
    <3>1. CASE i = j
      <4>1. t[i] = [children[i] EXCEPT !.interval = x]
        BY <2>2, <3>1
      <4>2. children[i] \in Pair
        BY <2>2
      <4> HIDE DEF t
      <4> QED BY <3>1, <4>1, <4>2 DEF Pair
    <3>2. CASE i # j
      BY <2>2, <3>2
    <3> QED BY <3>1, <3>2
  <2>4. DOMAIN t = DOMAIN children
    OBVIOUS
  <2>5. \A i \in DOMAIN children : p = <<i>> <=> i = j
    BY <1>2, <1>p
  <2> HIDE DEF t, j
  <2> QED BY <2>1, <2>3, <2>4, <2>5
<1> QED BY <1>1, <1>2

LEMMA ToldAgrees ==
  ASSUME Mastered, Agreed(children, model), Distinct(children),
         NEW p \in Paths, NEW x \in 0..Longest
  PROVE  Agreed(WithInterval(p, x), Told(p, x)) /\ Distinct(WithInterval(p, x))
<1> DEFINE n == Told(p, x)
           t == WithInterval(p, x)
<1>1. /\ DOMAIN model \subseteq DOMAIN n
      /\ \A q \in DOMAIN model \ {p} : Said(n, q) = Said(model, q)
      /\ p \in DOMAIN model => Said(n, p) = <<model[p].mac, x>>
      /\ \A q \in DOMAIN n \ DOMAIN model : n[q].mac = NoMac
  BY ToldSaid
<1>2. /\ DOMAIN t = DOMAIN children
      /\ \A i \in DOMAIN children : t[i].mac = children[i].mac
      /\ \A i \in DOMAIN children :
           t[i].interval = IF p = <<i>> THEN x ELSE children[i].interval
  BY WithIntervalSaid
<1> HIDE DEF n, t
<1>3. ASSUME NEW i \in DOMAIN t PROVE <<i>> \in DOMAIN n /\ Said(n, <<i>>) = Said(t, i)
  <2> DEFINE q == <<i>>
  <2>1. /\ q \in DOMAIN model /\ Said(model, q) = Said(children, i)
        /\ t[i].mac = children[i].mac
        /\ t[i].interval = IF p = q THEN x ELSE children[i].interval
    BY <1>2 DEF Agreed
  <2> HIDE DEF q
  <2>2. q \in DOMAIN n /\ Said(n, q) = Said(t, i)
    BY <1>1, <2>1 DEF Said
  <2> QED BY <2>2 DEF q
<1>4. ASSUME NEW q \in NamedIn(n) PROVE q[1] \in DOMAIN t
  <2>1. q \in DOMAIN model /\ n[q].mac # NoMac
    BY <1>1 DEF NamedIn
  <2>2. n[q].mac = model[q].mac
    BY <1>1, <2>1 DEF Said
  <2> QED BY <1>2, <2>1, <2>2 DEF Agreed, NamedIn
<1>5. Agreed(t, n)
  BY <1>3, <1>4 DEF Agreed
<1>6. Distinct(t)
  BY <1>2 DEF Distinct
<1> QED BY <1>5, <1>6 DEF n, t

LEMMA PairAlike ==
  ASSUME NEW a \in Pair, NEW b \in Pair, a.mac = b.mac, a.interval = b.interval
  PROVE  a = b
<1>1. a = [mac |-> a.mac, interval |-> a.interval] /\ b = [mac |-> b.mac, interval |-> b.interval]
  BY DEF Pair
<1> QED BY <1>1

LEMMA ToldSame ==
  ASSUME Mastered, Agreed(children, model), NEW p \in Paths, NEW x \in 0..Longest,
         p \in DOMAIN model => model[p].interval = x
  PROVE  WithInterval(p, x) = children /\ SaveModel(Told(p, x)) = SaveModel(model)
         /\ Agreed(children, Told(p, x))
<1> DEFINE n == Told(p, x)
           t == WithInterval(p, x)
<1>1. /\ DOMAIN model \subseteq DOMAIN n
      /\ \A q \in DOMAIN model \ {p} : Said(n, q) = Said(model, q)
      /\ p \in DOMAIN model => Said(n, p) = <<model[p].mac, x>>
      /\ \A q \in DOMAIN n \ DOMAIN model : n[q].mac = NoMac
  BY ToldSaid
<1>2. /\ DOMAIN t = DOMAIN children
      /\ \A i \in DOMAIN children : t[i].mac = children[i].mac
      /\ \A i \in DOMAIN children :
           t[i].interval = IF p = <<i>> THEN x ELSE children[i].interval
  BY WithIntervalSaid
<1>3. Known(t) /\ Known(children)
  BY WithIntervalKept DEF Mastered
<1> HIDE DEF n, t
<1>4. \A q \in DOMAIN model : Said(n, q) = Said(model, q)
  BY <1>1 DEF Said
<1>5. SaveModel(n) = SaveModel(model) /\ Agreed(children, n)
  BY <1>1, <1>4, Unsaid
<1>6. ASSUME NEW i \in DOMAIN children PROVE t[i] = children[i]
  <2> DEFINE q == <<i>>
  <2>1. /\ q \in DOMAIN model /\ Said(model, q) = Said(children, i)
        /\ t[i].mac = children[i].mac
        /\ t[i].interval = IF p = q THEN x ELSE children[i].interval
    BY <1>2 DEF Agreed
  <2> HIDE DEF q
  <2>2. t[i].mac = children[i].mac /\ t[i].interval = children[i].interval
    BY <2>1 DEF Said
  <2>3. t[i] \in Pair /\ children[i] \in Pair
    BY <1>2, <1>3 DEF Known
  <2> QED BY <2>2, <2>3, PairAlike
<1>7. t = children
  BY <1>2, <1>3, <1>6 DEF Known
<1> QED BY <1>5, <1>7 DEF n, t

\* News of someone below a child: whoever is listed stays where it is.
LEMMA NewsAgrees ==
  ASSUME Mastered, Listed, Agreed(children, model),
         NEW frame \in Frames, frame.kind = "attached", Honest(frame, stage, children)
  PROVE  LET nodes == NoteChildAttached(model, frame.src, frame.attached) IN
         Table(nodes) /\ Once(nodes) /\ Agreed(children, nodes)
<1> DEFINE src == frame.src
           a == frame.attached
           path == Append(src, a.childIndex)
           nodes == NoteChildAttached(model, src, a)
<1>1. /\ a.mac \in Devices /\ a.interval \in 0..Longest /\ path \in Paths
      /\ src \in Seq(Nat) /\ a.childIndex \in Nat
  BY SMTT(60) DEF Frames
<1>2. /\ Bound(a.mac) /\ Place(a.mac) = path /\ Len(src) >= 1 /\ src[1] \in DOMAIN children
  BY DEF Honest, Bound, Place
<1> HIDE DEF a, src
<1>3. Len(path) >= 2 /\ path[1] = src[1] /\ Len(path) # 1
  BY <1>1, <1>2
<1>4. Table(model) /\ Once(model)
  BY DEF Mastered
<1>5. /\ Table(nodes) /\ Once(nodes)
      /\ DOMAIN nodes \subseteq DOMAIN model \cup {path}
      /\ Len(path) > MaxDepth => nodes = model
      /\ ~(Len(path) > MaxDepth) =>
           /\ \A p \in DOMAIN nodes \ {path} :
                Said(nodes, p) = Said(model, p) /\ model[p].mac # a.mac
           /\ \A p \in DOMAIN model \ {path} : model[p].mac # a.mac => p \in DOMAIN nodes
  BY <1>1, <1>4, AttachedKeeps
<1> HIDE DEF nodes, path
<1>6. Len(path) > MaxDepth => Agreed(children, nodes)
  BY <1>5
<1>7. ASSUME ~(Len(path) > MaxDepth) PROVE Agreed(children, nodes)
  <2>1. ASSUME NEW i \in DOMAIN children
        PROVE  <<i>> \in DOMAIN nodes /\ Said(nodes, <<i>>) = Said(children, i)
    <3> DEFINE q == <<i>>
    <3>1. /\ q \in DOMAIN model /\ Said(model, q) = Said(children, i)
          /\ Place(children[i].mac) = q /\ Len(q) = 1
      BY DEF Agreed, Listed
    <3> HIDE DEF q
    <3>2. q # path /\ children[i].mac # a.mac
      <4>1. q # path
        BY <1>3, <3>1
      <4>2. ASSUME children[i].mac = a.mac PROVE FALSE
        <5>1. Place(children[i].mac) = Place(a.mac)
          BY <4>2
        <5> QED BY <1>2, <3>1, <4>1, <5>1
      <4> QED BY <4>1, <4>2
    <3>4. model[q].mac = children[i].mac
      BY <3>1 DEF Said
    <3>3. q \in DOMAIN nodes /\ Said(nodes, q) = Said(children, i)
      BY <1>5, <1>7, <3>1, <3>2, <3>4
    <3> QED BY <3>3 DEF q
  <2>2. ASSUME NEW p \in NamedIn(nodes) PROVE p[1] \in DOMAIN children
    <3>1. CASE p = path
      BY <1>2, <1>3, <3>1
    <3>2. CASE p # path
      <4>1. p \in NamedIn(model)
        BY <1>5, <1>7, <3>2 DEF NamedIn, Said
      <4> QED BY <4>1 DEF Agreed
    <3> QED BY <3>1, <3>2
  <2> QED BY <2>1, <2>2 DEF Agreed
<1> QED BY <1>5, <1>6, <1>7 DEF nodes, a, src

LEMMA PictureInit == Settled /\ Init => Picture
<1> SUFFICES ASSUME Settled, Init PROVE Picture
  OBVIOUS
<1>0. IsFiniteSet({}) /\ Cardinality({}) = 0
  BY FS_EmptySet
<1>1. /\ children = [i \in {} |-> NoMac] /\ model = NoNodes /\ saved = NoNodes
      /\ DOMAIN children = {} /\ DOMAIN model = {}
  BY DEF Init, NoNodes
<1>2. Typed
  BY TypedInit
<1>3. Agreed(children, model) /\ Agreed(children, saved)
  BY <1>1 DEF Agreed, NamedIn
<1>4. SaveModel(Rebuilt(children, saved)) = saved
  BY <1>2, <1>3, RebuiltIsFile DEF Typed, Mastered
<1>5. SaveModel(model) = saved
  BY <1>1 DEF SaveModel, NoNodes
<1>6. Listed /\ Truthful /\ Direct
  BY <1>1 DEF Init, Listed, Truthful, Direct, Bound
<1>7. Patient
  <2>1. ASSUME NEW c \in Devices, NEW k \in 1..Len(Itinerary[c]) PROVE ~(k < stage[c])
    BY SMTT(30) DEF Init
  <2> QED BY <2>1 DEF Patient
<1> QED BY <1>3, <1>4, <1>5, <1>6, <1>7 DEF Picture, PicturePersists

\* A step in which nobody binds, and nothing is said that was not known.
LEMMA PictureStays ==
  ASSUME Picture, stage' = stage, children' = children, saved' = saved, Truthful',
         DOMAIN model \subseteq DOMAIN model',
         \A p \in DOMAIN model : Said(model', p) = Said(model, p),
         \A p \in DOMAIN model' \ DOMAIN model : model'[p].mac = NoMac
  PROVE  Picture'
<1>1. SaveModel(model') = SaveModel(model) /\ Agreed(children, model')
  BY Unsaid DEF Picture
<1>2. Listed' /\ Direct' /\ Patient'
  BY DEF Picture, Listed, Direct, Patient, Bound, Place
<1>3. PicturePersists'
  BY <1>1 DEF Picture, PicturePersists
<1> QED BY <1>1, <1>2, <1>3 DEF Picture

LEMMA SameModel ==
  ASSUME UNCHANGED model
  PROVE  /\ DOMAIN model \subseteq DOMAIN model'
         /\ \A p \in DOMAIN model : Said(model', p) = Said(model, p)
         /\ \A p \in DOMAIN model' \ DOMAIN model : model'[p].mac = NoMac
  BY DEF Said

LEMMA PictureReceive ==
  ASSUME Settled, Typed, Picture, NEW h \in Hops, Receive(h)
  PROVE  Picture'
<1> DEFINE frame == Head(up[h])
<1>1. /\ up[h] # <<>> /\ up' = [up EXCEPT ![h] = Tail(@)]
      /\ stage' = stage /\ Flying /\ Mastered /\ Truthful /\ Listed /\ PicturePersists
      /\ Agreed(children, model) /\ Direct
      /\ Table(model) /\ Once(model) /\ Known(children) /\ Distinct(children)
  BY ListedOnce DEF Receive, device, Typed, Mastered, Picture
<1>2. frame \in Frames /\ Honest(frame, stage, children)
  BY <1>1, TakenKeeps, HeadHonest
<1>3. /\ DOMAIN children' = DOMAIN children
      /\ \A i \in DOMAIN children : children'[i].mac = children[i].mac
      /\ Agreed(children', model') /\ PicturePersists'
  <2>1. CASE frame.kind = "report"
             /\ Adopt(children, NoteReport(model, frame.src), saved, At(frame.src))
    <3> DEFINE nodes == NoteReport(model, frame.src)
    <3>1. frame.src \in Paths
      BY <1>2, <2>1 DEF Frames
    <3>2. Table(nodes) /\ Once(nodes)
      BY <1>1, <3>1, ReportKept
    <3>3. /\ DOMAIN model \subseteq DOMAIN nodes
          /\ \A p \in DOMAIN model : Said(nodes, p) = Said(model, p)
          /\ \A p \in DOMAIN nodes \ DOMAIN model : nodes[p].mac = NoMac
      BY <1>1, <3>1, TouchKeeps DEF NoteReport
    <3> HIDE DEF nodes
    <3>4. SaveModel(nodes) = SaveModel(model) /\ Agreed(children, nodes)
      BY <1>1, <3>3, Unsaid
    <3>5. Adopt(children, nodes, saved, At(frame.src))
      BY <2>1 DEF nodes
    <3> HIDE DEF frame
    <3> QED BY <1>1, <3>2, <3>4, <3>5, AdoptPersists
  <2>2. CASE frame.kind = "policy" /\ AdoptPolicy(frame.src, frame.answer)
    <3> DEFINE src == frame.src
               answer == frame.answer
               x == answer.interval
               nodes == NotePolicy(model, src, answer)
               changed == /\ answer.ok
                          /\ src \in DOMAIN model => model[src].interval # x
               table == IF answer.ok THEN WithInterval(src, x) ELSE children
               file == IF changed THEN SaveModel(nodes) ELSE saved
    <3>1. src \in Paths /\ x \in 0..Longest
      BY <1>2, <2>2 DEF Frames
    <3>2. Adopt(table, nodes, file, At(src))
      BY <2>2 DEF AdoptPolicy
    <3> HIDE DEF frame, src, answer, x
    <3>3. CASE answer.ok
      <4>1. table = WithInterval(src, x) /\ nodes = Told(src, x)
        BY <3>3 DEF NotePolicy, Told, x
      <4>2. /\ Table(nodes) /\ Once(nodes) /\ Known(table)
            /\ Agreed(table, nodes) /\ Distinct(table)
            /\ DOMAIN table = DOMAIN children
            /\ \A i \in DOMAIN children : table[i].mac = children[i].mac
        BY <1>1, <3>1, <4>1, ToldSaid, WithIntervalKept, ToldAgrees, WithIntervalSaid
      <4>3. CASE changed
        <5>1. file = SaveModel(nodes)
          BY <4>3
        <5> HIDE DEF nodes, table, file
        <5> QED BY <1>1, <3>2, <4>2, <5>1, AdoptPersists
      <4>4. CASE ~changed
        <5>1. src \in DOMAIN model => model[src].interval = x
          BY <3>3, <4>4
        <5>2. table = children /\ SaveModel(nodes) = SaveModel(model) /\ file = saved
          BY <1>1, <3>1, <4>1, <4>4, <5>1, ToldSame
        <5> HIDE DEF nodes, table, file
        <5> QED BY <1>1, <3>2, <4>2, <5>2, AdoptPersists
      <4> QED BY <4>3, <4>4
    <3>4. CASE ~answer.ok
      <4>1. table = children /\ nodes = Touch(model, src) /\ file = saved
        BY <3>4 DEF NotePolicy
      <4>2. Table(nodes) /\ Once(nodes)
        BY <1>1, <3>1, <4>1, TouchKeeps, TouchOnce
      <4>3. /\ DOMAIN model \subseteq DOMAIN nodes
            /\ \A p \in DOMAIN model : Said(nodes, p) = Said(model, p)
            /\ \A p \in DOMAIN nodes \ DOMAIN model : nodes[p].mac = NoMac
        BY <1>1, <3>1, <4>1, TouchKeeps
      <4> HIDE DEF nodes, table, file
      <4>4. SaveModel(nodes) = SaveModel(model) /\ Agreed(children, nodes)
        BY <1>1, <4>3, Unsaid
      <4> QED BY <1>1, <3>2, <4>1, <4>2, <4>4, AdoptPersists
    <3> QED BY <3>3, <3>4
  <2>3. CASE frame.kind = "describe" /\ AdoptDescribe(frame.src, frame.interval)
    <3> DEFINE src == frame.src
               x == frame.interval
               nodes == NoteDescribe(model, src, x)
               moved == src \in DOMAIN model /\ model[src].interval # x
               table == WithInterval(src, x)
               file == IF moved THEN SaveModel(nodes) ELSE saved
    <3>1. src \in Paths /\ x \in 0..Longest
      BY <1>2, <2>3 DEF Frames
    <3>2. Adopt(table, nodes, file, At(src))
      BY <2>3 DEF AdoptDescribe
    <3> HIDE DEF frame, src, x
    <3>3. nodes = Told(src, x)
      BY DEF NoteDescribe, Told
    <3>4. /\ Table(nodes) /\ Once(nodes) /\ Known(table)
          /\ Agreed(table, nodes) /\ Distinct(table)
          /\ DOMAIN table = DOMAIN children
          /\ \A i \in DOMAIN children : table[i].mac = children[i].mac
      BY <1>1, <3>1, <3>3, ToldSaid, WithIntervalKept, ToldAgrees, WithIntervalSaid
    <3>5. CASE moved
      <4>1. file = SaveModel(nodes)
        BY <3>5
      <4> HIDE DEF nodes, table, file
      <4> QED BY <1>1, <3>2, <3>4, <4>1, AdoptPersists
    <3>6. CASE ~moved
      <4>1. table = children /\ SaveModel(nodes) = SaveModel(model) /\ file = saved
        BY <1>1, <3>1, <3>3, <3>6, ToldSame
      <4> HIDE DEF nodes, table, file
      <4> QED BY <1>1, <3>2, <3>4, <4>1, AdoptPersists
    <3> QED BY <3>5, <3>6
  <2>4. CASE frame.kind = "attached" /\ AdoptAttached(children, frame.src, frame.attached)
    <3> DEFINE nodes == NoteChildAttached(model, frame.src, frame.attached)
               heard == At(Append(frame.src, frame.attached.childIndex))
    <3>1. Adopt(children, nodes, SaveModel(nodes), heard)
      BY <2>4 DEF AdoptAttached
    <3> HIDE DEF frame
    <3>2. Table(nodes) /\ Once(nodes) /\ Agreed(children, nodes)
      BY <1>1, <1>2, <2>4, NewsAgrees
    <3> HIDE DEF nodes, heard
    <3> QED BY <1>1, <3>1, <3>2, AdoptPersists
  <2> QED BY <2>1, <2>2, <2>3, <2>4 DEF Receive
<1>4. Truthful'
  BY <1>1, <1>3, TailTruthful
<1>5. Listed' /\ Direct' /\ Patient'
  <2>1. Patient
    BY DEF Picture
  <2> QED BY <1>1, <1>3, <2>1 DEF Listed, Direct, Patient, Bound, Place
<1> QED BY <1>3, <1>4, <1>5 DEF Picture

LEMMA MoreThanOne ==
  ASSUME NEW n \in Nat \ {0}, n # 1
  PROVE  n > 1
  OBVIOUS

LEMMA TwoLevels ==
  ASSUME NEW n \in Nat, n # 0, n # 1, n =< 2
  PROVE  n = 2
  OBVIOUS

\* Whoever binds below somebody, binds below a controller bound to the master.
LEMMA ParentStop ==
  ASSUME Settled, NEW p \in Paths, NEW c \in ParentAt(p)
  PROVE  /\ c \in Devices /\ Len(p) = 2 /\ Len(Front(p)) = 1
         /\ Len(Itinerary[c]) = 1 /\ Itinerary[c][1] = Front(p) /\ 1 \in 1..Len(Itinerary[c])
<1>1. /\ c \in Devices /\ Len(Itinerary[c]) = 1 /\ Itinerary[c][1] = Front(p)
      /\ 1 \in 1..Len(Itinerary[c]) /\ Front(p) \in Paths
  BY ParentOnce
<1>2. /\ p \in Seq(Nat) /\ p # <<>> /\ Len(p) \in Nat /\ Len(p) # 0 /\ Len(p) =< 2
      /\ Len(Front(p)) = Len(p) - 1
  BY PathType, FrontLast DEF Settled
<1>3. Len(Front(p)) # 0
  BY <1>1, PathType
<1>4. Len(p) # 1
  BY <1>2, <1>3
<1>5. Len(p) = 2
  BY <1>2, <1>4, TwoLevels
<1> QED BY <1>1, <1>2, <1>5

\* In such a tree there is nobody above but the one right above.
LEMMA AboveIsParent ==
  ASSUME Settled, NEW p \in Paths
  PROVE  Above(p) = ParentAt(p)
<1>1. Len(p) \in Nat /\ Len(p) # 0 /\ Len(p) =< 2
  BY PathType DEF Settled
<1>2. CASE Len(p) = 1
  BY <1>2, NobodyAbove, ParentIsAbove
<1>3. CASE Len(p) # 1
  BY <1>1, <1>3, TwoLevels, AboveTwo
<1> QED BY <1>2, <1>3

\* A controller below which somebody binds, if it is bound, is a known child.
LEMMA ParentIsChild ==
  ASSUME Settled, Staged, Direct, NEW p \in Paths, NEW c \in ParentAt(p), Bound(c)
  PROVE  /\ Front(p) \in Seq(Nat) /\ Len(Front(p)) = 1 /\ Front(p)[1] \in DOMAIN children
         /\ Place(c) = Front(p) /\ Append(Front(p), Last(p)) = p
<1>1. /\ c \in Devices /\ Len(p) = 2 /\ Len(Front(p)) = 1 /\ Len(Itinerary[c]) = 1
      /\ Itinerary[c][1] = Front(p)
  BY ParentStop
<1>2. p \in Seq(Nat) /\ p # <<>>
  BY PathType
<1>3. Front(p) \in Seq(Nat) /\ Append(Front(p), Last(p)) = p
  BY <1>2, FrontLast
<1>4. stage[c] = 1
  <2>1. stage[c] \in Nat /\ stage[c] > 0 /\ stage[c] =< Len(Itinerary[c])
    BY <1>1 DEF Staged, Bound
  <2> QED BY <1>1, <2>1
<1>5. Place(c) = Front(p)
  BY <1>1, <1>4 DEF Place
<1> QED BY <1>1, <1>3, <1>5 DEF Direct

\* What a controller that is not bound yet holds is below it now.
LEMMA HeldIsBelow ==
  ASSUME Staged, Patient, NEW d \in Devices, ~Bound(d), NEW c \in Adopted(d)
  PROVE  /\ c \in Devices /\ Bound(c) /\ d \in ParentAt(Place(c))
         /\ Announcement(d, c) = OwnNews(c, stage[c])
<1>1. c \in Devices /\ \E k \in 1..Len(Itinerary[c]) :
        /\ k \in 1..stage[c] /\ d \in ParentAt(Itinerary[c][k])
        /\ Announcement(d, c) = OwnNews(c, k)
  BY AdoptedStop
<1>2. PICK k \in 1..Len(Itinerary[c]) : /\ k \in 1..stage[c] /\ d \in ParentAt(Itinerary[c][k])
                                        /\ Announcement(d, c) = OwnNews(c, k)
  BY <1>1
<1>3. ~(k < stage[c])
  BY <1>1, <1>2 DEF Patient
<1>4. k = stage[c] /\ stage[c] > 0
  <2>1. stage[c] \in Nat
    BY <1>1 DEF Staged
  <2> QED BY ONLY <1>2, <1>3, <2>1
<1> QED BY <1>1, <1>2, <1>4 DEF Bound, Place

LEMMA BelowIsHeld ==
  ASSUME Staged, NEW d \in Devices, NEW c \in Devices, Bound(c), d \in ParentAt(Place(c))
  PROVE  c \in Adopted(d)
<1>1. stage[c] \in Nat /\ stage[c] > 0
  BY DEF Staged, Bound
<1>2. stage[c] \in 1..stage[c]
  BY ONLY <1>1
<1> QED BY <1>2 DEF Adopted, Place

\* Nobody leaves a controller before that one is bound.
LEMMA PatientBind ==
  ASSUME Settled, Staged, Patient, NEW d \in Devices, Bind(d)
  PROVE  Patient'
<1> DEFINE k == stage[d] + 1
<1>1. /\ stage[d] \in Nat /\ stage[d] < Len(Itinerary[d]) /\ Len(Itinerary[d]) \in Nat
      /\ stage' = [stage EXCEPT ![d] = k]
  BY LenProperties DEF Bind, Staged
<1>2. /\ stage'[d] = k /\ \A c \in Devices \ {d} : stage'[c] = stage[c]
  BY <1>1 DEF Staged
<1>3. Bound(d) => \A e \in ParentAt(Place(d)) : Bound(e)
  BY DEF Bind, Settled
<1>4. ASSUME NEW e \in Devices, Bound(e) PROVE stage'[e] > 0
  <2>1. CASE e = d
    BY <1>1, <1>2, <2>1
  <2>2. CASE e # d
    BY <1>2, <1>4, <2>2 DEF Bound
  <2> QED BY <2>1, <2>2
<1>5. ASSUME NEW c \in Devices, NEW j \in 1..Len(Itinerary[c]), j < stage'[c],
             NEW e \in ParentAt(Itinerary[c][j])
      PROVE  Bound(e)
  <2>1. CASE j < stage[c]
    BY <2>1 DEF Patient
  <2>2. CASE ~(j < stage[c])
    <3>1. c = d
      BY <1>2, <1>5, <2>2
    <3>2. j = stage[d] /\ stage[d] > 0
      BY <1>1, <1>2, <1>5, <2>2, <3>1
    <3> QED BY <1>3, <3>1, <3>2 DEF Bound, Place
  <2> QED BY <2>1, <2>2
<1>6. \A c \in Devices : \A j \in 1..Len(Itinerary[c]) :
        j < stage'[c] => \A e \in ParentAt(Itinerary[c][j]) : stage'[e] > 0
  BY <1>4, <1>5 DEF ParentAt
<1> QED BY <1>6 DEF Patient, Bound

LEMMA PictureBind ==
  ASSUME Settled, Typed, Picture, NEW d \in Devices, Bind(d)
  PROVE  Picture'
<1> DEFINE k == stage[d] + 1
           path == Itinerary[d][k]
           i == path[1]
           pair == [mac |-> d, interval |-> Own[d]]
           table == WithChild(children, i, pair)
           a == Attached(d, k)
<1>0. /\ Mastered /\ Staged /\ Flying /\ Listed /\ Agreed(children, model) /\ Truthful /\ Direct
      /\ Patient /\ PicturePersists /\ Table(model) /\ Once(model) /\ Known(children)
  BY DEF Typed, Mastered, Picture
<1>1. stage[d] \in Nat /\ stage[d] < Len(Itinerary[d]) /\ Len(Itinerary[d]) \in Nat
  BY <1>0, LenProperties DEF Bind, Staged
<1>2. k \in 1..Len(Itinerary[d]) /\ k \in Nat
  BY SMTT(30), <1>1
<1>3. /\ path \in Paths /\ i \in Hops /\ i \in Nat /\ path \in Seq(Nat) /\ path # <<>>
      /\ Len(path) \in Nat \ {0}
  BY <1>2, StopType, PathType
<1>4. /\ Silent /\ stage' = [stage EXCEPT ![d] = k]
      /\ up' = IF \A c \in Above(path) : Bound(c)
                 THEN [up EXCEPT ![i] = News(d, k)] ELSE up
  BY DEF Bind
<1>5. \/ Len(path) # 1 /\ UNCHANGED <<master, missed, restarts>>
      \/ Len(path) = 1 /\ AdoptAttached(table, <<>>, a)
  BY DEF Bind, WithChild
<1>6. Own[d] \in 0..Longest /\ pair \in Pair
  BY DEF Pair
<1>a. a.childIndex = Last(path) /\ a.mac = d /\ a.interval = Own[d]
  BY DEF Attached
<1>7. ASSUME NEW j \in DOMAIN children PROVE children[j].mac # d
  <2>1. SUFFICES ASSUME children[j].mac = d PROVE FALSE
    OBVIOUS
  <2>2. stage[d] > 0 /\ Itinerary[d][stage[d]] = <<j>> /\ Len(<<j>>) = 1
    BY <1>0, <2>1 DEF Listed, Bound, Place
  <2>3. stage[d] \in 1..Len(Itinerary[d])
    BY SMTT(60), <1>1, <2>2
  <2>4. stage[d] = Len(Itinerary[d])
    BY <2>2, <2>3 DEF Settled
  <2> QED BY <1>1, <2>4
\* What the master has.
<1>8. /\ DOMAIN children \subseteq DOMAIN children'
      /\ Len(path) = 1 => i \in DOMAIN children'
      /\ \A j \in DOMAIN children' : \/ j \in DOMAIN children /\ children'[j] = children[j]
                                     \/ j = i /\ Len(path) = 1 /\ children'[j].mac = d
      /\ Agreed(children', model') /\ PicturePersists'
  <2>1. CASE Len(path) # 1 /\ UNCHANGED <<master, missed, restarts>>
    BY <1>0, <2>1 DEF master, PicturePersists
  <2>2. CASE Len(path) = 1 /\ AdoptAttached(table, <<>>, a)
    <3> DEFINE nodes == NoteChildAttached(model, <<>>, a)
               heard == At(Append(<<>>, a.childIndex))
    <3>1. path = <<i>> /\ Last(path) = i /\ Append(<<>>, i) = path /\ ~(Len(path) > MaxDepth)
      BY SMTT(60), <1>3, <2>2 DEF Last
    <3>2. Adopt(table, nodes, SaveModel(nodes), heard)
      BY <2>2 DEF AdoptAttached
    <3> HIDE DEF a
    <3>3. /\ Known(table) /\ DOMAIN table = DOMAIN children \cup {i} /\ table[i] = pair
          /\ \A j \in DOMAIN children \ {i} : table[j] = children[j]
      <4>1. i \in Nat /\ <<i>> \in Paths
        BY <1>3, <3>1
      <4> HIDE DEF i, pair
      <4>2. Known(children)
        BY <1>0
      <4> QED BY ONLY <1>6, <4>1, <4>2, ChildKeeps
    <3>4. table[i].mac = d /\ table[i].interval = Own[d]
      BY <3>3
    <3> HIDE DEF table, i, pair
    <3>5. Distinct(table)
      <4>1. Distinct(children)
        BY <1>0, ListedOnce
      <4> QED BY <1>7, <3>3, <3>4, <4>1 DEF Distinct
    <3> DEFINE q == Append(<<>>, a.childIndex)
    <3>6. q = path /\ q \in Paths /\ a.mac \in Devices /\ a.interval \in 0..Longest
      BY <1>3, <1>6, <1>a, <3>1
    <3>7. /\ Table(nodes) /\ Once(nodes)
          /\ DOMAIN nodes \subseteq DOMAIN model \cup {q}
          /\ ~(Len(q) > MaxDepth) =>
               /\ \A p \in DOMAIN nodes \ {q} :
                    Said(nodes, p) = Said(model, p) /\ model[p].mac # a.mac
               /\ \A p \in DOMAIN model \ {q} : model[p].mac # a.mac => p \in DOMAIN nodes
               /\ q \in DOMAIN nodes => Said(nodes, q) = <<a.mac, a.interval>>
               /\ q \in DOMAIN model \/ Cardinality(DOMAIN model) < MaxNodes => q \in DOMAIN nodes
      BY <1>0, <3>6, AttachedKeeps
    <3>8. q \in DOMAIN model \/ Cardinality(DOMAIN model) < MaxNodes
      BY <1>0, <3>6, RoomForAll
    <3> HIDE DEF nodes, q, heard
    <3>9. ~(Len(q) > MaxDepth) /\ q = <<i>> /\ q[1] = i
      BY <3>1, <3>6
    <3>10. /\ \A p \in DOMAIN nodes \ {q} : Said(nodes, p) = Said(model, p)
           /\ \A p \in DOMAIN model \ {q} : model[p].mac # d => p \in DOMAIN nodes
           /\ q \in DOMAIN nodes /\ Said(nodes, q) = <<d, Own[d]>>
      BY <1>a, <3>7, <3>8, <3>9
    <3>11. ASSUME NEW j \in DOMAIN table
           PROVE  <<j>> \in DOMAIN nodes /\ Said(nodes, <<j>>) = Said(table, j)
      <4>1. CASE j = i
        BY <3>4, <3>9, <3>10, <4>1 DEF Said
      <4>2. CASE j # i
        <5> DEFINE p == <<j>>
        <5>1. j \in DOMAIN children /\ table[j] = children[j] /\ p[1] = j
          BY <3>3, <4>2
        <5>2. p \in DOMAIN model /\ Said(model, p) = Said(children, j)
          BY <1>0, <5>1 DEF Agreed
        <5> HIDE DEF p
        <5>3. p # q /\ model[p].mac # d
          BY <1>7, <3>9, <4>2, <5>1, <5>2 DEF Said
        <5>4. p \in DOMAIN nodes /\ Said(nodes, p) = Said(table, j)
          BY <3>10, <5>1, <5>2, <5>3 DEF Said
        <5> QED BY <5>4 DEF p
      <4> QED BY <4>1, <4>2
    <3>12. ASSUME NEW p \in NamedIn(nodes) PROVE p[1] \in DOMAIN table
      <4>1. CASE p = q
        BY <3>3, <3>9, <4>1
      <4>2. CASE p # q
        <5>1. p \in NamedIn(model)
          BY <3>7, <3>10, <4>2 DEF NamedIn, Said
        <5> QED BY <1>0, <3>3, <5>1 DEF Agreed
      <4> QED BY <4>1, <4>2
    <3>13. Agreed(table, nodes)
      BY <3>11, <3>12 DEF Agreed
    <3>14. children' = table /\ Agreed(table, model') /\ PicturePersists'
      BY <1>0, <3>2, <3>3, <3>5, <3>7, <3>13, AdoptPersists
    <3> QED BY <2>2, <3>3, <3>4, <3>14
  <2> QED BY <1>5, <2>1, <2>2
\* Where the devices are.
<1> HIDE DEF a, pair, table
<1>9. /\ stage' \in [Devices -> Nat] /\ stage'[d] = k /\ k > 0
      /\ \A c \in Devices \ {d} : stage'[c] = stage[c]
  BY SMTT(30), <1>0, <1>1, <1>2, <1>4 DEF Staged
<1>10. Listed'
  <2>1. ASSUME NEW j \in DOMAIN children'
        PROVE  /\ stage'[children'[j].mac] > 0
               /\ Itinerary[children'[j].mac][stage'[children'[j].mac]] = <<j>>
    <3>1. CASE j \in DOMAIN children /\ children'[j] = children[j]
      <4>1. children[j].mac # d /\ children[j].mac \in Devices
        BY <1>0, <1>7, <3>1 DEF Known, Pair
      <4> QED BY <1>0, <1>9, <3>1, <4>1 DEF Listed, Bound, Place
    <3>2. CASE j = i /\ Len(path) = 1 /\ children'[j].mac = d
      <4>1. path = <<i>>
        BY SMTT(30), <1>3, <3>2
      <4> QED BY <1>9, <3>2, <4>1
    <3> QED BY <1>8, <3>1, <3>2
  <2> QED BY <2>1 DEF Listed, Bound, Place
<1>11. Direct'
  <2>1. ASSUME NEW c \in Devices, stage'[c] > 0, Len(Itinerary[c][stage'[c]]) = 1
        PROVE  Itinerary[c][stage'[c]][1] \in DOMAIN children'
    <3>1. CASE c = d
      BY <1>8, <1>9, <2>1, <3>1
    <3>2. CASE c # d
      <4>1. Itinerary[c][stage[c]][1] \in DOMAIN children
        BY <1>0, <1>9, <2>1, <3>2 DEF Direct, Bound, Place
      <4> QED BY <1>8, <1>9, <3>2, <4>1
    <3> QED BY <3>1, <3>2
  <2> QED BY <2>1 DEF Direct, Bound, Place
\* And what they say.
<1>12. ASSUME NEW f \in NewsOf(d, k), \A c \in Above(path) : Bound(c)
       PROVE  Honest(f, stage', children')
  <2>1. CASE f \in OfChildren(d)
    <3>1. PICK c \in Adopted(d) : f = Announcement(d, c)
      BY <2>1 DEF OfChildren
    <3>2. c \in Devices /\ \E j \in 1..Len(Itinerary[c]) : d \in ParentAt(Itinerary[c][j])
      BY <1>0, AdoptedStop
    <3>3. PICK j \in 1..Len(Itinerary[c]) : d \in ParentAt(Itinerary[c][j])
      BY <3>2
    <3>4. Len(Itinerary[d]) = 1
      BY <3>2, <3>3, StopType, ParentOnce
    <3>5. stage[d] = 0 /\ k = 1 /\ ~Bound(d)
      BY <1>1, <3>4 DEF Bound
    <3>6. Bound(c) /\ d \in ParentAt(Place(c)) /\ f = OwnNews(c, stage[c])
      BY <1>0, <3>1, <3>5, HeldIsBelow
    <3> DEFINE p == Place(c)
    <3>7. p \in Paths
      BY <1>0, <3>2, <3>6, PlaceType
    <3> HIDE DEF p
    <3>8. /\ p \in Seq(Nat) /\ p # <<>> /\ Append(Front(p), Last(p)) = p
          /\ Len(Front(p)) = 1 /\ Front(p) = Itinerary[d][1]
      BY <1>0, <3>6, <3>7, PathType, FrontLast, ParentStop DEF p
    <3>9. path = Front(p)
      BY <3>5, <3>8
    <3>10. Front(p)[1] \in DOMAIN children'
      BY <1>8, <3>8, <3>9
    <3>11. c # d
      BY <3>5, <3>6
    <3>12. f.kind = "attached" /\ f.src = Front(p) /\ f.attached.mac = c /\ f.attached.childIndex = Last(p)
      BY <3>6 DEF OwnNews, Attached, Place, p
    <3>13. stage'[c] > 0 /\ Itinerary[c][stage'[c]] = p
      BY <1>9, <3>2, <3>6, <3>11 DEF Bound, Place, p
    <3> HIDE DEF path, i, k, p
    <3>14. /\ Append(f.src, f.attached.childIndex) = p /\ Len(f.src) >= 1
           /\ f.src[1] \in DOMAIN children'
      <4> DEFINE q == Front(p)
      <4>1. Len(q) = 1 /\ q[1] \in DOMAIN children' /\ Append(q, Last(p)) = p
        BY <3>8, <3>10
      <4>2. f.src = q /\ f.attached.childIndex = Last(p)
        BY <3>12
      <4> HIDE DEF q
      <4>3. Append(f.src, f.attached.childIndex) = p /\ Len(f.src) = 1
        BY <4>1, <4>2
      <4>4. f.src[1] \in DOMAIN children'
        BY <4>1, <4>2
      <4>5. Len(f.src) >= 1
        BY ONLY <4>3
      <4> QED BY <4>3, <4>4, <4>5
    <3> QED BY <3>12, <3>13, <3>14 DEF Honest
  <2>2. CASE Len(path) # 1 /\ f = OwnNews(d, k)
    <3>1. f.src = Front(path) /\ f.attached.mac = d /\ f.attached.childIndex = Last(path)
      BY <2>2 DEF OwnNews, Attached
    <3> HIDE DEF path, i, k
    <3>2. Len(path) > 1
      BY <1>3, <2>2, MoreThanOne
    <3>3. PICK c \in ParentAt(path) : TRUE
      BY <1>3, <3>2, ItineraryAssumption
    <3>4. Bound(c)
      BY <1>3, <1>12, ParentIsAbove
    <3>5. /\ Len(Front(path)) = 1 /\ Front(path)[1] \in DOMAIN children
          /\ Append(Front(path), Last(path)) = path
      BY <1>0, <1>3, <3>3, <3>4, ParentIsChild
    <3> QED BY <1>8, <1>9, <3>1, <3>5 DEF Honest, path
  <2> QED BY <2>1, <2>2 DEF NewsOf
<1>13. Truthful'
  <2>1. ASSUME NEW h \in Hops, NEW n \in 1..Len(up'[h])
        PROVE  Honest(up'[h][n], stage', children')
    <3>1. Len(up[h]) = 0
      BY <1>4 DEF Silent
    <3>2. up'[h] # up[h]
      BY <3>1
    <3>3. (\A c \in Above(path) : Bound(c)) /\ up'[h] = News(d, k)
      BY <1>0, <1>4, <3>2 DEF Flying, Typed
    <3> HIDE DEF k
    <3>4. up'[h][n] \in NewsOf(d, k)
      BY <1>0, <1>2, <3>3, NewsKeeps
    <3> QED BY <1>12, <3>3, <3>4
  <2> QED BY <2>1 DEF Truthful
<1>14. Patient'
  BY <1>0, PatientBind
<1> QED BY <1>8, <1>10, <1>11, <1>13, <1>14 DEF Picture

LEMMA PictureElse ==
  ASSUME Settled, Typed, Picture,
         \/ \E d \in Devices : Report(d) \/ Serve(d) \/ Die(d) \/ Ask(d) \/ LoseDown(d)
         \/ \E h \in Hops : LoseUp(h)
         \/ Sweep \/ Restart \/ Tick
         \/ UNCHANGED vars
  PROVE  Picture'
<1>0. Flying /\ Truthful /\ Mastered /\ Staged /\ Asking
  BY DEF Typed, Picture
<1>1. ASSUME NEW d \in Devices, Report(d) PROVE Picture'
  <2> DEFINE frame == [kind |-> "report", src |-> Place(d)]
  <2>1. /\ Bound(d) /\ stage' = stage /\ children' = children /\ saved' = saved /\ model' = model
        /\ up' = IF Reached(d) THEN Sent(up, Place(d), frame) ELSE up
    BY <1>1 DEF Report, master
  <2>2. Place(d) \in Paths /\ frame.kind # "attached"
    BY <1>0, <2>1, PlaceType
  <2> HIDE DEF frame
  <2>3. Truthful'
    <3>1. CASE Reached(d)
      BY <1>0, <2>1, <2>2, <3>1, SentTruthful
    <3>2. CASE ~Reached(d)
      BY <1>0, <2>1, <3>2 DEF Truthful
    <3> QED BY <3>1, <3>2
  <2> QED BY <2>1, <2>3, SameModel, PictureStays
<1>2. ASSUME NEW d \in Devices, Serve(d) PROVE Picture'
  <2>1. stage' = stage /\ children' = children /\ saved' = saved /\ model' = model
    BY <1>2 DEF Serve, master
  <2>2. PICK frame : frame.kind # "attached" /\ up' = Sent(up, Place(d), frame)
    BY <1>2 DEF Serve, Description, PolicyTaken
  <2>3. Place(d) \in Paths
    <3>1. down[d].kind \in {"describe", "policy"}
      BY <1>2 DEF Serve
    <3>2. down[d] # NoRequest
      BY <3>1 DEF NoRequest
    <3>3. Bound(d)
      BY <1>0, <3>2 DEF Asking, Reached
    <3> QED BY <1>0, <3>3, PlaceType
  <2>4. Truthful'
    BY <1>0, <2>1, <2>2, <2>3, SentTruthful
  <2> QED BY <2>1, <2>4, SameModel, PictureStays
<1>3. ASSUME NEW d \in Devices, Die(d) \/ Ask(d) \/ LoseDown(d) PROVE Picture'
  <2>1. stage' = stage /\ children' = children /\ saved' = saved /\ model' = model /\ up' = up
    BY <1>3 DEF Die, Ask, LoseDown, master, device
  <2>2. Truthful'
    BY <1>0, <2>1 DEF Truthful
  <2> QED BY <2>1, <2>2, SameModel, PictureStays
<1>4. ASSUME NEW h \in Hops, LoseUp(h) PROVE Picture'
  <2>1. /\ stage' = stage /\ children' = children /\ saved' = saved /\ model' = model
        /\ up[h] # <<>> /\ up' = [up EXCEPT ![h] = Tail(@)]
    BY <1>4 DEF LoseUp, master, device
  <2>2. Truthful'
    BY <1>0, <2>1, TailTruthful
  <2> QED BY <2>1, <2>2, SameModel, PictureStays
<1>5. ASSUME Sweep \/ Tick PROVE Picture'
  <2>1. /\ stage' = stage /\ children' = children /\ saved' = saved /\ up' = up
        /\ model' = SweepOffline(model) \/ model' = Aged(model)
    BY <1>5 DEF Sweep, Tick, device
  <2>2. DOMAIN model' = DOMAIN model /\ \A p \in DOMAIN model : Said(model', p) = Said(model, p)
    BY <1>0, <2>1, SweepKeeps, AgedKeeps DEF Mastered
  <2>3. Truthful'
    BY <1>0, <2>1 DEF Truthful
  <2> QED BY <2>1, <2>2, <2>3, PictureStays
<1>6. ASSUME Restart PROVE Picture'
  <2>1. Boot(children, saved) /\ stage' = stage /\ up' = up
    BY <1>6 DEF Restart, device
  <2>2. Known(children) /\ Distinct(children)
    BY <1>0, ListedOnce DEF Mastered, Picture
  <2>3. children' = children /\ Agreed(children, model') /\ PicturePersists'
    BY <1>0, <2>1, <2>2, BootPersists
  <2>4. Truthful' /\ Listed' /\ Direct' /\ Patient'
    BY <1>0, <2>1, <2>3 DEF Picture, Truthful, Listed, Direct, Patient, Bound, Place
  <2> QED BY <2>3, <2>4 DEF Picture
<1>7. ASSUME UNCHANGED vars PROVE Picture'
  <2>1. stage' = stage /\ children' = children /\ saved' = saved /\ model' = model /\ up' = up
    BY <1>7 DEF vars, master, device
  <2>2. Truthful'
    BY <1>0, <2>1 DEF Truthful
  <2> QED BY <2>1, <2>2, SameModel, PictureStays
<1> QED BY <1>1, <1>2, <1>3, <1>4, <1>5, <1>6, <1>7

LEMMA PictureNext == Settled /\ Typed /\ Picture /\ [Next]_vars => Picture'
  BY PictureBind, PictureReceive, PictureElse DEF Next

(* A master keeps what it was told and puts it back itself.  In a tree of two *)
(* levels that its table has room for, in which nobody who was once bound to  *)
(* the master is bound elsewhere and nobody leaves a controller that has no   *)
(* parent yet, power may go at any moment - between the save of the child     *)
(* table and the save of the model too - and what begin() makes of the two    *)
(* files is every path, identity and interval the master knew.  Without the   *)
(* second of these a stale entry of the table comes back, without the third a *)
(* controller's stale announcement overrules it (HAPStack::begin(), bound()). *)
THEOREM PictureIsKept ==
  ASSUME Settled
  PROVE  Spec => []PicturePersists
<1>1. Init => Picture
  BY PictureInit
<1>2. Typed /\ Picture /\ [Next]_vars => Picture'
  BY PictureNext
<1>3. Picture => PicturePersists
  BY DEF Picture
<1> QED BY <1>1, <1>2, <1>3, TypedAlways, PTL DEF Spec

-----------------------------------------------------------------------------
(* The tree is known.                                                         *)

\* A settled tree in which no place is too deep, and whoever is bound again is
\* bound to the master.
Planned ==
  /\ Settled
  /\ \A d \in Devices : \A k \in 2..Len(Itinerary[d]) : Len(Itinerary[d][k]) = 1
  /\ \A p \in Paths : Len(p) =< MaxDepth

\* What a model or a file says of a path: who is there.
Is(nodes, p, c) == p \in DOMAIN nodes /\ nodes[p].mac = c

SameNames(m, n) == \A p \in Paths : \A c \in Devices : Is(n, p, c) <=> Is(m, p, c)

\* Who is where after a restart: a child at its place in the table, and whoever
\* the file knows and the table does not.
LEMMA RebuiltNames ==
  ASSUME Settled, NEW table, Known(table), Distinct(table), NEW file, Kept(file),
         \A p \in DOMAIN file : p[1] \in DOMAIN table,
         NEW p \in Paths, NEW c \in Devices
  PROVE  Is(Rebuilt(table, file), p, c)
           <=> \/ \E i \in DOMAIN table : p = <<i>> /\ table[i].mac = c
               \/ Is(file, p, c) /\ \A i \in DOMAIN table : p # <<i>> /\ table[i].mac # c
<1> DEFINE Put(n, s) == \A i \in s : <<i>> \in DOMAIN n /\ n[<<i>>].mac = table[i].mac
           Rest(n, s) == (\A i \in s : p # <<i>>) =>
                           (Is(n, p, c) <=> Is(file, p, c) /\ \A i \in s : table[i].mac # c)
           S == [s \in SUBSET (DOMAIN table) |-> {n \in Tables : Put(n, s) /\ Rest(n, s)}]
           nodes == Seeded(table, file)
           t == Rebuilt(table, file)
<1>1. LoadModel(file) \in S[{}]
  <2> DEFINE n == LoadModel(file)
  <2>1. /\ Table(n) /\ Once(n) /\ DOMAIN n = DOMAIN file
        /\ \A q \in DOMAIN file : Said(n, q) = Said(file, q)
    BY LoadKeeps
  <2> HIDE DEF n
  <2>2. Is(n, p, c) <=> Is(file, p, c)
    BY <2>1 DEF Is, Said
  <2>3. n \in Tables /\ Put(n, {}) /\ Rest(n, {})
    BY <2>1, <2>2, InTables
  <2> QED BY <2>3 DEF n
<1>2. ASSUME NEW s \in SUBSET (DOMAIN table), NEW i \in s, NEW m \in S[s \ {i}]
      PROVE  SeedOne(table, m, i) \in S[s]
  <2>1. s \ {i} \in SUBSET (DOMAIN table) /\ i \in DOMAIN table
    OBVIOUS
  <2>2. m \in Tables /\ Put(m, s \ {i}) /\ Rest(m, s \ {i})
    BY <2>1
  <2> HIDE DEF S
  <2> DEFINE u == SeedOne(table, m, i)
             q == <<i>>
  <2>3. Table(m) /\ Once(m)
    BY <2>2, InTables
  <2>4. /\ Table(u) /\ Once(u)
        /\ DOMAIN u \subseteq DOMAIN m \cup {q}
        /\ \A r \in DOMAIN u \ {q} : Said(u, r) = Said(m, r) /\ m[r].mac # table[i].mac
        /\ \A r \in DOMAIN m \ {q} : m[r].mac # table[i].mac => r \in DOMAIN u
        /\ q \in DOMAIN u => Said(u, q) = Said(table, i)
        /\ q \in DOMAIN m \/ Cardinality(DOMAIN m) < MaxNodes => q \in DOMAIN u
    BY <2>1, <2>3, SeedKeeps
  <2> HIDE DEF u
  <2>5. q \in Paths /\ q[1] = i
    BY <2>1 DEF Known
  <2>6. q \in DOMAIN u /\ u[q].mac = table[i].mac
    <3>1. q \in DOMAIN m \/ Cardinality(DOMAIN m) < MaxNodes
      BY <2>3, <2>5, RoomForAll
    <3> QED BY <2>4, <3>1 DEF Said
  <2>7. ASSUME NEW j \in s PROVE <<j>> \in DOMAIN u /\ u[<<j>>].mac = table[j].mac
    <3>1. CASE j = i
      BY <2>6, <3>1
    <3>2. CASE j # i
      <4> DEFINE r == <<j>>
      <4>1. r[1] = j /\ r \in DOMAIN m /\ m[r].mac = table[j].mac
        BY <2>2, <3>2
      <4>2. table[j].mac # table[i].mac
        BY <2>1, <3>2 DEF Distinct
      <4> HIDE DEF r, q
      <4>3. r # q
        BY <2>5, <3>2, <4>1
      <4>4. r \in DOMAIN u /\ Said(u, r) = Said(m, r)
        BY <2>4, <4>1, <4>2, <4>3
      <4>5. r \in DOMAIN u /\ u[r].mac = table[j].mac
        BY <4>1, <4>4 DEF Said
      <4> QED BY <4>5 DEF r
    <3> QED BY <3>1, <3>2
  <2>8. Rest(u, s)
    <3>1. SUFFICES ASSUME \A j \in s : p # <<j>>
                   PROVE  Is(u, p, c) <=> Is(file, p, c) /\ \A j \in s : table[j].mac # c
      OBVIOUS
    <3>2. p # q
      BY <3>1
    <3>3. Is(m, p, c) <=> Is(file, p, c) /\ \A j \in s \ {i} : table[j].mac # c
      BY <2>2, <3>1
    <3> HIDE DEF q, Put, Rest
    <3>4. Is(u, p, c) <=> Is(m, p, c) /\ table[i].mac # c
      BY <2>4, <3>2 DEF Is, Said
    <3> QED BY <3>3, <3>4
  <2>9. u \in Tables
    BY <2>4, InTables
  <2> QED BY <2>7, <2>8, <2>9 DEF S, u
<1>3. IsFiniteSet(DOMAIN table)
  BY DEF Known
<1> HIDE DEF S
<1>4. nodes \in S[DOMAIN table]
  BY <1>1, <1>2, <1>3, SeededBy
<1>5. nodes \in Tables /\ Put(nodes, DOMAIN table) /\ Rest(nodes, DOMAIN table)
  BY <1>4 DEF S
<1>6. t = Forget(nodes, Orphans(table, nodes)) /\ Table(nodes)
  BY <1>5, InTables DEF Rebuilt
<1> HIDE DEF nodes, t
<1>7. /\ DOMAIN t = DOMAIN nodes \ Orphans(table, nodes)
      /\ \A r \in DOMAIN t : Said(t, r) = Said(nodes, r)
  BY ONLY <1>6, ForgetKeeps
<1>8. Is(t, p, c) <=> Is(nodes, p, c) /\ p[1] \in DOMAIN table
  BY <1>7 DEF Is, Said, Orphans
<1>9. CASE \E i \in DOMAIN table : p = <<i>>
  <2>1. PICK i \in DOMAIN table : p = <<i>>
    BY <1>9
  <2>2. p[1] = i
    BY <2>1
  <2>3. \A j \in DOMAIN table : p = <<j>> <=> j = i
    BY <2>1, <2>2
  <2>4. p \in DOMAIN nodes /\ nodes[p].mac = table[i].mac
    BY <1>5, <2>1
  <2>5. Is(t, p, c) <=> table[i].mac = c
    BY <1>8, <2>2, <2>4 DEF Is
  <2> QED BY <2>3, <2>5 DEF t
<1>10. CASE ~\E i \in DOMAIN table : p = <<i>>
  <2>1. Is(nodes, p, c) <=> Is(file, p, c) /\ \A i \in DOMAIN table : table[i].mac # c
    BY <1>5, <1>10
  <2>2. Is(file, p, c) => p[1] \in DOMAIN table
    BY DEF Is
  <2> QED BY <1>8, <1>10, <2>1, <2>2 DEF t
<1> QED BY <1>9, <1>10

\* The file knows nobody below someone who is no child of the master.
FileBelow == \A p \in DOMAIN saved : p[1] \in DOMAIN children

\* A picture that is saved is a picture of the same names.
LEMMA SavedNames ==
  ASSUME NEW m, NEW n, SaveModel(n) = SaveModel(m)
  PROVE  SameNames(m, n)
<1> SUFFICES ASSUME NEW p \in Paths, NEW c \in Devices
             PROVE  Is(n, p, c) <=> Is(m, p, c)
  BY DEF SameNames
<1>1. c # NoMac
  OBVIOUS
<1>2. ASSUME NEW x PROVE Is(x, p, c) <=> p \in DOMAIN SaveModel(x) /\ SaveModel(x)[p].mac = c
  BY <1>1 DEF Is, SaveModel
<1> QED BY <1>2

\* A restart by a table of the same children gives the picture back.
LEMMA SameChildren ==
  ASSUME Settled, Mastered, Listed, PicturePersists, FileBelow,
         NEW table, Known(table), DOMAIN table = DOMAIN children,
         \A i \in DOMAIN children : table[i].mac = children[i].mac
  PROVE  SameNames(model, Rebuilt(table, saved))
<1>0. Known(children) /\ Kept(saved) /\ Distinct(children) /\ Distinct(table)
  BY ListedOnce DEF Mastered, Distinct
<1> DEFINE old == Rebuilt(children, saved)
           new == Rebuilt(table, saved)
<1>1. SameNames(model, old)
  BY SavedNames DEF PicturePersists
<1>3. \A p \in DOMAIN saved : p[1] \in DOMAIN table
  BY DEF FileBelow
<1>2. ASSUME NEW p \in Paths, NEW c \in Devices PROVE Is(new, p, c) <=> Is(model, p, c)
  <2>1. Is(new, p, c)
          <=> \/ \E i \in DOMAIN table : p = <<i>> /\ table[i].mac = c
              \/ Is(saved, p, c) /\ \A i \in DOMAIN table : p # <<i>> /\ table[i].mac # c
    BY ONLY Settled, Known(table), <1>0, <1>3, <1>2, RebuiltNames
  <2>2. Is(old, p, c)
          <=> \/ \E i \in DOMAIN children : p = <<i>> /\ children[i].mac = c
              \/ Is(saved, p, c) /\ \A i \in DOMAIN children : p # <<i>> /\ children[i].mac # c
    BY SMTT(30), <1>0, RebuiltNames DEF FileBelow
  <2> HIDE DEF old, new
  <2>3. Is(new, p, c) <=> Is(old, p, c)
    <3> DEFINE here(i) == p = <<i>>
    <3>1. /\ Is(new, p, c)
               <=> \/ \E i \in DOMAIN table : here(i) /\ table[i].mac = c
                   \/ Is(saved, p, c) /\ \A i \in DOMAIN table : ~here(i) /\ table[i].mac # c
          /\ Is(old, p, c)
               <=> \/ \E i \in DOMAIN children : here(i) /\ children[i].mac = c
                   \/ Is(saved, p, c) /\ \A i \in DOMAIN children : ~here(i) /\ children[i].mac # c
      BY <2>1, <2>2
    <3> HIDE DEF here
    <3> QED BY <3>1
  <2> QED BY <1>1, <2>3 DEF SameNames
<1> HIDE DEF old, new
<1> QED BY <1>2 DEF SameNames, new

\* Who is known, and to whom, when a device is bound to the master.
Moved(m, n, d, path) ==
  /\ Is(n, path, d)
  /\ \A p \in Paths \ {path} : \A c \in Devices : Is(n, p, c) <=> Is(m, p, c) /\ c # d

LEMMA BoundNames ==
  ASSUME Settled, Mastered, Listed, Agreed(children, model), PicturePersists, FileBelow,
         NEW i \in Nat \ DOMAIN children, <<i>> \in Paths, NEW pair \in Pair,
         \A j \in DOMAIN children : children[j].mac # pair.mac
  PROVE  Moved(model, Rebuilt(WithChild(children, i, pair), saved), pair.mac, <<i>>)
<1> DEFINE d == pair.mac
           path == <<i>>
           table == WithChild(children, i, pair)
           old == Rebuilt(children, saved)
           new == Rebuilt(table, saved)
<1>0. Known(children) /\ Kept(saved) /\ Distinct(children) /\ d \in Devices
  BY ListedOnce DEF Mastered, Pair
<1>1. /\ Known(table) /\ DOMAIN table = DOMAIN children \cup {i} /\ table[i] = pair
      /\ \A j \in DOMAIN children : table[j] = children[j]
  <2>1. /\ Known(table) /\ DOMAIN table = DOMAIN children \cup {i} /\ table[i] = pair
        /\ \A j \in DOMAIN children \ {i} : table[j] = children[j]
    <3>1. Known(children) /\ i \in Nat /\ <<i>> \in Paths /\ pair \in Pair
      BY <1>0
    <3> QED BY ONLY <3>1, ChildKeeps
  <2> HIDE DEF table
  <2> QED BY <2>1
<1> HIDE DEF table
<1>2. table[i].mac = d
  BY <1>1
<1>3. Distinct(table)
  BY <1>0, <1>1, <1>2 DEF Distinct
<1>4. \A p \in DOMAIN saved : p[1] \in DOMAIN table
  BY <1>1 DEF FileBelow
<1>5. SameNames(model, old)
  BY SavedNames DEF PicturePersists
<1>6. Is(new, path, d)
  BY <1>0, <1>1, <1>2, <1>3, <1>4, RebuiltNames
<1>7. ASSUME NEW p \in Paths \ {path}, NEW c \in Devices
      PROVE  Is(new, p, c) <=> Is(model, p, c) /\ c # d
  <2>0. p \in Paths
    OBVIOUS
  <2>1. Is(new, p, c)
          <=> \/ \E j \in DOMAIN table : p = <<j>> /\ table[j].mac = c
              \/ Is(saved, p, c) /\ \A j \in DOMAIN table : p # <<j>> /\ table[j].mac # c
    <3>1. Settled /\ Known(table) /\ Distinct(table) /\ Kept(saved) /\ c \in Devices
          /\ \A q \in DOMAIN saved : q[1] \in DOMAIN table
      BY <1>0, <1>1, <1>3, <1>4
    <3> QED BY ONLY <2>0, <3>1, RebuiltNames
  <2>2. Is(old, p, c)
          <=> \/ \E j \in DOMAIN children : p = <<j>> /\ children[j].mac = c
              \/ Is(saved, p, c) /\ \A j \in DOMAIN children : p # <<j>> /\ children[j].mac # c
    BY <1>0, RebuiltNames DEF FileBelow
  <2> DEFINE here(j) == p = <<j>>
  <2>3. ~here(i)
    OBVIOUS
  <2>4. /\ Is(new, p, c)
             <=> \/ \E j \in DOMAIN table : here(j) /\ table[j].mac = c
                 \/ Is(saved, p, c) /\ \A j \in DOMAIN table : ~here(j) /\ table[j].mac # c
        /\ Is(old, p, c)
             <=> \/ \E j \in DOMAIN children : here(j) /\ children[j].mac = c
                 \/ Is(saved, p, c) /\ \A j \in DOMAIN children : ~here(j) /\ children[j].mac # c
    BY <2>1, <2>2
  <2> HIDE DEF here, d, path, old, new
  <2>5. Is(new, p, c) <=> Is(old, p, c) /\ c # d
    <3>1. \A j \in DOMAIN children : children[j].mac # d
      BY DEF d
    <3>2. \A j \in DOMAIN table : j # i => j \in DOMAIN children /\ table[j].mac = children[j].mac
      BY <1>1
    <3>3. \A j \in DOMAIN children : j \in DOMAIN table /\ table[j].mac = children[j].mac
      BY <1>1
    <3>4. i \in DOMAIN table
      BY <1>1
    <3>5. (\E j \in DOMAIN table : here(j) /\ table[j].mac = c)
            <=> (\E j \in DOMAIN children : here(j) /\ children[j].mac = c)
      BY <2>3, <3>2, <3>3
    <3>6. (\A j \in DOMAIN table : ~here(j) /\ table[j].mac # c)
            <=> (\A j \in DOMAIN children : ~here(j) /\ children[j].mac # c) /\ c # d
      BY <1>2, <2>3, <3>2, <3>3, <3>4
    <3> QED BY <2>4, <3>1, <3>5, <3>6
  <2> QED BY <1>5, <2>5 DEF SameNames
<1> HIDE DEF d, path, old, new
<1> QED BY <1>6, <1>7 DEF Moved, d, path, new, table

\* Somebody whose news is on its way.
Announcing(frame, c) == frame.kind = "attached" /\ frame.attached.mac = c

Announced(c) == \E h \in Hops : \E n \in 1..Len(up[h]) : Announcing(up[h][n], c)

\* If nothing was lost: whoever is reached is known where it is or announced,
\* whoever is known is reached, and is where it is known or announced, and only
\* who is reached is announced.
Shown ==
  \A d \in Devices : Reached(d) => Announced(d) \/ Is(model, Place(d), d)

NoGhost ==
  \A p \in Paths : \A c \in Devices :
    Is(model, p, c) => Reached(c) /\ (Announced(c) \/ Place(c) = p)

Coming == \A c \in Devices : Announced(c) => Reached(c)

Drawn == Shown /\ NoGhost /\ Coming

Tree == FileBelow /\ (lost = 0 => Drawn)

LEMMA SentNews ==
  ASSUME Flying, NEW p \in Paths, NEW frame, frame.kind # "attached",
         up' = Sent(up, p, frame), NEW c
  PROVE  Announced(c)' <=> Announced(c)
<1>1. p[1] \in Hops
  BY PathType
<1> DEFINE old == up[p[1]]
           new == Append(old, frame)
<1>2. old \in Seq(Frames)
  BY <1>1 DEF Flying
<1>3. /\ up'[p[1]] = new /\ \A i \in Hops \ {p[1]} : up'[i] = up[i]
  BY <1>1 DEF Flying, Sent
<1>4. ~Announcing(frame, c)
  BY DEF Announcing
<1>5. /\ Len(old) \in Nat /\ Len(new) = Len(old) + 1
      /\ \A n \in 1..Len(old) : new[n] = old[n]
      /\ new[Len(old) + 1] = frame
  BY <1>2
<1> HIDE DEF old, new
<1>6. (\E n \in 1..Len(new) : Announcing(new[n], c))
        <=> (\E n \in 1..Len(old) : Announcing(old[n], c))
  <2>1. \A n \in 1..Len(new) : n = Len(old) + 1 \/ n \in 1..Len(old)
    BY <1>5
  <2>2. \A n \in 1..Len(old) : n \in 1..Len(new)
    BY <1>5
  <2> QED BY <1>4, <1>5, <2>1, <2>2
<1>7. ASSUME NEW i \in Hops
      PROVE  (\E n \in 1..Len(up'[i]) : Announcing(up'[i][n], c))
               <=> (\E n \in 1..Len(up[i]) : Announcing(up[i][n], c))
  <2>1. CASE i = p[1]
    BY <1>3, <1>6, <2>1 DEF old
  <2>2. CASE i # p[1]
    BY <1>3, <2>2
  <2> QED BY <2>1, <2>2
<1> QED BY <1>7 DEF Announced

LEMMA TakenNews ==
  ASSUME Flying, NEW h \in Hops, up[h] # <<>>, up' = [up EXCEPT ![h] = Tail(@)], NEW c
  PROVE  Announced(c) <=> Announced(c)' \/ Announcing(Head(up[h]), c)
<1> DEFINE old == up[h]
           new == Tail(old)
<1>1. old \in Seq(Frames) /\ old # <<>>
  BY DEF Flying
<1>2. up'[h] = new /\ \A i \in Hops \ {h} : up'[i] = up[i]
  BY DEF Flying
<1>3. /\ Len(old) \in Nat \ {0} /\ Len(new) = Len(old) - 1 /\ Head(old) = old[1]
      /\ \A n \in 1..Len(old) - 1 : new[n] = old[n + 1]
  BY <1>1
<1> HIDE DEF old, new
<1>4. (\E n \in 1..Len(old) : Announcing(old[n], c))
        <=> (\E n \in 1..Len(new) : Announcing(new[n], c)) \/ Announcing(old[1], c)
  <2>1. ASSUME NEW n \in 1..Len(old), n # 1
        PROVE  n - 1 \in 1..Len(new) /\ new[n - 1] = old[n]
    <3>1. n - 1 \in 1..Len(old) - 1 /\ (n - 1) + 1 = n
      BY <1>3, <2>1
    <3> QED BY <1>3, <3>1
  <2>2. \A n \in 1..Len(new) : n + 1 \in 1..Len(old) /\ new[n] = old[n + 1]
    BY <1>3
  <2>3. 1 \in 1..Len(old)
    BY <1>3
  <2>4. (\E n \in 1..Len(new) : Announcing(new[n], c)) => \E n \in 1..Len(old) : Announcing(old[n], c)
    BY <2>2
  <2>5. \A n \in 1..Len(old) : n # 1 /\ Announcing(old[n], c)
                                 => \E j \in 1..Len(new) : Announcing(new[j], c)
    BY <2>1
  <2> QED BY <2>3, <2>4, <2>5
<1>5. ASSUME NEW i \in Hops, i # h
      PROVE  (\E n \in 1..Len(up'[i]) : Announcing(up'[i][n], c))
               <=> (\E n \in 1..Len(up[i]) : Announcing(up[i][n], c))
  BY <1>2, <1>5
<1>6. (\E n \in 1..Len(up[h]) : Announcing(up[h][n], c))
        <=> (\E n \in 1..Len(up'[h]) : Announcing(up'[h][n], c)) \/ Announcing(Head(up[h]), c)
  BY <1>2, <1>3, <1>4 DEF old
<1> QED BY <1>5, <1>6 DEF Announced

\* A step in which nobody binds, nobody is told of, and no name is moved.
LEMMA DrawnStays ==
  ASSUME Staged, stage' = stage, SameNames(model, model'), Drawn,
         \A c \in Devices : Announced(c)' <=> Announced(c)
  PROVE  Drawn'
<1>0. \A c \in Devices : Reached(c) => Place(c) \in Paths
  BY PlaceType DEF Reached
<1>1. ASSUME NEW d \in Devices, Reached(d)'
      PROVE  Announced(d)' \/ Is(model', Place(d)', d)
  <2>1. Reached(d) /\ Place(d)' = Place(d) /\ Place(d) \in Paths
    BY <1>0, <1>1, PlacesStay
  <2> QED BY <2>1 DEF Drawn, Shown, SameNames
<1>2. ASSUME NEW p \in Paths, NEW c \in Devices, Is(model', p, c)
      PROVE  Reached(c)' /\ (Announced(c)' \/ Place(c)' = p)
  <2>1. Is(model, p, c)
    BY <1>2 DEF SameNames
  <2> QED BY <2>1, PlacesStay DEF Drawn, NoGhost
<1>3. ASSUME NEW c \in Devices, Announced(c)' PROVE Reached(c)'
  BY <1>3, PlacesStay DEF Drawn, Coming
<1> QED BY <1>1, <1>2, <1>3 DEF Drawn, Shown, NoGhost, Coming, Is

\* What is told of a path without saying who is there moves no name.
LEMMA UnsaidNames ==
  ASSUME NEW m, NEW n, DOMAIN m \subseteq DOMAIN n,
         \A p \in DOMAIN m : n[p].mac = m[p].mac,
         \A p \in DOMAIN n \ DOMAIN m : n[p].mac = NoMac
  PROVE  SameNames(m, n)
<1>1. NoMac \notin Devices
  OBVIOUS
<1> QED BY <1>1 DEF SameNames, Is

LEMMA ToldNames ==
  ASSUME Mastered, NEW p \in Paths, NEW x \in 0..Longest
  PROVE  SameNames(model, Told(p, x))
<1> DEFINE n == Told(p, x)
<1>1. /\ DOMAIN model \subseteq DOMAIN n
      /\ \A q \in DOMAIN model \ {p} : Said(n, q) = Said(model, q)
      /\ p \in DOMAIN model => Said(n, p) = <<model[p].mac, x>>
      /\ \A q \in DOMAIN n \ DOMAIN model : n[q].mac = NoMac
  BY ToldSaid
<1> HIDE DEF n
<1>2. \A q \in DOMAIN model : n[q].mac = model[q].mac
  BY <1>1 DEF Said
<1>3. SameNames(model, n)
  BY <1>1, <1>2, UnsaidNames
<1> QED BY <1>3 DEF n

LEMMA TouchNames ==
  ASSUME Mastered, NEW p \in Paths
  PROVE  SameNames(model, Touch(model, p))
<1> DEFINE n == Touch(model, p)
<1>1. /\ DOMAIN model \subseteq DOMAIN n
      /\ \A q \in DOMAIN model : Said(n, q) = Said(model, q)
      /\ \A q \in DOMAIN n \ DOMAIN model : n[q].mac = NoMac
  BY TouchKeeps DEF Mastered
<1> HIDE DEF n
<1>2. \A q \in DOMAIN model : n[q].mac = model[q].mac
  BY <1>1 DEF Said
<1>3. SameNames(model, n)
  BY <1>1, <1>2, UnsaidNames
<1> QED BY <1>3 DEF n

\* Who is told to be somewhere is there, and nowhere else.
LEMMA AttachedNames ==
  ASSUME Settled, NEW nodes, Table(nodes), Once(nodes), NEW parentPath, NEW attached,
         attached.mac \in Devices, attached.interval \in 0..Longest,
         NEW path \in Paths, path = Append(parentPath, attached.childIndex),
         ~(Len(path) > MaxDepth)
  PROVE  Moved(nodes, NoteChildAttached(nodes, parentPath, attached), attached.mac, path)
<1> DEFINE t == NoteChildAttached(nodes, parentPath, attached)
           d == attached.mac
<1>1. path \in DOMAIN nodes \/ Cardinality(DOMAIN nodes) < MaxNodes
  BY RoomForAll
<1>2. /\ DOMAIN t \subseteq DOMAIN nodes \cup {path}
      /\ \A p \in DOMAIN t \ {path} : Said(t, p) = Said(nodes, p) /\ nodes[p].mac # d
      /\ \A p \in DOMAIN nodes \ {path} : nodes[p].mac # d => p \in DOMAIN t
      /\ path \in DOMAIN t /\ Said(t, path) = <<d, attached.interval>>
  BY <1>1, AttachedKeeps
<1> HIDE DEF t, d
<1>3. Is(t, path, d)
  BY <1>2 DEF Is, Said
<1>4. ASSUME NEW p \in Paths \ {path}, NEW c \in Devices
      PROVE  Is(t, p, c) <=> Is(nodes, p, c) /\ c # d
  <2>1. p \in DOMAIN t => p \in DOMAIN nodes /\ t[p].mac = nodes[p].mac /\ nodes[p].mac # d
    BY <1>2 DEF Said
  <2>2. p \in DOMAIN nodes /\ nodes[p].mac # d => p \in DOMAIN t
    BY <1>2
  <2> QED BY <2>1, <2>2 DEF Is
<1> QED BY <1>3, <1>4 DEF Moved, t, d

\* No step takes a child from the table, or saves a model that is not the one
\* it leaves.
LEMMA TablesGrow ==
  ASSUME Typed, [Next]_vars
  PROVE  /\ DOMAIN children \subseteq DOMAIN children'
         /\ saved' = saved \/ saved' = SaveModel(model')
<1>1. ASSUME NEW table, NEW nodes, NEW file, NEW heard, Adopt(table, nodes, file, heard),
             DOMAIN children \subseteq DOMAIN table, file = saved \/ file = SaveModel(nodes)
      PROVE  /\ DOMAIN children \subseteq DOMAIN children'
             /\ saved' = saved \/ saved' = SaveModel(model')
  BY <1>1 DEF Adopt, Boot
<1>2. ASSUME NEW path, NEW x PROVE DOMAIN WithInterval(path, x) = DOMAIN children
  BY DEF WithInterval
<1>3. ASSUME NEW d \in Devices, Bind(d)
      PROVE  /\ DOMAIN children \subseteq DOMAIN children'
             /\ saved' = saved \/ saved' = SaveModel(model')
  BY <1>1, <1>3 DEF Bind, AdoptAttached, master
<1>4. ASSUME NEW h \in Hops, Receive(h)
      PROVE  /\ DOMAIN children \subseteq DOMAIN children'
             /\ saved' = saved \/ saved' = SaveModel(model')
  BY <1>1, <1>2, <1>4 DEF Receive, AdoptPolicy, AdoptDescribe, AdoptAttached
<1>5. ASSUME \/ \E d \in Devices : Report(d) \/ Serve(d) \/ Die(d) \/ Ask(d) \/ LoseDown(d)
             \/ \E h \in Hops : LoseUp(h)
             \/ Sweep \/ Restart \/ Tick
             \/ UNCHANGED vars
      PROVE  /\ DOMAIN children \subseteq DOMAIN children'
             /\ saved' = saved \/ saved' = SaveModel(model')
  BY <1>5 DEF Report, Serve, Die, Ask, LoseDown, LoseUp, Sweep, Restart, Tick, vars, master, Boot
<1> QED BY <1>3, <1>4, <1>5 DEF Next

LEMMA FileStaysBelow ==
  ASSUME Settled, Typed, Picture, FileBelow, [Next]_vars
  PROVE  FileBelow'
<1>1. Picture'
  BY PictureNext
<1>2. ASSUME NEW p \in DOMAIN SaveModel(model') PROVE p[1] \in DOMAIN children'
  <2>1. p \in NamedIn(model')
    BY DEF SaveModel, NamedIn
  <2> QED BY <1>1, <2>1 DEF Picture, Agreed
<1>3. ASSUME NEW p \in DOMAIN saved' PROVE p[1] \in DOMAIN children'
  <2>1. CASE saved' = saved
    BY <2>1, TablesGrow DEF FileBelow
  <2>2. CASE saved' = SaveModel(model')
    BY <1>2, <2>2
  <2> QED BY <2>1, <2>2, TablesGrow
<1> QED BY <1>3 DEF FileBelow
\* A handler that moves no name, whether it is finished or cut off.
LEMMA AdoptNames ==
  ASSUME Settled, Mastered, Listed, PicturePersists, FileBelow,
         NEW table, Known(table), DOMAIN table = DOMAIN children,
         \A i \in DOMAIN children : table[i].mac = children[i].mac,
         NEW nodes, SameNames(model, nodes),
         NEW file, NEW heard, Adopt(table, nodes, file, heard)
  PROVE  SameNames(model, model')
<1>1. CASE model' = nodes
  BY <1>1
<1>2. CASE Boot(table, saved)
  <2>1. model' = Rebuilt(table, saved)
    BY <1>2 DEF Boot
  <2>2. SameNames(model, Rebuilt(table, saved))
    BY SameChildren
  <2> QED BY <2>1, <2>2
<1> QED BY <1>1, <1>2 DEF Adopt

LEMMA TreeReceive ==
  ASSUME Planned, Typed, Picture, FileBelow, Drawn, NEW h \in Hops, Receive(h)
  PROVE  Drawn'
<1> DEFINE frame == Head(up[h])
<1>1. /\ up[h] # <<>> /\ up' = [up EXCEPT ![h] = Tail(@)]
      /\ stage' = stage /\ Flying /\ Mastered /\ Staged /\ Truthful /\ Listed /\ PicturePersists
      /\ Table(model) /\ Once(model) /\ Known(children) /\ Settled
  BY DEF Receive, device, Typed, Mastered, Picture, Planned
<1>2. frame \in Frames /\ Honest(frame, stage, children)
  BY <1>1, TakenKeeps, HeadHonest
<1>3. \A c \in Devices : Announced(c) <=> Announced(c)' \/ Announcing(frame, c)
  BY <1>1, TakenNews
<1>4. ASSUME frame.kind # "attached", SameNames(model, model') PROVE Drawn'
  <2>1. \A c \in Devices : Announced(c)' <=> Announced(c)
    BY <1>3, <1>4 DEF Announcing
  <2> QED BY <1>1, <1>4, <2>1, DrawnStays
<1>5. CASE frame.kind = "report"
           /\ Adopt(children, NoteReport(model, frame.src), saved, At(frame.src))
  <2>1. frame.src \in Paths
    BY <1>2, <1>5 DEF Frames
  <2> DEFINE nodes == NoteReport(model, frame.src)
  <2>2. SameNames(model, nodes)
    BY <1>1, <2>1, TouchNames DEF NoteReport
  <2>3. Adopt(children, nodes, saved, At(frame.src)) /\ frame.kind # "attached"
    BY <1>5
  <2> HIDE DEF frame, nodes
  <2>4. SameNames(model, model')
    BY <1>1, <2>2, <2>3, AdoptNames
  <2> QED BY <1>4, <2>3, <2>4
<1>6. CASE frame.kind = "policy" /\ AdoptPolicy(frame.src, frame.answer)
  <2> DEFINE src == frame.src
             answer == frame.answer
             x == answer.interval
             nodes == NotePolicy(model, src, answer)
             changed == /\ answer.ok
                        /\ src \in DOMAIN model => model[src].interval # x
             table == IF answer.ok THEN WithInterval(src, x) ELSE children
             file == IF changed THEN SaveModel(nodes) ELSE saved
             heard == At(src)
  <2>1. src \in Paths /\ x \in 0..Longest /\ frame.kind # "attached"
    BY <1>2, <1>6 DEF Frames
  <2>2. Adopt(table, nodes, file, heard)
    BY <1>6 DEF AdoptPolicy
  <2> HIDE DEF frame, src, answer, x
  <2>3. SameNames(model, nodes)
    <3>1. CASE answer.ok
      <4>1. nodes = Told(src, x)
        BY <3>1 DEF NotePolicy, Told, x
      <4> QED BY <1>1, <2>1, <4>1, ToldNames
    <3>2. CASE ~answer.ok
      BY <1>1, <2>1, <3>2, TouchNames DEF NotePolicy
    <3> QED BY <3>1, <3>2
  <2>4. /\ Known(table) /\ DOMAIN table = DOMAIN children
        /\ \A i \in DOMAIN children : table[i].mac = children[i].mac
    BY <1>1, <2>1, WithIntervalKept, WithIntervalSaid
  <2> HIDE DEF nodes, table, file, heard
  <2>5. SameNames(model, model')
    BY <1>1, <2>2, <2>3, <2>4, AdoptNames
  <2> QED BY <1>4, <2>1, <2>5
<1>7. CASE frame.kind = "describe" /\ AdoptDescribe(frame.src, frame.interval)
  <2> DEFINE src == frame.src
             x == frame.interval
             nodes == NoteDescribe(model, src, x)
             moved == src \in DOMAIN model /\ model[src].interval # x
             table == WithInterval(src, x)
             file == IF moved THEN SaveModel(nodes) ELSE saved
             heard == At(src)
  <2>1. src \in Paths /\ x \in 0..Longest /\ frame.kind # "attached"
    BY <1>2, <1>7 DEF Frames
  <2>2. Adopt(table, nodes, file, heard)
    BY <1>7 DEF AdoptDescribe
  <2> HIDE DEF frame, src, x
  <2>3. SameNames(model, nodes)
    BY <1>1, <2>1, ToldNames DEF NoteDescribe, Told
  <2>4. /\ Known(table) /\ DOMAIN table = DOMAIN children
        /\ \A i \in DOMAIN children : table[i].mac = children[i].mac
    BY <1>1, <2>1, WithIntervalKept, WithIntervalSaid
  <2> HIDE DEF nodes, table, file, heard
  <2>5. SameNames(model, model')
    BY <1>1, <2>2, <2>3, <2>4, AdoptNames
  <2> QED BY <1>4, <2>1, <2>5
<1>8. CASE frame.kind = "attached" /\ AdoptAttached(children, frame.src, frame.attached)
  <2> DEFINE src == frame.src
             a == frame.attached
             c == a.mac
             path == Append(src, a.childIndex)
             nodes == NoteChildAttached(model, src, a)
  <2>1. model' = nodes
    BY <1>8 DEF AdoptAttached, Adopt
  <2>2. a.mac \in Devices /\ a.interval \in 0..Longest /\ path \in Paths
    BY SMTT(60), <1>2, <1>8 DEF Frames
  <2>3. Bound(c) /\ Place(c) = path
    <3>1. stage[c] > 0 /\ Itinerary[c][stage[c]] = path
      BY <1>2, <1>8, HonestSays
    <3> QED BY ZenonT(60), <3>1 DEF Bound, Place
  <2>4. \A e \in Devices : Announced(e) <=> Announced(e)' \/ e = c
    BY <1>3, <1>8 DEF Announcing
  <2> HIDE DEF frame, a, src
  <2>5. ~(Len(path) > MaxDepth)
    <3>1. Len(path) \in Nat /\ MaxDepth \in Nat /\ Len(path) =< MaxDepth
      BY <2>2, PathType DEF Planned
    <3> QED BY <3>1
  <2>6. Moved(model, nodes, c, path)
    <3> HIDE DEF path, nodes
    <3>1. Moved(model, NoteChildAttached(model, src, a), a.mac, path)
      BY <1>1, <2>2, <2>5, AttachedNames DEF path
    <3> QED BY <3>1 DEF nodes
  <2> HIDE DEF nodes, path, c
  <2>7. c \in Devices /\ path \in Paths
    BY <2>2 DEF c
  <2>8. Reached(c)
    BY <2>4, <2>7 DEF Drawn, Coming
  <2>9. \A e \in Devices : (Reached(e)' <=> Reached(e)) /\ Place(e)' = Place(e)
    BY <1>1, PlacesStay
  <2>10. ASSUME NEW e \in Devices, Reached(e), e # c PROVE Place(e) \in Paths \ {path}
    <3>1. /\ stage[e] \in 1..Len(Itinerary[e]) /\ Place(e) \in Paths
          /\ stage[c] \in 1..Len(Itinerary[c])
      BY <1>1, <2>3, <2>7, <2>10, PlaceType DEF Reached
    <3>2. Place(e) # Place(c)
      BY <2>7, <2>10, <3>1, StopOnce DEF Place
    <3> QED BY <2>3, <3>1, <3>2
  <2>11. ASSUME NEW e \in Devices, Reached(e) PROVE Announced(e)' \/ Is(nodes, Place(e), e)
    <3>1. CASE e = c
      BY <2>3, <2>6, <3>1 DEF Moved
    <3>2. CASE e # c
      <4>1. Announced(e) \/ Is(model, Place(e), e)
        BY <2>11 DEF Drawn, Shown
      <4>2. Is(nodes, Place(e), e) <=> Is(model, Place(e), e)
        BY <2>6, <2>10, <2>11, <3>2 DEF Moved
      <4> QED BY <2>4, <3>2, <4>1, <4>2
    <3> QED BY <3>1, <3>2
  <2>12. ASSUME NEW p \in Paths, NEW e \in Devices, Is(nodes, p, e)
         PROVE  Reached(e) /\ (Announced(e)' \/ Place(e) = p)
    <3>1. CASE p = path
      <4>1. e = c
        BY <2>6, <2>12, <3>1 DEF Moved, Is
      <4> QED BY <2>3, <2>8, <3>1, <4>1
    <3>2. CASE p # path
      <4>1. Is(model, p, e) /\ e # c
        BY <2>6, <2>12, <3>2 DEF Moved
      <4> QED BY <2>4, <4>1 DEF Drawn, NoGhost
    <3> QED BY <3>1, <3>2
  <2>13. \A e \in Devices : Announced(e)' => Reached(e)
    BY <2>4 DEF Drawn, Coming
  <2>14. Shown'
    BY <2>1, <2>9, <2>11 DEF Shown, Is
  <2>15. NoGhost'
    BY <2>1, <2>9, <2>12 DEF NoGhost, Is
  <2>16. Coming'
    BY <2>9, <2>13 DEF Coming
  <2> QED BY <2>14, <2>15, <2>16 DEF Drawn
<1> QED BY <1>1, <1>5, <1>6, <1>7, <1>8 DEF Receive
\* A step in which a device binds to the master itself.
LEMMA DirectNames ==
  ASSUME Settled, Mastered, Listed, Agreed(children, model), PicturePersists, FileBelow,
         NEW d \in Devices, NEW path \in Paths, Len(path) = 1,
         NEW a, a = [childIndex |-> Last(path), mac |-> d, interval |-> Own[d]],
         \A j \in DOMAIN children : children[j].mac # d /\ j # path[1],
         AdoptAttached(WithChild(children, path[1], [mac |-> d, interval |-> Own[d]]), <<>>, a)
  PROVE  Moved(model, model', d, path)
<1> DEFINE i == path[1]
           pair == [mac |-> d, interval |-> Own[d]]
           table == WithChild(children, i, pair)
           nodes == NoteChildAttached(model, <<>>, a)
<1>1. path = <<i>> /\ Last(path) = i /\ Append(<<>>, i) = path /\ ~(Len(path) > MaxDepth)
      /\ i \in Nat
  BY PathType DEF Last
<1>2. pair \in Pair /\ pair.mac = d /\ Own[d] \in 0..Longest
  BY DEF Pair
<1>3. /\ a.mac = d /\ a.mac \in Devices /\ a.interval \in 0..Longest
      /\ path = Append(<<>>, a.childIndex)
  BY <1>1, <1>2
<1>4. model' = nodes \/ model' = Rebuilt(table, saved)
  BY DEF AdoptAttached, Adopt, Boot
<1>5. Moved(model, nodes, d, path)
  <2>1. Table(model) /\ Once(model)
    BY DEF Mastered
  <2> HIDE DEF nodes
  <2>2. Moved(model, NoteChildAttached(model, <<>>, a), a.mac, path)
    BY <1>1, <1>3, <2>1, AttachedNames
  <2> QED BY <1>3, <2>2 DEF nodes
<1>6. Moved(model, Rebuilt(table, saved), d, path)
  <2>1. /\ i \in Nat \ DOMAIN children /\ <<i>> \in Paths /\ pair \in Pair
        /\ \A j \in DOMAIN children : children[j].mac # pair.mac
    BY <1>1, <1>2
  <2> HIDE DEF i, pair
  <2>2. Moved(model, Rebuilt(WithChild(children, i, pair), saved), pair.mac, <<i>>)
    BY <2>1, BoundNames
  <2> QED BY <1>1, <1>2, <2>2
<1> QED BY <1>4, <1>5, <1>6

LEMMA TreeBind ==
  ASSUME Planned, Typed, Picture, FileBelow, Drawn, NEW d \in Devices, Bind(d)
  PROVE  Drawn'
<1> DEFINE k == stage[d] + 1
           path == Itinerary[d][k]
           i == path[1]
<1>0. /\ Settled /\ Mastered /\ Staged /\ Flying /\ Listed /\ Agreed(children, model)
      /\ PicturePersists /\ Patient
  BY DEF Planned, Typed, Picture
<1>1. stage[d] \in Nat /\ stage[d] < Len(Itinerary[d]) /\ Len(Itinerary[d]) \in Nat
  BY <1>0, LenProperties DEF Bind, Staged
<1>2. k \in 1..Len(Itinerary[d]) /\ k \in Nat
  BY SMTT(30), <1>1
<1>3. /\ path \in Paths /\ i \in Hops /\ path \in Seq(Nat) /\ path # <<>>
      /\ Len(path) \in Nat \ {0}
  BY <1>2, StopType, PathType
<1>4. /\ Silent /\ stage' = [stage EXCEPT ![d] = k]
      /\ up' = IF \A c \in Above(path) : Bound(c)
                 THEN [up EXCEPT ![i] = News(d, k)] ELSE up
  BY DEF Bind
<1>5. /\ stage'[d] = k /\ k > 0 /\ \A c \in Devices \ {d} : stage'[c] = stage[c]
      /\ Bound(d)' /\ Place(d)' = path
      /\ \A c \in Devices \ {d} : (Bound(c)' <=> Bound(c)) /\ Place(c)' = Place(c)
  <2>1. /\ stage'[d] = k /\ k > 0 /\ \A c \in Devices \ {d} : stage'[c] = stage[c]
    BY <1>0, <1>1, <1>4 DEF Staged
  <2> QED BY <2>1 DEF Bound, Place
\* Nothing was on its way, and now the news is.
<1>6. ASSUME NEW c \in Devices PROVE ~Announced(c)
  <2>1. \A h \in Hops : up[h] = <<>> /\ Len(up[h]) = 0
    BY <1>4 DEF Silent
  <2> QED BY <2>1 DEF Announced
<1>7. ASSUME NEW c \in Devices
      PROVE  Announced(c)' <=> /\ \A e \in ParentAt(path) : Bound(e)
                               /\ \E f \in NewsOf(d, k) : Announcing(f, c)
  <2>0. Above(path) = ParentAt(path)
    BY <1>0, <1>3, AboveIsParent
  <2>1. CASE ~(\A e \in Above(path) : Bound(e))
    <3>1. up' = up
      BY <1>4, <2>1
    <3> QED BY <1>6, <2>0, <2>1, <3>1 DEF Announced
  <2>2. CASE \A e \in Above(path) : Bound(e)
    <3> DEFINE s == News(d, k)
    <3>1. /\ \A n \in 1..Len(s) : s[n] \in NewsOf(d, k)
          /\ \A f \in NewsOf(d, k) : \E n \in 1..Len(s) : s[n] = f
      BY <1>0, <1>2, NewsKeeps
    <3> HIDE DEF s
    <3>2. up'[i] = s /\ \A h \in Hops \ {i} : up'[h] = <<>>
      BY <1>0, <1>3, <1>4, <2>2 DEF Flying, Silent, s
    <3>3. \A h \in Hops \ {i} : Len(up'[h]) = 0
      BY <3>2
    <3>4. \A h \in Hops \ {i} : \A n \in 1..Len(up'[h]) : FALSE
      BY <3>3
    <3>5. Announced(c)' <=> \E h \in Hops : \E n \in 1..Len(up'[h]) : Announcing(up'[h][n], c)
      BY DEF Announced, Announcing
    <3> HIDE DEF i
    <3>6. Announced(c)' <=> \E n \in 1..Len(s) : Announcing(s[n], c)
      BY <1>3, <3>2, <3>4, <3>5
    <3> QED BY <2>0, <2>2, <3>1, <3>6
  <2> QED BY <2>1, <2>2
\* No two devices have a stop in common.
<1>8. ASSUME NEW c \in Devices, Bound(c), c # d PROVE Place(c) \in Paths \ {path}
  <2>1. stage[c] \in 1..Len(Itinerary[c]) /\ Place(c) \in Paths
    BY <1>0, <1>8, PlaceType
  <2>2. Place(c) # path
    BY <1>2, <1>8, <2>1, StopOnce DEF Place
  <2> QED BY <2>1, <2>2
\* Whoever binds below d does so when d binds for the first time.
<1>9. ASSUME NEW p \in Paths, d \in ParentAt(p)
      PROVE  /\ stage[d] = 0 /\ k = 1 /\ Len(path) = 1 /\ path = Front(p) /\ ParentAt(p) = {d}
  <2>1. Len(Itinerary[d]) = 1 /\ Itinerary[d][1] = Front(p) /\ Len(Front(p)) = 1
    BY <1>0, <1>9, ParentStop
  <2>2. stage[d] = 0 /\ k = 1
    BY <1>1, <2>1
  <2>3. ParentAt(p) = {d}
    BY <1>9, ParentAlone
  <2> QED BY <2>1, <2>2, <2>3
\* Who is reached, and who will be.
<1>a. ASSUME NEW c \in Devices
      PROVE  /\ Reached(c) <=> Bound(c) /\ \A e \in ParentAt(Place(c)) : Bound(e)
             /\ Reached(c)' <=> Bound(c)' /\ \A e \in ParentAt(Place(c)') : Bound(e)'
  <2>1. Bound(c) => Place(c) \in Paths /\ Above(Place(c)) = ParentAt(Place(c))
    BY <1>0, PlaceType, AboveIsParent
  <2>2. Bound(c)' => Place(c)' \in Paths
    BY <1>3, <1>5, <2>1
  <2>3. Bound(c)' => Above(Place(c)') = ParentAt(Place(c)')
    BY <1>0, <2>2, AboveIsParent
  <2>4. Reached(c)' <=> Bound(c)' /\ \A e \in Above(Place(c)') : Bound(e)'
    BY DEF Reached
  <2> QED BY <2>1, <2>3, <2>4 DEF Reached
<1> HIDE DEF k, i
<1>10. CASE Len(path) = 1
  <2> DEFINE a == Attached(d, k)
             pair == [mac |-> d, interval |-> Own[d]]
  <2>1. AdoptAttached(WithChild(children, path[1], pair), <<>>, a)
    BY <1>10 DEF Bind, WithChild, k
  <2>2. a = [childIndex |-> Last(path), mac |-> d, interval |-> Own[d]]
    BY DEF Attached
  <2>3. ASSUME NEW j \in DOMAIN children PROVE children[j].mac # d /\ j # path[1]
    <3>1. /\ children[j].mac \in Devices /\ Bound(children[j].mac)
          /\ Place(children[j].mac) = <<j>> /\ Len(<<j>>) = 1
      BY <1>0 DEF Listed, Mastered, Known, Pair
    <3>2. children[j].mac # d
      <4>1. SUFFICES ASSUME children[j].mac = d PROVE FALSE
        OBVIOUS
      <4>2. stage[d] \in 1..Len(Itinerary[d]) /\ Len(Itinerary[d][stage[d]]) = 1
        BY <1>0, <3>1, <4>1, PlaceType DEF Place
      <4>3. stage[d] = Len(Itinerary[d])
        BY <1>0, <4>2 DEF Settled
      <4> QED BY <1>1, <4>3
    <3>3. path = <<path[1]>>
      BY <1>3, <1>10
    <3> QED BY <1>8, <3>1, <3>2, <3>3
  <2> HIDE DEF a
  <2>4. Moved(model, model', d, path)
    BY <1>0, <1>3, <1>10, <2>1, <2>2, <2>3, DirectNames
  <2>5. Reached(d)'
    <3>1. ParentAt(path) = {}
      <4>1. \A c \in ParentAt(path) : Len(path) = 2
        BY <1>0, <1>3, ParentStop
      <4> QED BY <1>10, <4>1
    <3> QED BY <1>5, <1>a, <3>1
  <2>6. ASSUME NEW c \in Devices
        PROVE  Announced(c)' <=> Bound(c) /\ ParentAt(Place(c)) = {d}
    <3>1. ParentAt(path) = {}
      <4>1. \A e \in ParentAt(path) : Len(path) = 2
        BY <1>0, <1>3, ParentStop
      <4> QED BY <1>10, <4>1
    <3>2. NewsOf(d, k) = {Announcement(d, e) : e \in Adopted(d)}
      BY <1>10 DEF NewsOf, OfChildren
    <3>3. \A e \in Adopted(d) : Announcing(Announcement(d, e), c) <=> e = c
      BY DEF Announcing, Announcement, Attached
    <3>4. Announced(c)' <=> c \in Adopted(d)
      BY <1>7, <3>1, <3>2, <3>3
    <3>5. ASSUME c \in Adopted(d) PROVE Bound(c) /\ ParentAt(Place(c)) = {d}
      <4>1. PICK j \in 1..Len(Itinerary[c]) : d \in ParentAt(Itinerary[c][j])
        BY <1>0, <3>5, AdoptedStop
      <4>2. ~Bound(d)
        BY <1>9, <4>1, StopType DEF Bound
      <4>3. Bound(c) /\ d \in ParentAt(Place(c))
        BY <1>0, <3>5, <4>2, HeldIsBelow
      <4> QED BY <1>0, <1>9, <4>3, PlaceType
    <3>6. ASSUME Bound(c), ParentAt(Place(c)) = {d} PROVE c \in Adopted(d)
      BY <1>0, <3>6, BelowIsHeld
    <3> QED BY <3>4, <3>5, <3>6
  <2>7. ASSUME NEW c \in Devices, Bound(c), ParentAt(Place(c)) = {d}
        PROVE  c # d /\ Reached(c)'
    <3>1. Place(c) \in Paths /\ d \in ParentAt(Place(c))
      BY <1>0, <2>7, PlaceType
    <3>2. c # d
      BY SMTT(30), <1>9, <2>7, <3>1 DEF Bound
    <3> QED BY <1>5, <1>a, <2>7, <3>2
  <2>8. ASSUME NEW c \in Devices, Reached(c) PROVE Reached(c)'
    <3>1. CASE c = d
      BY <2>5, <3>1
    <3>2. CASE c # d
      <4>1. /\ Bound(c)' /\ Place(c)' = Place(c)
            /\ \A e \in ParentAt(Place(c)) : e \in Devices /\ Bound(e)
        BY <1>5, <1>a, <2>8, <3>2 DEF ParentAt
      <4>2. \A e \in Devices : Bound(e) => Bound(e)'
        BY <1>5
      <4> QED BY <1>a, <4>1, <4>2
    <3> QED BY <3>1, <3>2
  <2>9. ASSUME NEW c \in Devices, Reached(c)' PROVE Announced(c)' \/ Is(model', Place(c)', c)
    <3>1. CASE c = d
      BY <1>5, <2>4, <3>1 DEF Moved
    <3>2. CASE c # d
      <4>1. Bound(c) /\ Place(c)' = Place(c) /\ Place(c) \in Paths \ {path}
        BY <1>5, <1>8, <1>a, <2>9, <3>2
      <4>2. CASE Reached(c)
        <5>1. Is(model, Place(c), c)
          BY <1>6, <4>2 DEF Drawn, Shown
        <5> QED BY <2>4, <3>2, <4>1, <5>1 DEF Moved
      <4>3. CASE ~Reached(c)
        <5>1. PICK e \in ParentAt(Place(c)) : ~Bound(e)
          BY <1>a, <4>1, <4>3
        <5>2. e \in Devices /\ Bound(e)'
          BY <1>a, <2>9, <4>1, <5>1 DEF ParentAt
        <5>3. e = d
          BY <1>5, <5>1, <5>2
        <5>4. ParentAt(Place(c)) = {d}
          BY <1>9, <4>1, <5>1, <5>3
        <5> QED BY <2>6, <4>1, <5>4
      <4> QED BY <4>2, <4>3
    <3> QED BY <3>1, <3>2
  <2>10. ASSUME NEW p \in Paths, NEW c \in Devices, Is(model', p, c)
         PROVE  Reached(c)' /\ (Announced(c)' \/ Place(c)' = p)
    <3>1. CASE p = path
      <4>1. c = d
        BY <2>4, <2>10, <3>1 DEF Moved, Is
      <4> QED BY <1>5, <2>5, <3>1, <4>1
    <3>2. CASE p # path
      <4>1. Is(model, p, c) /\ c # d
        BY <2>4, <2>10, <3>2 DEF Moved
      <4>2. Reached(c) /\ Place(c) = p
        BY <1>6, <4>1 DEF Drawn, NoGhost
      <4> QED BY <1>5, <2>8, <4>1, <4>2
    <3> QED BY <3>1, <3>2
  <2>11. Shown'
    BY <2>9 DEF Shown, Is
  <2>12. NoGhost'
    BY <2>10 DEF NoGhost, Is
  <2>13. Coming'
    BY <2>6, <2>7 DEF Coming
  <2> QED BY <2>11, <2>12, <2>13 DEF Drawn
<1>11. CASE Len(path) # 1
  <2>1. stage[d] = 0 /\ ~Bound(d) /\ ~Reached(d)
    <3>1. k = 1
      BY <1>2, <1>11 DEF Planned
    <3> QED BY <1>1, <3>1 DEF k, Bound, Reached
  <2>2. model' = model
    BY <1>11 DEF Bind, master, k
  <2>3. ASSUME NEW p \in Paths PROVE d \notin ParentAt(p)
    BY <1>9, <1>11
  <2>4. ASSUME NEW c \in Devices, c # d PROVE (Reached(c)' <=> Reached(c))
    <3>1. CASE ~Bound(c)
      BY <1>5, <1>a, <2>4, <3>1
    <3>2. CASE Bound(c)
      <4>1. Place(c) \in Paths
        BY <1>0, <3>2, PlaceType
      <4>2. \A e \in ParentAt(Place(c)) : e \in Devices \ {d}
        BY <2>3, <4>1 DEF ParentAt
      <4> QED BY <1>5, <1>a, <2>4, <3>2, <4>2
    <3> QED BY <3>1, <3>2
  <2>5. Reached(d)' <=> \A e \in ParentAt(path) : Bound(e)
    <3>1. \A e \in ParentAt(path) : e \in Devices \ {d}
      BY <1>3, <2>3 DEF ParentAt
    <3> QED BY <1>5, <1>a, <3>1
  <2>6. ASSUME NEW c \in Devices PROVE Announced(c)' <=> c = d /\ Reached(d)'
    <3> DEFINE f == OwnNews(d, k)
    <3>1. NewsOf(d, k) = {f}
      <4>1. ASSUME NEW e \in Adopted(d) PROVE FALSE
        <5>1. e \in Devices /\ \E j \in 1..Len(Itinerary[e]) : d \in ParentAt(Itinerary[e][j])
          BY <1>0, AdoptedStop
        <5> QED BY <2>3, <5>1, StopType
      <4> QED BY <1>11, <4>1 DEF NewsOf, OfChildren
    <3>2. Announcing(f, c) <=> c = d
      BY DEF Announcing, OwnNews, Attached
    <3> HIDE DEF f
    <3> QED BY <1>7, <1>11, <2>5, <3>1, <3>2
  <2>7. ASSUME NEW c \in Devices, Reached(c)' PROVE Announced(c)' \/ Is(model', Place(c)', c)
    <3>1. CASE c = d
      BY <2>6, <2>7, <3>1
    <3>2. CASE c # d
      <4>1. Reached(c) /\ Place(c)' = Place(c)
        BY <1>5, <2>4, <2>7, <3>2
      <4> QED BY <1>6, <2>2, <4>1 DEF Drawn, Shown
    <3> QED BY <3>1, <3>2
  <2>8. ASSUME NEW p \in Paths, NEW c \in Devices, Is(model, p, c)
        PROVE  Reached(c)' /\ Place(c)' = p
    <3>1. Reached(c) /\ Place(c) = p
      BY <1>6, <2>8 DEF Drawn, NoGhost
    <3>2. c # d
      BY <2>1, <3>1
    <3> QED BY <1>5, <2>4, <3>1, <3>2
  <2>9. Shown'
    BY <2>7 DEF Shown, Is
  <2>10. NoGhost'
    BY <2>2, <2>8 DEF NoGhost, Is
  <2>11. Coming'
    BY <2>6 DEF Coming
  <2> QED BY <2>9, <2>10, <2>11 DEF Drawn
<1> QED BY <1>10, <1>11
LEMMA NamesStay ==
  ASSUME NEW m
  PROVE  SameNames(m, m)
  BY DEF SameNames

LEMMA TreeElse ==
  ASSUME Settled, Typed, Picture, FileBelow, Drawn,
         \/ \E d \in Devices : Report(d) \/ Serve(d) \/ Die(d) \/ Ask(d)
         \/ Sweep \/ Restart \/ Tick
         \/ UNCHANGED vars
  PROVE  Drawn'
<1>0. Flying /\ Mastered /\ Staged /\ Asking
  BY DEF Typed
<1>1. ASSUME NEW d \in Devices, Report(d) PROVE Drawn'
  <2> DEFINE frame == [kind |-> "report", src |-> Place(d)]
  <2>1. /\ Bound(d) /\ stage' = stage /\ model' = model
        /\ up' = IF Reached(d) THEN Sent(up, Place(d), frame) ELSE up
    BY <1>1 DEF Report, master
  <2>2. Place(d) \in Paths /\ frame.kind # "attached"
    BY <1>0, <2>1, PlaceType
  <2> HIDE DEF frame
  <2>3. ASSUME NEW c \in Devices PROVE Announced(c)' <=> Announced(c)
    <3>1. CASE Reached(d)
      BY <1>0, <2>1, <2>2, <3>1, SentNews
    <3>2. CASE ~Reached(d)
      BY <2>1, <3>2 DEF Announced
    <3> QED BY <3>1, <3>2
  <2>4. SameNames(model, model')
    BY <2>1, NamesStay
  <2> QED BY <1>0, <2>1, <2>3, <2>4, DrawnStays
<1>2. ASSUME NEW d \in Devices, Serve(d) PROVE Drawn'
  <2>1. stage' = stage /\ model' = model
    BY <1>2 DEF Serve, master
  <2>2. PICK frame : frame.kind # "attached" /\ up' = Sent(up, Place(d), frame)
    BY <1>2 DEF Serve, Description, PolicyTaken
  <2>3. Place(d) \in Paths
    <3>1. down[d].kind \in {"describe", "policy"}
      BY <1>2 DEF Serve
    <3>2. down[d] # NoRequest
      BY <3>1 DEF NoRequest
    <3>3. Bound(d)
      BY <1>0, <3>2 DEF Asking, Reached
    <3> QED BY <1>0, <3>3, PlaceType
  <2>4. ASSUME NEW c \in Devices PROVE Announced(c)' <=> Announced(c)
    BY <1>0, <2>2, <2>3, SentNews
  <2>5. SameNames(model, model')
    BY <2>1, NamesStay
  <2> QED BY <1>0, <2>1, <2>4, <2>5, DrawnStays
<1>3. ASSUME stage' = stage, up' = up, SameNames(model, model') PROVE Drawn'
  <2>1. ASSUME NEW c \in Devices PROVE Announced(c)' <=> Announced(c)
    BY <1>3 DEF Announced
  <2> QED BY <1>0, <1>3, <2>1, DrawnStays
<1>4. ASSUME NEW d \in Devices, Die(d) \/ Ask(d) PROVE Drawn'
  <2>1. stage' = stage /\ model' = model /\ up' = up
    BY <1>4 DEF Die, Ask, master, device
  <2> QED BY <1>3, <2>1, NamesStay
<1>5. ASSUME Sweep \/ Tick PROVE Drawn'
  <2>1. /\ stage' = stage /\ up' = up
        /\ model' = SweepOffline(model) \/ model' = Aged(model)
    BY <1>5 DEF Sweep, Tick, device
  <2>2. DOMAIN model' = DOMAIN model /\ \A p \in DOMAIN model : Said(model', p) = Said(model, p)
    BY <1>0, <2>1, SweepKeeps, AgedKeeps DEF Mastered
  <2>3. SameNames(model, model')
    BY <2>2 DEF SameNames, Is, Said
  <2> QED BY <1>3, <2>1, <2>3
<1>6. ASSUME Restart PROVE Drawn'
  <2>1. stage' = stage /\ up' = up /\ model' = Rebuilt(children, saved)
    BY <1>6 DEF Restart, Boot, device
  <2>2. SameNames(model, Rebuilt(children, saved))
    BY SavedNames DEF Picture, PicturePersists
  <2> QED BY <1>3, <2>1, <2>2
<1>7. ASSUME UNCHANGED vars PROVE Drawn'
  <2>1. stage' = stage /\ model' = model /\ up' = up
    BY <1>7 DEF vars, master, device
  <2> QED BY <1>3, <2>1, NamesStay
<1> QED BY <1>1, <1>2, <1>4, <1>5, <1>6, <1>7

\* What is lost stays lost.
LEMMA LossCounts ==
  ASSUME Typed, [Next]_vars, lost' = 0
  PROVE  lost = 0 /\ ~(\E d \in Devices : LoseDown(d)) /\ ~(\E h \in Hops : LoseUp(h))
<1>1. lost \in Nat
  BY DEF Typed, Flying
<1>2. ~(\E d \in Devices : LoseDown(d)) /\ ~(\E h \in Hops : LoseUp(h))
  BY <1>1 DEF LoseDown, LoseUp
<1>3. lost' = lost
  <2>1. ASSUME NEW d \in Devices, Bind(d) \/ Report(d) \/ Serve(d) \/ Die(d) \/ Ask(d)
        PROVE  lost' = lost
    BY <2>1 DEF Bind, Report, Serve, Die, Ask
  <2>2. ASSUME NEW h \in Hops, Receive(h) PROVE lost' = lost
    BY <2>2 DEF Receive
  <2>3. ASSUME Sweep \/ Restart \/ Tick \/ UNCHANGED vars PROVE lost' = lost
    BY <2>3 DEF Sweep, Restart, Tick, vars
  <2> QED BY <1>2, <2>1, <2>2, <2>3 DEF Next
<1> QED BY <1>2, <1>3

LEMMA TreeInit == Init => Tree
<1> SUFFICES ASSUME Init PROVE Tree
  OBVIOUS
<1>1. /\ DOMAIN saved = {} /\ DOMAIN model = {}
      /\ \A d \in Devices : ~Bound(d)
      /\ \A h \in Hops : up[h] = <<>> /\ Len(up[h]) = 0
  BY DEF Init, NoNodes, Bound
<1>2. \A c \in Devices : ~Announced(c) /\ ~Reached(c)
  BY <1>1 DEF Announced, Reached
<1>3. \A p \in Paths : \A c \in Devices : ~Is(model, p, c)
  BY <1>1 DEF Is
<1> QED BY <1>1, <1>2, <1>3 DEF Tree, FileBelow, Drawn, Shown, NoGhost, Coming

LEMMA TreeNext ==
  ASSUME Planned
  PROVE  Typed /\ Picture /\ Tree /\ [Next]_vars => Tree'
<1> SUFFICES ASSUME Typed, Picture, Tree, [Next]_vars PROVE Tree'
  OBVIOUS
<1>1. Settled /\ FileBelow
  BY DEF Planned, Tree
<1>2. FileBelow'
  BY <1>1, FileStaysBelow
<1>3. ASSUME lost' = 0 PROVE Drawn'
  <2>1. Drawn /\ ~(\E d \in Devices : LoseDown(d)) /\ ~(\E h \in Hops : LoseUp(h))
    BY <1>3, LossCounts DEF Tree
  <2>2. CASE \E d \in Devices : Bind(d)
    BY <1>1, <2>1, <2>2, TreeBind
  <2>3. CASE \E h \in Hops : Receive(h)
    BY <1>1, <2>1, <2>3, TreeReceive
  <2>4. CASE \/ \E d \in Devices : Report(d) \/ Serve(d) \/ Die(d) \/ Ask(d)
             \/ Sweep \/ Restart \/ Tick
             \/ UNCHANGED vars
    BY <1>1, <2>1, <2>4, TreeElse
  <2> QED BY <2>1, <2>2, <2>3, <2>4 DEF Next
<1> QED BY <1>2, <1>3 DEF Tree

LEMMA TreeImplies == Typed /\ Tree => TreeIsKnown
<1> SUFFICES ASSUME Typed, Tree, lost = 0, \A h \in Hops : up[h] = <<>>
             PROVE  {<<p, model[p].mac>> : p \in DOMAIN SaveModel(model)}
                      = {<<Place(d), d>> : d \in {e \in Devices : Reached(e)}}
  BY DEF TreeIsKnown
<1>1. Drawn
  BY DEF Tree
<1>2. ASSUME NEW c \in Devices PROVE ~Announced(c)
  <2>1. \A h \in Hops : Len(up[h]) = 0
    OBVIOUS
  <2> QED BY <2>1 DEF Announced
<1>3. DOMAIN SaveModel(model) = NamedIn(model)
  BY DEF SaveModel, NamedIn
<1>4. ASSUME NEW p \in NamedIn(model)
      PROVE  /\ model[p].mac \in Devices /\ Reached(model[p].mac) /\ Place(model[p].mac) = p
  <2>1. p \in Paths /\ p \in DOMAIN model /\ model[p] \in Entry /\ model[p].mac # NoMac
    BY DEF NamedIn, Typed, Mastered, Table, Fits
  <2>2. model[p].mac \in Devices
    BY <2>1 DEF Entry
  <2> QED BY <1>1, <1>2, <2>1, <2>2 DEF Drawn, NoGhost, Is
<1>5. ASSUME NEW d \in Devices, Reached(d)
      PROVE  Place(d) \in NamedIn(model) /\ model[Place(d)].mac = d
  <2>1. Is(model, Place(d), d)
    BY <1>1, <1>2, <1>5 DEF Drawn, Shown
  <2> QED BY <2>1 DEF Is, NamedIn
<1> QED BY <1>3, <1>4, <1>5

(* If no frame was lost and none is on its way, the master knows every device *)
(* that has a path to it, at its own place and no other: whichever end of the *)
(* tree was set up first, whoever moved up it from a controller that has a    *)
(* parent, and however often the power went, between the two files' saves     *)
(* too.  It is told of whoever binds below a controller that has none once    *)
(* that one binds, because nobody leaves it before, and because the tree is   *)
(* of two levels: bound() announces children, those that left too, and nobody *)
(* below them (HAPStack::bound(), announceChild(), noteChildAttached()).      *)
THEOREM TreeIsShown ==
  ASSUME Planned
  PROVE  Spec => []TreeIsKnown
<1>0. Settled
  BY DEF Planned
<1>1. Init => Picture /\ Tree
  BY <1>0, PictureInit, TreeInit
<1>2. Typed /\ Picture /\ Tree /\ [Next]_vars => Picture' /\ Tree'
  BY <1>0, PictureNext, TreeNext
<1>3. Typed /\ Tree => TreeIsKnown
  BY TreeImplies
<1> QED BY <1>1, <1>2, <1>3, TypedAlways, PTL DEF Spec

-----------------------------------------------------------------------------
(* Who obeys is not called offline.                                           *)

\* No place is too deep, and nobody binds at one twice.
Placed ==
  /\ \A p \in Paths : Len(p) =< MaxDepth
  /\ \A d \in Devices : \A j, k \in 1..Len(Itinerary[d]) :
       Itinerary[d][j] = Itinerary[d][k] => j = k

\* Who reports by an interval reports by no longer one until it is bound again.
Shortens(old, new) == old # 0 => new # 0 /\ new =< old
Tightens == \A d \in Devices : stage'[d] = stage[d] => Shortens(every[d], every'[d])

\* Who reports every so often keeps the promise of an interval.
Keeps(interval, promise) == promise = 0 \/ (interval # 0 /\ interval =< promise)

\* A place to which a device came, and from which there is a way to the master.
Came(p, at) ==
  /\ \E d \in Devices : \E k \in 1..at[d] : Itinerary[d][k] = p
  /\ \A c \in Above(p) : at[c] > 0

\* The intervals that whoever is at a place keeps.
Promises(at, ev) ==
  {w \in Paths \X (0..Longest) :
     /\ Came(w[1], at)
     /\ \A d \in Devices : at[d] > 0 /\ Itinerary[d][at[d]] = w[1] => Keeps(ev[d], w[2])}

\* What is known of any place is a promise that is kept.
Holds(nodes, P)     == \A p \in DOMAIN nodes : <<p, nodes[p].interval>> \in P
HoldsBelow(table, P) == \A i \in DOMAIN table : <<<<i>>, table[i].interval>> \in P

\* The place a frame tells of, and the interval that it tells.
PathOf(f) == IF f.kind = "attached" THEN Append(f.src, f.attached.childIndex) ELSE f.src
Tells(f) ==
  CASE f.kind = "attached" -> f.attached.interval
    [] f.kind = "describe" -> f.interval
    [] f.kind = "policy"   -> IF f.answer.ok THEN f.answer.interval ELSE 0
    [] OTHER               -> 0

InTheAir == UNION {{up[h][n] : n \in 1..Len(up[h])} : h \in Hops}

Promising ==
  LET P == Promises(stage, every) IN
  /\ Holds(model, P) /\ Holds(saved, P) /\ HoldsBelow(children, P)
  /\ \A f \in InTheAir : <<PathOf(f), Tells(f)>> \in P
  /\ \A d \in Devices : Keeps(every[d], Own[d])

\* A report of a device is on its way.
Telling(d) == \E f \in InTheAir : f.kind = "report" /\ f.src = Place(d)

\* An entry's silence is that of the reports which were lost since it was last
\* heard of, and of the one that is on its way or not yet due.
Upto(s, interval) == IF s = Never THEN 0 ELSE IF s < interval THEN s ELSE interval
Explained(e, m, s, telling) ==
  /\ e.silence =< (m + 1) * e.interval
  /\ telling \/ e.silence =< m * e.interval + Upto(s, e.interval)
  /\ e.online \/ m + 1 >= OfflineIntervals

Presence ==
  /\ Promising
  /\ \A d \in alive : Bound(d) /\ Place(d) \in DOMAIN model =>
       Explained(model[Place(d)], missed[d], since[d], Telling(d))

-----------------------------------------------------------------------------
\* What is multiplied.
LEMMA Times ==
  ASSUME NEW m \in Nat, NEW i \in Nat
  PROVE  m * i \in Nat /\ (m + 1) * i = m * i + i /\ (m + 1) * i \in Nat
  OBVIOUS

LEMMA Divides ==
  ASSUME NEW i \in Nat, i # 0, NEW m \in Nat, NEW n \in Nat, i * n =< m * i
  PROVE  n =< m
<1> SUFFICES ASSUME ~(n =< m) PROVE FALSE
  OBVIOUS
<1>1. PICK k \in Nat : n = m + 1 + k
  <2>1. n - (m + 1) \in Nat /\ n = m + 1 + (n - (m + 1))
    OBVIOUS
  <2> QED BY <2>1
<1>2. i * n = m * i + i + k * i
  BY <1>1
<1>3. k * i \in Nat /\ m * i \in Nat
  OBVIOUS
<1> QED BY <1>2, <1>3

LEMMA UptoType ==
  ASSUME NEW s \in 0..Never, NEW i \in 0..Longest
  PROVE  Upto(s, i) \in 0..i
  BY DEF Upto, Never

\* An entry just heard of; one whose report sets out; one whose report is lost.
LEMMA NewExplained ==
  ASSUME NEW e \in Entry, e.silence = 0, e.online = TRUE,
         NEW m \in Nat, NEW s \in 0..Never, NEW t
  PROVE  Explained(e, m, s, t)
<1> DEFINE i == e.interval
<1>1. i \in 0..Longest
  BY DEF Entry
<1> HIDE DEF i
<1>2. Upto(s, i) \in Nat
  BY <1>1, UptoType
<1>3. m * i \in Nat /\ (m + 1) * i \in Nat
  BY <1>1, Times
<1> QED BY <1>2, <1>3 DEF Explained, i

LEMMA StillExplained ==
  ASSUME NEW e, NEW m, NEW s, NEW t, Explained(e, m, s, t), NEW u, t => u
  PROVE  Explained(e, m, s, u)
  BY DEF Explained

LEMMA SentExplained ==
  ASSUME NEW e, NEW m, NEW s, NEW t, Explained(e, m, s, t), NEW r
  PROVE  Explained(e, m, r, TRUE)
  BY DEF Explained

LEMMA LostExplained ==
  ASSUME NEW e \in Entry, NEW m \in Nat, NEW s \in 0..Never, NEW t, Explained(e, m, s, t), NEW u
  PROVE  Explained(e, m + 1, s, u)
<1> DEFINE i == e.interval
           a == m * i
           x == e.silence
<1>1. i \in 0..Longest /\ x \in Int
  BY DEF Entry
<1> HIDE DEF i
<1>2. Upto(s, i) \in Nat
  BY <1>1, UptoType
<1>3. a \in Nat /\ (m + 1) * i = a + i /\ ((m + 1) + 1) * i = (m + 1) * i + i
  BY <1>1, Times
<1>4. x =< (m + 1) * i /\ (e.online \/ m + 1 >= OfflineIntervals)
  BY DEF Explained, i
<1> HIDE DEF a, x
<1>5. x =< ((m + 1) + 1) * i /\ x =< (m + 1) * i + Upto(s, i)
  BY <1>1, <1>2, <1>3, <1>4
<1>6. e.online \/ (m + 1) + 1 >= OfflineIntervals
  BY <1>4
<1> QED BY <1>5, <1>6 DEF Explained, i, x

\* A unit of time: the report is not due yet.
LEMMA AgedExplained ==
  ASSUME NEW e \in Entry, NEW m \in Nat, NEW s \in 0..Never, Explained(e, m, s, FALSE),
         e.interval # 0 => s # Never /\ s < e.interval,
         NEW r, r = IF s < Longest THEN s + 1 ELSE s,
         NEW f, f = IF e.silence < e.interval * OfflineIntervals
                      THEN [e EXCEPT !.silence = @ + 1] ELSE e
  PROVE  Explained(f, m, r, FALSE)
<1> DEFINE i == e.interval
           x == e.silence
           a == m * i
<1>1. i \in 0..Longest /\ x \in Nat
  BY ZeroTypes DEF Entry
<1>2. f.interval = i /\ f.online = e.online /\ (f.silence = x \/ f.silence = x + 1)
  BY DEF Entry
<1>3. x =< a + Upto(s, i) /\ (e.online \/ m + 1 >= OfflineIntervals)
  BY DEF Explained
<1>4. a \in Nat /\ (m + 1) * i = a + i
  <2> HIDE DEF i
  <2>1. i \in Nat
    BY <1>1
  <2> QED BY <2>1, Times
<1>5. CASE i = 0
  <2>1. f = e
    <3>1. i * OfflineIntervals = 0
      BY <1>5
    <3>2. ~(x < i * OfflineIntervals)
      BY <1>1, <3>1
    <3> QED BY <3>2
  <2>2. Upto(s, i) = 0 /\ Upto(r, i) = 0
    BY <1>5 DEF Upto, Never
  <2> QED BY <2>1, <2>2 DEF Explained
<1>6. CASE i # 0
  <2>1. s # Never /\ s < i /\ s < Longest /\ r = s + 1 /\ s \in Nat
    BY <1>1, <1>6 DEF Never
  <2>2. Upto(s, i) = s /\ Upto(r, i) = s + 1
    BY SMTT(60), <1>1, <2>1 DEF Upto, Never
  <2> HIDE DEF a, i, x
  <2>3. f.silence =< a + (s + 1) /\ f.silence =< a + i
    BY SMTT(30), <1>1, <1>2, <1>3, <1>4, <2>1, <2>2
  <2>4. f.silence =< (m + 1) * i /\ f.silence =< a + Upto(r, i)
    BY <1>4, <2>2, <2>3
  <2> QED BY <1>2, <1>3, <2>4 DEF Explained, a
<1> QED BY <1>5, <1>6

\* The verdict: as many reports were lost as fit in the silence, or all but one.
LEMMA SweptExplained ==
  ASSUME NEW e \in Entry, NEW m \in Nat, NEW s, NEW t, Explained(e, m, s, t),
         NEW f, f = IF e.interval # 0 /\ e.silence >= e.interval * OfflineIntervals
                      THEN [e EXCEPT !.online = FALSE] ELSE e
  PROVE  Explained(f, m, s, t)
<1> DEFINE i == e.interval
           x == e.silence
<1>1. i \in 0..Longest /\ x \in Nat /\ x =< (m + 1) * i
  BY ZeroTypes DEF Entry, Explained
<1>2. CASE f = e
  BY <1>2
<1>3. CASE i # 0 /\ x >= i * OfflineIntervals /\ f = [e EXCEPT !.online = FALSE]
  <2>1. f.interval = i /\ f.silence = x
    BY <1>3 DEF Entry
  <2>2. i * OfflineIntervals \in Nat /\ (m + 1) * i \in Nat
    <3> HIDE DEF i
    <3>1. i \in Nat
      BY <1>1
    <3> QED BY <3>1, Times
  <2>3. i * OfflineIntervals =< (m + 1) * i
    <3> HIDE DEF i, x
    <3> QED BY <1>1, <1>3, <2>2
  <2>4. OfflineIntervals =< m + 1
    BY <1>1, <1>3, <2>3, Divides
  <2> QED BY <2>1, <2>4 DEF Explained
<1> QED BY <1>2, <1>3
-----------------------------------------------------------------------------
\* What a message from a place does: its entry is as new, with one of the intervals
\* S, and no other is touched, though some may go.
Hears(n, t, p, S) ==
  \A q \in DOMAIN t :
    IF q = p THEN t[q].silence = 0 /\ t[q].online = TRUE /\ t[q].interval \in S
             ELSE q \in DOMAIN n /\ t[q] = n[q]

Noted(n, p) == {0} \cup {n[q].interval : q \in DOMAIN n \cap {p}}

LEMMA TouchHears ==
  ASSUME NEW n, Table(n), NEW p
  PROVE  Hears(n, Touch(n, p), p, Noted(n, p))
<1>1. CASE p \in DOMAIN n
  <2> DEFINE t == [n EXCEPT ![p] = Heard(@)]
  <2>1. n[p] \in Entry
    BY <1>1 DEF Table
  <2>2. /\ Heard(n[p]).silence = 0 /\ Heard(n[p]).online = TRUE
        /\ Heard(n[p]).interval = n[p].interval
    BY <2>1 DEF Entry, Heard
  <2>3. DOMAIN t = DOMAIN n /\ t[p] = Heard(n[p]) /\ \A q \in DOMAIN n \ {p} : t[q] = n[q]
    BY <1>1 DEF Table
  <2>4. Touch(n, p) = t /\ n[p].interval \in Noted(n, p)
    BY <1>1 DEF Touch, Noted
  <2> HIDE DEF t
  <2> QED BY <2>2, <2>3, <2>4 DEF Hears
<1>2. CASE p \notin DOMAIN n /\ Cardinality(DOMAIN n) >= MaxNodes
  BY <1>2 DEF Touch, Hears
<1>3. CASE p \notin DOMAIN n /\ ~(Cardinality(DOMAIN n) >= MaxNodes)
  <2> DEFINE t == [q \in DOMAIN n \cup {p} |-> IF q = p THEN Fresh ELSE n[q]]
  <2>1. Touch(n, p) = t
    BY <1>3 DEF Touch
  <2>2. DOMAIN t = DOMAIN n \cup {p} /\ t[p] = Fresh /\ \A q \in DOMAIN n \ {p} : t[q] = n[q]
    OBVIOUS
  <2>3. Fresh.silence = 0 /\ Fresh.online = TRUE /\ Fresh.interval \in Noted(n, p)
    BY DEF Fresh, Noted
  <2> HIDE DEF t
  <2> QED BY <2>1, <2>2, <2>3 DEF Hears
<1> QED BY <1>1, <1>2, <1>3

LEMMA IntervalHears ==
  ASSUME NEW n, NEW t, NEW p, NEW S, Hears(n, t, p, S), Table(t), NEW x
  PROVE  Hears(n, SetInterval(t, p, x), p, {x})
<1> DEFINE u == SetInterval(t, p, x)
<1>1. DOMAIN u = DOMAIN t /\ \A q \in DOMAIN t :
        u[q] = IF q = p THEN [t[q] EXCEPT !.interval = x] ELSE t[q]
  BY DEF SetInterval
<1> HIDE DEF u
<1>2. ASSUME NEW q \in DOMAIN u, q = p
      PROVE  u[q].silence = 0 /\ u[q].online = TRUE /\ u[q].interval = x
  <2>1. t[q] \in Entry /\ t[q].silence = 0 /\ t[q].online = TRUE
    BY <1>1, <1>2 DEF Table, Hears
  <2>2. u[q] = [t[q] EXCEPT !.interval = x]
    BY <1>1, <1>2
  <2> QED BY ONLY <2>1, <2>2 DEF Entry
<1>3. \A q \in DOMAIN u : q # p => q \in DOMAIN n /\ u[q] = n[q]
  BY <1>1 DEF Hears
<1> QED BY <1>2, <1>3 DEF Hears, u

LEMMA MacHears ==
  ASSUME NEW n, NEW t, NEW p, NEW S, Hears(n, t, p, S), Table(t), NEW x
  PROVE  Hears(n, SetMac(t, p, x), p, S)
<1> DEFINE u == SetMac(t, p, x)
<1>1. DOMAIN u = DOMAIN t /\ \A q \in DOMAIN t :
        u[q] = IF q = p THEN [t[q] EXCEPT !.mac = x] ELSE t[q]
  BY DEF SetMac
<1> HIDE DEF u
<1>2. ASSUME NEW q \in DOMAIN u, q = p
      PROVE  u[q].silence = 0 /\ u[q].online = TRUE /\ u[q].interval \in S
  <2>1. /\ t[q] \in Entry /\ t[q].silence = 0 /\ t[q].online = TRUE
        /\ t[q].interval \in S
    BY <1>1, <1>2 DEF Table, Hears
  <2>2. u[q] = [t[q] EXCEPT !.mac = x]
    BY <1>1, <1>2
  <2> QED BY ONLY <2>1, <2>2 DEF Entry
<1>3. \A q \in DOMAIN u : q # p => q \in DOMAIN n /\ u[q] = n[q]
  BY <1>1 DEF Hears
<1> QED BY <1>2, <1>3 DEF Hears, u

LEMMA AttachedHears ==
  ASSUME NEW n, Table(n), NEW parentPath, NEW a, a.mac \in Devices, a.interval \in 0..Longest,
         Append(parentPath, a.childIndex) \in Paths,
         ~(Len(Append(parentPath, a.childIndex)) > MaxDepth)
  PROVE  Hears(n, NoteChildAttached(n, parentPath, a), Append(parentPath, a.childIndex),
               {a.interval})
<1> DEFINE p == Append(parentPath, a.childIndex)
           f == Forget(n, FindByMac(n, a.mac) \ {p})
           t == Touch(f, p)
           m == SetMac(t, p, a.mac)
           u == SetInterval(m, p, a.interval)
<1>1. NoteChildAttached(n, parentPath, a) = u
  BY DEF NoteChildAttached, Named
<1>2. p \in Paths
  OBVIOUS
<1> HIDE DEF p
<1>3. Table(f) /\ \A q \in DOMAIN f : q \in DOMAIN n /\ f[q] = n[q]
  BY ForgetKeeps DEF Forget
<1> HIDE DEF f
<1>4. Table(t) /\ Hears(f, t, p, Noted(f, p))
  BY <1>2, <1>3, TouchKeeps, TouchHears
<1> HIDE DEF t
<1>5. Table(m) /\ Hears(f, m, p, Noted(f, p))
  BY <1>4, MacKeeps, MacHears
<1> HIDE DEF m
<1>6. Hears(f, u, p, {a.interval})
  BY <1>5, IntervalHears
<1> HIDE DEF u
<1>7. Hears(n, u, p, {a.interval})
  BY <1>3, <1>6 DEF Hears
<1> QED BY <1>1, <1>7 DEF p

LEMMA HoldsHears ==
  ASSUME NEW n, NEW t, NEW p, NEW S, Hears(n, t, p, S), NEW P, Holds(n, P),
         \A x \in S : <<p, x>> \in P
  PROVE  Holds(t, P)
  BY DEF Holds, Hears

LEMMA NotedHolds ==
  ASSUME NEW n, NEW P, Holds(n, P), NEW p, <<p, 0>> \in P
  PROVE  \A x \in Noted(n, p) : <<p, x>> \in P
  BY DEF Holds, Noted

LEMMA SavedHolds ==
  ASSUME NEW n, NEW P, Holds(n, P)
  PROVE  Holds(SaveModel(n), P)
  BY DEF Holds, SaveModel

-----------------------------------------------------------------------------
\* A restart: everyone is as new.
Anew(n, P) ==
  Holds(n, P) /\ \A p \in DOMAIN n : n[p].silence = 0 /\ n[p].online = TRUE

LEMMA RebuiltAnew ==
  ASSUME Placed, NEW table, Known(table), NEW file, Kept(file),
         NEW P, HoldsBelow(table, P), Holds(file, P)
  PROVE  Anew(Rebuilt(table, file), P)
<1> DEFINE All == {n \in Tables : Anew(n, P)}
           S == [s \in SUBSET (DOMAIN table) |-> All]
           nodes == Seeded(table, file)
<1>1. LoadModel(file) \in S[{}]
  <2> DEFINE t == LoadModel(file)
  <2>1. DOMAIN t = DOMAIN file
        /\ \A p \in DOMAIN file :
             t[p] = [Fresh EXCEPT !.mac = file[p].mac, !.interval = file[p].interval]
    BY DEF LoadModel
  <2>3. t \in Tables
    BY LoadKeeps, InTables
  <2> HIDE DEF t
  <2>2. ASSUME NEW p \in DOMAIN t
        PROVE  t[p].silence = 0 /\ t[p].online = TRUE /\ t[p].interval = file[p].interval
    <3>1. t[p] = [Fresh EXCEPT !.mac = file[p].mac, !.interval = file[p].interval]
      BY <2>1
    <3> QED BY ONLY <3>1 DEF Fresh
  <2>4. Holds(t, P)
    BY <2>1, <2>2 DEF Holds
  <2>5. Anew(t, P)
    BY <2>2, <2>4 DEF Anew
  <2>6. t \in All
    BY <2>3, <2>5
  <2> QED BY <2>6 DEF t
<1>2. ASSUME NEW s \in SUBSET (DOMAIN table), NEW i \in s, NEW n \in S[s \ {i}]
      PROVE  SeedOne(table, n, i) \in S[s]
  <2>1. s \ {i} \in SUBSET (DOMAIN table) /\ i \in DOMAIN table
    OBVIOUS
  <2>2. n \in Tables /\ Anew(n, P)
    BY <2>1
  <2>3. Table(n) /\ Once(n)
    BY <2>2, InTables
  <2>4. SeedOne(table, n, i) \in Tables
    BY <2>1, <2>3, SeedKeeps, InTables
  <2> DEFINE a == [childIndex |-> i, mac |-> table[i].mac, interval |-> table[i].interval]
  <2>5. i \in Nat /\ <<i>> \in Paths /\ table[i] \in Pair
    BY <2>1 DEF Known
  <2>6. /\ a.mac \in Devices /\ a.interval \in 0..Longest
        /\ Append(<<>>, a.childIndex) = <<i>> /\ ~(Len(<<i>>) > MaxDepth)
        /\ a.interval = table[i].interval
    BY <2>5, ChildPath DEF Pair
  <2>7. Hears(n, SeedOne(table, n, i), <<i>>, {a.interval})
    <3>1. SeedOne(table, n, i) = NoteChildAttached(n, <<>>, a)
      BY DEF SeedOne
    <3> HIDE DEF a
    <3>2. Append(<<>>, a.childIndex) \in Paths
          /\ ~(Len(Append(<<>>, a.childIndex)) > MaxDepth)
      BY <2>5, <2>6
    <3>3. Hears(n, NoteChildAttached(n, <<>>, a), Append(<<>>, a.childIndex), {a.interval})
      BY ONLY <2>3, <2>6, <3>2, AttachedHears
    <3> QED BY <2>6, <3>1, <3>3
  <2>8. <<<<i>>, a.interval>> \in P
    BY <2>1, <2>6 DEF HoldsBelow
  <2> HIDE DEF a
  <2>9. Holds(SeedOne(table, n, i), P)
    <3>1. Holds(n, P)
      BY <2>2 DEF Anew
    <3> QED BY <2>7, <2>8, <3>1, HoldsHears
  <2>10. Anew(SeedOne(table, n, i), P)
    BY <2>2, <2>7, <2>9 DEF Anew, Hears
  <2> QED BY <2>4, <2>10
<1>3. IsFiniteSet(DOMAIN table)
  BY DEF Known
<1> HIDE DEF S
<1>4. nodes \in S[DOMAIN table]
  BY <1>1, <1>2, <1>3, SeededBy
<1>5. Anew(nodes, P)
  BY <1>4 DEF S
<1> HIDE DEF nodes
<1>6. Rebuilt(table, file) = Forget(nodes, Orphans(table, nodes))
  BY DEF Rebuilt, nodes
<1> QED BY <1>5, <1>6 DEF Anew, Holds, Forget

LEMMA BootAnew ==
  ASSUME Placed, Mastered, NEW table, Known(table), NEW P, HoldsBelow(table, P), Holds(saved, P),
         Boot(table, saved)
  PROVE  /\ Anew(model', P) /\ Holds(saved', P) /\ HoldsBelow(children', P)
<1>1. Anew(Rebuilt(table, saved), P)
  BY RebuiltAnew DEF Mastered
<1>2. /\ children' = table /\ model' = Rebuilt(table, saved)
      /\ saved' = saved \/ saved' = SaveModel(Rebuilt(table, saved))
  BY DEF Boot
<1>3. Holds(saved', P)
  BY <1>1, <1>2, SavedHolds DEF Anew
<1> QED BY <1>1, <1>2, <1>3

\* What the master adopts of a place, or a restart instead.
Learns(p, P, table, nodes, S, file) ==
  /\ Known(table) /\ HoldsBelow(table, P)
  /\ Hears(model, nodes, p, S) /\ \A x \in S : <<p, x>> \in P
  /\ file \in {saved, SaveModel(nodes)}
  /\ Adopt(table, nodes, file, At(p))

LEMMA AdoptHears ==
  ASSUME Placed, Mastered, NEW P, Holds(model, P), Holds(saved, P), NEW p,
         NEW table, NEW nodes, NEW S, NEW file, Learns(p, P, table, nodes, S, file)
  PROVE  /\ Holds(model', P) /\ Holds(saved', P) /\ HoldsBelow(children', P)
         /\ \A q \in DOMAIN model' :
              \/ model'[q].silence = 0 /\ model'[q].online = TRUE
              \/ /\ q # p /\ q \in DOMAIN model /\ model'[q] = model[q]
                 /\ \A d \in Devices \ At(p) : missed'[d] = missed[d]
<1> USE DEF Learns
<1>1. Holds(nodes, P)
  BY HoldsHears
<1>2. CASE /\ children' = table /\ model' = nodes /\ saved' = file
           /\ missed' = [d \in Devices |-> IF d \in At(p) THEN 0 ELSE missed[d]]
  <2>1. Holds(saved', P)
    BY <1>1, <1>2, SavedHolds
  <2> QED BY <1>1, <1>2, <2>1 DEF Hears
<1>3. CASE Boot(table, saved)
  BY <1>3, BootAnew DEF Anew
<1> QED BY <1>2, <1>3 DEF Adopt

-----------------------------------------------------------------------------
\* The promises of a place that is come to.
LEMMA PromiseMade ==
  ASSUME Placed, NEW at, NEW ev, NEW d \in Devices, NEW k \in 1..Len(Itinerary[d]),
         at \in [Devices -> Nat], \A e \in Devices : at[e] =< Len(Itinerary[e]),
         k =< at[d], \A c \in Above(Itinerary[d][k]) : at[c] > 0,
         NEW x \in 0..Longest, Keeps(ev[d], x)
  PROVE  <<Itinerary[d][k], x>> \in Promises(at, ev)
<1> DEFINE p == Itinerary[d][k]
<1>1. p \in Paths /\ Len(Itinerary[d]) \in Nat
  BY StopType
<1>2. k \in 1..at[d] /\ Itinerary[d][k] = p
  BY <1>1
<1>3. ASSUME NEW e \in Devices, at[e] > 0, Itinerary[e][at[e]] = p PROVE Keeps(ev[e], x)
  <2>1. at[e] \in 1..Len(Itinerary[e])
    BY <1>3
  <2>2. e = d
    BY <1>3, <2>1, StopOnce
  <2> QED BY <2>2
<1> HIDE DEF p
<1>4. Came(p, at)
  BY <1>2 DEF Came, p
<1> QED BY <1>1, <1>3, <1>4 DEF Promises, p

LEMMA KeepsOn ==
  ASSUME NEW a \in 0..Longest, NEW b \in 0..Longest, NEW x \in 0..Longest,
         Shortens(a, b), Keeps(a, x)
  PROVE  Keeps(b, x)
  BY DEF Keeps, Shortens

\* Devices go on, to places that nobody was at, and keep what they promised.
LEMMA PromisesStay ==
  ASSUME Placed, NEW at, NEW ev, NEW next, NEW new,
         at \in [Devices -> Nat], next \in [Devices -> Nat],
         ev \in [Devices -> 0..Longest], new \in [Devices -> 0..Longest],
         \A d \in Devices : /\ next[d] =< Len(Itinerary[d]) /\ at[d] =< next[d]
                            /\ at[d] = next[d] => Shortens(ev[d], new[d])
  PROVE  Promises(at, ev) \subseteq Promises(next, new)
<1> SUFFICES ASSUME NEW p \in Paths, NEW x \in 0..Longest, <<p, x>> \in Promises(at, ev)
             PROVE  <<p, x>> \in Promises(next, new)
  BY ZenonT(60) DEF Promises
<1>1. /\ Came(p, at)
      /\ \A d \in Devices : at[d] > 0 /\ Itinerary[d][at[d]] = p => Keeps(ev[d], x)
  BY DEF Promises
<1>2. PICK e \in Devices : \E k \in 1..at[e] : Itinerary[e][k] = p
  BY <1>1 DEF Came
<1>3. PICK k \in 1..at[e] : Itinerary[e][k] = p
  BY <1>2
<1>4. k \in 1..next[e] /\ k \in 1..Len(Itinerary[e]) /\ k =< at[e]
  <2>1. Len(Itinerary[e]) \in Nat
    BY LenProperties
  <2>2. /\ at[e] \in Nat /\ next[e] \in Nat
        /\ at[e] =< next[e] /\ next[e] =< Len(Itinerary[e])
    OBVIOUS
  <2>3. k \in Nat /\ 1 =< k /\ k =< at[e]
    BY <2>2
  <2> QED BY ONLY <2>1, <2>2, <2>3
<1>5. Came(p, next)
  <2>1. ASSUME NEW c \in Above(p) PROVE next[c] > 0
    <3>1. c \in Devices /\ at[c] > 0
      BY <1>1 DEF Came, Above
    <3> QED BY SMTT(60), <3>1
  <2> QED BY <1>3, <1>4, <2>1 DEF Came
<1>6. ASSUME NEW d \in Devices, next[d] > 0, Itinerary[d][next[d]] = p PROVE Keeps(new[d], x)
  <2>1. next[d] \in 1..Len(Itinerary[d])
    <3>1. Len(Itinerary[d]) \in Nat
      BY LenProperties
    <3> QED BY SMTT(60), <1>6, <3>1
  <2>2. e = d
    BY <1>3, <1>4, <1>6, <2>1, StopOnce
  <2>3. k = next[d]
    BY <1>3, <1>4, <1>6, <2>1, <2>2 DEF Placed
  <2>4. at[d] = next[d]
    BY <1>3, <1>4, <2>2, <2>3
  <2>5. Keeps(ev[d], x)
    BY <1>1, <1>6, <2>4
  <2> QED BY <2>4, <2>5, KeepsOn
<1> QED BY <1>5, <1>6 DEF Promises

\* What is said of a place that somebody is at, or was, comes from who is reached.
LEMMA CameReached ==
  ASSUME NEW d \in Devices, Bound(d), NEW x, <<Place(d), x>> \in Promises(stage, every)
  PROVE  Reached(d) /\ Keeps(every[d], x)
  BY DEF Promises, Came, Reached, Bound, Place

LEMMA ReachedPromise ==
  ASSUME Placed, Staged, NEW d \in Devices, Reached(d), NEW ev, NEW x \in 0..Longest,
         Keeps(ev[d], x)
  PROVE  <<Place(d), x>> \in Promises(stage, ev)
<1>1. Bound(d) /\ stage[d] \in 1..Len(Itinerary[d]) /\ Place(d) = Itinerary[d][stage[d]]
  BY PlaceType DEF Reached, Place
<1>2. \A c \in Above(Itinerary[d][stage[d]]) : stage[c] > 0
  BY <1>1 DEF Reached, Bound
<1>3. /\ stage \in [Devices -> Nat] /\ \A e \in Devices : stage[e] =< Len(Itinerary[e])
      /\ stage[d] =< stage[d]
  BY DEF Staged
<1> QED BY <1>1, <1>2, <1>3, PromiseMade

-----------------------------------------------------------------------------
\* Frames in the air: one more, one less.
LEMMA AirSent ==
  ASSUME Flying, NEW p \in Paths, NEW f, up' = Sent(up, p, f)
  PROVE  InTheAir' = InTheAir \cup {f}
<1>1. p[1] \in Hops
  BY PathType
<1> DEFINE old == up[p[1]]
           new == Append(old, f)
<1>2. old \in Seq(Frames)
  BY <1>1 DEF Flying
<1>3. /\ up'[p[1]] = new /\ \A i \in Hops \ {p[1]} : up'[i] = up[i]
  BY <1>1 DEF Flying, Sent
<1>4. /\ Len(old) \in Nat /\ Len(new) = Len(old) + 1
      /\ \A n \in 1..Len(old) : new[n] = old[n]
      /\ new[Len(old) + 1] = f
  BY <1>2
<1> HIDE DEF old, new
<1>5. /\ \A n \in 1..Len(new) : n \in 1..Len(old) \/ n = Len(old) + 1
      /\ \A n \in 1..Len(old) : n \in 1..Len(new)
      /\ Len(old) + 1 \in 1..Len(new)
  BY <1>4
<1>6. ASSUME NEW i \in Hops, NEW n \in 1..Len(up'[i]) PROVE up'[i][n] \in InTheAir \cup {f}
  <2>1. CASE i = p[1]
    <3>1. n \in 1..Len(new) /\ up'[i][n] = new[n]
      BY <1>3, <1>6, <2>1
    <3>2. CASE n = Len(old) + 1
      BY <1>4, <3>1, <3>2
    <3>3. CASE n \in 1..Len(old)
      <4>1. new[n] = up[p[1]][n] /\ n \in 1..Len(up[p[1]])
        BY <1>4, <3>3 DEF old
      <4>2. new[n] \in InTheAir
        BY <1>1, <4>1 DEF InTheAir
      <4> QED BY <3>1, <4>2
    <3> QED BY <1>5, <3>1, <3>2, <3>3
  <2>2. CASE i # p[1]
    BY <1>3, <1>6, <2>2 DEF InTheAir
  <2> QED BY <2>1, <2>2
<1>7. ASSUME NEW i \in Hops, NEW n \in 1..Len(up[i]) PROVE up[i][n] \in InTheAir'
  <2>1. CASE i = p[1]
    <3>1. n \in 1..Len(old) /\ up[i][n] = old[n]
      BY <1>7, <2>1 DEF old
    <3>2. n \in 1..Len(up'[i]) /\ up'[i][n] = up[i][n]
      BY <1>3, <1>4, <1>5, <2>1, <3>1
    <3> QED BY <3>2 DEF InTheAir
  <2>2. CASE i # p[1]
    <3>1. n \in 1..Len(up'[i]) /\ up'[i][n] = up[i][n]
      BY <1>3, <1>7, <2>2
    <3> QED BY <3>1 DEF InTheAir
  <2> QED BY <2>1, <2>2
<1>8. f \in InTheAir'
  BY <1>1, <1>3, <1>4, <1>5 DEF InTheAir
<1>9. InTheAir' \subseteq InTheAir \cup {f}
  BY <1>6 DEF InTheAir
<1>10. InTheAir \subseteq InTheAir'
  <2>1. ASSUME NEW g \in InTheAir PROVE g \in InTheAir'
    <3>1. PICK i \in Hops : \E n \in 1..Len(up[i]) : g = up[i][n]
      BY <2>1 DEF InTheAir
    <3> QED BY <1>7, <3>1
  <2> QED BY <2>1
<1> QED BY <1>8, <1>9, <1>10

LEMMA AirTaken ==
  ASSUME Flying, NEW h \in Hops, up[h] # <<>>, up' = [up EXCEPT ![h] = Tail(@)]
  PROVE  /\ Head(up[h]) \in InTheAir /\ InTheAir' \subseteq InTheAir
         /\ InTheAir \subseteq InTheAir' \cup {Head(up[h])}
<1> DEFINE old == up[h]
           new == Tail(old)
<1>1. old \in Seq(Frames) /\ old # <<>>
  BY DEF Flying
<1>2. up'[h] = new /\ \A i \in Hops \ {h} : up'[i] = up[i]
  BY DEF Flying
<1>3. /\ Len(old) \in Nat \ {0} /\ Len(new) = Len(old) - 1 /\ Head(old) = old[1]
      /\ \A n \in 1..Len(old) - 1 : new[n] = old[n + 1]
  BY <1>1
<1> HIDE DEF old, new
<1>4. 1 \in 1..Len(old)
  BY <1>3
<1>5. ASSUME NEW n \in 1..Len(new) PROVE n + 1 \in 1..Len(old) /\ new[n] = old[n + 1]
  BY <1>3
<1>6. ASSUME NEW n \in 1..Len(old), n # 1 PROVE n - 1 \in 1..Len(new) /\ new[n - 1] = old[n]
  <2>1. n - 1 \in 1..Len(old) - 1 /\ (n - 1) + 1 = n
    BY <1>3, <1>6
  <2> QED BY <1>3, <2>1
<1>7. Head(old) \in InTheAir
  BY <1>3, <1>4 DEF InTheAir, old
<1>a. \A g : g \in InTheAir' <=> \E i \in Hops : \E n \in 1..Len(up'[i]) : g = up'[i][n]
  BY DEF InTheAir
<1>8. ASSUME NEW g \in InTheAir' PROVE g \in InTheAir
  <2>1. PICK i \in Hops : \E n \in 1..Len(up'[i]) : g = up'[i][n]
    BY <1>8 DEF InTheAir
  <2>2. CASE i = h
    <3>1. PICK n \in 1..Len(new) : g = new[n]
      BY <1>2, <2>1, <2>2
    <3> QED BY <1>5, <2>2, <3>1 DEF InTheAir, old
  <2>3. CASE i # h
    BY <1>2, <2>1, <2>3 DEF InTheAir
  <2> QED BY <2>2, <2>3
<1>9. ASSUME NEW g \in InTheAir PROVE g \in InTheAir' \cup {Head(old)}
  <2>1. PICK i \in Hops : \E n \in 1..Len(up[i]) : g = up[i][n]
    BY <1>9 DEF InTheAir
  <2>2. CASE i = h
    <3>1. PICK n \in 1..Len(old) : g = old[n]
      BY <2>1, <2>2 DEF old
    <3>2. CASE n = 1
      BY <1>3, <3>1, <3>2
    <3>3. CASE n # 1
      <4>1. n - 1 \in 1..Len(up'[h]) /\ up'[h][n - 1] = g
        BY <1>2, <1>6, <3>1, <3>3
      <4> QED BY <1>a, <4>1
    <3> QED BY <3>2, <3>3
  <2>3. CASE i # h
    <3>1. \E n \in 1..Len(up'[i]) : g = up'[i][n]
      BY <1>2, <2>1, <2>3
    <3> QED BY <1>a, <3>1
  <2> QED BY <2>2, <2>3
<1> QED BY <1>7, <1>8, <1>9 DEF old

LEMMA AirStill ==
  ASSUME UNCHANGED up
  PROVE  InTheAir' = InTheAir
  BY DEF InTheAir

LEMMA AirEmpty ==
  ASSUME Silent
  PROVE  InTheAir = {}
<1>1. \A h \in Hops : Len(up[h]) = 0
  BY DEF Silent
<1> QED BY <1>1 DEF InTheAir

\* What a frame is about.
LEMMA FrameSays ==
  ASSUME NEW f \in Frames
  PROVE  /\ PathOf(f) \in Paths /\ Tells(f) \in 0..Longest
         /\ f.kind \in {"report", "describe", "policy", "attached"}
         /\ f.kind = "report" => PathOf(f) = f.src /\ Tells(f) = 0
         /\ f.kind = "describe" => PathOf(f) = f.src /\ Tells(f) = f.interval
         /\ f.kind = "policy" => /\ PathOf(f) = f.src
                                 /\ Tells(f) = IF f.answer.ok THEN f.answer.interval ELSE 0
         /\ f.kind = "attached" => /\ PathOf(f) = Append(f.src, f.attached.childIndex)
                                   /\ Tells(f) = f.attached.interval
<1>1. CASE f \in [kind : {"report"}, src : Paths]
  BY <1>1 DEF PathOf, Tells
<1>2. CASE f \in [kind : {"describe"}, src : Paths, interval : 0..Longest]
  BY <1>2 DEF PathOf, Tells
<1>3. CASE f \in [kind : {"policy"}, src : Paths,
                  answer : [ok : BOOLEAN, interval : 0..Longest]]
  BY <1>3 DEF PathOf, Tells
<1>4. CASE f \in [kind : {"attached"}, src : Seq(Nat),
                  attached : [childIndex : Nat, mac : Devices, interval : 0..Longest]]
           /\ Append(f.src, f.attached.childIndex) \in Paths
  BY <1>4 DEF PathOf, Tells
<1> QED BY <1>1, <1>2, <1>3, <1>4 DEF Frames

-----------------------------------------------------------------------------
\* Step by step.
LEMMA PresenceInit == Init => Presence
<1> SUFFICES ASSUME Init PROVE Presence
  OBVIOUS
<1>1. /\ DOMAIN model = {} /\ DOMAIN saved = {} /\ DOMAIN children = {} /\ every = Own
      /\ \A d \in Devices : ~Bound(d)
      /\ \A h \in Hops : up[h] = <<>>
  BY DEF Init, NoNodes, Bound
<1>2. InTheAir = {}
  <2>1. \A h \in Hops : Len(up[h]) = 0
    BY <1>1
  <2> QED BY <2>1 DEF InTheAir
<1>3. \A d \in Devices : Keeps(every[d], Own[d])
  BY <1>1 DEF Keeps
<1>4. alive = Devices
  BY DEF Init
<1> QED BY <1>1, <1>2, <1>3, <1>4 DEF Presence, Promising, Holds, HoldsBelow

LEMMA PresenceQuiet ==
  ASSUME Presence, UNCHANGED <<model, children, saved, stage, every, since, up, missed>>,
         alive' \subseteq alive
  PROVE  Presence'
<1>1. InTheAir' = InTheAir /\ \A d : Place(d)' = Place(d) /\ (Bound(d)' <=> Bound(d))
  BY AirStill DEF Place, Bound
<1>2. \A d : Telling(d)' <=> Telling(d)
  BY <1>1 DEF Telling
<1>3. Promising'
  BY <1>1 DEF Presence, Promising
<1>4. ASSUME NEW d \in alive', Bound(d)', Place(d)' \in DOMAIN model'
      PROVE  Explained(model'[Place(d)'], missed'[d], since'[d], Telling(d)')
  <2>1. d \in alive /\ Bound(d) /\ Place(d) \in DOMAIN model
    BY <1>1, <1>4
  <2>2. Explained(model[Place(d)], missed[d], since[d], Telling(d))
    BY <2>1 DEF Presence
  <2> QED BY <1>1, <1>2, <2>2, StillExplained
<1> QED BY <1>3, <1>4 DEF Presence

\* A device that is in the model is reached.
LEMMA InModel ==
  ASSUME Presence, NEW d \in Devices, Bound(d), Place(d) \in DOMAIN model
  PROVE  Reached(d) /\ Keeps(every[d], model[Place(d)].interval)
  BY CameReached DEF Presence, Promising, Holds

LEMMA PresenceReport ==
  ASSUME Placed, Typed, Presence, NEW d \in Devices, Report(d)
  PROVE  Presence'
<1> DEFINE frame == [kind |-> "report", src |-> Place(d)]
<1>1. /\ since' = [since EXCEPT ![d] = 0] /\ Bound(d)
      /\ up' = IF Reached(d) THEN Sent(up, Place(d), frame) ELSE up
      /\ UNCHANGED <<master, stage, every, alive, down, lost, missed, restarts>>
  BY DEF Report
<1>2. Place(d) \in Paths /\ PathOf(frame) = Place(d) /\ Tells(frame) = 0
  BY <1>1, PlaceType DEF Typed, PathOf, Tells
<1>3. frame.kind = "report" /\ frame.src = Place(d)
  OBVIOUS
<1> HIDE DEF frame
<1>4. \/ Reached(d) /\ InTheAir' = InTheAir \cup {frame}
      \/ ~Reached(d) /\ InTheAir' = InTheAir
  BY <1>1, <1>2, AirSent, AirStill DEF Typed
<1>5. Reached(d) => <<Place(d), 0>> \in Promises(stage, every)
  <2>1. Keeps(every[d], 0) /\ 0 \in 0..Longest
    BY DEF Keeps
  <2> QED BY <2>1, ReachedPromise DEF Typed
<1>6. Promising'
  <2>1. Promises(stage, every)' = Promises(stage', every')
        /\ stage' = stage /\ every' = every /\ master' = master
    BY <1>1
  <2>2. \A f \in InTheAir' : <<PathOf(f), Tells(f)>> \in Promises(stage, every)
    BY <1>2, <1>4, <1>5 DEF Presence, Promising
  <2> QED BY <2>1, <2>2 DEF Presence, Promising, master
<1>7. ASSUME NEW e \in alive', Bound(e)', Place(e)' \in DOMAIN model'
      PROVE  Explained(model'[Place(e)'], missed'[e], since'[e], Telling(e)')
  <2>1. /\ e \in alive /\ e \in Devices /\ Bound(e) /\ Place(e) \in DOMAIN model
        /\ Place(e)' = Place(e) /\ model' = model /\ missed' = missed
    BY <1>1, <1>7 DEF Bound, Place, master, Typed, Staged
  <2>2. Explained(model[Place(e)], missed[e], since[e], Telling(e))
    BY <2>1 DEF Presence
  <2>3. CASE e = d
    <3>1. Reached(d)
      BY <2>1, <2>3, InModel
    <3>2. frame \in InTheAir'
      BY <1>4, <3>1
    <3>3. Telling(e)' = TRUE
      BY <1>3, <2>1, <2>3, <3>2 DEF Telling
    <3> QED BY <2>1, <2>2, <3>3, SentExplained
  <2>4. CASE e # d
    <3>1. since'[e] = since[e]
      BY <1>1, <2>1, <2>4 DEF Typed, Staged
    <3>2. Telling(e) => Telling(e)'
      BY <1>4, <2>1 DEF Telling
    <3> QED BY <2>1, <2>2, <3>1, <3>2, StillExplained
  <2> QED BY <2>3, <2>4
<1> QED BY <1>6, <1>7 DEF Presence

LEMMA PresenceServe ==
  ASSUME Placed, Typed, Typed', Presence, Tightens, NEW d \in Devices, Serve(d)
  PROVE  Presence'
<1>1. /\ Room(d) /\ down' = [down EXCEPT ![d] = NoRequest]
      /\ UNCHANGED <<master, stage, since, alive, lost, missed, restarts>>
  BY DEF Serve
<1>2. down[d] # NoRequest /\ Reached(d)
  <2>1. down[d].kind \in {"describe", "policy"}
    BY DEF Serve
  <2>2. down[d] # NoRequest
    BY <2>1 DEF NoRequest
  <2> QED BY <2>2 DEF Typed, Asking
<1>3. Bound(d) /\ Place(d) \in Paths
  BY <1>2, PlaceType DEF Typed, Reached
<1>4. /\ \A e \in Devices : every[e] \in 0..Longest /\ every'[e] \in 0..Longest
      /\ \A e \in Devices : Shortens(every[e], every'[e])
  BY <1>1 DEF Tightens, Typed, Staged
<1>5. \A e \in Devices : Keeps(every'[e], Own[e])
  BY <1>4, KeepsOn DEF Presence, Promising
<1>6. Promises(stage, every) \subseteq Promises(stage', every')
  <2>1. stage' = stage /\ stage \in [Devices -> Nat]
        /\ every \in [Devices -> 0..Longest] /\ every' \in [Devices -> 0..Longest]
        /\ \A e \in Devices : stage[e] =< Len(Itinerary[e]) /\ stage[e] =< stage[e]
    BY <1>1 DEF Typed, Staged
  <2> QED BY <1>4, <2>1, PromisesStay
<1>7. \E f : /\ up' = Sent(up, Place(d), f) /\ f.kind # "report"
             /\ PathOf(f) = Place(d)
             /\ Tells(f) \in 0..Longest /\ Keeps(every'[d], Tells(f))
  <2>1. CASE down[d].kind = "describe" /\ up' = Sent(up, Place(d), Description(d))
    <3>1. /\ Description(d).kind = "describe" /\ PathOf(Description(d)) = Place(d)
          /\ Tells(Description(d)) = Own[d] /\ Own[d] \in 0..Longest
      BY DEF Description, PathOf, Tells
    <3> QED BY <1>5, <2>1, <3>1
  <2>2. CASE /\ down[d].kind = "policy" /\ up' = Sent(up, Place(d), PolicyTaken(d, down[d]))
             /\ every' = IF down[d].port
                           THEN [every EXCEPT ![d] = down[d].interval] ELSE every
    <3> DEFINE f == PolicyTaken(d, down[d])
    <3>1. down[d].interval \in 0..Longest /\ down[d].port \in BOOLEAN
      BY <1>2, <2>2 DEF Typed, Asking, Requests, NoRequest
    <3>2. /\ f.kind = "policy" /\ PathOf(f) = Place(d)
          /\ Tells(f) = IF down[d].port THEN down[d].interval ELSE 0
      BY DEF PolicyTaken, PathOf, Tells
    <3> HIDE DEF f
    <3>3. down[d].port => every'[d] = down[d].interval
      BY <2>2 DEF Typed, Staged
    <3>4. Keeps(every'[d], Tells(f)) /\ Tells(f) \in 0..Longest
      BY <3>1, <3>2, <3>3 DEF Keeps
    <3> QED BY <2>2, <3>2, <3>4 DEF f
  <2> QED BY <2>1, <2>2 DEF Serve
<1>8. PICK f : /\ up' = Sent(up, Place(d), f) /\ f.kind # "report"
               /\ PathOf(f) = Place(d)
               /\ Tells(f) \in 0..Longest /\ Keeps(every'[d], Tells(f))
  BY <1>7
<1>9. InTheAir' = InTheAir \cup {f}
  BY <1>3, <1>8, AirSent DEF Typed
<1>10. <<PathOf(f), Tells(f)>> \in Promises(stage', every')
  <2>1. <<Place(d), Tells(f)>> \in Promises(stage, every')
    BY <1>2, <1>8, ReachedPromise DEF Typed
  <2> QED BY <1>1, <1>8, <2>1
<1>11. Promising'
  <2>1. \A g \in InTheAir' : <<PathOf(g), Tells(g)>> \in Promises(stage', every')
    BY <1>6, <1>9, <1>10 DEF Presence, Promising
  <2>2. /\ Holds(model', Promises(stage', every')) /\ Holds(saved', Promises(stage', every'))
        /\ HoldsBelow(children', Promises(stage', every'))
    BY <1>1, <1>6 DEF Presence, Promising, Holds, HoldsBelow, master
  <2> QED BY <1>5, <2>1, <2>2 DEF Promising
<1>12. ASSUME NEW e \in alive', Bound(e)', Place(e)' \in DOMAIN model'
       PROVE  Explained(model'[Place(e)'], missed'[e], since'[e], Telling(e)')
  <2>1. /\ e \in alive /\ Bound(e) /\ Place(e) \in DOMAIN model
        /\ Place(e)' = Place(e) /\ model' = model /\ missed' = missed /\ since' = since
    BY <1>1, <1>12 DEF Bound, Place, master
  <2>2. Explained(model[Place(e)], missed[e], since[e], Telling(e))
    BY <2>1 DEF Presence
  <2>3. Telling(e) => Telling(e)'
    BY <1>9, <2>1 DEF Telling
  <2> QED BY <2>1, <2>2, <2>3, StillExplained
<1> QED BY <1>11, <1>12 DEF Presence

LEMMA PresenceLoseUp ==
  ASSUME Typed, Presence, NEW h \in Hops, LoseUp(h)
  PROVE  Presence'
<1> DEFINE frame == Head(up[h])
<1>1. /\ up[h] # <<>> /\ up' = [up EXCEPT ![h] = Tail(@)]
      /\ UNCHANGED <<master, device, down, restarts>>
      /\ missed' = [d \in Devices |->
                      IF frame.kind = "report" /\ d \in At(frame.src)
                        THEN missed[d] + 1 ELSE missed[d]]
  BY DEF LoseUp
<1>2. InTheAir' \subseteq InTheAir /\ InTheAir \subseteq InTheAir' \cup {frame}
  BY <1>1, AirTaken DEF Typed
<1> HIDE DEF frame
<1>3. Promising'
  BY <1>1, <1>2 DEF Presence, Promising, master, device
<1>4. ASSUME NEW e \in alive', Bound(e)', Place(e)' \in DOMAIN model'
      PROVE  Explained(model'[Place(e)'], missed'[e], since'[e], Telling(e)')
  <2>1. /\ e \in alive /\ e \in Devices /\ Bound(e) /\ Place(e) \in DOMAIN model
        /\ Place(e)' = Place(e) /\ model' = model /\ since' = since
    BY <1>1, <1>4 DEF Bound, Place, master, device, Typed, Staged
  <2>2. Explained(model[Place(e)], missed[e], since[e], Telling(e))
    BY <2>1 DEF Presence
  <2>3. /\ model[Place(e)] \in Entry /\ missed[e] \in Nat /\ since[e] \in 0..Never
    BY <2>1 DEF Typed, Mastered, Staged, Table
  <2>4. CASE frame.kind = "report" /\ frame.src = Place(e)
    <3>1. missed'[e] = missed[e] + 1
      BY <1>1, <2>1, <2>4 DEF At
    <3> QED BY <2>1, <2>2, <2>3, <3>1, LostExplained
  <2>5. CASE ~(frame.kind = "report" /\ frame.src = Place(e))
    <3>1. missed'[e] = missed[e]
      BY <1>1, <2>1, <2>5 DEF At
    <3>2. Telling(e) => Telling(e)'
      BY <1>2, <2>1, <2>5 DEF Telling
    <3> QED BY <2>1, <2>2, <3>1, <3>2, StillExplained
  <2> QED BY <2>4, <2>5
<1> QED BY <1>3, <1>4 DEF Presence

LEMMA PresenceClock ==
  ASSUME Placed, Typed, Typed', Presence, Sweep \/ Restart \/ Tick
  PROVE  Presence'
<1>1. CASE Sweep
  <2>1. model' = SweepOffline(model)
        /\ UNCHANGED <<children, saved, device, down, up, lost, missed, restarts>>
    BY <1>1 DEF Sweep
  <2>2. DOMAIN model' = DOMAIN model
        /\ \A p \in DOMAIN model : model'[p].interval = model[p].interval
    BY <2>1, SweepKeeps DEF Typed, Mastered, Said
  <2>3. Promising'
    BY <2>1, <2>2, AirStill DEF Presence, Promising, Holds, device
  <2>4. ASSUME NEW e \in alive', Bound(e)', Place(e)' \in DOMAIN model'
        PROVE  Explained(model'[Place(e)'], missed'[e], since'[e], Telling(e)')
    <3> DEFINE p == Place(e)
    <3>1. /\ e \in alive /\ e \in Devices /\ Bound(e) /\ p \in DOMAIN model
          /\ Place(e)' = p /\ missed' = missed /\ since' = since
      BY <2>1, <2>2, <2>4 DEF Bound, Place, device, Typed, Staged
    <3>2. Explained(model[p], missed[e], since[e], Telling(e))
      BY <3>1 DEF Presence
    <3>3. model[p] \in Entry /\ missed[e] \in Nat
      BY <3>1 DEF Typed, Mastered, Table
    <3>4. model'[p] = IF model[p].interval # 0
                         /\ model[p].silence >= model[p].interval * OfflineIntervals
                        THEN [model[p] EXCEPT !.online = FALSE] ELSE model[p]
      BY <2>1, <3>1 DEF SweepOffline
    <3>5. Telling(e)' <=> Telling(e)
      BY <2>1, <3>1, AirStill DEF Telling
    <3> HIDE DEF p
    <3>6. Explained(model'[p], missed[e], since[e], Telling(e))
      BY <3>2, <3>3, <3>4, SweptExplained
    <3> QED BY <3>1, <3>5, <3>6, StillExplained
  <2> QED BY <2>3, <2>4 DEF Presence
<1>2. CASE Restart
  <2>1. Boot(children, saved) /\ UNCHANGED <<device, down, up, lost>>
    BY <1>2 DEF Restart
  <2> DEFINE P == Promises(stage, every)
  <2>2. /\ Mastered /\ Known(children)
        /\ HoldsBelow(children, P) /\ Holds(saved, P)
    BY DEF Typed, Mastered, Presence, Promising
  <2>3. Anew(model', P) /\ Holds(saved', P) /\ HoldsBelow(children', P)
    <3> HIDE DEF P
    <3> QED BY <2>1, <2>2, BootAnew
  <2>4. Promising'
    BY <2>1, <2>3, AirStill DEF Presence, Promising, Anew, device
  <2>5. ASSUME NEW e \in alive', Bound(e)', Place(e)' \in DOMAIN model'
        PROVE  Explained(model'[Place(e)'], missed'[e], since'[e], Telling(e)')
    <3>1. /\ model'[Place(e)'] \in Entry /\ missed'[e] \in Nat /\ since'[e] \in 0..Never
      BY <2>5 DEF Typed, Mastered, Staged, Table
    <3>2. model'[Place(e)'].silence = 0 /\ model'[Place(e)'].online = TRUE
      BY <2>3, <2>5 DEF Anew
    <3> QED BY <3>1, <3>2, NewExplained
  <2> QED BY <2>4, <2>5 DEF Presence
<1>3. CASE Tick
  <2>1. /\ Silent /\ \A d \in Devices : ~Due(d)
        /\ model' = Aged(model)
        /\ since' = [d \in Devices |-> IF since[d] < Longest THEN since[d] + 1 ELSE since[d]]
        /\ UNCHANGED <<children, saved, stage, every, alive, down, up, lost, missed, restarts>>
    BY <1>3 DEF Tick
  <2>2. DOMAIN model' = DOMAIN model
        /\ \A p \in DOMAIN model : model'[p].interval = model[p].interval
    BY <2>1, AgedKeeps DEF Typed, Mastered, Said
  <2>3. Promising'
    BY <2>1, <2>2, AirStill DEF Presence, Promising, Holds
  <2>4. ASSUME NEW e \in alive', Bound(e)', Place(e)' \in DOMAIN model'
        PROVE  Explained(model'[Place(e)'], missed'[e], since'[e], Telling(e)')
    <3> DEFINE p == Place(e)
    <3>1. /\ e \in alive /\ e \in Devices /\ Bound(e) /\ p \in DOMAIN model
          /\ Place(e)' = p /\ missed' = missed
      BY <2>1, <2>2, <2>4 DEF Bound, Place, Typed, Staged
    <3>2. Telling(e) = FALSE
      BY <2>1, AirEmpty DEF Telling
    <3>3. Explained(model[p], missed[e], since[e], FALSE)
      BY <3>1, <3>2 DEF Presence
    <3>4. model[p] \in Entry /\ missed[e] \in Nat /\ since[e] \in 0..Never
          /\ every[e] \in 0..Longest
      BY <3>1 DEF Typed, Mastered, Staged, Table
    <3>5. model'[p] = IF model[p].silence < model[p].interval * OfflineIntervals
                        THEN [model[p] EXCEPT !.silence = @ + 1] ELSE model[p]
      BY <2>1, <3>1 DEF Aged
    <3>6. since'[e] = IF since[e] < Longest THEN since[e] + 1 ELSE since[e]
      BY <2>1, <3>1
    <3>7. ~Due(e) /\ Keeps(every[e], model[p].interval)
      BY <2>1, <3>1, InModel
    <3> HIDE DEF p
    <3>8. model[p].interval # 0 => since[e] # Never /\ since[e] < model[p].interval
      <4>1. since[e] # Never /\ (every[e] = 0 \/ ~(since[e] >= every[e]))
        BY <3>1, <3>7 DEF Due
      <4>2. model[p].interval \in 0..Longest
        BY <3>4 DEF Entry
      <4> QED BY <3>4, <3>7, <4>1, <4>2 DEF Keeps, Never
    <3>9. Explained(model'[p], missed[e], since'[e], FALSE)
      BY <3>3, <3>4, <3>5, <3>6, <3>8, AgedExplained
    <3> QED BY <3>1, <3>9, StillExplained
  <2> QED BY <2>3, <2>4 DEF Presence
<1> QED BY <1>1, <1>2, <1>3

LEMMA WithIntervalHolds ==
  ASSUME Mastered, NEW P, HoldsBelow(children, P), NEW path \in Paths, NEW x, <<path, x>> \in P
  PROVE  HoldsBelow(WithInterval(path, x), P)
<1>1. CASE Len(path) = 1 /\ path[1] \in DOMAIN children
  <2> DEFINE i == path[1]
             t == [children EXCEPT ![i].interval = x]
  <2>1. WithInterval(path, x) = t
    BY <1>1 DEF WithInterval
  <2>2. path = <<i>>
    BY <1>1, PathType
  <2>3. /\ DOMAIN t = DOMAIN children /\ \A j \in DOMAIN children \ {i} : t[j] = children[j]
        /\ t[i] = [children[i] EXCEPT !.interval = x] /\ children[i] \in Pair
    BY <1>1 DEF Mastered, Known
  <2>4. t[i].interval = x
    BY <2>3 DEF Pair
  <2> HIDE DEF i, t
  <2> QED BY <2>1, <2>2, <2>3, <2>4 DEF HoldsBelow
<1>2. CASE ~(Len(path) = 1 /\ path[1] \in DOMAIN children)
  BY <1>2 DEF WithInterval
<1> QED BY <1>1, <1>2

\* What a place told, adopted or not.
LEMMA AdoptedPresence ==
  ASSUME Placed, Typed, Typed', Presence, NEW h \in Hops, Receive(h),
         NEW p, p = PathOf(Head(up[h])), NEW P, P = Promises(stage, every),
         NEW table, NEW nodes, NEW S, NEW file, Learns(p, P, table, nodes, S, file)
  PROVE  Presence'
<1> DEFINE f == Head(up[h])
<1>1. /\ up[h] # <<>> /\ up' = [up EXCEPT ![h] = Tail(@)]
      /\ UNCHANGED <<device, down, lost>>
  BY DEF Receive
<1>2. InTheAir' \subseteq InTheAir /\ InTheAir \subseteq InTheAir' \cup {f}
  BY <1>1, AirTaken DEF Typed
<1>3. f \in Frames
  BY <1>1, TakenKeeps DEF Typed
<1>5. f.kind = "report" => p = f.src
  BY <1>3, FrameSays
<1>6. Mastered /\ Holds(model, P) /\ Holds(saved, P)
  BY DEF Typed, Presence, Promising
<1> HIDE DEF f
<1>7. /\ Holds(model', P) /\ Holds(saved', P) /\ HoldsBelow(children', P)
      /\ \A q \in DOMAIN model' :
           \/ model'[q].silence = 0 /\ model'[q].online = TRUE
           \/ /\ q # p /\ q \in DOMAIN model /\ model'[q] = model[q]
              /\ \A d \in Devices \ At(p) : missed'[d] = missed[d]
  BY <1>6, AdoptHears
<1>8. Promising'
  BY <1>1, <1>2, <1>7 DEF Presence, Promising, device
<1>9. ASSUME NEW e \in alive', Bound(e)', Place(e)' \in DOMAIN model'
      PROVE  Explained(model'[Place(e)'], missed'[e], since'[e], Telling(e)')
  <2>1. /\ e \in alive /\ e \in Devices /\ Bound(e) /\ Place(e)' = Place(e) /\ since' = since
    BY <1>1, <1>9 DEF Bound, Place, device, Typed, Staged
  <2>2. CASE model'[Place(e)].silence = 0 /\ model'[Place(e)].online = TRUE
    <3>1. model'[Place(e)'] \in Entry /\ missed'[e] \in Nat /\ since'[e] \in 0..Never
      BY <1>9, <2>1 DEF Typed, Mastered, Staged, Table
    <3> QED BY <2>1, <2>2, <3>1, NewExplained
  <2>3. CASE /\ Place(e) # p /\ Place(e) \in DOMAIN model
             /\ model'[Place(e)] = model[Place(e)]
             /\ \A d \in Devices \ At(p) : missed'[d] = missed[d]
    <3>1. missed'[e] = missed[e]
      BY <2>1, <2>3 DEF At
    <3>2. Telling(e) => Telling(e)'
      BY <1>2, <1>5, <2>1, <2>3 DEF Telling
    <3>3. Explained(model[Place(e)], missed[e], since[e], Telling(e))
      BY <2>1, <2>3 DEF Presence
    <3> QED BY <2>1, <2>3, <3>1, <3>2, <3>3, StillExplained
  <2> QED BY <1>7, <1>9, <2>1, <2>2, <2>3
<1> QED BY <1>8, <1>9 DEF Presence

LEMMA PresenceReceive ==
  ASSUME Placed, Typed, Typed', Presence, NEW h \in Hops, Receive(h)
  PROVE  Presence'
<1> DEFINE f == Head(up[h])
           p == PathOf(f)
           P == Promises(stage, every)
<1>0. p = PathOf(f) /\ P = Promises(stage, every)
  OBVIOUS
<1>1. up[h] # <<>> /\ up' = [up EXCEPT ![h] = Tail(@)]
  BY DEF Receive
<1>2. f \in Frames /\ f \in InTheAir
  BY <1>1, TakenKeeps, AirTaken DEF Typed
<1>3. p \in Paths /\ <<p, Tells(f)>> \in P
  BY <1>2, FrameSays DEF Presence, Promising
<1>4. Mastered /\ Holds(model, P) /\ HoldsBelow(children, P) /\ Table(model) /\ Known(children)
      /\ ~(Len(p) > MaxDepth)
  <2>1. Len(p) \in Nat /\ Len(p) =< MaxDepth /\ MaxDepth \in Nat
    BY <1>3, PathType DEF Placed
  <2> QED BY <2>1 DEF Typed, Mastered, Presence, Promising
<1> HIDE DEF P
<1>5. <<p, 0>> \in P
  BY <1>3 DEF P, Promises, Keeps
<1>6. \A x \in Noted(model, p) : <<p, x>> \in P
  BY <1>4, <1>5, NotedHolds
<1>7. Hears(model, Touch(model, p), p, Noted(model, p)) /\ Table(Touch(model, p))
  BY <1>3, <1>4, TouchHears, TouchKeeps
<1>8. CASE f.kind = "report" /\ Adopt(children, NoteReport(model, f.src), saved, At(f.src))
  <2>1. p = f.src
    BY <1>2, <1>8, FrameSays
  <2> HIDE DEF p, f
  <2>2. Adopt(children, Touch(model, p), saved, At(p))
    BY <1>8, <2>1 DEF NoteReport
  <2>3. Learns(p, P, children, Touch(model, p), Noted(model, p), saved)
    BY <1>4, <1>6, <1>7, <2>2 DEF Learns
  <2> QED BY <1>0, <2>3, AdoptedPresence DEF f
<1>9. CASE f.kind = "policy" /\ AdoptPolicy(f.src, f.answer)
  <2> DEFINE a == f.answer
             nodes == NotePolicy(model, p, a)
             table == IF a.ok THEN WithInterval(p, a.interval) ELSE children
             file == IF /\ a.ok
                        /\ p \in DOMAIN model => model[p].interval # a.interval
                       THEN SaveModel(nodes) ELSE saved
  <2>1. p = f.src /\ Tells(f) = IF a.ok THEN a.interval ELSE 0
    BY <1>2, <1>9, FrameSays
  <2>2. a.interval \in 0..Longest
    BY <1>2, <1>9 DEF Frames
  <2> HIDE DEF p, f
  <2>3. Adopt(table, nodes, file, At(p))
    BY <1>9, <2>1 DEF AdoptPolicy
  <2>4. file \in {saved, SaveModel(nodes)}
    OBVIOUS
  <2> HIDE DEF file
  <2>5. CASE a.ok
    <3>1. <<p, a.interval>> \in P
      BY <1>3, <2>1, <2>5
    <3> HIDE DEF a
    <3>2. table = WithInterval(p, a.interval)
          /\ nodes = SetInterval(Touch(model, p), p, a.interval)
      BY <2>5 DEF NotePolicy
    <3>3. Known(table) /\ HoldsBelow(table, P)
      BY <1>3, <1>4, <2>2, <3>1, <3>2, WithIntervalKept, WithIntervalHolds
    <3>4. Hears(model, nodes, p, {a.interval})
      BY <1>7, <3>2, IntervalHears
    <3> HIDE DEF table, nodes
    <3>5. \A x \in {a.interval} : <<p, x>> \in P
      BY <3>1
    <3>6. Learns(p, P, table, nodes, {a.interval}, file)
      BY <2>3, <2>4, <3>3, <3>4, <3>5 DEF Learns
    <3> QED BY <1>0, <3>6, AdoptedPresence DEF f
  <2>6. CASE ~a.ok
    <3>1. table = children /\ nodes = Touch(model, p)
      BY <2>6 DEF NotePolicy
    <3> HIDE DEF table, nodes
    <3>2. Learns(p, P, table, nodes, Noted(model, p), file)
      BY <1>4, <1>6, <1>7, <2>3, <2>4, <3>1 DEF Learns
    <3> QED BY <1>0, <3>2, AdoptedPresence DEF f
  <2> QED BY <2>5, <2>6
<1>10. CASE f.kind = "describe" /\ AdoptDescribe(f.src, f.interval)
  <2> DEFINE y == f.interval
             nodes == NoteDescribe(model, p, y)
             table == WithInterval(p, y)
             file == IF p \in DOMAIN model /\ model[p].interval # y
                       THEN SaveModel(nodes) ELSE saved
  <2>1. p = f.src /\ Tells(f) = y
    BY <1>2, <1>10, FrameSays
  <2>2. y \in 0..Longest
    BY <1>2, <1>10 DEF Frames
  <2> HIDE DEF p, f
  <2>3. Adopt(table, nodes, file, At(p))
    BY <1>10, <2>1 DEF AdoptDescribe
  <2>4. file \in {saved, SaveModel(nodes)}
    OBVIOUS
  <2>5. <<p, y>> \in P
    BY <1>3, <2>1
  <2> HIDE DEF file, y
  <2>6. Known(table) /\ HoldsBelow(table, P)
    BY <1>3, <1>4, <2>2, <2>5, WithIntervalKept, WithIntervalHolds
  <2>7. Hears(model, nodes, p, {y})
    BY <1>7, IntervalHears DEF NoteDescribe
  <2> HIDE DEF table, nodes
  <2>8. \A x \in {y} : <<p, x>> \in P
    BY <2>5
  <2>9. Learns(p, P, table, nodes, {y}, file)
    BY <2>3, <2>4, <2>6, <2>7, <2>8 DEF Learns
  <2> QED BY <1>0, <2>9, AdoptedPresence DEF f
<1>11. CASE f.kind = "attached" /\ AdoptAttached(children, f.src, f.attached)
  <2> DEFINE a == f.attached
             nodes == NoteChildAttached(model, f.src, a)
  <2>1. p = Append(f.src, a.childIndex) /\ Tells(f) = a.interval
    BY <1>2, <1>11, FrameSays
  <2>2. a.mac \in Devices /\ a.interval \in 0..Longest
    BY <1>2, <1>11 DEF Frames
  <2>3. Adopt(children, nodes, SaveModel(nodes), At(p))
    BY <1>11, <2>1 DEF AdoptAttached
  <2>4. \A x \in {a.interval} : <<p, x>> \in P
    BY <1>3, <2>1
  <2>5. Hears(model, nodes, p, {a.interval})
    <3> DEFINE src == f.src
    <3>1. p = Append(src, a.childIndex)
      BY <2>1
    <3> HIDE DEF a, src, p
    <3>2. Append(src, a.childIndex) \in Paths /\ ~(Len(Append(src, a.childIndex)) > MaxDepth)
      BY <1>3, <1>4, <3>1
    <3> QED BY <1>4, <2>2, <3>1, <3>2, AttachedHears DEF src
  <2>6. SaveModel(nodes) \in {saved, SaveModel(nodes)}
    OBVIOUS
  <2> HIDE DEF nodes, a, p, f
  <2>7. Learns(p, P, children, nodes, {a.interval}, SaveModel(nodes))
    BY <1>4, <2>3, <2>4, <2>5, <2>6 DEF Learns
  <2> QED BY <1>0, <2>7, AdoptedPresence DEF f
<1> QED BY <1>8, <1>9, <1>10, <1>11 DEF Receive

\* What goes up when a device binds, and nothing was on its way.
LEMMA AirNews ==
  ASSUME Typed, NEW d \in Devices, Bind(d)
  PROVE  LET path == Itinerary[d][stage[d] + 1] IN
         /\ InTheAir = {}
         /\ \A f \in InTheAir' : /\ f \in NewsOf(d, stage[d] + 1)
                                 /\ \A c \in Above(path) : Bound(c)
<1> DEFINE path == Itinerary[d][stage[d] + 1]
           all == NewsOf(d, stage[d] + 1)
           s == News(d, stage[d] + 1)
<1>1. /\ stage[d] \in Nat /\ Len(Itinerary[d]) \in Nat /\ stage[d] < Len(Itinerary[d])
      /\ Staged /\ Flying /\ Silent
  BY LenProperties DEF Bind, Typed, Staged
<1>2. stage[d] + 1 \in 1..Len(Itinerary[d])
  BY SMTT(30), <1>1
<1>3. path[1] \in Hops
  BY <1>2, StopType, PathType
<1>4. up' = IF \A c \in Above(path) : Bound(c)
              THEN [up EXCEPT ![path[1]] = s] ELSE up
  BY DEF Bind
<1>5. \A n \in 1..Len(s) : s[n] \in all
  BY <1>1, <1>2, NewsKeeps
<1>6. \A h \in Hops : Len(up[h]) = 0
  BY <1>1 DEF Silent
<1>7. InTheAir = {}
  BY <1>1, AirEmpty
<1> HIDE DEF path, s, all
<1>8. CASE ~(\A c \in Above(path) : Bound(c))
  <2>1. InTheAir' = InTheAir
    BY <1>4, <1>8, AirStill
  <2> QED BY <1>7, <2>1
<1>9. CASE \A c \in Above(path) : Bound(c)
  <2>1. up'[path[1]] = s /\ \A h \in Hops \ {path[1]} : Len(up'[h]) = 0
    BY <1>1, <1>3, <1>4, <1>6, <1>9 DEF Flying
  <2>2. ASSUME NEW f \in InTheAir' PROVE f \in all
    <3>1. PICK h \in Hops : \E n \in 1..Len(up'[h]) : f = up'[h][n]
      BY <2>2 DEF InTheAir
    <3>2. h = path[1]
      BY <2>1, <3>1
    <3> QED BY <1>5, <2>1, <3>1, <3>2
  <2> QED BY <1>7, <1>9, <2>2 DEF path, all
<1> QED BY <1>8, <1>9 DEF path

\* The interval that a device tells of when it binds is that which it keeps.
LEMMA AnnouncedPromise ==
  ASSUME Placed, NEW at, NEW ev, NEW c \in Devices, NEW k \in 1..Len(Itinerary[c]),
         at \in [Devices -> Nat], \A e \in Devices : at[e] =< Len(Itinerary[e]),
         k =< at[c], \A e \in Above(Itinerary[c][k]) : at[e] > 0, Keeps(ev[c], Own[c]),
         NEW f, f = OwnNews(c, k)
  PROVE  <<PathOf(f), Tells(f)>> \in Promises(at, ev)
<1> DEFINE p == Itinerary[c][k]
<1>1. p \in Seq(Nat) /\ p # <<>>
  BY StopType, PathType
<1>2. Append(Front(p), Last(p)) = p
  BY <1>1, FrontLast
<1>3. PathOf(f) = p /\ Tells(f) = Own[c]
  BY <1>2 DEF OwnNews, PathOf, Tells, Attached
<1>4. Own[c] \in 0..Longest
  OBVIOUS
<1>5. <<p, Own[c]>> \in Promises(at, ev)
  BY <1>4, PromiseMade
<1> QED BY <1>3, <1>5

LEMMA WithChildHolds ==
  ASSUME NEW table, NEW P, HoldsBelow(table, P), NEW i, NEW pair, <<<<i>>, pair.interval>> \in P
  PROVE  HoldsBelow(WithChild(table, i, pair), P)
  BY DEF HoldsBelow, WithChild

LEMMA PresenceBind ==
  ASSUME Placed, Typed, Typed', Presence, NEW d \in Devices, Bind(d)
  PROVE  Presence'
<1> DEFINE k == stage[d] + 1
           path == Itinerary[d][k]
           P == Promises(stage, every)
           Q == Promises(stage', every')
<1>0. Mastered /\ Staged /\ Staged'
  BY DEF Typed
<1>1. stage[d] \in Nat /\ stage[d] < Len(Itinerary[d]) /\ Len(Itinerary[d]) \in Nat
  BY <1>0, LenProperties DEF Bind, Staged
<1>2. k \in 1..Len(Itinerary[d]) /\ k \in Nat /\ k > 0 /\ ~(k =< stage[d])
  BY SMTT(30), <1>1
<1>3. path \in Paths /\ path \in Seq(Nat) /\ path # <<>> /\ Len(path) \in Nat \ {0}
      /\ path[1] \in Nat /\ ~(Len(path) > MaxDepth)
  <2>1. path \in Paths
    BY <1>2, StopType
  <2>2. Len(path) =< MaxDepth /\ Len(path) \in Nat /\ MaxDepth \in Nat
    BY <2>1, PathType DEF Placed
  <2> QED BY SMTT(60), <2>1, <2>2, PathType
<1>4. /\ stage' = [stage EXCEPT ![d] = k] /\ every' = [every EXCEPT ![d] = Own[d]]
      /\ since' = [since EXCEPT ![d] = Never] /\ alive' = alive
  BY DEF Bind
<1>5. /\ stage'[d] = k /\ every'[d] = Own[d] /\ Place(d)' = path
      /\ \A c \in Devices \ {d} : /\ stage'[c] = stage[c] /\ every'[c] = every[c]
                                  /\ since'[c] = since[c]
                                  /\ (Bound(c)' <=> Bound(c)) /\ Place(c)' = Place(c)
  <2>1. /\ stage'[d] = k /\ every'[d] = Own[d]
        /\ \A c \in Devices \ {d} : /\ stage'[c] = stage[c] /\ every'[c] = every[c]
                                    /\ since'[c] = since[c]
    BY <1>0, <1>4 DEF Staged
  <2> QED BY <2>1 DEF Bound, Place
<1>6. /\ stage' \in [Devices -> Nat] /\ every' \in [Devices -> 0..Longest]
      /\ stage \in [Devices -> Nat] /\ every \in [Devices -> 0..Longest]
      /\ \A c \in Devices : stage'[c] =< Len(Itinerary[c]) /\ stage[c] =< stage'[c]
  <2>1. /\ stage' \in [Devices -> Nat] /\ every' \in [Devices -> 0..Longest]
        /\ stage \in [Devices -> Nat] /\ every \in [Devices -> 0..Longest]
        /\ \A c \in Devices : stage'[c] =< Len(Itinerary[c])
    BY <1>0 DEF Staged
  <2>2. ASSUME NEW c \in Devices PROVE stage[c] =< stage'[c]
    <3>1. CASE c = d
      BY SMTT(60), <1>1, <1>5, <3>1
    <3>2. CASE c # d
      <4>1. stage'[c] = stage[c] /\ stage[c] \in Nat
        BY <1>5, <2>1, <3>2
      <4> QED BY <4>1
    <3> QED BY <3>1, <3>2
  <2> QED BY <2>1, <2>2
<1>7. \A c \in Devices : Keeps(every'[c], Own[c])
  <2>1. Keeps(Own[d], Own[d])
    <3>1. Own[d] \in 0..Longest
      OBVIOUS
    <3> QED BY <3>1 DEF Keeps
  <2>2. \A c \in Devices : Keeps(every[c], Own[c])
    BY DEF Presence, Promising
  <2> HIDE DEF path, k
  <2> QED BY <1>5, <2>1, <2>2
<1> HIDE DEF k
<1>8. P \subseteq Q
  <2>1. ASSUME NEW c \in Devices, stage[c] = stage'[c] PROVE Shortens(every[c], every'[c])
    <3>1. c # d
      BY <1>2, <1>5, <2>1
    <3>2. every'[c] = every[c] /\ every[c] \in 0..Longest
      BY <1>5, <1>6, <3>1
    <3> QED BY <3>2 DEF Shortens
  <2> QED BY <1>6, <2>1, PromisesStay
<1>9. ASSUME \A c \in Above(path) : Bound(c), NEW f \in NewsOf(d, k)
      PROVE  f.kind = "attached" /\ <<PathOf(f), Tells(f)>> \in Q
  <2>1. ASSUME NEW e \in Above(path) PROVE e \in Devices /\ stage'[e] > 0
    <3>1. e \in Devices /\ stage[e] > 0
      BY <1>9 DEF Above, Bound
    <3>2. stage[e] =< stage'[e] /\ stage[e] \in Nat /\ stage'[e] \in Nat
      BY <1>6, <3>1
    <3> QED BY <3>1, <3>2
  <2>2. CASE f \in OfChildren(d)
    <3>1. PICK c \in Adopted(d) : f = Announcement(d, c)
      BY <2>2 DEF OfChildren
    <3>2. c \in Devices /\ \E j \in 1..Len(Itinerary[c]) :
            /\ j \in 1..stage[c] /\ d \in ParentAt(Itinerary[c][j])
            /\ Announcement(d, c) = OwnNews(c, j)
      BY <1>0, AdoptedStop
    <3>3. PICK j \in 1..Len(Itinerary[c]) : /\ j \in 1..stage[c] /\ d \in ParentAt(Itinerary[c][j])
                                            /\ Announcement(d, c) = OwnNews(c, j)
      BY <3>2
    <3> DEFINE p == Itinerary[c][j]
    <3>4. p \in Paths
      BY <3>2, <3>3, StopType
    <3> HIDE DEF p
    <3>5. Len(Itinerary[d]) = 1 /\ Itinerary[d][1] = Front(p)
      BY <3>3, <3>4, ParentOnce DEF p
    <3>6. path = Front(p)
      <4>1. k = 1
        BY ONLY <1>2, <3>5
      <4> QED BY <3>5, <4>1
    <3>7. ASSUME NEW e \in Above(p) PROVE stage'[e] > 0
      <4>1. CASE e \in ParentAt(p)
        <5>1. e = d
          BY <3>3, <3>4, <4>1, ParentAlone DEF p
        <5> QED BY <1>2, <1>5, <5>1
      <4>2. CASE e \notin ParentAt(p)
        <5>1. e \in Above(Front(p))
          BY <3>4, <4>2, AboveFront
        <5> QED BY <2>1, <3>6, <5>1
      <4> QED BY <4>1, <4>2
    <3>8. j =< stage'[c]
      <4>1. stage[c] \in Nat /\ stage'[c] \in Nat /\ stage[c] =< stage'[c]
        BY <1>6, <3>2
      <4> QED BY ONLY <3>3, <4>1
    <3>9. f = OwnNews(c, j) /\ f.kind = "attached"
      BY <3>1, <3>3 DEF OwnNews
    <3> HIDE DEF path
    <3> QED BY <1>6, <1>7, <3>2, <3>7, <3>8, <3>9, AnnouncedPromise DEF p
  <2>3. CASE f = OwnNews(d, k)
    <3>1. k =< stage'[d] /\ f.kind = "attached"
      BY <1>2, <1>5, <2>3 DEF OwnNews
    <3>2. \A e \in Above(Itinerary[d][k]) : stage'[e] > 0
      BY <2>1
    <3> HIDE DEF path
    <3> QED BY <1>2, <1>6, <1>7, <2>3, <3>1, <3>2, AnnouncedPromise
  <2> QED BY <1>9, <2>2, <2>3 DEF NewsOf
<1>10. InTheAir = {} /\ \A f \in InTheAir' : f.kind = "attached" /\ <<PathOf(f), Tells(f)>> \in Q
  BY <1>9, AirNews DEF k
<1>11. ASSUME NEW c \in Devices PROVE ~Telling(c)
  BY <1>10 DEF Telling
<1>12. Holds(model, Q) /\ Holds(saved, Q) /\ HoldsBelow(children, Q)
  BY <1>8 DEF Presence, Promising, Holds, HoldsBelow
\* The master's part: it adopts the device, or is not told of it yet.
<1>13. /\ Holds(model', Q) /\ Holds(saved', Q) /\ HoldsBelow(children', Q)
       /\ \A q \in DOMAIN model' :
            \/ model'[q].silence = 0 /\ model'[q].online = TRUE
            \/ /\ q # path /\ q \in DOMAIN model /\ model'[q] = model[q]
               /\ \A c \in Devices \ At(path) : missed'[c] = missed[c]
  <2>1. CASE Len(path) = 1
    <3> DEFINE i == path[1]
               a == Attached(d, k)
               pair == [mac |-> d, interval |-> Own[d]]
               table == WithChild(children, i, pair)
               nodes == NoteChildAttached(model, <<>>, a)
    <3>1. AdoptAttached(table, <<>>, a)
      BY <2>1 DEF Bind, WithChild, k
    <3>2. path = <<i>> /\ Last(path) = i /\ Append(<<>>, i) = path
      BY SMTT(30), <1>3, <2>1 DEF Last
    <3>3. a.childIndex = i /\ a.mac = d /\ a.interval = Own[d] /\ Own[d] \in 0..Longest
      BY <3>2 DEF Attached
    <3>4. <<path, Own[d]>> \in Q
      <4>1. \A c \in Above(Itinerary[d][k]) : stage'[c] > 0
        BY <1>3, <2>1, NobodyAbove
      <4>2. k =< stage'[d]
        BY <1>2, <1>5
      <4> HIDE DEF Q
      <4>3. <<Itinerary[d][k], Own[d]>> \in Q
        BY <1>2, <1>6, <1>7, <3>3, <4>1, <4>2, PromiseMade DEF Q
      <4> QED BY <4>3
    <3>5. Known(table)
      <4>1. Known(children) /\ i \in Nat /\ <<i>> \in Paths
        BY <1>0, <1>3, <3>2 DEF Mastered
      <4>2. pair \in Pair
        BY <3>3 DEF Pair
      <4>3. table = WithChild(children, i, pair)
        OBVIOUS
      <4> HIDE DEF table, i, pair
      <4> QED BY <4>1, <4>2, <4>3, ChildKeeps
    <3>6. HoldsBelow(table, Q)
      <4>1. pair.interval = Own[d]
        OBVIOUS
      <4> HIDE DEF pair, Q, i, path
      <4>2. <<<<i>>, pair.interval>> \in Q
        BY <3>2, <3>4, <4>1
      <4> QED BY <1>12, <4>2, WithChildHolds
    <3>7. Hears(model, nodes, path, {a.interval})
      <4>1. Append(<<>>, a.childIndex) = path /\ Table(model)
        BY <1>0, <3>2, <3>3 DEF Mastered
      <4> HIDE DEF a, path
      <4> QED BY <1>3, <3>3, <4>1, AttachedHears
    <3>8. Adopt(table, nodes, SaveModel(nodes), At(path))
      <4>1. Append(<<>>, a.childIndex) = path
        BY <3>2, <3>3
      <4> HIDE DEF path, table, a
      <4> QED BY <3>1, <4>1 DEF AdoptAttached
    <3>9. (\A x \in {a.interval} : <<path, x>> \in Q) /\ SaveModel(nodes) \in {saved, SaveModel(nodes)}
      BY <3>3, <3>4
    <3> HIDE DEF table, nodes, a, path, Q, i, pair
    <3>10. Learns(path, Q, table, nodes, {a.interval}, SaveModel(nodes))
      BY <3>5, <3>6, <3>7, <3>8, <3>9 DEF Learns
    <3> QED BY <1>0, <1>12, <3>10, AdoptHears
  <2>2. CASE Len(path) # 1
    <3>1. model' = model /\ children' = children /\ saved' = saved /\ missed' = missed
      BY <2>2 DEF Bind, master, k
    <3>2. path \notin DOMAIN model
      <4>1. SUFFICES ASSUME path \in DOMAIN model PROVE FALSE
        OBVIOUS
      <4>2. Came(path, stage)
        BY <4>1 DEF Presence, Promising, Holds, Promises
      <4>3. PICK c \in Devices : \E j \in 1..stage[c] : Itinerary[c][j] = path
        BY <4>2 DEF Came
      <4>4. PICK j \in 1..stage[c] : Itinerary[c][j] = path
        BY <4>3
      <4>5. stage[c] \in Nat /\ stage[c] =< Len(Itinerary[c]) /\ Len(Itinerary[c]) \in Nat
        BY <1>0, LenProperties DEF Staged
      <4>6. j \in 1..Len(Itinerary[c])
        BY <4>5
      <4>7. c = d
        BY <1>2, <4>4, <4>6, StopOnce
      <4>8. j = k
        BY <1>2, <4>4, <4>6, <4>7 DEF Placed
      <4> HIDE DEF path
      <4> QED BY <1>2, <4>4, <4>5, <4>7, <4>8
    <3> HIDE DEF path, Q
    <3> QED BY <1>12, <3>1, <3>2
  <2> QED BY <2>1, <2>2
<1>14. Promising'
  BY <1>7, <1>10, <1>13 DEF Promising
<1> HIDE DEF P, Q, path
<1>15. ASSUME NEW e \in alive', Bound(e)', Place(e)' \in DOMAIN model'
       PROVE  Explained(model'[Place(e)'], missed'[e], since'[e], Telling(e)')
  <2>1. e \in alive /\ e \in Devices
    BY <1>0, <1>4, <1>15 DEF Staged
  <2>2. CASE model'[Place(e)'].silence = 0 /\ model'[Place(e)'].online = TRUE
    <3>1. model'[Place(e)'] \in Entry /\ missed'[e] \in Nat /\ since'[e] \in 0..Never
      BY <1>15, <2>1 DEF Typed, Mastered, Staged, Table
    <3> QED BY <2>2, <3>1, NewExplained
  <2>3. CASE /\ Place(e)' # path /\ Place(e)' \in DOMAIN model
             /\ model'[Place(e)'] = model[Place(e)']
             /\ \A c \in Devices \ At(path) : missed'[c] = missed[c]
    <3>1. e # d
      BY <1>5, <2>3
    <3>2. Bound(e) /\ Place(e)' = Place(e) /\ since'[e] = since[e]
      BY <1>5, <1>15, <2>1, <3>1
    <3>3. missed'[e] = missed[e]
      BY <2>1, <2>3, <3>2 DEF At
    <3>4. Explained(model[Place(e)], missed[e], since[e], Telling(e))
      BY <2>1, <2>3, <3>2 DEF Presence
    <3>5. Telling(e) => Telling(e)'
      BY <1>11, <2>1
    <3> QED BY <2>3, <3>2, <3>3, <3>4, <3>5, StillExplained
  <2> QED BY <1>13, <1>15, <2>2, <2>3
<1> QED BY <1>14, <1>15 DEF Presence

LEMMA PresenceNext ==
  ASSUME Placed
  PROVE  Typed /\ Presence /\ [Next]_vars /\ [Tightens]_every => Presence'
<1> SUFFICES ASSUME Typed, Presence, [Next]_vars, [Tightens]_every PROVE Presence'
  OBVIOUS
<1>1. Typed'
  BY TypedNext
<1>2. Tightens
  <2>1. CASE every' = every
    <3>1. \A d \in Devices : every[d] \in 0..Longest
      BY DEF Typed, Staged
    <3> QED BY <2>1, <3>1 DEF Tightens, Shortens
  <2> QED BY <2>1
<1>3. ASSUME NEW d \in Devices, Die(d) \/ Ask(d) \/ LoseDown(d) PROVE Presence'
  <2>1. UNCHANGED <<model, children, saved, stage, every, since, up, missed>>
        /\ alive' \subseteq alive
    BY <1>3 DEF Die, Ask, LoseDown, master, device
  <2> QED BY <2>1, PresenceQuiet
<1>4. CASE UNCHANGED vars
  <2>1. UNCHANGED <<model, children, saved, stage, every, since, up, missed>>
        /\ alive' \subseteq alive
    BY <1>4 DEF vars, master, device
  <2> QED BY <2>1, PresenceQuiet
<1>5. ASSUME NEW d \in Devices, Bind(d) \/ Report(d) \/ Serve(d) PROVE Presence'
  BY <1>1, <1>2, <1>5, PresenceBind, PresenceReport, PresenceServe
<1>6. ASSUME NEW h \in Hops, Receive(h) \/ LoseUp(h) PROVE Presence'
  BY <1>1, <1>6, PresenceReceive, PresenceLoseUp
<1>7. CASE Sweep \/ Restart \/ Tick
  BY <1>1, <1>7, PresenceClock
<1> QED BY <1>3, <1>4, <1>5, <1>6, <1>7 DEF Next

LEMMA PresenceImplies == Typed /\ Presence => NotOfflineForObeying
<1> SUFFICES ASSUME Typed, Presence, NEW d \in alive, Reached(d), Place(d) \in DOMAIN model,
                    ~model[Place(d)].online
             PROVE  missed[d] >= OfflineIntervals - 1
  BY DEF NotOfflineForObeying
<1>1. d \in Devices /\ Bound(d) /\ missed[d] \in Nat
  BY DEF Typed, Staged, Mastered, Reached
<1>2. missed[d] + 1 >= OfflineIntervals
  BY <1>1 DEF Presence, Explained
<1> QED BY <1>1, <1>2

(* A node that works is not called offline for obeying: as long as no policy  *)
(* that it takes lets it report less often, a device with power and a path to *)
(* the master is offline there only after as many of its reports were lost in *)
(* a row as fit in the silence it is allowed, however often the master        *)
(* restarted from whichever of its files was saved last                       *)
(* (HAPModel::sweepOffline(), notePolicy(), HAPStack::begin()).               *)
THEOREM ObeyingIsNotOffline ==
  ASSUME Placed
  PROVE  Spec /\ [][Tightens]_every => []NotOfflineForObeying
<1>1. Init => Presence
  BY PresenceInit
<1>2. Typed /\ Presence /\ [Next]_vars /\ [Tightens]_every => Presence'
  BY PresenceNext
<1>3. Typed /\ Presence => NotOfflineForObeying
  BY PresenceImplies
<1> QED BY <1>1, <1>2, <1>3, TypedAlways, PTL DEF Spec

=============================================================================
