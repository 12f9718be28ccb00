-------------------------- MODULE HAPDeviceProofs --------------------------
(***************************************************************************)
(* Theorems about HAPDevice, for every composition of a node, every set of  *)
(* links, policies and readings, and every width of the clock.              *)
(***************************************************************************)
EXTENDS HAPDevice, LeastNatural, FiniteSetTheorems, SequenceTheorems

USE LinksAssumption, DeviceAssumption

Clock == 0 .. Wrap - 1

-----------------------------------------------------------------------------
(* The clock *)

LEMMA TickType ==
  ASSUME NEW t \in Clock
  PROVE  Tick(t) \in Clock
  BY DEF Tick, Clock

\* No time has passed since now, and a clock's distance is a time.
LEMMA ElapsedType ==
  ASSUME NEW t \in Clock, NEW since \in Clock
  PROVE  Elapsed(since, t) \in Clock /\ Elapsed(t, t) = 0
  BY DEF Elapsed, Clock

\* A tick on, one more tick has passed, until the clock has gone all the way round.
LEMMA ElapsedTick ==
  ASSUME NEW t \in Clock, NEW since \in Clock, Elapsed(since, t) + 1 < Wrap
  PROVE  Elapsed(since, Tick(t)) = Elapsed(since, t) + 1
  BY DEF Elapsed, Tick, Clock

\* The lesser of two numbers.
LEMMA MinOfTwo ==
  ASSUME NEW a \in Nat, NEW b \in Nat
  PROVE  Min({a, b}) = IF a =< b THEN a ELSE b
<1> DEFINE m == IF a =< b THEN a ELSE b
<1>1. m \in {a, b} /\ \A y \in {a, b} : m =< y
  OBVIOUS
<1>2. \A x \in {a, b} : (\A y \in {a, b} : x =< y) => x = m
  OBVIOUS
<1> QED BY <1>1, <1>2 DEF Min

-----------------------------------------------------------------------------
(* Types *)

Inputs   == [value : Value, at : Clock]
Policies == [interval : Clock, deadband : {v \in Value : v.type # "String"}, last : Value,
             at : Clock, sent : BOOLEAN]

Typed ==
  /\ now \in Clock
  /\ out \in [Outs -> Value]
  /\ \A p \in Outs : Fits(out[p], ValueType(p.class, "Out", p.port))
  /\ input \in [Ins -> Inputs]
  /\ \A i \in Ins : Fits(input[i].value, ValueType(i.class, "In", i.port))
  /\ policy \in [Outs -> Policies]
  /\ bound \in BOOLEAN

LEMMA NullType ==
  /\ Null \in {v \in Value : v.type # "String"}
  /\ \A type : Fits(Null, type)
  BY DEF Null, Value, Fits

\* What is measured in numbers is a number.
LEMMA FloatType ==
  ASSUME NEW v \in Value, v.type # "String"
  PROVE  v.n \in Nat
  BY DEF Value

\* A wire passes on what its source reported, if the input can take it.
LEMMA FedType ==
  ASSUME Typed, NEW entries, \A p \in DOMAIN entries : entries[p] \in Value,
         NEW t \in Clock
  PROVE  /\ Fed(entries, t) \in [Ins -> Inputs]
         /\ \A i \in Ins : Fits(Fed(entries, t)[i].value, ValueType(i.class, "In", i.port))
<1>1. ASSUME NEW i \in Ins, i \in Feeds(entries)
      PROVE  FedBy(i, entries) \in Feeding(i, entries)
  BY <1>1 DEF Feeds, FedBy
<1>2. ASSUME NEW i \in Ins, i \in Feeds(entries)
      PROVE  /\ entries[FedBy(i, entries).src] \in Value
             /\ Fits(entries[FedBy(i, entries).src], ValueType(i.class, "In", i.port))
  BY <1>1, <1>2 DEF Feeding
<1> QED BY <1>2 DEF Fed, Typed, Inputs

LEMMA FreshType ==
  /\ 0 \in Clock
  /\ Fresh \in Policies /\ Begun \in [Outs -> Policies]
  /\ Unfed \in [Ins -> Inputs] /\ \A i \in Ins : Unfed[i].value = Null
<1>1. 0 \in Clock /\ Default \in Clock
  BY DEF Clock
<1>2. Fresh \in Policies
  BY <1>1, NullType DEF Fresh, Policies
<1>3. [value |-> Null, at |-> 0] \in Inputs
  BY <1>1, NullType DEF Inputs
<1> QED BY <1>1, <1>2, <1>3 DEF Begun, Unfed

LEMMA TypedInit == Init => Typed
<1> SUFFICES ASSUME Init PROVE Typed
  OBVIOUS
<1>1. out = [p \in Outs |-> Null] /\ out \in [Outs -> Value]
  BY NullType DEF Init
<1>2. bound \in BOOLEAN
  BY DEF Init
<1> QED BY <1>1, <1>2, NullType, FreshType DEF Init, Typed

LEMMA TypedNext == Typed /\ [Next]_vars => Typed'
<1> SUFFICES ASSUME Typed, [Next]_vars PROVE Typed'
  OBVIOUS
<1>1. ASSUME NEW p \in Measured, NEW v \in Readings, Publish(p, v) PROVE Typed'
  BY <1>1 DEF Publish, Typed
<1>2. ASSUME NEW i \in Written, NEW v \in Heard, Write(i, v) PROVE Typed'
  <2>1. input' = [input EXCEPT ![i] = [value |-> v, at |-> now]] /\ i \in Ins
    BY <1>2 DEF Write
  <2>2. [value |-> v, at |-> now] \in Inputs
    BY DEF Inputs, Typed
  <2> QED BY <1>2, <2>1, <2>2 DEF Write, Typed
<1>3. ASSUME NEW v \in Heard, HearChild(v) PROVE Typed'
  <2> DEFINE entries == [src \in {Child} |-> v]
  <2>1. input' = Fed(entries, now) /\ UNCHANGED <<now, out, policy, bound>>
    BY <1>3 DEF HearChild
  <2>2. \A p \in DOMAIN entries : entries[p] \in Value
    OBVIOUS
  <2>3. now \in Clock
    BY DEF Typed
  <2> HIDE DEF entries
  <2>4. /\ Fed(entries, now) \in [Ins -> Inputs]
        /\ \A i \in Ins : Fits(Fed(entries, now)[i].value, ValueType(i.class, "In", i.port))
    BY <2>2, <2>3, FedType
  <2> QED BY <2>1, <2>4 DEF Typed
<1>4. ASSUME NEW p \in Measured, NEW interval \in Intervals, NEW b \in Deadbands,
             SetPolicy(p, interval, b)
      PROVE  Typed'
  <2>1. Clamped(interval) \in Clock
    BY DEF Clamped, Clock
  <2> QED BY SMTT(30), <1>4, <2>1 DEF SetPolicy, Typed, Policies
<1>5. ASSUME NEW spec \in Specs, SetLinkRequest(spec) PROVE Typed'
  BY <1>5 DEF SetLinkRequest, Typed
<1>6. ASSUME NEW id \in LinkId \cup {AllLinks}, ClearLinkRequest(id) PROVE Typed'
  BY <1>6 DEF ClearLinkRequest, Typed
<1>7. ASSUME NEW taken \in BOOLEAN, Loop(taken) PROVE Typed'
  <2> DEFINE entries == [p \in Reported |-> out[p]]
  <2>1. now' = Tick(now) /\ now' \in Clock /\ UNCHANGED <<out, bound>>
    BY <1>7, TickType DEF Loop, Typed
  <2>2. input' = input \/ input' = Fed(entries, now')
    BY <1>7 DEF Loop
  <2>3. \A p \in DOMAIN entries : entries[p] \in Value
    BY DEF Reported, Typed
  <2> HIDE DEF entries
  <2>4. /\ Fed(entries, now') \in [Ins -> Inputs]
        /\ \A i \in Ins : Fits(Fed(entries, now')[i].value, ValueType(i.class, "In", i.port))
    BY <2>1, <2>3, FedType
  <2>5. policy' = policy \/ policy' = MarkReported(now')
    BY <1>7 DEF Loop
  <2>6. MarkReported(now') \in [Outs -> Policies]
    BY ZenonT(60), <2>1 DEF MarkReported, Typed, Policies
  <2>7. /\ input' \in [Ins -> Inputs]
        /\ \A i \in Ins : Fits(input'[i].value, ValueType(i.class, "In", i.port))
    BY <2>2, <2>4 DEF Typed
  <2> QED BY <2>1, <2>5, <2>6, <2>7 DEF Typed
<1>8. ASSUME Bind \/ FactoryReset PROVE Typed'
  BY <1>8 DEF Bind, FactoryReset, Typed
<1>9. ASSUME Restart PROVE Typed'
  BY <1>9, NullType, FreshType DEF Restart, Typed
<1>10. ASSUME UNCHANGED vars PROVE Typed'
  BY <1>10 DEF vars, device, Typed
<1> QED
  BY <1>1, <1>2, <1>3, <1>4, <1>5, <1>6, <1>7, <1>8, <1>9, <1>10 DEF Next

-----------------------------------------------------------------------------
(* How long ago an input was written *)

\* Until the clock has gone round, the ticks since an input was written are what
\* updatedAtMs and the clock say they are.
Clocked ==
  /\ age \in [Ins -> 0 .. Wrap]
  /\ \A i \in Ins : age[i] < Wrap => Elapsed(input[i].at, now) = age[i]

LEMMA ClockedInit == Init => Clocked
  BY Wrap \in Nat \ {0} DEF Init, Clocked

\* A wire that is fed writes its input now, and no other.
LEMMA FedAt ==
  ASSUME NEW entries, NEW t, NEW i \in Ins
  PROVE  Fed(entries, t)[i].at = IF i \in Feeds(entries) THEN t ELSE input[i].at
  BY DEF Fed

LEMMA ClockedNext == Typed /\ Clocked /\ [Next]_vars => Clocked'
<1> SUFFICES ASSUME Typed, Clocked, [Next]_vars PROVE Clocked'
  OBVIOUS
<1>t. /\ now \in Clock /\ \A i \in Ins : input[i].at \in Clock
  BY DEF Typed, Inputs
<1>0. Elapsed(now, now) = 0 /\ 0 \in 0 .. Wrap
  BY <1>t, ElapsedType DEF Clock
<1>1. ASSUME NEW p \in Measured, NEW v \in Readings, Publish(p, v) PROVE Clocked'
  BY <1>1 DEF Publish, Clocked
<1>2. ASSUME NEW i \in Written, NEW v \in Heard, Write(i, v) PROVE Clocked'
  <2>1. /\ input' = [input EXCEPT ![i] = [value |-> v, at |-> now]] /\ i \in Ins
        /\ age' = [age EXCEPT ![i] = 0] /\ now' = now
    BY <1>2 DEF Write
  <2>2. age' \in [Ins -> 0 .. Wrap]
    BY <2>1, <1>0 DEF Clocked
  <2>3. ASSUME NEW j \in Ins, age'[j] < Wrap PROVE Elapsed(input'[j].at, now') = age'[j]
    <3>1. CASE j = i
      BY <3>1, <2>1, <1>0 DEF Clocked, Typed
    <3>2. CASE j # i
      BY <3>2, <2>1, <2>3 DEF Clocked, Typed
    <3> QED BY <3>1, <3>2
  <2> QED BY <2>2, <2>3 DEF Clocked
<1>3. ASSUME NEW v \in Heard, HearChild(v) PROVE Clocked'
  <2> DEFINE entries == [src \in {Child} |-> v]
  <2>1. /\ input' = Fed(entries, now) /\ now' = now
        /\ age' = [i \in Ins |-> IF i \in Feeds(entries) THEN 0 ELSE age[i]]
    BY <1>3 DEF HearChild
  <2> HIDE DEF entries
  <2>2. age' \in [Ins -> 0 .. Wrap]
    BY <2>1, <1>0 DEF Clocked
  <2>3. ASSUME NEW j \in Ins, age'[j] < Wrap PROVE Elapsed(input'[j].at, now') = age'[j]
    BY <2>1, <2>3, <1>0, FedAt DEF Clocked
  <2> QED BY <2>2, <2>3 DEF Clocked
<1>4. ASSUME NEW p \in Measured, NEW interval \in Intervals, NEW b \in Deadbands,
             SetPolicy(p, interval, b)
      PROVE  Clocked'
  BY <1>4 DEF SetPolicy, Clocked
<1>5. ASSUME NEW spec \in Specs, SetLinkRequest(spec) PROVE Clocked'
  BY <1>5 DEF SetLinkRequest, Clocked
<1>6. ASSUME NEW id \in LinkId \cup {AllLinks}, ClearLinkRequest(id) PROVE Clocked'
  BY <1>6 DEF ClearLinkRequest, Clocked
<1>7. ASSUME NEW taken \in BOOLEAN, Loop(taken) PROVE Clocked'
  <2>1. PICK feeds :
          /\ now' = Tick(now)
          /\ age' = [i \in Ins |-> IF i \in feeds THEN 0 ELSE Older(i)]
          /\ \A i \in Ins : input'[i].at = IF i \in feeds THEN now' ELSE input[i].at
    <3> DEFINE entries == [p \in Reported |-> out[p]]
               feeding == FeedsWires(bound /\ Due(Tick(now)), taken)
               fed     == IF feeding THEN Feeds(entries) ELSE {}
    <3>1. /\ now' = Tick(now)
          /\ input' = IF feeding THEN Fed(entries, now') ELSE input
          /\ age' = [i \in Ins |-> IF i \in fed THEN 0 ELSE Older(i)]
      BY <1>7 DEF Loop
    <3>2. \A i \in Ins : input'[i].at = IF i \in fed THEN now' ELSE input[i].at
      <4> HIDE DEF entries, feeding
      <4> QED BY <3>1, FedAt
    <3> HIDE DEF fed
    <3> QED BY <3>1, <3>2
  <2>2. ASSUME NEW i \in Ins
        PROVE  Older(i) = IF age[i] + 1 =< Wrap THEN age[i] + 1 ELSE Wrap
    <3>1. age[i] + 1 \in Nat /\ Wrap \in Nat
      BY DEF Clocked
    <3> QED BY <3>1, MinOfTwo DEF Older
  <2>3. \A i \in Ins : age[i] \in 0 .. Wrap /\ Older(i) \in 0 .. Wrap
    BY <2>2 DEF Clocked
  <2>4. age' \in [Ins -> 0 .. Wrap]
    BY <2>1, <2>3, <1>0
  <2>5. now' \in Clock
    BY <2>1, <1>t, TickType
  <2>6. ASSUME NEW i \in Ins, age'[i] < Wrap PROVE Elapsed(input'[i].at, now') = age'[i]
    <3>1. CASE i \in feeds
      BY <3>1, <2>1, <2>5, ElapsedType
    <3>2. CASE i \notin feeds
      <4>1. age'[i] = Older(i) /\ input'[i].at = input[i].at
        BY <3>2, <2>1
      <4>2. age[i] + 1 < Wrap /\ age'[i] = age[i] + 1
        BY <4>1, <2>2, <2>3, <2>6
      <4>3. Elapsed(input[i].at, now) = age[i]
        BY <4>2, <2>3 DEF Clocked
      <4> QED BY <4>1, <4>2, <4>3, <2>1, <1>t, ElapsedTick
    <3> QED BY <3>1, <3>2
  <2> QED BY <2>4, <2>6 DEF Clocked
<1>8. ASSUME Bind \/ FactoryReset PROVE Clocked'
  BY <1>8 DEF Bind, FactoryReset, Clocked
<1>9. ASSUME Restart PROVE Clocked'
  BY <1>9, Wrap \in Nat \ {0} DEF Restart, Clocked
<1>10. ASSUME UNCHANGED vars PROVE Clocked'
  BY <1>10 DEF vars, device, history, Clocked
<1> QED
  BY <1>1, <1>2, <1>3, <1>4, <1>5, <1>6, <1>7, <1>8, <1>9, <1>10 DEF Next

LEMMA ClockedImplies == Typed /\ Clocked => StaleAfterTimeout
<1> SUFFICES ASSUME Typed, Clocked, NEW i \in Ins, age[i] < Wrap
             PROVE  Stale(i, now) <=> input[i].value = Null \/ age[i] >= Timeout
  BY DEF StaleAfterTimeout
<1>1. Elapsed(input[i].at, now) = age[i]
  BY DEF Clocked
<1> QED BY <1>1 DEF Stale

\* Whatever wrote an input - a wire, a child, a master - and wherever the clock
\* wrapped since, isStale() says it is stale exactly from its timeout on, for as
\* long as the clock has not gone all the way round.
THEOREM StaleOnTime == Spec => []StaleAfterTimeout
  BY TypedInit, TypedNext, ClockedInit, ClockedNext, ClockedImplies, PTL DEF Spec

-----------------------------------------------------------------------------
(* How long ago a report left, and what it said *)

\* The clock of a port that was reported runs from the last report of all, and its
\* policy remembers what was said of it.
Reporting ==
  /\ quiet \in Clock
  /\ \A p \in Outs : /\ policy[p].sent => Elapsed(policy[p].at, now) = quiet
                     /\ told[p] = policy[p].last

LEMMA ReportingInit == Init => Reporting
  BY FreshType DEF Init, Reporting, Begun, Fresh

\* A pass either sends a report, of every port that has something to say, or
\* lets a tick of silence go by.
LEMMA PassReports ==
  ASSUME Typed, Reporting, NEW taken \in BOOLEAN, Loop(taken), NEW p \in Outs
  PROVE  \/ /\ quiet' = 0
            /\ policy'[p].last = out[p] /\ policy'[p].at = now' /\ policy'[p].sent
            /\ told'[p] = out[p]
            /\ bound /\ taken
         \/ /\ quiet' = quiet + 1 /\ quiet + 1 < Wrap
            /\ policy' = policy /\ told'[p] = told[p]
            /\ bound /\ taken => ~Due(now')
<1> DEFINE speaks == bound /\ Due(Tick(now))
<1>1. /\ now' = Tick(now)
      /\ (speaks /\ taken) \/ quiet + 1 < Wrap
      /\ policy' = IF speaks /\ taken THEN MarkReported(now') ELSE policy
      /\ IF speaks /\ taken
         THEN /\ told' = [q \in Outs |-> IF q \in Reported THEN out[q] ELSE told[q]]
              /\ quiet' = 0
         ELSE quiet' = quiet + 1 /\ told' = told
  BY DEF Loop, Marks
<1>2. CASE speaks /\ taken
  <2>1. /\ policy'[p].last = out[p] /\ policy'[p].at = now' /\ policy'[p].sent
    BY <1>1, <1>2 DEF MarkReported, Typed, Policies
  <2>2. told'[p] = out[p]
    <3>1. CASE p \in Reported
      BY <1>1, <1>2, <3>1
    <3>2. CASE p \notin Reported
      BY <1>1, <1>2, <3>2 DEF Reported, Unmeasured, Reporting
    <3> QED BY <3>1, <3>2
  <2> QED BY <1>1, <1>2, <2>1, <2>2
<1>3. CASE ~(speaks /\ taken)
  BY <1>1, <1>3
<1> QED BY <1>2, <1>3

LEMMA ReportingNext == Typed /\ Reporting /\ [Next]_vars => Reporting'
<1> SUFFICES ASSUME Typed, Reporting, [Next]_vars PROVE Reporting'
  OBVIOUS
<1>t. now \in Clock /\ quiet \in Clock /\ \A p \in Outs : policy[p].at \in Clock
  BY DEF Typed, Policies, Reporting
<1>1. ASSUME NEW p \in Measured, NEW v \in Readings, Publish(p, v) PROVE Reporting'
  BY <1>1 DEF Publish, Reporting
<1>2. ASSUME NEW i \in Written, NEW v \in Heard, Write(i, v) PROVE Reporting'
  BY <1>2 DEF Write, Reporting
<1>3. ASSUME NEW v \in Heard, HearChild(v) PROVE Reporting'
  BY <1>3 DEF HearChild, Reporting
<1>4. ASSUME NEW p \in Measured, NEW interval \in Intervals, NEW b \in Deadbands,
             SetPolicy(p, interval, b)
      PROVE  Reporting'
  BY <1>4 DEF SetPolicy, Reporting, Typed, Policies
<1>5. ASSUME NEW spec \in Specs, SetLinkRequest(spec) PROVE Reporting'
  BY <1>5 DEF SetLinkRequest, Reporting
<1>6. ASSUME NEW id \in LinkId \cup {AllLinks}, ClearLinkRequest(id) PROVE Reporting'
  BY <1>6 DEF ClearLinkRequest, Reporting
<1>7. ASSUME NEW taken \in BOOLEAN, Loop(taken) PROVE Reporting'
  <2>1. now' = Tick(now) /\ now' \in Clock
    BY <1>7, <1>t, TickType DEF Loop
  <2>2. quiet' = 0 \/ (quiet' = quiet + 1 /\ quiet + 1 < Wrap)
    BY <1>7 DEF Loop
  <2>3. quiet' \in Clock
    BY <2>2, <1>t DEF Clock
  <2>4. ASSUME NEW p \in Outs
        PROVE  /\ policy'[p].sent => Elapsed(policy'[p].at, now') = quiet'
               /\ told'[p] = policy'[p].last
    <3>1. CASE /\ quiet' = 0
               /\ policy'[p].last = out[p] /\ policy'[p].at = now' /\ told'[p] = out[p]
      BY <3>1, <2>1, ElapsedType
    <3>2. CASE /\ quiet' = quiet + 1 /\ quiet + 1 < Wrap
               /\ policy' = policy /\ told'[p] = told[p]
      <4>1. /\ told'[p] = policy'[p].last
            /\ policy'[p].sent => Elapsed(policy[p].at, now) = quiet
        BY <3>2 DEF Reporting
      <4> QED BY <4>1, <3>2, <2>1, <1>t, ElapsedTick
    <3> QED BY <1>7, <3>1, <3>2, PassReports
  <2> QED BY <2>3, <2>4 DEF Reporting
<1>8. ASSUME Bind \/ FactoryReset PROVE Reporting'
  BY <1>8 DEF Bind, FactoryReset, Reporting
<1>9. ASSUME Restart PROVE Reporting'
  BY <1>9, FreshType DEF Restart, Reporting, Begun, Fresh
<1>10. ASSUME UNCHANGED vars PROVE Reporting'
  BY <1>10 DEF vars, device, history, Reporting
<1> QED
  BY <1>1, <1>2, <1>3, <1>4, <1>5, <1>6, <1>7, <1>8, <1>9, <1>10 DEF Next

\* Only the main loop and a restart let time pass.
LEMMA WhoPasses ==
  ASSUME [Next]_vars, Pass
  PROVE  Restart \/ \E taken \in BOOLEAN : Loop(taken)
  BY DEF Next, Pass, vars, Publish, Write, HearChild, SetPolicy, SetLinkRequest,
         ClearLinkRequest, Bind, FactoryReset

\* What is not news is near what was said last.
LEMMA NotMoved ==
  ASSUME NEW a \in Value, NEW b \in Value,
         NEW d \in {v \in Value : v.type # "String"}, ~Moved(a, b, d)
  PROVE  Near(a, b, d)
<1>1. CASE d = Null \/ a.type # "Float" \/ b.type # "Float"
  BY <1>1 DEF Moved, Near
<1>2. CASE d # Null /\ a.type = "Float" /\ b.type = "Float"
  <2>1. a.n \in Nat /\ b.n \in Nat /\ d.n \in Nat
    BY <1>2, FloatType
  <2> QED BY <1>2, <2>1 DEF Moved, Near, Distance
<1> QED BY <1>1, <1>2

LEMMA NewsStep ==
  ASSUME Typed, Reporting, [Next]_vars, Sent, NEW p \in Outs
  PROVE  Near(told[p], out[p], policy[p].deadband)'
<1>1. CASE Restart
  BY <1>1 DEF Restart, Near
<1>2. ASSUME NEW taken \in BOOLEAN, Loop(taken)
      PROVE  Near(told[p], out[p], policy[p].deadband)'
  <2>1. bound /\ taken /\ out' = out
    BY <1>2 DEF Loop, Sent
  <2>2. CASE told'[p] = out[p]
    BY <2>1, <2>2 DEF Near
  <2>3. CASE policy' = policy /\ told'[p] = told[p] /\ ~Due(now')
    <3>1. told[p] = policy[p].last
      BY DEF Reporting
    <3>2. CASE Unmeasured(p)
      BY <2>1, <2>3, <3>1, <3>2 DEF Unmeasured, Near
    <3>3. CASE ~Unmeasured(p)
      <4>1. ~Moved(policy[p].last, out[p], policy[p].deadband)
        BY <2>3, <3>3 DEF Due, IsDue
      <4>2. Near(policy[p].last, out[p], policy[p].deadband)
        BY <4>1, NotMoved DEF Typed, Policies
      <4> QED BY <2>1, <2>3, <3>1, <4>2 DEF Near
    <3> QED BY <3>2, <3>3
  <2> QED BY <1>2, <2>1, <2>2, <2>3, PassReports
<1> QED BY <1>1, <1>2, WhoPasses DEF Sent

LEMMA SilenceStep ==
  ASSUME Typed, Reporting, [Next]_vars, Sent, NEW p \in Outs,
         out'[p] # Null, policy'[p].interval # 0
  PROVE  quiet' < policy'[p].interval
<1>1. CASE Restart
  BY <1>1 DEF Restart
<1>2. ASSUME NEW taken \in BOOLEAN, Loop(taken) PROVE quiet' < policy'[p].interval
  <2>1. /\ bound /\ taken /\ out' = out /\ now' = Tick(now)
        /\ policy[p] \in Policies /\ quiet \in Clock /\ now \in Clock
    BY <1>2 DEF Loop, Sent, Typed, Reporting
  <2>2. CASE quiet' = 0
    <3>1. policy'[p].interval = policy[p].interval
      BY <1>2, <2>1 DEF Loop, MarkReported, Typed, Policies
    <3> QED BY <2>1, <2>2, <3>1 DEF Policies, Clock
  <2>3. CASE quiet' = quiet + 1 /\ quiet + 1 < Wrap /\ policy' = policy /\ ~Due(now')
    <3>1. policy[p].sent /\ ~(Elapsed(policy[p].at, now') >= policy[p].interval)
      BY <2>1, <2>3 DEF Due, IsDue, Unmeasured
    <3>2. Elapsed(policy[p].at, now') = quiet + 1
      BY <2>1, <2>3, <3>1, ElapsedTick DEF Reporting, Policies
    <3> QED BY <2>1, <2>3, <3>1, <3>2 DEF Policies, Clock
  <2> QED BY <1>2, <2>1, <2>2, <2>3, PassReports
<1> QED BY <1>1, <1>2, WhoPasses DEF Sent

\* No news is swallowed: after every pass of the loop that the radio let through,
\* what the parent was told of a port is what the port reads, to within its
\* deadband, whatever was published, refused, re-bound or restarted before.
THEOREM NewsArrives == Spec => NewsIsTold
<1>1. Typed /\ Reporting /\ [Next]_vars =>
        [Sent => \A p \in Outs : Near(told[p], out[p], policy[p].deadband)']_vars
  BY NewsStep
<1> QED BY <1>1, TypedInit, TypedNext, ReportingInit, ReportingNext, PTL DEF Spec, NewsIsTold

\* A bound node with a reading lets no interval go by without a report, across
\* the wrap of the millisecond counter.
THEOREM NoLongSilence == Spec => SilenceIsKept
<1>1. Typed /\ Reporting /\ [Next]_vars =>
        [Sent => \A p \in Outs :
           (out[p] # Null /\ policy[p].interval # 0 => quiet < policy[p].interval)']_vars
  BY SilenceStep
<1> QED BY <1>1, TypedInit, TypedNext, ReportingInit, ReportingNext, PTL
           DEF Spec, SilenceIsKept

-----------------------------------------------------------------------------
(* The wires *)

\* A link that passed every check of SetResult(): its ends carry one kind, and
\* those on this node are there.
Wire(l) ==
  /\ l.id \in LinkId
  /\ KindOf(l.src.class, "Out", l.src.port) = KindOf(l.dst.class, "In", l.dst.port)
  /\ l.src.path = <<>> => l.src \in Outs
  /\ l.dst.path = <<>> => l.dst \in Ins

\* No two of these links have a slot or an input in common.
Apart(wires) ==
  \A j, k \in DOMAIN wires : j # k => wires[j].id # wires[k].id /\ wires[j].dst # wires[k].dst

Good(wires) ==
  /\ wires \in Seq(LinkSpecs)
  /\ \A k \in DOMAIN wires : Wire(wires[k])
  /\ Apart(wires)

\* An end the node's own checks let through is one of its ports.
LEMMA LocalEnd ==
  ASSUME NEW ref \in PortRef, NEW dir \in {"Out", "In"},
         ref.path = <<>>, ValidateLocal(ref, dir) = "Ok"
  PROVE  ref \in LocalPorts(dir)
<1>1. HasInstance(ref) /\ HasPort(ref.class, dir, ref.port)
  BY DEF ValidateLocal
<1>2. PICK p \in PortsOf(ref.class, dir) : p.id = ref.port
  BY <1>1 DEF HasPort
<1>3. ref.inst + 1 \in DOMAIN Instances /\ Instances[ref.inst + 1] = ref.class
  BY <1>1 DEF HasInstance
<1>4. ref = Ref(<<>>, Instances[ref.inst + 1], (ref.inst + 1) - 1, p.id)
  BY <1>2, <1>3 DEF Ref, PortRef
<1> QED BY <1>2, <1>3, <1>4 DEF LocalPorts

\* What setLink() takes is a wire, and its input is nobody else's.
LEMMA AcceptedIsWire ==
  ASSUME NEW wires, NEW spec \in LinkSpecs, SetResult(wires, spec) = "Ok"
  PROVE  Wire(spec) /\ ~InputIsTaken(wires, spec.dst, spec.id)
<1>1. /\ spec.id \in LinkId /\ ValidateLink(spec.src, spec.dst) = "Ok"
      /\ ValidateLocal(spec.src, "Out") = "Ok" /\ ValidateLocal(spec.dst, "In") = "Ok"
      /\ ~InputIsTaken(wires, spec.dst, spec.id)
  BY DEF SetResult
<1>2. KindOf(spec.src.class, "Out", spec.src.port) = KindOf(spec.dst.class, "In", spec.dst.port)
  BY <1>1 DEF ValidateLink
<1>3. spec.src \in PortRef /\ spec.dst \in PortRef
  BY DEF LinkSpecs
<1> QED BY <1>1, <1>2, <1>3, LocalEnd DEF Wire, Outs, Ins

LEMMA SetLinkGood ==
  ASSUME NEW wires, Good(wires), NEW spec \in LinkSpecs
  PROVE  Good(SetLink(wires, spec))
<1>1. CASE SetResult(wires, spec) # "Ok"
  BY <1>1 DEF SetLink
<1>2. CASE SetResult(wires, spec) = "Ok"
  <2>1. /\ wires \in Seq(LinkSpecs) /\ Wire(spec)
        /\ \A k \in DOMAIN wires : wires[k].id # spec.id => wires[k].dst # spec.dst
    BY <1>2, AcceptedIsWire DEF Good, InputIsTaken
  <2>2. CASE \E k \in DOMAIN wires : wires[k].id = spec.id
    <3> DEFINE new == [k \in DOMAIN wires |-> IF wires[k].id = spec.id THEN spec ELSE wires[k]]
    <3>1. SetLink(wires, spec) = new
      BY <1>2, <2>2 DEF SetLink
    <3>2. new \in Seq(LinkSpecs) /\ DOMAIN new = DOMAIN wires
      BY <2>1
    <3>3. \A k \in DOMAIN new : Wire(new[k])
      BY <2>1, <3>2 DEF Good
    <3>4. Apart(new)
      BY <2>1, <3>2 DEF Apart, Good
    <3> QED BY <3>1, <3>2, <3>3, <3>4 DEF Good
  <2>3. CASE ~ \E k \in DOMAIN wires : wires[k].id = spec.id
    <3> DEFINE new == Append(wires, spec)
    <3>1. SetLink(wires, spec) = new
      BY <1>2, <2>3 DEF SetLink
    <3>2. /\ new \in Seq(LinkSpecs) /\ DOMAIN new = 1 .. Len(wires) + 1
          /\ DOMAIN wires = 1 .. Len(wires) /\ Len(wires) \in Nat
          /\ \A k \in DOMAIN wires : new[k] = wires[k]
          /\ new[Len(wires) + 1] = spec
      BY <2>1
    <3> HIDE DEF new
    <3>3. \A k \in DOMAIN new : k \in DOMAIN wires \/ k = Len(wires) + 1
      BY <3>2
    <3>4. \A k \in DOMAIN new : Wire(new[k])
      BY <2>1, <3>2, <3>3 DEF Good
    <3>5. Apart(new)
      BY <2>1, <2>3, <3>2, <3>3 DEF Apart, Good
    <3> QED BY <3>1, <3>2, <3>4, <3>5 DEF Good
  <2> QED BY <2>2, <2>3
<1> QED BY <1>1, <1>2

\* Any part of a good set of links, in any order, is one.
LEMMA FewerGood ==
  ASSUME NEW wires, Good(wires), NEW fewer \in Seq(LinkSpecs), NEW at,
         \A k \in DOMAIN fewer : at[k] \in DOMAIN wires /\ fewer[k] = wires[at[k]],
         \A j, k \in DOMAIN fewer : j # k => at[j] # at[k]
  PROVE  Good(fewer)
<1>1. \A k \in DOMAIN fewer : Wire(fewer[k])
  BY DEF Good
<1>2. ASSUME NEW j \in DOMAIN fewer, NEW k \in DOMAIN fewer, j # k
      PROVE  fewer[j].id # fewer[k].id /\ fewer[j].dst # fewer[k].dst
  <2>1. at[j] \in DOMAIN wires /\ at[k] \in DOMAIN wires /\ at[j] # at[k]
    BY <1>2
  <2>2. wires[at[j]].id # wires[at[k]].id /\ wires[at[j]].dst # wires[at[k]].dst
    BY <2>1 DEF Good, Apart
  <2> QED BY <2>2
<1> QED BY <1>1, <1>2 DEF Good, Apart

LEMMA RemoveAtGood ==
  ASSUME NEW wires, Good(wires), NEW i \in DOMAIN wires
  PROVE  Good(RemoveAt(wires, i)) /\ Range(RemoveAt(wires, i)) \subseteq Range(wires)
<1> DEFINE less == RemoveAt(wires, i)
           at   == [k \in 1 .. Len(wires) - 1 |-> IF k < i THEN k ELSE k + 1]
<1>1. wires \in Seq(LinkSpecs) /\ i \in 1 .. Len(wires) /\ Len(wires) \in Nat
  BY DEF Good
<1>2. /\ less \in Seq(LinkSpecs) /\ Len(less) = Len(wires) - 1
      /\ \A k \in 1 .. Len(wires) - 1 : less[k] = wires[at[k]]
  <2> DEFINE before == SubSeq(wires, 1, i - 1)
             after  == SubSeq(wires, i + 1, Len(wires))
  <2>1. /\ before \in Seq(LinkSpecs) /\ Len(before) = i - 1
        /\ \A k \in 1 .. i - 1 : before[k] = wires[k]
    BY <1>1
  <2>2. /\ after \in Seq(LinkSpecs) /\ Len(after) = Len(wires) - i
        /\ \A k \in 1 .. Len(wires) - i : after[k] = wires[k + i]
    BY <1>1
  <2>3. less = before \o after
    BY DEF RemoveAt
  <2> HIDE DEF before, after, less
  <2>4. /\ before \o after \in Seq(LinkSpecs)
        /\ Len(before \o after) = Len(before) + Len(after)
        /\ \A k \in 1 .. Len(before) + Len(after) :
             (before \o after)[k] = IF k =< Len(before) THEN before[k]
                                   ELSE after[k - Len(before)]
    BY <2>1, <2>2, ConcatProperties
  <2>5. ASSUME NEW k \in 1 .. Len(wires) - 1 PROVE less[k] = wires[at[k]]
    <3>0. /\ k \in 1 .. Len(before) + Len(after) /\ Len(before) = i - 1
          /\ i \in Nat /\ k \in Nat
      BY <1>1, <2>1, <2>2
    <3>1. CASE k < i
      <4>1. less[k] = before[k]
        BY <3>0, <3>1, <2>3, <2>4
      <4>2. before[k] = wires[k] /\ at[k] = k
        BY <3>0, <3>1, <2>1
      <4> QED BY <4>1, <4>2
    <3>2. CASE k >= i
      <4>1. less[k] = after[k - (i - 1)]
        BY <3>0, <3>2, <2>3, <2>4
      <4>2. after[k - (i - 1)] = wires[k + 1]
        BY <3>2, <1>1, <2>2
      <4> QED BY <3>2, <1>1, <4>1, <4>2
    <3> QED BY <1>1, <3>1, <3>2
  <2>6. Len(less) = Len(wires) - 1
    BY <1>1, <2>1, <2>2, <2>3, <2>4
  <2>7. less \in Seq(LinkSpecs)
    BY <2>3, <2>4
  <2> QED BY <2>5, <2>6, <2>7
<1>3. \A k \in DOMAIN less : at[k] \in DOMAIN wires /\ less[k] = wires[at[k]]
  BY SMTT(30), <1>1, <1>2
<1>4. \A j, k \in DOMAIN less : j # k => at[j] # at[k]
  BY <1>1, <1>2
<1> HIDE DEF less, at
<1>5. Good(less)
  BY <1>2, <1>3, <1>4, FewerGood
<1>6. Range(less) \subseteq Range(wires)
  BY <1>3 DEF Range
<1> QED BY <1>5, <1>6 DEF less

LEMMA ClearLinkGood ==
  ASSUME NEW wires, Good(wires), NEW id
  PROVE  Good(ClearLink(wires, id)) /\ Range(ClearLink(wires, id)) \subseteq Range(wires)
<1> DEFINE hits == {k \in 1 .. Len(wires) : wires[k].id = id}
<1>1. Good(<<>>) /\ Range(<<>>) = {}
  BY DEF Good, Apart, Range
<1>2. CASE id = AllLinks
  BY <1>1, <1>2 DEF ClearLink
<1>3. CASE id # AllLinks /\ hits = {}
  BY <1>3 DEF ClearLink, RemoveFirstMatch
<1>4. CASE id # AllLinks /\ hits # {}
  <2>1. PICK i : /\ ClearLink(wires, id) = RemoveAt(wires, i)
                 /\ i = SelectInSeq(wires, LAMBDA l : l.id = id)
    BY <1>4 DEF ClearLink, RemoveFirstMatch
  <2>2. i = Min(hits)
    BY <1>4, <2>1 DEF SelectInSeq
  <2>3. hits \in SUBSET Nat /\ hits \subseteq DOMAIN wires
    BY DEF Good
  <2>4. \A m, n \in hits : m =< n
    BY <2>3 DEF Good, Apart
  <2>5. i \in DOMAIN wires
    BY <1>4, <2>2, <2>3, <2>4 DEF Min
  <2> QED BY <2>1, <2>5, RemoveAtGood
<1> QED BY <1>2, <1>3, <1>4

LEMMA LinksInit == Init => Good(links)
  BY DEF Init, Good, Apart

LEMMA LinksNext == Good(links) /\ [Next]_vars => Good(links)'
<1> SUFFICES ASSUME Good(links), [Next]_vars PROVE Good(links')
  BY DEF Good, Apart
<1>1. ASSUME NEW spec \in Specs, SetLinkRequest(spec) PROVE Good(links')
  BY <1>1, SetLinkGood DEF SetLinkRequest
<1>2. ASSUME NEW id \in LinkId \cup {AllLinks}, ClearLinkRequest(id) PROVE Good(links')
  BY <1>2, ClearLinkGood DEF ClearLinkRequest
<1>3. CASE FactoryReset \/ Restart
  <2>1. links' = <<>>
    BY <1>3 DEF FactoryReset, Restart
  <2> QED BY <2>1 DEF Good, Apart
<1>4. CASE links' = links
  BY <1>4
<1>5. \/ \E spec \in Specs : SetLinkRequest(spec)
      \/ \E id \in LinkId \cup {AllLinks} : ClearLinkRequest(id)
      \/ FactoryReset \/ Restart \/ links' = links
  BY DEF Next, vars, device, Publish, Write, HearChild, SetPolicy, Loop, Bind
<1> QED BY <1>1, <1>2, <1>3, <1>4, <1>5

LEMMA LinksImply == Good(links) => OneDriver
  BY DEF Good, Apart, Wire, OneDriver

\* Links all have slots of their own, and there are MaxLinks slots.
LEMMA LinksFit == Good(links) => Len(links) =< MaxLinks
<1> SUFFICES ASSUME Good(links) PROVE Len(links) =< MaxLinks
  OBVIOUS
<1> DEFINE slot == [k \in 1 .. Len(links) |-> links[k].id]
<1>1. links \in Seq(LinkSpecs) /\ Len(links) \in Nat /\ DOMAIN links = 1 .. Len(links)
  BY DEF Good
<1>2. slot \in Injection(1 .. Len(links), LinkId)
  BY <1>1 DEF Injection, IsInjective, Good, Wire, Apart
<1>3. IsFiniteSet(LinkId) /\ Cardinality(LinkId) = MaxLinks
  <2>1. 0 \in Int /\ MaxLinks - 1 \in Int /\ ~(0 > MaxLinks - 1)
    OBVIOUS
  <2>2. /\ IsFiniteSet(0 .. MaxLinks - 1)
        /\ Cardinality(0 .. MaxLinks - 1) = IF 0 > MaxLinks - 1 THEN 0 ELSE MaxLinks - 1 - 0 + 1
    BY ONLY <2>1, FS_Interval
  <2> QED BY <2>1, <2>2 DEF LinkId
<1>4. Cardinality(1 .. Len(links)) = Len(links)
  <2> DEFINE n == Len(links)
  <2>1. n \in Nat
    BY <1>1
  <2> HIDE DEF n
  <2>2. 1 \in Int /\ n \in Int
    BY ONLY <2>1
  <2>3. Cardinality(1 .. n) = IF 1 > n THEN 0 ELSE n - 1 + 1
    BY ONLY <2>2, FS_Interval
  <2>4. Cardinality(1 .. n) = n
    BY ONLY <2>1, <2>3
  <2> QED BY <2>4 DEF n
<1> HIDE DEF slot
<1>5. Cardinality(1 .. Len(links)) =< Cardinality(LinkId)
  BY <1>2, <1>3, FS_Injection
<1> QED BY <1>3, <1>4, <1>5

\* Whatever is set, overwritten, cleared and set again, and in whatever order, no
\* input has two links, no slot holds two, and both ends of a link carry one kind.
THEOREM OneLinkAnInput == Spec => []OneDriver
  BY LinksInit, LinksNext, LinksImply, PTL DEF Spec

LEMMA TypedImplies == Typed /\ Good(links) => TypeOK
<1> SUFFICES ASSUME Typed, Good(links) PROVE TypeOK
  OBVIOUS
<1>1. /\ \A p \in Outs : out[p] \in Value /\ policy[p] \in Policies
      /\ \A i \in Ins : input[i] \in Inputs
  BY DEF Typed
<1>2. \A p \in Outs : /\ policy[p].interval \in Clock /\ policy[p].at \in Clock
                      /\ policy[p].sent \in BOOLEAN
  BY <1>1 DEF Policies
<1>3. \A i \in Ins : input[i].at \in Clock
  BY <1>1 DEF Inputs
<1> QED BY <1>1, <1>2, <1>3, LinksFit DEF Typed, TypeOK, Clock

\* Every port holds a value of its own type, a null included, whoever wrote it;
\* the clocks stay below the wrap, and the links in their slots.
THEOREM TypeCorrect == Spec => []TypeOK
  BY TypedInit, TypedNext, LinksInit, LinksNext, TypedImplies, PTL DEF Spec

-----------------------------------------------------------------------------
(* What the wires inside the node carry *)

\* A bounded, inhabited set of natural numbers has a greatest element.
LEMMA GreatestExists ==
  ASSUME NEW S, NEW b \in Nat, S \subseteq 0 .. b, S # {}
  PROVE  Max(S) \in S /\ \A n \in S : n =< Max(S)
<1> DEFINE T == {k \in Nat : b - k \in S}
<1>1. \A n \in S : n \in Nat /\ b - n \in T
  OBVIOUS
<1>2. T \subseteq Nat /\ T # {}
  BY <1>1
<1> HIDE DEF T
<1>3. PICK m \in T : \A n \in T : m =< n
  BY ONLY <1>2, LeastExists
<1>4. m \in Nat /\ b - m \in S
  BY <1>2, <1>3 DEF T
<1>5. ASSUME NEW n \in S PROVE b - m >= n
  BY <1>1, <1>3, <1>4
<1>6. \E x \in S : \A n \in S : x >= n
  BY <1>4, <1>5
<1>7. Max(S) \in S /\ \A n \in S : Max(S) >= n
  BY <1>6 DEF Max
<1> QED BY <1>1, <1>7

LEMMA CappedType ==
  ASSUME NEW n \in Nat
  PROVE  Capped(n) \in Nat /\ Capped(n) =< n
<1>1. Intervals \cup {Default} \subseteq 0 .. Wrap - 1 /\ Wrap - 1 \in Nat
  OBVIOUS
<1>2. Longest \in Intervals \cup {Default}
  BY <1>1, GreatestExists DEF Longest
<1>3. Longest \in Nat
  BY <1>1, <1>2
<1> QED BY <1>3, MinOfTwo DEF Capped

\* A link of this node alone is a wire between two of its ports.
LEMMA LocalWire ==
  ASSUME Good(links), NEW l \in Range(links), Local(l)
  PROVE  l.src \in Outs /\ l.dst \in Ins /\ l # NoLink
  BY DEF Good, Wire, Range, Local, NoLink, LinkId

\* What a report says of an output is what the input wired to it gets, and
\* nothing else feeds that input.
LEMMA WireCarries ==
  ASSUME Good(links), NEW l \in Range(links), Local(l), NEW entries,
         l.src \in DOMAIN entries =>
           Fits(entries[l.src], ValueType(l.src.class, "Out", l.src.port))
  PROVE  /\ l.dst \in Feeds(entries) <=> l.src \in DOMAIN entries
         /\ l.dst \in Feeds(entries) => FedBy(l.dst, entries) = l
<1>1. PICK j \in DOMAIN links : links[j] = l
  BY DEF Range
<1>2. \A k \in Range(links) : k.dst = l.dst => k = l
  BY <1>1 DEF Good, Apart, Range
<1>3. ValueType(l.src.class, "Out", l.src.port) = ValueType(l.dst.class, "In", l.dst.port)
  BY <1>1 DEF Good, Wire, ValueType
<1>4. Feeding(l.dst, entries) \subseteq {l}
  BY <1>2 DEF Feeding
<1>5. l \in Feeding(l.dst, entries) <=> l.src \in DOMAIN entries
  BY <1>3 DEF Feeding
<1>6. l.dst \in Feeds(entries) <=> Feeding(l.dst, entries) # {}
  BY LocalWire DEF Feeds
<1>7. Feeding(l.dst, entries) # {} => FedBy(l.dst, entries) \in Feeding(l.dst, entries)
  BY DEF FedBy
<1> QED BY <1>4, <1>5, <1>6, <1>7

\* One pass of the loop, as the input at the end of a wire sees it: it gets
\* what its source reads, or nothing.
LEMMA PassFeeds ==
  ASSUME Typed, Good(links), NEW taken \in BOOLEAN, Loop(taken),
         NEW l \in Range(links), Local(l)
  PROVE  IF bound /\ Due(Tick(now)) /\ ~Unmeasured(l.src)
         THEN /\ input'[l.dst].value = out[l.src] /\ driver'[l.dst] = l /\ age'[l.dst] = 0
              /\ l.dst \in ahead' <=> ~taken
         ELSE /\ input'[l.dst] = input[l.dst] /\ driver'[l.dst] = driver[l.dst]
              /\ age'[l.dst] = Older(l.dst)
              /\ l.dst \in ahead' <=> l.dst \in ahead
<1> DEFINE t       == Tick(now)
           speaks  == bound /\ Due(t)
           entries == [p \in Reported |-> out[p]]
           feeds   == IF speaks THEN Feeds(entries) ELSE {}
<1>1. /\ input' = IF speaks THEN Fed(entries, t) ELSE input
      /\ age' = [i \in Ins |-> IF i \in feeds THEN 0 ELSE Older(i)]
      /\ driver' = IF speaks THEN DriverOf(entries) ELSE driver
      /\ ahead' = IF taken THEN ahead \ feeds ELSE ahead \cup feeds
  BY DEF Loop, FeedsWires
<1>2. l.src \in Outs /\ l.dst \in Ins
  BY LocalWire
<1>3. DOMAIN entries = Reported /\ (l.src \in Reported <=> ~Unmeasured(l.src))
      /\ (l.src \in Reported => entries[l.src] = out[l.src])
  BY <1>2 DEF Reported
<1> HIDE DEF entries
<1>4. /\ l.dst \in Feeds(entries) <=> ~Unmeasured(l.src)
      /\ l.dst \in Feeds(entries) => FedBy(l.dst, entries) = l
  BY <1>2, <1>3, WireCarries DEF Typed
<1>5. CASE speaks /\ ~Unmeasured(l.src)
  BY <1>1, <1>2, <1>3, <1>4, <1>5 DEF Fed, DriverOf
<1>6. CASE ~(speaks /\ ~Unmeasured(l.src))
  BY <1>1, <1>2, <1>4, <1>6 DEF Fed, DriverOf
<1> QED BY <1>5, <1>6

\* Whatever drove an input last is still a wire of the node, and an input that a
\* wire of the node drove holds what was last reported of the wire's source.
Following ==
  /\ driver \in [Ins -> Range(links) \cup {NoLink}]
  /\ \A l \in Range(links) :
       Local(l) /\ driver[l.dst] = l /\ l.dst \notin ahead =>
         input[l.dst].value = policy[l.src].last

LEMMA FollowingInit == Init => Following
<1> SUFFICES ASSUME Init PROVE Following
  OBVIOUS
<1>1. links = <<>> /\ Range(links) = {}
  BY DEF Init, Range
<1> QED BY <1>1 DEF Init, Following

\* A link set this time drives nothing yet, and one that is gone drives nothing.
LEMMA StillDriven ==
  ASSUME Following, NEW wires, driver' = StillWired(wires)
  PROVE  /\ driver' \in [Ins -> Range(wires) \cup {NoLink}]
         /\ \A i \in Ins : driver'[i] = driver[i] \/ driver'[i] = NoLink
  BY DEF StillWired, Following

LEMMA FollowingNext == Typed /\ Good(links) /\ Following /\ [Next]_vars => Following'
<1> SUFFICES ASSUME Typed, Good(links), Following, [Next]_vars PROVE Following'
  OBVIOUS
<1> DEFINE Held(l) == Local(l) /\ driver[l.dst] = l /\ l.dst \notin ahead =>
                        input[l.dst].value = policy[l.src].last
<1>g. Good(links')
  BY LinksNext DEF Good, Apart
<1>1. ASSUME NEW p \in Measured, NEW v \in Readings, Publish(p, v) PROVE Following'
  BY <1>1 DEF Publish, Following
<1>2. ASSUME NEW i \in Written, NEW v \in Heard, Write(i, v) PROVE Following'
  <2>1. /\ i \in Ins /\ UNCHANGED <<policy, links>>
        /\ input' = [input EXCEPT ![i] = [value |-> v, at |-> now]]
        /\ driver' = [driver EXCEPT ![i] = NoLink] /\ ahead' = ahead \ {i}
    BY <1>2 DEF Write
  <2>2. driver' \in [Ins -> Range(links') \cup {NoLink}]
    BY <2>1 DEF Following
  <2>3. ASSUME NEW l \in Range(links'), Local(l), driver'[l.dst] = l, l.dst \notin ahead'
        PROVE  input'[l.dst].value = policy'[l.src].last
    <3>1. l \in Range(links) /\ l.dst \in Ins /\ l # NoLink
      BY <2>1, <2>3, LocalWire
    <3>2. l.dst # i
      BY <2>1, <2>3, <3>1 DEF Following
    <3> QED BY <2>1, <2>3, <3>1, <3>2 DEF Following, Typed
  <2> QED BY <2>2, <2>3 DEF Following, Local
<1>3. ASSUME NEW v \in Heard, HearChild(v) PROVE Following'
  <2> DEFINE entries == [src \in {Child} |-> v]
  <2>1. /\ input' = Fed(entries, now) /\ driver' = DriverOf(entries)
        /\ ahead' = ahead \ Feeds(entries) /\ UNCHANGED <<policy, links>>
    BY <1>3 DEF HearChild
  <2>2. DOMAIN entries = {Child}
    OBVIOUS
  <2> HIDE DEF entries
  <2>3. ASSUME NEW i \in Feeds(entries)
        PROVE  FedBy(i, entries) \in Range(links) /\ FedBy(i, entries).src = Child
    BY <2>2 DEF Feeds, Feeding, FedBy
  <2>4. driver' \in [Ins -> Range(links') \cup {NoLink}]
    BY <2>1, <2>3 DEF DriverOf, Following
  <2>5. ASSUME NEW l \in Range(links'), Local(l), driver'[l.dst] = l, l.dst \notin ahead'
        PROVE  input'[l.dst].value = policy'[l.src].last
    <3>1. l \in Range(links) /\ l.dst \in Ins
      BY <2>1, <2>5, LocalWire
    <3>2. l.dst \notin Feeds(entries)
      BY <2>1, <2>3, <2>5, <3>1 DEF DriverOf, Local
    <3> QED BY <2>1, <2>5, <3>1, <3>2 DEF Following, DriverOf, Fed
  <2> QED BY <2>4, <2>5 DEF Following, Local
<1>4. ASSUME NEW p \in Measured, NEW interval \in Intervals, NEW b \in Deadbands,
             SetPolicy(p, interval, b)
      PROVE  Following'
  <2>1. UNCHANGED <<input, driver, ahead, links>>
    BY <1>4 DEF SetPolicy
  <2>2. \A q \in Outs : policy'[q].last = policy[q].last
    BY <1>4 DEF SetPolicy, Typed, Policies
  <2>3. \A l \in Range(links) : Local(l) => l.src \in Outs
    BY LocalWire
  <2> QED BY <2>1, <2>2, <2>3 DEF Following
<1>5. ASSUME driver' = StillWired(links'), UNCHANGED <<input, policy, ahead>>
      PROVE  Following'
  <2>1. /\ driver' \in [Ins -> Range(links') \cup {NoLink}]
        /\ \A i \in Ins : driver'[i] = driver[i] \/ driver'[i] = NoLink
    BY <1>5, StillDriven
  <2>2. ASSUME NEW l \in Range(links'), Local(l), driver'[l.dst] = l, l.dst \notin ahead'
        PROVE  input'[l.dst].value = policy'[l.src].last
    <3>1. l.dst \in Ins /\ l # NoLink
      BY <1>g, <2>2 DEF Good, Wire, Range, Local, NoLink, LinkId
    <3>2. driver[l.dst] = l /\ l \in Range(links)
      BY <2>1, <2>2, <3>1 DEF Following
    <3> QED BY <1>5, <2>2, <3>2 DEF Following
  <2> QED BY <2>1, <2>2 DEF Following, Local
<1>6. ASSUME NEW taken \in BOOLEAN, Loop(taken) PROVE Following'
  <2> DEFINE speaks == bound /\ Due(Tick(now))
  <2>1. links' = links
    BY <1>6 DEF Loop
  <2>2. driver' \in [Ins -> Range(links') \cup {NoLink}]
    <3> DEFINE entries == [p \in Reported |-> out[p]]
    <3>1. driver' = driver \/ driver' = DriverOf(entries)
      BY <1>6 DEF Loop
    <3> HIDE DEF entries
    <3>2. \A i \in Feeds(entries) : FedBy(i, entries) \in Range(links)
      BY DEF Feeds, Feeding, FedBy
    <3> QED BY <2>1, <3>1, <3>2 DEF DriverOf, Following
  <2>3. ASSUME NEW l \in Range(links), Local(l), driver'[l.dst] = l, l.dst \notin ahead'
        PROVE  input'[l.dst].value = policy'[l.src].last
    <3>1. l.src \in Outs /\ l.dst \in Ins
      BY <2>3, LocalWire
    <3>2. policy' = policy \/ policy'[l.src].last = out[l.src]
      BY <1>6, <3>1 DEF Loop, MarkReported, Typed, Policies
    <3>3. CASE speaks /\ ~Unmeasured(l.src)
      <4>1. input'[l.dst].value = out[l.src] /\ taken
        BY <1>6, <2>3, <3>3, PassFeeds
      <4>2. policy' = MarkReported(now')
        BY <1>6, <3>3, <4>1 DEF Loop, Marks
      <4>3. policy'[l.src].last = out[l.src]
        BY <3>1, <4>2 DEF MarkReported, Typed, Policies
      <4> QED BY <4>1, <4>3
    <3>4. CASE ~(speaks /\ ~Unmeasured(l.src))
      <4>1. /\ input'[l.dst] = input[l.dst] /\ driver[l.dst] = l /\ l.dst \notin ahead
        BY <1>6, <2>3, <3>4, PassFeeds
      <4>2. input[l.dst].value = policy[l.src].last
        BY <2>3, <4>1 DEF Following
      <4>3. CASE speaks
        BY <3>2, <3>4, <4>1, <4>2, <4>3 DEF Unmeasured
      <4>4. CASE ~speaks
        BY <1>6, <4>1, <4>2, <4>4 DEF Loop, Marks
      <4> QED BY <4>3, <4>4
    <3> QED BY <3>3, <3>4
  <2> QED BY <2>1, <2>2, <2>3 DEF Following, Local
<1>7. ASSUME Bind PROVE Following'
  BY <1>7 DEF Bind, Following
<1>8. ASSUME FactoryReset \/ Restart PROVE Following'
  <2>1. links' = <<>> /\ driver' = [i \in Ins |-> NoLink]
    BY <1>8 DEF FactoryReset, Restart
  <2>2. Range(links') = {}
    BY <2>1 DEF Range
  <2> QED BY <2>1, <2>2 DEF Following
<1>9. ASSUME UNCHANGED vars PROVE Following'
  BY <1>9 DEF vars, device, history, Following
<1>10. ASSUME NEW spec \in Specs, SetLinkRequest(spec) PROVE Following'
  BY <1>5, <1>10 DEF SetLinkRequest
<1>11. ASSUME NEW id \in LinkId \cup {AllLinks}, ClearLinkRequest(id) PROVE Following'
  BY <1>5, <1>11 DEF ClearLinkRequest
<1> QED
  BY <1>1, <1>2, <1>3, <1>4, <1>6, <1>7, <1>8, <1>9, <1>10, <1>11 DEF Next

LEMMA FollowsStep ==
  ASSUME Typed, Good(links), Following, [Next]_vars, Pass, bound', NEW l \in Range(links')
  PROVE  Follows(l)'
<1>1. CASE Restart
  BY <1>1 DEF Restart, Range
<1>2. ASSUME NEW taken \in BOOLEAN, Loop(taken), Local(l), driver'[l.dst] = l,
             l.dst \notin ahead'
      PROVE  Near(input'[l.dst].value, out'[l.src], policy'[l.src].deadband)
  <2>1. l \in Range(links) /\ bound /\ out' = out /\ now' = Tick(now)
    BY <1>2 DEF Loop
  <2>2. l.src \in Outs /\ l.dst \in Ins
    BY <1>2, <2>1, LocalWire
  <2>3. CASE Due(now') /\ ~Unmeasured(l.src)
    BY <1>2, <2>1, <2>3, PassFeeds DEF Near
  <2>4. CASE ~(Due(now') /\ ~Unmeasured(l.src))
    <3>1. input'[l.dst] = input[l.dst] /\ driver[l.dst] = l /\ l.dst \notin ahead
      BY <1>2, <2>1, <2>4, PassFeeds
    <3>2. input'[l.dst].value = policy[l.src].last
      BY <1>2, <2>1, <3>1 DEF Following
    <3>3. CASE Unmeasured(l.src)
      BY <2>1, <3>2, <3>3 DEF Unmeasured, Near
    <3>4. CASE ~Unmeasured(l.src)
      <4>1. ~Due(now') /\ policy' = policy
        BY <1>2, <2>1, <2>4, <3>4 DEF Loop, Marks
      <4>2. ~Moved(policy[l.src].last, out[l.src], policy[l.src].deadband)
        BY <2>2, <3>4, <4>1 DEF Due, IsDue
      <4>3. Near(policy[l.src].last, out[l.src], policy[l.src].deadband)
        BY <2>2, <4>2, NotMoved DEF Typed, Policies
      <4> QED BY <2>1, <3>2, <4>1, <4>3
    <3> QED BY <3>3, <3>4
  <2> QED BY <2>3, <2>4
<1>3. ASSUME NEW taken \in BOOLEAN, Loop(taken) PROVE Follows(l)'
  BY <1>2, <1>3 DEF Follows, Local
<1> QED BY <1>1, <1>3, WhoPasses

\* After every pass an input follows the output wired to it in the same node,
\* to within the output's deadband, whichever links were set, cleared and set
\* again, whoever else wrote the input and whatever the radio refused meanwhile.
THEOREM InputsFollow == Spec => WiredInputFollows
<1>1. Typed /\ Good(links) /\ Following /\ [Next]_vars =>
        [Pass /\ bound' => \A l \in Range(links)' : Follows(l)']_vars
  BY FollowsStep
<1> QED BY <1>1, TypedInit, TypedNext, LinksInit, LinksNext, FollowingInit, FollowingNext, PTL
           DEF Spec, WiredInputFollows

\* Where nothing but values has changed since before the last report left, that
\* report fed every wire in the node, and nothing else has written since.
Supply ==
  /\ age \in [Ins -> Nat] /\ calm \in Nat
  /\ \A l \in Range(links) :
       Local(l) /\ out[l.src] # Null /\ calm > quiet =>
         driver[l.dst] = l /\ age[l.dst] =< quiet

LEMMA SupplyInit == Init => Supply
<1> SUFFICES ASSUME Init PROVE Supply
  OBVIOUS
<1>1. Range(links) = {}
  BY DEF Init, Range
<1> QED BY <1>1 DEF Init, Supply

LEMMA SupplyNext ==
  Typed /\ Clocked /\ Reporting /\ Good(links) /\ Following /\ Supply /\ [Next]_vars => Supply'
<1> SUFFICES ASSUME Typed, Clocked, Reporting, Good(links), Following, Supply, [Next]_vars
             PROVE  Supply'
  OBVIOUS
<1>q. quiet \in Nat /\ calm \in Nat
  BY DEF Reporting, Clock, Supply
<1>1. ASSUME NEW p \in Measured, NEW v \in Readings, Publish(p, v) PROVE Supply'
  <2>1. /\ UNCHANGED <<links, quiet, age, driver>> /\ p \in Outs
        /\ out' = [out EXCEPT ![p] = v] /\ calm' = IF out[p] = Null THEN 0 ELSE calm
    BY <1>1 DEF Publish
  <2>2. calm' \in Nat
    BY <2>1, <1>q
  <2>3. ASSUME NEW l \in Range(links), Local(l), out'[l.src] # Null, calm' > quiet
        PROVE  driver[l.dst] = l /\ age[l.dst] =< quiet
    <3>1. out[p] # Null /\ calm' = calm
      BY <2>1, <2>3, <1>q
    <3>2. out[l.src] # Null
      BY <2>1, <2>3, <3>1 DEF Typed
    <3> QED BY <2>3, <3>1, <3>2 DEF Supply
  <2> QED BY <2>1, <2>2, <2>3 DEF Supply, Local
<1>2. ASSUME calm' = 0, quiet' = quiet, age' \in [Ins -> Nat] PROVE Supply'
  BY <1>2, <1>q DEF Supply
<1>3. ASSUME NEW v \in Heard, HearChild(v) PROVE Supply'
  <2> DEFINE entries == [src \in {Child} |-> v]
  <2>1. /\ driver' = DriverOf(entries) /\ UNCHANGED <<out, links, quiet, calm>>
        /\ age' = [i \in Ins |-> IF i \in Feeds(entries) THEN 0 ELSE age[i]]
    BY <1>3 DEF HearChild
  <2>2. DOMAIN entries = {Child}
    OBVIOUS
  <2> HIDE DEF entries
  <2>3. age' \in [Ins -> Nat]
    BY <2>1 DEF Supply
  <2>4. ASSUME NEW l \in Range(links), Local(l) PROVE l.dst \notin Feeds(entries) /\ l.dst \in Ins
    <3>1. l.src \notin DOMAIN entries
      BY <2>2, <2>4 DEF Local
    <3> QED BY <2>4, <3>1, LocalWire, WireCarries
  <2> QED BY <2>1, <2>3, <2>4 DEF Supply, Local, DriverOf
<1>4. ASSUME NEW id \in LinkId \cup {AllLinks}, ClearLinkRequest(id) PROVE Supply'
  <2>1. /\ links' = ClearLink(links, id) /\ driver' = StillWired(links')
        /\ UNCHANGED <<out, quiet, calm, age>>
    BY <1>4 DEF ClearLinkRequest
  <2>2. Range(links') \subseteq Range(links)
    BY <2>1, ClearLinkGood
  <2>3. \A l \in Range(links) : Local(l) => l.dst \in Ins
    BY LocalWire
  <2> QED BY <2>1, <2>2, <2>3 DEF Supply, Local, StillWired
<1>5. ASSUME NEW taken \in BOOLEAN, Loop(taken) PROVE Supply'
  <2>1. /\ UNCHANGED <<out, links>> /\ calm' = Capped(calm + 1)
        /\ \/ quiet' = 0 /\ bound /\ Due(Tick(now))
           \/ quiet' = quiet + 1
    BY <1>5 DEF Loop
  <2>2. calm' \in Nat /\ calm' =< calm + 1
    BY <2>1, <1>q, CappedType
  <2>3. \A i \in Ins : Older(i) \in Nat /\ Older(i) =< age[i] + 1
    <3>1. \A i \in Ins : age[i] + 1 \in Nat /\ Wrap \in Nat
      BY DEF Supply
    <3>2. \A i \in Ins : Older(i) = IF age[i] + 1 =< Wrap THEN age[i] + 1 ELSE Wrap
      BY <3>1, MinOfTwo DEF Older
    <3> QED BY <3>1, <3>2
  <2>4. age' \in [Ins -> Nat]
    <3>1. PICK feeds : age' = [i \in Ins |-> IF i \in feeds THEN 0 ELSE Older(i)]
      BY <1>5 DEF Loop
    <3> QED BY <2>3, <3>1
  <2>5. ASSUME NEW l \in Range(links), Local(l), out[l.src] # Null, calm' > quiet'
        PROVE  driver'[l.dst] = l /\ age'[l.dst] =< quiet'
    <3>1. l.dst \in Ins /\ ~Unmeasured(l.src) /\ quiet' \in Nat
      BY <2>1, <2>5, <1>q, LocalWire DEF Unmeasured
    <3>2. CASE bound /\ Due(Tick(now))
      BY <1>5, <2>5, <3>1, <3>2, PassFeeds
    <3>3. CASE ~(bound /\ Due(Tick(now)))
      <4>1. driver'[l.dst] = driver[l.dst] /\ age'[l.dst] = Older(l.dst)
        BY <1>5, <2>5, <3>3, PassFeeds
      <4>2. quiet' = quiet + 1 /\ calm > quiet
        BY <2>1, <2>2, <2>5, <3>3, <1>q
      <4>3. driver[l.dst] = l /\ age[l.dst] =< quiet
        BY <2>5, <4>2 DEF Supply
      <4> QED BY <2>3, <3>1, <4>1, <4>2, <4>3, <1>q DEF Supply
    <3> QED BY <3>2, <3>3
  <2> QED BY <2>1, <2>2, <2>4, <2>5 DEF Supply, Local
<1>6. ASSUME FactoryReset PROVE Supply'
  <2>1. Range(links') = {}
    BY <1>6 DEF FactoryReset, Range
  <2> QED BY <1>6, <2>1 DEF FactoryReset, Supply
<1>7. ASSUME Restart PROVE Supply'
  <2>1. Range(links') = {}
    BY <1>7 DEF Restart, Range
  <2> QED BY <1>7, <2>1 DEF Restart, Supply
<1>8. ASSUME UNCHANGED vars PROVE Supply'
  BY <1>8 DEF vars, device, history, Supply
<1>9. ASSUME NEW i \in Written, NEW v \in Heard, Write(i, v) PROVE Supply'
  <2>1. age' \in [Ins -> Nat]
    BY <1>9 DEF Write, Supply
  <2> QED BY <1>2, <1>9, <2>1 DEF Write
<1>10. ASSUME NEW p \in Measured, NEW interval \in Intervals, NEW b \in Deadbands,
              SetPolicy(p, interval, b)
       PROVE  Supply'
  BY <1>2, <1>10 DEF SetPolicy, Supply
<1>11. ASSUME NEW spec \in Specs, SetLinkRequest(spec) PROVE Supply'
  BY <1>2, <1>11 DEF SetLinkRequest, Supply
<1>12. ASSUME Bind PROVE Supply'
  BY <1>2, <1>12 DEF Bind, Supply
<1> QED
  BY <1>1, <1>3, <1>4, <1>5, <1>6, <1>7, <1>8, <1>9, <1>10, <1>11, <1>12 DEF Next

LEMMA FedStep ==
  ASSUME Typed, Clocked, Reporting, Good(links), Following, Supply, [Next]_vars,
         Pass, bound', NEW l \in Range(links')
  PROVE  FedInTime(l)'
<1>1. CASE Restart
  BY <1>1 DEF Restart, Range
<1>2. ASSUME NEW taken \in BOOLEAN, Loop(taken), Local(l), out'[l.src] # Null,
             policy'[l.src].interval # 0, calm' >= policy'[l.src].interval
      PROVE  driver'[l.dst] = l /\ age'[l.dst] < policy'[l.src].interval
  <2>1. l \in Range(links) /\ bound /\ out' = out /\ now' = Tick(now) /\ links' = links
    BY <1>2 DEF Loop
  <2>2. l.src \in Outs /\ l.dst \in Ins /\ ~Unmeasured(l.src)
    BY <1>2, <2>1, LocalWire DEF Unmeasured
  <2>3. Typed' /\ Reporting' /\ Supply'
    BY TypedNext, ReportingNext, SupplyNext
  <2>4. policy'[l.src].interval \in Nat /\ quiet' \in Nat /\ calm' \in Nat
    BY <2>2, <2>3 DEF Typed, Policies, Reporting, Supply, Clock
  <2>5. CASE Due(now')
    BY <1>2, <2>1, <2>2, <2>4, <2>5, PassFeeds
  <2>6. CASE ~Due(now')
    <3>1. policy' = policy
      BY <1>2, <2>1, <2>6 DEF Loop, Marks
    <3>2. policy[l.src].sent /\ ~(Elapsed(policy[l.src].at, now') >= policy[l.src].interval)
      BY <1>2, <2>2, <2>6, <3>1 DEF Due, IsDue
    <3>3. Elapsed(policy'[l.src].at, now') = quiet'
      BY <2>2, <2>3, <3>1, <3>2 DEF Reporting
    <3>4. quiet' < policy'[l.src].interval
      BY <2>4, <3>1, <3>2, <3>3
    <3>5. calm' > quiet'
      BY <1>2, <2>4, <3>4
    <3>6. driver'[l.dst] = l /\ age'[l.dst] =< quiet' /\ age'[l.dst] \in Nat
      BY <1>2, <2>2, <2>3, <3>5 DEF Supply, Local
    <3> QED BY <2>4, <3>4, <3>6
  <2> QED BY <2>5, <2>6
<1>3. ASSUME NEW taken \in BOOLEAN, Loop(taken) PROVE FedInTime(l)'
  BY <1>2, <1>3 DEF FedInTime, Local
<1> QED BY <1>1, <1>3, WhoPasses

\* A wire inside a bound node feeds its input within its source's interval,
\* whatever the radio refuses: the promise a control loop's timeout rests on.
THEOREM InputsAreFed == Spec => WiredInputIsFed
<1> DEFINE All == Typed /\ Clocked /\ Reporting /\ Good(links) /\ Following /\ Supply
<1>1. Init => All
  BY TypedInit, ClockedInit, ReportingInit, LinksInit, FollowingInit, SupplyInit
<1>2. All /\ [Next]_vars => All'
  <2> SUFFICES ASSUME All, [Next]_vars PROVE All'
    OBVIOUS
  <2>1. Typed' /\ Clocked' /\ Reporting'
    BY TypedNext, ClockedNext, ReportingNext
  <2>2. Good(links)' /\ Following' /\ Supply'
    BY LinksNext, FollowingNext, SupplyNext
  <2> QED BY <2>1, <2>2
<1>3. All /\ [Next]_vars =>
        [Pass /\ bound' => \A l \in Range(links)' : FedInTime(l)']_vars
  BY FedStep
<1> HIDE DEF All
<1> QED BY <1>1, <1>2, <1>3, PTL DEF Spec, WiredInputIsFed

-----------------------------------------------------------------------------
(* How long a device may sleep *)

\* As far as the clock can go without going all the way round.
LEMMA Later ==
  ASSUME NEW t \in Clock, NEW d \in Clock
  PROVE  (t + d) % Wrap = IF t + d < Wrap THEN t + d ELSE t + d - Wrap
<1>1. CASE t + d < Wrap
  BY <1>1 DEF Clock
<1>2. CASE t + d >= Wrap
  BY <1>2 DEF Clock
<1> QED BY <1>1, <1>2 DEF Clock

LEMMA ElapsedLater ==
  ASSUME NEW t \in Clock, NEW d \in Clock, NEW since \in Clock, Elapsed(since, t) + d < Wrap
  PROVE  Elapsed(since, (t + d) % Wrap) = Elapsed(since, t) + d
<1> DEFINE u == (t + d) % Wrap
<1>1. u = IF t + d < Wrap THEN t + d ELSE t + d - Wrap
  BY Later
<1> HIDE DEF u
<1>2. Elapsed(since, u) = Elapsed(since, t) + d
  BY <1>1 DEF Elapsed, Clock
<1> QED BY <1>2 DEF u

\* The least of a set of natural numbers that has one.
LEMMA MinExists ==
  ASSUME NEW S, S \subseteq Nat, S # {}
  PROVE  Min(S) \in S /\ \A n \in S : Min(S) =< n
<1>1. \E m \in S : \A n \in S : m =< n
  BY ONLY S \subseteq Nat, S # {}, LeastExists
<1> QED BY <1>1 DEF Min

LEMMA SleepEnds == Typed => SleepEndsOnTime
<1> SUFFICES ASSUME Typed PROVE SleepEndsOnTime
  OBVIOUS
<1> DEFINE n == NextDueIn(now)
           Waits == {q \in Outs : policy[q].interval # 0}
           S == {Never} \cup {Remaining(p, now) : p \in Waits}
<1>1. CASE Due(now)
  BY <1>1 DEF NextDueIn, SleepEndsOnTime
<1>2. CASE ~Due(now)
  <2>1. now \in Clock /\ \A p \in Outs : policy[p].at \in Clock /\ policy[p].interval \in Clock
    BY DEF Typed, Policies
  <2>2. ASSUME NEW p \in Outs
        PROVE  Elapsed(policy[p].at, now) \in Clock /\ Remaining(p, now) \in Nat
    <3>1. Elapsed(policy[p].at, now) \in Clock
      BY <2>1, ElapsedType
    <3> QED BY <2>1, <3>1 DEF Remaining, Clock
  <2>3. n \in S /\ \A m \in S : n =< m
    <3>1. S \subseteq Nat /\ S # {}
      BY <2>2 DEF Never
    <3>2. n = Min(S)
      BY <1>2 DEF NextDueIn
    <3> HIDE DEF S, n
    <3> QED BY <3>1, <3>2, MinExists
  <2>4. n \in Nat /\ n =< Wrap /\ \A p \in Outs : policy[p].interval # 0 => n =< Remaining(p, now)
    BY <2>2, <2>3 DEF Never
  <2> HIDE DEF n, S
  <2>5. ASSUME NEW d \in 1 .. n - 1 PROVE ~Due((now + d) % Wrap)
    <3>1. SUFFICES ASSUME NEW p \in Outs, IsDue(p, (now + d) % Wrap) PROVE FALSE
      BY DEF Due
    <3>2. /\ ~Unmeasured(p) /\ policy[p].sent
          /\ ~Moved(policy[p].last, out[p], policy[p].deadband)
          /\ policy[p].interval # 0
          /\ Elapsed(policy[p].at, (now + d) % Wrap) >= policy[p].interval
      BY <1>2, <3>1 DEF Due, IsDue
    <3>3. d < Remaining(p, now) /\ d \in Clock
      BY <2>2, <2>4, <3>2 DEF Clock
    <3>4. Elapsed(policy[p].at, now) + d < policy[p].interval
      BY <2>1, <2>2, <3>3 DEF Remaining, Clock
    <3>5. Elapsed(policy[p].at, (now + d) % Wrap) = Elapsed(policy[p].at, now) + d
      BY <2>1, <2>2, <3>3, <3>4, ElapsedLater DEF Clock
    <3> QED BY <2>1, <2>2, <3>2, <3>3, <3>4, <3>5 DEF Clock
  <2>6. ASSUME n \in 1 .. Wrap - 1, \A p \in Outs : ~Unmeasured(p)
        PROVE  Due((now + n) % Wrap)
    <3>1. PICK p \in Outs : policy[p].interval # 0 /\ n = Remaining(p, now)
      BY <2>3, <2>6 DEF S, Never
    <3>2. Elapsed(policy[p].at, now) + n = policy[p].interval /\ n \in Clock
      BY <2>1, <2>2, <2>6, <3>1 DEF Remaining, Clock
    <3>3. Elapsed(policy[p].at, (now + n) % Wrap) = policy[p].interval
      <4>1. Elapsed(policy[p].at, now) + n < Wrap
        BY <2>1, <3>2 DEF Clock
      <4>2. Elapsed(policy[p].at, (now + n) % Wrap) = Elapsed(policy[p].at, now) + n
        BY ONLY <2>1, <3>2, <4>1, ElapsedLater
      <4> QED BY <3>2, <4>2
    <3> QED BY <2>1, <2>6, <3>1, <3>3 DEF Due, IsDue, Clock
  <2> QED BY <2>5, <2>6 DEF SleepEndsOnTime, n
<1> QED BY <1>1, <1>2

\* However the policies are set and wherever the clock wraps, a device that sleeps
\* as long as nextDueInMs() says is due at no moment before it wakes, and is due
\* when it does - unless a port of its own has never measured anything.
THEOREM SleepIsSafe == Spec => []SleepEndsOnTime
  BY TypedInit, TypedNext, SleepEnds, PTL DEF Spec

=============================================================================
