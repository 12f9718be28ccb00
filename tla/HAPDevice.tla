------------------------------ MODULE HAPDevice ------------------------------
(***************************************************************************)
(* One node at work: what its ports read, when HAPReporter finds that worth *)
(* a report, and what its own wires do with it.  Composes HAPInstance (the  *)
(* ports), HAPReporter (policies over a clock that wraps), HAPLinks and the *)
(* part of HAPStack that drives them: update(), sendReport(), deliverLink() *)
(* and the requests that write, set a policy or install a link.             *)
(*                                                                          *)
(* The main loop never stops: time passes between two of its passes.  What  *)
(* the loop, the master and the clock really did is kept in the history     *)
(* variables told, quiet, calm, age, driver, ahead, unheard and refused,    *)
(* which guard no action.                                                   *)
(***************************************************************************)
EXTENDS HAPLinks, FiniteSetsExt

CONSTANTS Wrap,        \* millis() is a counter modulo Wrap (2^32)
          Default,     \* the interval begin() gives every port; 0: on change only
          Battery,     \* it is on a battery, and will not go below its interval
          Timeout,     \* the class's staleness timeout
          Readings,    \* what the sensors may read
          Measured,    \* the node's ports that a driver publishes ...
          Heard,       \* ... and what others send: a child's port, a master
          Written,     \* the inputs a master writes
          Intervals,   \* what a policy may ask for ...
          Deadbands,   \* ... and the deadbands
          Specs,       \* the links somebody may install
          Child        \* the port of a child, as a source

Outs == LocalPorts("Out")
Ins  == LocalPorts("In")
NoLink == [id |-> MaxLinks]
Never  == Wrap        \* UINT32_MAX: nothing is due for as long as one can tell

ASSUME DeviceAssumption ==
  /\ Wrap \in Nat \ {0} /\ Default \in 0 .. Wrap - 1 /\ Battery \in BOOLEAN
  /\ Intervals \subseteq 0 .. Wrap - 1 /\ Timeout \in 1 .. Wrap - 1
  /\ Readings \subseteq Value /\ Deadbands \subseteq {v \in Value : v.type # "String"}
  /\ Heard \subseteq Value /\ Measured \subseteq Outs /\ Written \subseteq Ins
  /\ Specs \subseteq LinkSpecs /\ Child.path # <<>>

VARIABLES now,      \* millis()
          out,      \* the value of each out port
          input,    \* value and updatedAtMs of each in port
          policy,   \* HAPReporter::policies_
          links,    \* HAPLinks::links_
          bound,    \* there is a parent
          told,     \* history: what reports said of each port since start-up
          quiet,    \* history: ticks since a report left
          calm,     \* history: ticks since something other than a value changed
          age,      \* history: ticks since each input was written
          driver,   \* history: the link that wrote each input last
          ahead,    \* history: inputs fed from a report the radio refused
          unheard,  \* history: the parent is a new one, and has heard nothing
          refused   \* history: the last pass had a report the radio would not take

device  == <<out, input, policy, links, bound>>
history == <<told, quiet, calm, age, driver, ahead, unheard, refused>>
vars    == <<now, device, history>>

-----------------------------------------------------------------------------
(* HAPReporter *)

Distance(a, b) == IF a > b THEN a - b ELSE b - a

\* Mutant: a reading that disappears is measured like any other.
MovedByAmount(then, new, deadband) ==
  IF deadband = Null \/ then.type # "Float" \/ new.type # "Float"
  THEN then # new /\ new # Null
  ELSE Distance(then.n, new.n) > deadband.n

Moved(then, new, deadband) ==
  IF deadband = Null \/ then.type # "Float" \/ new.type # "Float" THEN then # new
  ELSE Distance(then.n, new.n) > deadband.n

\* The clock one tick on, and the time since: both modulo Wrap.
Tick(t) == IF t + 1 = Wrap THEN 0 ELSE t + 1

\* Mutant: the clock is taken not to wrap.
ElapsedUnwrapped(since, t) == IF t > since THEN t - since ELSE 0

Elapsed(since, t) == IF t >= since THEN t - since ELSE t - since + Wrap

\* Nothing measured, and nothing reported either.
Unmeasured(p) == out[p] = Null /\ policy[p].last = Null

IsDue(p, t) ==
  /\ ~Unmeasured(p)
  /\ \/ ~policy[p].sent
     \/ policy[p].interval # 0 /\ Elapsed(policy[p].at, t) >= policy[p].interval
     \/ Moved(policy[p].last, out[p], policy[p].deadband)

Due(t) == \E p \in Outs : IsDue(p, t)

Remaining(p, t) ==
  LET elapsed == Elapsed(policy[p].at, t) IN
  IF elapsed >= policy[p].interval THEN 0 ELSE policy[p].interval - elapsed

\* Mutant: a port that has not moved does not count.
NextDueOfMoved(t) ==
  IF Due(t) THEN 0
  ELSE Max({Never} \cup {Remaining(p, t) : p \in Outs})

\* nextDueInMs(): how long a sleeper may sleep.
NextDueIn(t) ==
  IF Due(t) THEN 0
  ELSE Min({Never} \cup {Remaining(p, t) : p \in {q \in Outs : policy[q].interval # 0}})

Fresh == [interval |-> Default, deadband |-> Null, last |-> Null, at |-> 0, sent |-> FALSE]

\* A deadband of one's own is given to nothing: begin() is handed Null.
Begun == [p \in Outs |-> Fresh]

Clamped(interval) ==
  IF Battery /\ interval # 0 /\ interval < Default THEN Default ELSE interval

\* What fillReport() carries.
Reported == {p \in Outs : ~Unmeasured(p)}

MarkReported(t) ==
  [p \in Outs |-> [policy[p] EXCEPT !.last = out[p], !.at = t, !.sent = TRUE]]

-----------------------------------------------------------------------------
(* HAPInstance and the wires *)

Unfed == [i \in Ins |-> [value |-> Null, at |-> 0]]

Stale(i, t) ==
  input[i].value = Null \/ Elapsed(input[i].at, t) >= Timeout

\* Mutant: whatever arrives is taken.
FeedingAnything(i, entries) ==
  {l \in Range(links) : l.dst = i /\ l.src \in DOMAIN entries}

\* What the sources in entries - a value for each - do to the inputs wired to
\* them.  A value of another type is refused.
Feeding(i, entries) ==
  {l \in Range(links) :
     /\ l.dst = i /\ l.src \in DOMAIN entries
     /\ Fits(entries[l.src], ValueType(i.class, "In", i.port))}
FedBy(i, entries) == CHOOSE l \in Feeding(i, entries) : TRUE
Feeds(entries)    == {i \in Ins : Feeding(i, entries) # {}}

Fed(entries, t) ==
  [i \in Ins |-> IF i \in Feeds(entries)
                 THEN [value |-> entries[FedBy(i, entries).src], at |-> t]
                 ELSE input[i]]

DriverOf(entries) ==
  [i \in Ins |-> IF i \in Feeds(entries) THEN FedBy(i, entries) ELSE driver[i]]

\* A link that is gone drives nothing, even when it comes back.
StillWired(wires) ==
  [i \in Ins |-> IF driver[i] \in Range(wires) THEN driver[i] ELSE NoLink]

\* Counted no further than anything is compared with.
Longest       == Max(Intervals \cup {Default})
Capped(n)     == Min({n, Longest})
Older(i)      == Min({age[i] + 1, Wrap})

-----------------------------------------------------------------------------
Init ==
  /\ now = 0
  /\ out = [p \in Outs |-> Null]
  /\ input = Unfed
  /\ policy = Begun
  /\ links = <<>>
  /\ bound = FALSE
  /\ told = [p \in Outs |-> Null]
  /\ quiet = 0 /\ calm = 0
  /\ age = [i \in Ins |-> Wrap]
  /\ driver = [i \in Ins |-> NoLink]
  /\ ahead = {} /\ unheard = FALSE /\ refused = FALSE

\* A driver publishes what its sensor reads, or that it reads nothing.
Publish(p, v) ==
  /\ Fits(v, ValueType(p.class, "Out", p.port))
  /\ out' = [out EXCEPT ![p] = v]
  /\ calm' = IF out[p] = Null THEN 0 ELSE calm
  /\ UNCHANGED <<now, input, policy, links, bound, told, quiet, age, driver, ahead, unheard,
                 refused>>

\* A WriteRequest for one of the node's inputs, from whoever sent it.
Write(i, v) ==
  /\ Fits(v, ValueType(i.class, "In", i.port))
  /\ input' = [input EXCEPT ![i] = [value |-> v, at |-> now]]
  /\ age' = [age EXCEPT ![i] = 0]
  /\ driver' = [driver EXCEPT ![i] = NoLink]
  /\ ahead' = ahead \ {i}
  /\ calm' = 0
  /\ UNCHANGED <<now, out, policy, links, bound, told, quiet, unheard, refused>>

\* A report of the child climbs through, and feeds the wires it feeds.
HearChild(v) ==
  LET entries == [src \in {Child} |-> v] IN
  /\ Feeds(entries) # {}
  /\ input' = Fed(entries, now)
  /\ age' = [i \in Ins |-> IF i \in Feeds(entries) THEN 0 ELSE age[i]]
  /\ driver' = DriverOf(entries)
  /\ ahead' = ahead \ Feeds(entries)
  /\ UNCHANGED <<now, out, policy, links, bound, told, quiet, calm, unheard, refused>>

SetPolicy(p, interval, deadband) ==
  /\ policy' = [policy EXCEPT ![p].interval = Clamped(interval), ![p].deadband = deadband]
  /\ calm' = 0
  /\ UNCHANGED <<now, out, input, links, bound, told, quiet, age, driver, ahead, unheard,
                 refused>>

SetLinkRequest(spec) ==
  /\ links' = SetLink(links, spec)
  /\ links' # links
  /\ driver' = StillWired(links')
  /\ calm' = 0
  /\ UNCHANGED <<now, out, input, policy, bound, told, quiet, age, ahead, unheard, refused>>

ClearLinkRequest(id) ==
  /\ ClearResult(links, id) = "Ok" /\ links # <<>>
  /\ links' = ClearLink(links, id)
  /\ driver' = StillWired(links')
  /\ UNCHANGED <<now, out, input, policy, bound, told, quiet, calm, age, ahead, unheard,
                 refused>>

\* Mutant: the wires are fed once the report has left.
FeedsOnceGone(speaks, taken) == speaks /\ taken

\* sendReport() feeds the node's own wires before the radio is asked to take the
\* frame ...
FeedsWires(speaks, taken) == speaks

\* Mutant: a report counts as sent whatever the radio says.
MarksAlways(speaks, taken) == speaks

\* ... and marks nothing as reported unless it did.
Marks(speaks, taken) == speaks /\ taken

\* One pass of the main loop, a tick after the last: update(), and the report it
\* sends when one is due and there is a parent to send it to.
Loop(taken) ==
  LET t       == Tick(now)
      speaks  == bound /\ Due(t)
      entries == [p \in Reported |-> out[p]]
      feeding == FeedsWires(speaks, taken)
      feeds   == IF feeding THEN Feeds(entries) ELSE {}
  IN
  /\ ~taken => speaks
  /\ (speaks /\ taken) \/ quiet + 1 < Wrap  \* bound
  /\ now' = t
  /\ input' = IF feeding THEN Fed(entries, t) ELSE input
  /\ age' = [i \in Ins |-> IF i \in feeds THEN 0 ELSE Older(i)]
  /\ driver' = IF feeding THEN DriverOf(entries) ELSE driver
  /\ ahead' = IF taken THEN ahead \ feeds ELSE ahead \cup feeds
  /\ calm' = Capped(calm + 1)
  /\ policy' = IF Marks(speaks, taken) THEN MarkReported(t) ELSE policy
  /\ IF speaks /\ taken
     THEN /\ told' = [p \in Outs |-> IF p \in Reported THEN out[p] ELSE told[p]]
          /\ quiet' = 0 /\ unheard' = FALSE
     ELSE quiet' = quiet + 1 /\ UNCHANGED <<told, unheard>>
  /\ refused' = ~taken
  /\ UNCHANGED <<out, links, bound>>

\* The binder found a parent.
Bind ==
  /\ ~bound /\ bound' = TRUE
  /\ unheard' = \E p \in Outs : policy[p].sent
  /\ calm' = 0
  /\ UNCHANGED <<now, out, input, policy, links, told, quiet, age, driver, ahead, refused>>

FactoryReset ==
  /\ bound' = FALSE
  /\ links' = <<>>
  /\ driver' = [i \in Ins |-> NoLink]
  /\ UNCHANGED <<now, out, input, policy, told, quiet, calm, age, ahead, unheard, refused>>

\* A restart forgets everything here but the parent: links and policies live in
\* memory alone.
Restart ==
  /\ now' = 0
  /\ out' = [p \in Outs |-> Null]
  /\ input' = Unfed
  /\ policy' = Begun
  /\ links' = <<>>
  /\ told' = [p \in Outs |-> Null]
  /\ quiet' = 0 /\ calm' = 0
  /\ age' = [i \in Ins |-> Wrap]
  /\ driver' = [i \in Ins |-> NoLink]
  /\ ahead' = {} /\ unheard' = FALSE /\ refused' = FALSE
  /\ UNCHANGED bound

Next ==
  \/ \E p \in Measured, v \in Readings : Publish(p, v)
  \/ \E i \in Written, v \in Heard : Write(i, v)
  \/ \E v \in Heard : HearChild(v)
  \/ \E p \in Measured, i \in Intervals, b \in Deadbands : SetPolicy(p, i, b)
  \/ \E spec \in Specs : SetLinkRequest(spec)
  \/ \E id \in LinkId \cup {AllLinks} : ClearLinkRequest(id)
  \/ \E taken \in BOOLEAN : Loop(taken)
  \/ Bind \/ FactoryReset \/ Restart

Spec == Init /\ [][Next]_vars

-----------------------------------------------------------------------------
(* Properties *)

TypeOK ==
  /\ now \in 0 .. Wrap - 1
  /\ \A p \in Outs : out[p] \in Value /\ Fits(out[p], ValueType(p.class, "Out", p.port))
  /\ \A i \in Ins : /\ input[i].at \in 0 .. Wrap - 1
                    /\ Fits(input[i].value, ValueType(i.class, "In", i.port))
  /\ \A p \in Outs : /\ policy[p].interval \in 0 .. Wrap - 1
                     /\ policy[p].at \in 0 .. Wrap - 1
                     /\ policy[p].sent \in BOOLEAN
  /\ Len(links) =< MaxLinks
  /\ bound \in BOOLEAN

\* Time passes in the main loop, and when a restart sets the clock back.
Pass == now' # now
Sent == Pass /\ bound' /\ ~refused' /\ ~unheard'

Near(a, b, deadband) ==
  \/ a = b
  \/ /\ a.type = "Float" /\ b.type = "Float" /\ deadband # Null
     /\ Distance(a.n, b.n) =< deadband.n

\* Whenever a pass of the loop ends with the radio willing, what the parent was
\* told of every port is what the port reads, to within the deadband: no news
\* is swallowed, a failed sensor's included, however slowly the value drifted
\* and whatever the radio refused before.
NewsIsTold ==
  [][Sent => \A p \in Outs : Near(told[p], out[p], policy[p].deadband)']_vars

\* A node with a reading is never silent for its whole interval: the promise a
\* master's watch over silence rests on, across the wrap of the clock.
SilenceIsKept ==
  [][Sent => \A p \in Outs :
               (out[p] # Null /\ policy[p].interval # 0 => quiet < policy[p].interval)']_vars

\* A device that sleeps for as long as nextDueInMs() says misses nothing on the
\* way, and wakes to a report unless the port it wakes for has never measured.
SleepEndsOnTime ==
  LET n == NextDueIn(now) IN
  /\ \A d \in 1 .. n - 1 : ~Due((now + d) % Wrap)
  /\ n \in 1 .. Wrap - 1 =>
       Due((now + n) % Wrap) \/ \E p \in Outs : Unmeasured(p)

Local(l) == l.src.path = <<>> /\ l.dst.path = <<>>

Follows(l) ==
  Local(l) /\ driver[l.dst] = l /\ l.dst \notin ahead =>
    Near(input[l.dst].value, out[l.src], policy[l.src].deadband)

\* After every pass an input follows the local output wired to it, a reading
\* that was lost included - unless the radio refused the report that fed it last.
WiredInputFollows == [][Pass /\ bound' => \A l \in Range(links)' : Follows(l)']_vars

FedInTime(l) ==
  LET p == policy[l.src] IN
  Local(l) /\ out[l.src] # Null /\ p.interval # 0 /\ calm >= p.interval =>
    driver[l.dst] = l /\ age[l.dst] < p.interval

\* A control loop inside a bound node needs no radio: a wired input is fed within
\* its source's interval whether or not anything is sent.
WiredInputIsFed == [][Pass /\ bound' => \A l \in Range(links)' : FedInTime(l)']_vars

\* One driver to an input, one link to a slot, both ends of one kind, and no
\* end on this node that is not there.
OneDriver ==
  \A j, k \in DOMAIN links :
    LET l == links[j] IN
    /\ j # k => l.id # links[k].id /\ l.dst # links[k].dst
    /\ KindOf(l.src.class, "Out", l.src.port) = KindOf(l.dst.class, "In", l.dst.port)
    /\ l.src.path = <<>> => l.src \in Outs
    /\ l.dst.path = <<>> => l.dst \in Ins

\* An input is stale once it has been silent for its timeout, and not before,
\* wherever the clock wraps - as long as the silence is shorter than the wrap.
StaleAfterTimeout ==
  \A i \in Ins : age[i] < Wrap => (Stale(i, now) <=> input[i].value = Null \/ age[i] >= Timeout)

=============================================================================
