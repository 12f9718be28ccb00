----------------------- MODULE HAPConversationProofs -----------------------
(***************************************************************************)
(* Theorems about HAPConversation, for any node, any names, any requests    *)
(* and any number of answers on their way.                                  *)
(***************************************************************************)
EXTENDS HAPConversation, HAPCodecProofs, FiniteSetTheorems

-----------------------------------------------------------------------------
(* Sequences of frames *)

\* One more at the end.
LEMMA Longer ==
  ASSUME NEW s, s \in Seq(Range(s)), NEW x
  PROVE  LET t == s \o <<x>> IN
         /\ t \in Seq(Range(t)) /\ Len(t) = Len(s) + 1 /\ DOMAIN t = 1 .. Len(s) + 1
         /\ t[Len(s) + 1] = x /\ DOMAIN s = 1 .. Len(s) /\ Len(s) \in Nat
         /\ \A k \in DOMAIN s : t[k] = s[k]
<1> DEFINE S == Range(s) \cup {x}
           t == s \o <<x>>
<1>1. s \in Seq(S) /\ <<x>> \in Seq(S)
  OBVIOUS
<1> HIDE DEF S
<1>2. t \in Seq(S) /\ Len(t) = Len(s) + 1 /\ Len(s) \in Nat
  BY <1>1
<1>3. t \in Seq(Range(t))
  BY <1>2, SeqOfRange
<1>4. t[Len(s) + 1] = x /\ \A k \in 1 .. Len(s) : t[k] = s[k]
  BY <1>1
<1>5. DOMAIN t = 1 .. Len(t) /\ DOMAIN s = 1 .. Len(s)
  BY <1>1, <1>2
<1> QED BY <1>2, <1>3, <1>4, <1>5

\* One less at the front.
LEMMA Shorter ==
  ASSUME NEW s, s \in Seq(Range(s)), s # <<>>
  PROVE  LET t == Tail(s) IN
         /\ t \in Seq(Range(t)) /\ Len(t) = Len(s) - 1 /\ DOMAIN t = 1 .. Len(s) - 1
         /\ Len(s) \in Nat \ {0} /\ DOMAIN s = 1 .. Len(s)
         /\ \A k \in DOMAIN t : t[k] = s[k + 1]
<1> DEFINE S == Range(s)
           t == Tail(s)
<1>1. s \in Seq(S)
  OBVIOUS
<1> HIDE DEF S
<1>2. t \in Seq(S) /\ Len(t) = Len(s) - 1 /\ Len(s) \in Nat \ {0}
  BY <1>1
<1>3. t \in Seq(Range(t))
  BY <1>2, SeqOfRange
<1>4. \A k \in 1 .. Len(s) - 1 : t[k] = s[k + 1]
  BY <1>1
<1>5. DOMAIN t = 1 .. Len(t) /\ DOMAIN s = 1 .. Len(s)
  BY <1>1, <1>2
<1> QED BY <1>2, <1>3, <1>4, <1>5

-----------------------------------------------------------------------------
(* What is on its way *)

\* The pages of a description.
PageCount(n) == Len(Slices(n, DescribeFixed + TrailerSize))
Page(n, p)   == FillDescribe(n, p)[1]

IsPage(m) == \E n \in AllNames, p \in Nat : ~(p >= PageCount(n)) /\ m = Page(n, p)

Pages(frames) ==
  \A k \in DOMAIN frames :
    frames[k].meant.type = "DescribeResponse" => IsPage(frames[k].meant)

Saying ==
  /\ names \in AllNames /\ agenda \in Agendas
  /\ saved = <<>> \/ \E n \in AllNames : saved = <<n>>
  /\ down = <<>> \/ \E m \in agenda : down = <<Asked(m)>>
  /\ up \in Seq(Range(up)) /\ Pages(up)

\* An answer of one frame, and one of none.
LEMMA AnswerOne ==
  ASSUME NEW x, Answer(<<x>>)
  PROVE  /\ up' = up \o <<Sent(x, Upstream, MaxName, PeerName)>>
         /\ down' = <<>> /\ UNCHANGED <<root, renames, agenda>>
<1>1. [k \in DOMAIN <<x>> |-> Sent(<<x>>[k], Upstream, MaxName, PeerName)]
        = <<Sent(x, Upstream, MaxName, PeerName)>>
  OBVIOUS
<1> QED BY <1>1 DEF Answer

LEMMA AnswerNone ==
  ASSUME up \in Seq(Range(up)), Answer(<<>>)
  PROVE  up' = up /\ down' = <<>> /\ UNCHANGED <<root, renames, agenda>>
<1>1. [k \in DOMAIN <<>> |-> Sent(<<>>[k], Upstream, MaxName, PeerName)] = <<>>
  OBVIOUS
<1>2. up \o <<>> = up
  OBVIOUS
<1> QED BY <1>1, <1>2 DEF Answer

\* To a question there is one answer or none.
LEMMA ToldOne ==
  ASSUME names \in AllNames, NEW m, m.type \in Questions,
         m.type = "DescribeRequest" => m.page \in Nat
  PROVE  \/ Told(m) = <<>>
         \/ \E x : /\ Told(m) = <<x>> /\ x.type # "SetNameResponse"
                   /\ x.type = "DescribeResponse" => IsPage(x)
<1>1. CASE m.type = "Ping"
  BY <1>1 DEF Told
<1>2. CASE m.type = "DescribeRequest"
  <2>1. Told(m) = FillDescribe(names, m.page)
    BY <1>2 DEF Told
  <2>2. CASE m.page >= PageCount(names)
    BY <2>1, <2>2 DEF FillDescribe, PageCount
  <2>3. CASE ~(m.page >= PageCount(names))
    <3>1. /\ FillDescribe(names, m.page) = <<Page(names, m.page)>>
          /\ Page(names, m.page).type = "DescribeResponse"
      BY <2>3 DEF FillDescribe, PageCount, Page
    <3>2. IsPage(Page(names, m.page))
      BY <1>2, <2>3 DEF IsPage
    <3> QED BY <2>1, <3>1, <3>2
  <2> QED BY <2>2, <2>3
<1>3. CASE m.type = "ReadRequest"
  <2>1. Told(m) = <<Read(m, names, Shown)>>
    BY <1>3 DEF Told
  <2>2. Read(m, names, Shown).type = "ReadResponse"
    BY DEF Read, Values
  <2> QED BY <2>1, <2>2
<1>4. CASE m.type = "ListLinksRequest"
  BY <1>4 DEF Told
<1>5. CASE m.type = "Unknown"
  BY <1>5 DEF Told
<1> QED BY <1>1, <1>2, <1>3, <1>4, <1>5 DEF Questions

\* One more frame on its way.
LEMMA MorePages ==
  ASSUME NEW s, s \in Seq(Range(s)), Pages(s), NEW x,
         x.meant.type = "DescribeResponse" => IsPage(x.meant)
  PROVE  s \o <<x>> \in Seq(Range(s \o <<x>>)) /\ Pages(s \o <<x>>)
<1> DEFINE t == s \o <<x>>
<1>1. /\ t \in Seq(Range(t)) /\ DOMAIN t = 1 .. Len(s) + 1 /\ Len(s) \in Nat
      /\ t[Len(s) + 1] = x /\ DOMAIN s = 1 .. Len(s)
      /\ \A k \in DOMAIN s : t[k] = s[k]
  BY Longer
<1> HIDE DEF t
<1>2. ASSUME NEW k \in DOMAIN t, t[k].meant.type = "DescribeResponse"
      PROVE  IsPage(t[k].meant)
  <2>1. k \in DOMAIN s \/ k = Len(s) + 1
    BY <1>1, <1>2
  <2> QED BY <1>1, <1>2, <2>1 DEF Pages
<1>3. t \in Seq(Range(t)) /\ Pages(t)
  BY <1>1, <1>2 DEF Pages
<1> QED BY <1>3 DEF t

LEMMA FewerPages ==
  ASSUME NEW s, s \in Seq(Range(s)), Pages(s), s # <<>>
  PROVE  Tail(s) \in Seq(Range(Tail(s))) /\ Pages(Tail(s))
<1> DEFINE t == Tail(s)
<1>1. /\ t \in Seq(Range(t)) /\ DOMAIN t = 1 .. Len(s) - 1
      /\ Len(s) \in Nat \ {0} /\ DOMAIN s = 1 .. Len(s)
      /\ \A k \in DOMAIN t : t[k] = s[k + 1]
  BY Shorter
<1> HIDE DEF t
<1>2. \A k \in DOMAIN t : k + 1 \in DOMAIN s
  BY <1>1
<1>3. t \in Seq(Range(t)) /\ Pages(t)
  BY <1>1, <1>2 DEF Pages
<1> QED BY <1>3 DEF t

\* What the child reads is one of the root's requests.
LEMMA RequestRead ==
  ASSUME Saying, NEW type, NEW q \in Request(type)
  PROVE  /\ down # <<>> /\ \E m \in agenda : q = Asked(m).read
         /\ q.m.type = type
         /\ q.m.type = "DescribeRequest" => q.m.page \in Nat
         /\ q.m.type = "SetNameRequest" => \A n \in AllNames : Rename(n, q.m) \in AllNames
<1>1. down # <<>> /\ q = Head(down).read /\ q.m.type = type
  BY DEF Request, First
<1>2. PICK m \in agenda : down = <<Asked(m)>>
  BY <1>1 DEF Saying
<1>3. q = Asked(m).read
  BY <1>1, <1>2
<1> QED BY <1>1, <1>3, RequestsAssumption DEF Saying

LEMMA QuestionRead ==
  ASSUME Saying, NEW q \in First(down, Questions)
  PROVE  q.m.type \in Questions /\ (q.m.type = "DescribeRequest" => q.m.page \in Nat)
<1>1. down # <<>> /\ q = Head(down).read /\ q.m.type \in Questions
  BY DEF First
<1>2. PICK m \in agenda : down = <<Asked(m)>>
  BY <1>1 DEF Saying
<1>3. q = Asked(m).read
  BY <1>1, <1>2
<1> QED BY <1>1, <1>3, RequestsAssumption DEF Saying

\* Names from the file are names the child may have.
LEMMA LoadedNames ==
  ASSUME NEW file, file = <<>> \/ \E n \in AllNames : file = <<n>>
  PROVE  LoadNames(file) \in AllNames
<1>1. CASE file = <<>>
  BY <1>1, ConversationAssumption DEF LoadNames
<1>2. ASSUME NEW n \in AllNames, file = <<n>> PROVE LoadNames(file) \in AllNames
  <2> DEFINE F == FactoryNames
             t == LoadNames(file)
  <2>1. file # <<>> /\ file[1] = n
    BY <1>2
  <2>2. t = [name |-> Kept(n.name, F.name),
             instances |-> [k \in DOMAIN Instances |-> Kept(n.instances[k], F.instances[k])]]
    BY <2>1 DEF LoadNames
  <2>3. F \in AllNames
    BY ConversationAssumption
  <2>4. Kept(n.name, F.name) \in NodeNames
    BY <2>3 DEF AllNames, Kept
  <2>5. \A k \in DOMAIN Instances :
          /\ Kept(n.instances[k], F.instances[k]) \in InstanceNames[k]
          /\ Kept(n.instances[k], F.instances[k]) \in UNION Range(InstanceNames)
    BY <2>3 DEF AllNames, Kept
  <2> HIDE DEF F
  <2>6. t \in AllNames
    BY <2>2, <2>4, <2>5 DEF AllNames
  <2> QED BY <2>6
<1> QED BY <1>1, <1>2

-----------------------------------------------------------------------------
(* What a step does to the answers on their way, and to the names *)

\* The answers are as they were, or the first is gone, or there is one more.
Flows(x) == up' = up \o <<x>> /\ (x.meant.type = "DescribeResponse" => IsPage(x.meant))

Quiet ==
  /\ UNCHANGED <<names, saved>>
  /\ \/ up' = up
     \/ up # <<>> /\ up' = Tail(up)
     \/ \E x : Flows(x) /\ x.meant.type # "SetNameResponse"

Woken == names' = LoadNames(saved) /\ saved' = saved /\ up' = up

Renamed ==
  /\ names' \in AllNames
  /\ UNCHANGED <<names, saved>> \/ saved' = <<names'>>
  /\ \E x : /\ Flows(x) /\ x.meant.type = "SetNameResponse"
            /\ x.meant.rev = DescriptorRev(names')

LEMMA TellStep ==
  ASSUME Saying, Tell
  PROVE  Quiet
<1>1. PICK q \in First(down, Questions) : Answer(Told(q.m)) /\ UNCHANGED node
  BY DEF Tell
<1>2. q.m.type \in Questions /\ (q.m.type = "DescribeRequest" => q.m.page \in Nat)
  BY QuestionRead
<1>3. names \in AllNames /\ up \in Seq(Range(up)) /\ UNCHANGED <<names, saved>>
  BY <1>1 DEF Saying, node
<1>4. CASE Told(q.m) = <<>>
  <2>1. Answer(<<>>)
    BY <1>1, <1>4
  <2> QED BY <1>3, <2>1, AnswerNone DEF Quiet
<1>5. ASSUME NEW x, Told(q.m) = <<x>>, x.type # "SetNameResponse",
             x.type = "DescribeResponse" => IsPage(x)
      PROVE  Quiet
  <2> DEFINE y == Sent(x, Upstream, MaxName, PeerName)
  <2>1. Answer(<<x>>)
    BY <1>1, <1>5
  <2>2. up' = up \o <<y>> /\ y.meant = x
    BY <2>1, AnswerOne DEF Sent
  <2> HIDE DEF y
  <2>3. Flows(y) /\ y.meant.type # "SetNameResponse"
    BY <1>5, <2>2 DEF Flows
  <2> QED BY <1>3, <2>3 DEF Quiet
<1> QED BY <1>2, <1>3, <1>4, <1>5, ToldOne

\* An answer to a request that is neither a description nor about names.
LEMMA OtherAnswer ==
  ASSUME NEW x, x.type \notin {"DescribeResponse", "SetNameResponse"}, Answer(<<x>>),
         UNCHANGED <<names, saved>>
  PROVE  Quiet
<1> DEFINE y == Sent(x, Upstream, MaxName, PeerName)
<1>1. up' = up \o <<y>> /\ y.meant = x
  BY AnswerOne DEF Sent
<1> HIDE DEF y
<1>2. Flows(y) /\ y.meant.type # "SetNameResponse"
  BY <1>1 DEF Flows
<1> QED BY <1>2 DEF Quiet

LEMMA TakeStep ==
  ASSUME TakeWrite \/ TakePolicy \/ TakeLink \/ TakeClear \/ TakeOta
  PROVE  Quiet
<1>1. CASE TakeWrite
  <2>1. PICK q \in Request("WriteRequest") : \E v :
          Answer(<<[type |-> "WriteResponse", result |-> WriteResult(q.m), class |-> q.m.class,
                    inst |-> q.m.inst, port |-> q.m.port, value |-> v]>>)
    BY <1>1 DEF TakeWrite
  <2> QED BY <1>1, <2>1, OtherAnswer DEF TakeWrite
<1>2. CASE TakePolicy
  <2>1. \E x : x.type = "SetPolicyResponse" /\ Answer(<<x>>)
    BY <1>2 DEF TakePolicy
  <2> QED BY <1>2, <2>1, OtherAnswer DEF TakePolicy
<1>3. CASE TakeLink
  <2>1. \E x : x.type = "SetLinkResponse" /\ Answer(<<x>>)
    BY <1>3 DEF TakeLink
  <2> QED BY <1>3, <2>1, OtherAnswer DEF TakeLink
<1>4. CASE TakeClear
  <2>1. \E x : x.type = "ClearLinkResponse" /\ Answer(<<x>>)
    BY <1>4 DEF TakeClear
  <2> QED BY <1>4, <2>1, OtherAnswer DEF TakeClear
<1>5. CASE TakeOta
  <2>1. \E x : x.type = "OtaResponse" /\ Answer(<<x>>)
    BY <1>5 DEF TakeOta
  <2> QED BY <1>5, <2>1, OtherAnswer DEF TakeOta, node
<1> QED BY <1>1, <1>2, <1>3, <1>4, <1>5

LEMMA NameStep ==
  ASSUME Saying, TakeName
  PROVE  Renamed
<1>1. PICK q \in Request("SetNameRequest") :
        /\ names' = Rename(names, q.m)
        /\ saved' = IF RenameResult(q.m) = "Ok" THEN <<names'>> ELSE saved
        /\ Answer(<<[type |-> "SetNameResponse", result |-> RenameResult(q.m),
                     rev |-> DescriptorRev(names')]>>)
  BY DEF TakeName
<1>2. names' \in AllNames
  BY <1>1, RequestRead DEF Saying
<1>3. UNCHANGED <<names, saved>> \/ saved' = <<names'>>
  <2>1. RenameResult(q.m) # "Ok" => Rename(names, q.m) = names
    BY DEF Rename, RenameResult
  <2> QED BY <1>1, <2>1
<1> DEFINE x == [type |-> "SetNameResponse", result |-> RenameResult(q.m),
                 rev |-> DescriptorRev(names')]
           y == Sent(x, Upstream, MaxName, PeerName)
<1>4. x.type = "SetNameResponse" /\ x.rev = DescriptorRev(names') /\ Answer(<<x>>)
  BY <1>1
<1> HIDE DEF x
<1>5. up' = up \o <<y>> /\ y.meant = x
  BY <1>4, AnswerOne DEF Sent
<1> HIDE DEF y
<1>6. Flows(y)
  BY <1>4, <1>5 DEF Flows
<1> QED BY <1>2, <1>3, <1>4, <1>5, <1>6 DEF Renamed

LEMMA ReportStep ==
  ASSUME Saying, SendReport
  PROVE  Quiet
<1> DEFINE x == Reports[names]
<1>1. x.meant = ReportOf(names)
  <2>1. names \in AllNames
    BY DEF Saying
  <2>2. Reports[names] = [meant |-> ReportOf(names),
                          read |-> [ok |-> TRUE, m |-> ReportOf(names)]]
    BY <2>1, ReportsFit
  <2> QED BY <2>2
<1>2. ReportOf(names).type = "Report"
  BY DEF ReportOf, FillReport, Values
<1>3. up' = up \o <<x>> /\ UNCHANGED <<names, saved>>
  <2>1. up \in Seq(Range(up) \cup {x}) /\ x \in Range(up) \cup {x}
    BY DEF Saying
  <2>2. Append(up, x) = up \o <<x>>
    BY <2>1
  <2> QED BY <2>2 DEF SendReport, node
<1> HIDE DEF x
<1>4. Flows(x) /\ x.meant.type # "SetNameResponse"
  BY <1>1, <1>2, <1>3 DEF Flows
<1> QED BY <1>3, <1>4 DEF Quiet

LEMMA Steps ==
  ASSUME Saying, [Next]_vars
  PROVE  /\ Quiet \/ Woken \/ Renamed
         /\ down' \in {<<>>, down} \/ \E m \in agenda : down' = <<Asked(m)>>
         /\ agenda' = agenda
<1>1. ASSUME NEW m \in agenda, Ask(m)
      PROVE  Quiet /\ down' = <<Asked(m)>> /\ agenda' = agenda
  BY <1>1 DEF Ask, Quiet, node
<1>2. CASE Tell
  <2>1. down' = <<>> /\ agenda' = agenda
    BY <1>2 DEF Tell, Answer
  <2> QED BY <1>2, <2>1, TellStep
<1>3. CASE TakeWrite \/ TakePolicy \/ TakeLink \/ TakeClear \/ TakeOta
  <2>1. down' = <<>> /\ agenda' = agenda
    BY <1>3 DEF TakeWrite, TakePolicy, TakeLink, TakeClear, TakeOta, Answer
  <2> QED BY SMTT(60), <1>3, <2>1, TakeStep
<1>4. CASE TakeName
  <2>1. down' = <<>> /\ agenda' = agenda
    BY <1>4 DEF TakeName, Answer
  <2> QED BY <1>4, <2>1, NameStep
<1>5. CASE SendReport
  <2>1. down' = down /\ agenda' = agenda
    BY <1>5 DEF SendReport
  <2> QED BY <1>5, <2>1, ReportStep
<1>6. CASE Restart
  BY <1>6 DEF Restart, Woken
<1>7. CASE Hear \/ LoseAnswer
  <2>1. up # <<>> /\ Took
    BY <1>7 DEF Hear, HearValues, HearPage, HearPong, HearOther, LoseAnswer, Answers, First
  <2> QED BY <2>1 DEF Took, Quiet, node
<1>8. CASE LoseRequest
  BY <1>8 DEF LoseRequest, Quiet, node
<1>9. CASE UNCHANGED vars
  BY <1>9 DEF vars, node, air, Quiet
<1> QED BY <1>1, <1>2, <1>3, <1>4, <1>5, <1>6, <1>7, <1>8, <1>9 DEF Next

LEMMA SayingInit == Init => Saying
<1> SUFFICES ASSUME Init PROVE Saying
  OBVIOUS
<1>1. <<>> \in Seq(Range(<<>>)) /\ Pages(<<>>)
  BY DEF Pages
<1> QED BY <1>1, ConversationAssumption DEF Init, Saying

LEMMA SayingNext == Saying /\ [Next]_vars => Saying'
<1> SUFFICES ASSUME Saying, [Next]_vars PROVE Saying'
  OBVIOUS
<1>1. up \in Seq(Range(up)) /\ Pages(up)
  BY DEF Saying
<1>2. ASSUME NEW x, Flows(x) PROVE (up \in Seq(Range(up)) /\ Pages(up))'
  BY <1>1, <1>2, MorePages DEF Flows
<1>3. up # <<>> /\ up' = Tail(up) => (up \in Seq(Range(up)) /\ Pages(up))'
  BY <1>1, FewerPages
<1>4. up' = up => (up \in Seq(Range(up)) /\ Pages(up))'
  BY <1>1
<1>5. Quiet \/ Woken \/ Renamed
  BY Steps
<1>6. (up \in Seq(Range(up)) /\ Pages(up))'
  BY <1>2, <1>3, <1>4, <1>5 DEF Quiet, Woken, Renamed
<1>7. names' \in AllNames /\ (saved' = <<>> \/ \E n \in AllNames : saved' = <<n>>)
  <2>1. CASE Quiet
    BY <2>1 DEF Quiet, Saying
  <2>2. CASE Woken
    BY <2>2, LoadedNames DEF Woken, Saying
  <2>3. CASE Renamed
    BY <2>3 DEF Renamed, Saying
  <2> QED BY <1>5, <2>1, <2>2, <2>3
<1>8. (agenda \in Agendas)' /\ (down' = <<>> \/ \E m \in agenda' : down' = <<Asked(m)>>)
  BY Steps DEF Saying
<1> QED BY <1>6, <1>7, <1>8 DEF Saying

-----------------------------------------------------------------------------
(* Names are kept *)

LEMMA LoadedAsSaved ==
  ASSUME NoneEmptied, NEW n \in AllNames
  PROVE  LoadNames(<<n>>) = n
<1>1. LoadNames(<<n>>) =
        [name |-> Kept(n.name, FactoryNames.name),
         instances |-> [k \in DOMAIN Instances |->
                          Kept(n.instances[k], FactoryNames.instances[k])]]
  BY DEF LoadNames
<1>2. Kept(n.name, FactoryNames.name) = n.name
  BY DEF NoneEmptied, Kept
<1>3. \A k \in DOMAIN Instances :
        Kept(n.instances[k], FactoryNames.instances[k]) = n.instances[k]
  BY DEF NoneEmptied, Kept
<1>4. n = [name |-> n.name, instances |-> [k \in DOMAIN Instances |-> n.instances[k]]]
  BY DEF AllNames
<1> QED BY <1>1, <1>2, <1>3, <1>4

IsRenamed(frame) == frame.meant.type = "SetNameResponse"

LastSays(frames, rev) ==
  \A k \in DOMAIN frames :
    IsRenamed(frames[k]) /\ (\A j \in DOMAIN frames : k < j => ~IsRenamed(frames[j]))
      => frames[k].meant.rev = rev

Keeping == Saying /\ names = LoadNames(saved) /\ LastSays(up, DescriptorRev(names))

LEMMA LastSaysLonger ==
  ASSUME NEW s, s \in Seq(Range(s)), NEW rev, LastSays(s, rev), NEW x, ~IsRenamed(x)
  PROVE  LastSays(s \o <<x>>, rev)
<1> DEFINE t == s \o <<x>>
<1>1. /\ DOMAIN t = 1 .. Len(s) + 1 /\ Len(s) \in Nat
      /\ t[Len(s) + 1] = x /\ DOMAIN s = 1 .. Len(s)
      /\ \A k \in DOMAIN s : t[k] = s[k]
  BY Longer
<1> HIDE DEF t
<1>2. ASSUME NEW k \in DOMAIN t, IsRenamed(t[k]),
             \A j \in DOMAIN t : k < j => ~IsRenamed(t[j])
      PROVE  t[k].meant.rev = rev
  <2>1. k # Len(s) + 1
    BY <1>1, <1>2
  <2>2. k \in DOMAIN s /\ DOMAIN s \subseteq DOMAIN t
    BY <1>1, <1>2, <2>1
  <2>3. \A j \in DOMAIN s : k < j => ~IsRenamed(s[j])
    BY <1>1, <1>2, <2>2
  <2> QED BY <1>1, <1>2, <2>2, <2>3 DEF LastSays
<1>3. LastSays(t, rev)
  BY <1>2 DEF LastSays
<1> QED BY <1>3 DEF t

LEMMA LastSaysNew ==
  ASSUME NEW s, s \in Seq(Range(s)), NEW x, IsRenamed(x)
  PROVE  LastSays(s \o <<x>>, x.meant.rev)
<1> DEFINE t == s \o <<x>>
           l == Len(s) + 1
<1>1. DOMAIN t = 1 .. l /\ Len(s) \in Nat /\ t[l] = x
  BY Longer
<1> HIDE DEF t
<1>2. l \in DOMAIN t /\ IsRenamed(t[l]) /\ \A k \in DOMAIN t : k # l => k < l
  BY <1>1
<1> HIDE DEF l
<1>3. LastSays(t, x.meant.rev)
  BY <1>1, <1>2 DEF LastSays
<1> QED BY <1>3 DEF t

LEMMA LastSaysShorter ==
  ASSUME NEW s, s \in Seq(Range(s)), s # <<>>, NEW rev, LastSays(s, rev)
  PROVE  LastSays(Tail(s), rev)
<1> DEFINE t == Tail(s)
<1>1. /\ DOMAIN t = 1 .. Len(s) - 1 /\ Len(s) \in Nat \ {0} /\ DOMAIN s = 1 .. Len(s)
      /\ \A k \in DOMAIN t : t[k] = s[k + 1]
  BY Shorter
<1> HIDE DEF t
<1>2. ASSUME NEW k \in DOMAIN t, IsRenamed(t[k]),
             \A j \in DOMAIN t : k < j => ~IsRenamed(t[j])
      PROVE  t[k].meant.rev = rev
  <2>1. k + 1 \in DOMAIN s /\ s[k + 1] = t[k]
    BY <1>1, <1>2
  <2>2. ASSUME NEW j \in DOMAIN s, k + 1 < j PROVE ~IsRenamed(s[j])
    <3>1. j - 1 \in DOMAIN t /\ k < j - 1 /\ (j - 1) + 1 = j
      BY <1>1, <1>2, <2>2
    <3> QED BY <1>1, <1>2, <3>1
  <2> QED BY <1>2, <2>1, <2>2 DEF LastSays
<1>3. LastSays(t, rev)
  BY <1>2 DEF LastSays
<1> QED BY <1>3 DEF t

LEMMA KeepingInit == Init => Keeping
<1> SUFFICES ASSUME Init PROVE Keeping
  OBVIOUS
<1>1. names = LoadNames(saved) /\ LastSays(up, DescriptorRev(names))
  BY DEF Init, LoadNames, LastSays
<1> QED BY <1>1, SayingInit DEF Keeping

LEMMA KeepingNext ==
  ASSUME NoneEmptied
  PROVE  Keeping /\ [Next]_vars => Keeping'
<1> SUFFICES ASSUME Keeping, [Next]_vars PROVE Keeping'
  OBVIOUS
<1>1. Saying /\ Saying' /\ up \in Seq(Range(up))
  BY SayingNext DEF Keeping, Saying
<1>2. names = LoadNames(saved) /\ LastSays(up, DescriptorRev(names))
  BY DEF Keeping
<1>3. CASE Quiet
  <2> DEFINE rev == DescriptorRev(names)
  <2>1. names' = names /\ saved' = saved /\ DescriptorRev(names') = rev
    BY <1>3 DEF Quiet
  <2>2. LastSays(up', rev)
    <3> HIDE DEF rev
    <3>1. CASE up' = up
      BY <1>2, <3>1 DEF rev
    <3>2. CASE up # <<>> /\ up' = Tail(up)
      BY <1>1, <1>2, <3>2, LastSaysShorter DEF rev
    <3>3. ASSUME NEW x, Flows(x), x.meant.type # "SetNameResponse" PROVE LastSays(up', rev)
      <4>1. ~IsRenamed(x) /\ up' = up \o <<x>>
        BY <3>3 DEF IsRenamed, Flows
      <4>2. LastSays(up \o <<x>>, rev)
        BY <1>1, <1>2, <4>1, LastSaysLonger DEF rev
      <4> QED BY <4>1, <4>2
    <3> QED BY <1>3, <3>1, <3>2, <3>3 DEF Quiet
  <2>3. LastSays(up', DescriptorRev(names'))
    BY <2>1, <2>2
  <2> QED BY <1>1, <1>2, <2>1, <2>3 DEF Keeping
<1>4. CASE Woken
  <2>1. names' = names /\ saved' = saved /\ up' = up
    BY <1>2, <1>4 DEF Woken
  <2> QED BY <1>1, <1>2, <2>1 DEF Keeping
<1>5. CASE Renamed
  <2>1. PICK x : /\ up' = up \o <<x>> /\ IsRenamed(x)
                 /\ x.meant.rev = DescriptorRev(names')
    BY <1>5 DEF Renamed, Flows, IsRenamed
  <2>2. LastSays(up', DescriptorRev(names'))
    <3>1. LastSays(up \o <<x>>, x.meant.rev)
      BY <1>1, <2>1, LastSaysNew
    <3> QED BY <2>1, <3>1
  <2>3. names' = LoadNames(saved')
    <3>1. CASE UNCHANGED <<names, saved>>
      BY <1>2, <3>1
    <3>2. CASE saved' = <<names'>>
      <4>1. names' \in AllNames
        BY <1>5 DEF Renamed
      <4> QED BY <3>2, <4>1, LoadedAsSaved
    <3> QED BY <1>5, <3>1, <3>2 DEF Renamed
  <2> QED BY <1>1, <2>2, <2>3 DEF Keeping
<1> QED BY <1>1, <1>3, <1>4, <1>5, Steps

\* The last of some positions.
LEMMA LastExists ==
  ASSUME NEW n \in Nat, NEW S, S \subseteq 0 .. n, S # {}
  PROVE  Max(S) \in S /\ \A k \in S : k =< Max(S)
<1> DEFINE back == {j \in Nat : n - j \in S}
<1>1. PICK k \in S : TRUE
  OBVIOUS
<1>2. n - k \in back
  BY <1>1
<1>3. PICK j \in back : \A i \in back : j =< i
  BY <1>2, LeastExists
<1>4. n - j \in S
  BY <1>3
<1>5. ASSUME NEW i \in S PROVE n - j >= i
  <2>1. n - i \in back /\ i \in 0 .. n /\ j \in Nat
    BY <1>3
  <2>2. j =< n - i
    BY <1>3, <2>1
  <2> QED BY <2>1, <2>2
<1>6. \E x \in S : \A y \in S : x >= y
  BY <1>4, <1>5
<1>7. Max(S) \in S /\ \A y \in S : Max(S) >= y
  BY <1>6 DEF Max
<1>8. \A y \in S : y \in Int
  OBVIOUS
<1> QED BY <1>7, <1>8

LEMMA KeepingImplies == Keeping => AnsweredRenameIsKept
<1> SUFFICES ASSUME Keeping, RenameAnswersOnTheirWay # {}
             PROVE  up[Max(RenameAnswersOnTheirWay)].meant.rev = DescriptorRev(names)
  BY DEF AnsweredRenameIsKept
<1> DEFINE S == RenameAnswersOnTheirWay
           l == Max(S)
<1>1. S = {k \in DOMAIN up : IsRenamed(up[k])}
  BY DEF RenameAnswersOnTheirWay, IsRenamed
<1>2. DOMAIN up = 1 .. Len(up) /\ Len(up) \in Nat
  BY DEF Keeping, Saying
<1>7. S \subseteq 0 .. Len(up) /\ S # {}
  BY <1>1, <1>2
<1>3. l \in S /\ \A k \in S : k =< l
  <2> HIDE DEF S
  <2> QED BY <1>2, <1>7, LastExists
<1> HIDE DEF S, l
<1>4. \A j \in DOMAIN up : l < j => ~IsRenamed(up[j])
  BY <1>1, <1>2, <1>3
<1>5. l \in DOMAIN up /\ IsRenamed(up[l])
  BY <1>1, <1>3
<1>6. up[l].meant.rev = DescriptorRev(names)
  BY <1>4, <1>5 DEF Keeping, LastSays
<1> QED BY <1>6 DEF l, S

\* What the child answered to a rename it is called, and is called still when power
\* has gone and come back meanwhile, whatever the names, the requests and the
\* number of frames on their way - as long as no name is emptied.
THEOREM RenamesAreKept ==
  ASSUME NoneEmptied
  PROVE  Spec => []AnsweredRenameIsKept
<1>1. Init => Keeping
  BY KeepingInit
<1>2. Keeping /\ [Next]_vars => Keeping'
  BY KeepingNext
<1> QED BY <1>1, <1>2, KeepingImplies, PTL DEF Spec

-----------------------------------------------------------------------------
(* Pages *)

Slice == [first : Nat, count : Nat]
End(s, j) == s[j].first + s[j].count

\* Slices that begin at the first instance, go on where the last left off, and end
\* with the k-th.
Covers(s, k) ==
  /\ s \in Seq(Slice) /\ Len(s) >= 1
  /\ s[1].first = 0 /\ End(s, Len(s)) = k
  /\ \A j \in 1 .. Len(s) : End(s, j) =< k
  /\ \A j \in 1 .. Len(s) : j # 1 => s[j].first = End(s, j - 1)

\* The slices of the first k instances, one k after the other.
Placing(n, budget, g, last) ==
  g = [k \in 0 .. last |-> IF k = 0 THEN <<>> ELSE PlaceOn(n, g[k - 1], k, budget)]

LEMMA InstanceCount == Len(Instances) \in Nat /\ DOMAIN Instances = 1 .. Len(Instances)
  BY LinksAssumption

LEMMA PlaceCovers ==
  ASSUME NEW n, NEW budget, NEW k \in Nat \ {0}, NEW s,
         (k = 1 /\ s = <<>>) \/ Covers(s, k - 1)
  PROVE  Covers(PlaceOn(n, s, k, budget), k)
<1> DEFINE one == [first |-> k - 1, count |-> 1]
           t == PlaceOn(n, s, k, budget)
<1>1. one \in Slice /\ one.first = k - 1 /\ one.count = 1
  BY DEF Slice
<1> HIDE DEF one
<1>2. CASE k = 1 /\ s = <<>>
  <2>1. t = <<one>>
    BY <1>2 DEF PlaceOn, one
  <2> HIDE DEF t
  <2>2. t \in Seq(Slice) /\ Len(t) = 1 /\ t[1] = one
    BY <1>1, <2>1
  <2>3. Covers(t, k)
    BY <1>1, <1>2, <2>2 DEF Covers, End
  <2> QED BY <2>3 DEF t
<1>3. CASE Covers(s, k - 1)
  <2> DEFINE l == Len(s)
  <2>1. l \in Nat \ {0} /\ s \in Seq(Slice) /\ s[l] \in Slice
    BY <1>3 DEF Covers
  <2>2. \A j \in 1 .. l : s[j].first \in Nat /\ s[j].count \in Nat /\ End(s, j) \in Nat
    <3>1. \A j \in 1 .. l : s[j] \in Slice
      BY <2>1
    <3> HIDE DEF l
    <3> QED BY <3>1 DEF Slice, End
  <2>3. CASE t = [s EXCEPT ![Len(s)].count = @ + 1]
    <3> HIDE DEF t
    <3>1. t \in Seq(Slice) /\ Len(t) = l
      <4> DEFINE old  == s[l]
                 more == [old EXCEPT !.count = @ + 1]
      <4>1. more \in Slice
        <5>1. old \in Slice
          BY <2>1
        <5> HIDE DEF old
        <5> QED BY <5>1 DEF Slice
      <4>2. t = [s EXCEPT ![l] = more]
        BY <2>3
      <4> HIDE DEF more
      <4> QED BY <2>1, <4>1, <4>2
    <3>2. t[l].first = s[l].first /\ t[l].count = s[l].count + 1
      BY <2>1, <2>3 DEF Slice
    <3>3. \A j \in 1 .. l : j # l => t[j] = s[j]
      BY <2>1, <2>3
    <3>5. \A j \in 1 .. l : t[j].first = s[j].first
      BY <3>2, <3>3
    <3>6. End(t, l) = k /\ \A j \in 1 .. l : j # l => End(t, j) = End(s, j)
      <4>1. l \in 1 .. l /\ End(s, l) = k - 1
        BY <1>3, <2>1 DEF Covers
      <4>2. End(t, l) = End(s, l) + 1
        BY <2>2, <3>2, <4>1 DEF End
      <4>3. \A j \in 1 .. l : j # l => End(t, j) = End(s, j)
        BY <3>3 DEF End
      <4> QED BY <4>1, <4>2, <4>3
    <3>7. \A j \in 1 .. l : End(t, j) =< k
      <4>1. \A j \in 1 .. l : End(s, j) =< k - 1
        BY <1>3 DEF Covers
      <4> QED BY <2>2, <3>6, <4>1
    <3>8. ASSUME NEW j \in 1 .. l, j # 1 PROVE t[j].first = End(t, j - 1)
      <4>1. j - 1 \in 1 .. l /\ j - 1 # l
        BY <2>1, <3>8
      <4> QED BY <1>3, <3>5, <3>6, <3>8, <4>1 DEF Covers
    <3>9. t[1].first = 0
      BY <1>3, <2>1, <3>5 DEF Covers
    <3> HIDE DEF l
    <3>10. Covers(t, k)
      BY <2>1, <3>1, <3>6, <3>7, <3>8, <3>9 DEF Covers
    <3> QED BY <3>10 DEF t
  <2>4. CASE t = Append(s, one)
    <3> HIDE DEF t
    <3>1. t \in Seq(Slice) /\ Len(t) = l + 1 /\ t[l + 1] = one
      BY <1>1, <2>1, <2>4
    <3>2. \A j \in 1 .. l : t[j] = s[j]
      BY <1>1, <2>1, <2>4
    <3>3. End(t, l + 1) = k /\ \A j \in 1 .. l : End(t, j) = End(s, j)
      BY <1>1, <3>1, <3>2 DEF End
    <3>5. \A j \in 1 .. l + 1 : End(t, j) =< k
      <4>1. \A j \in 1 .. l : End(t, j) =< k
        BY <1>3, <2>2, <3>3 DEF Covers
      <4> QED BY <2>1, <3>3, <4>1
    <3>6. t[l + 1].first = End(t, l)
      BY <1>1, <1>3, <2>1, <3>1, <3>3 DEF Covers
    <3>7. ASSUME NEW j \in 1 .. l + 1, j # 1 PROVE t[j].first = End(t, j - 1)
      <4>1. CASE j = l + 1
        BY <2>1, <3>6, <4>1
      <4>2. CASE j # l + 1
        <5>1. j \in 1 .. l /\ j - 1 \in 1 .. l
          BY <2>1, <3>7, <4>2
        <5> QED BY <1>3, <3>2, <3>3, <3>7, <5>1 DEF Covers
      <4> QED BY <4>1, <4>2
    <3>8. t[1].first = 0
      BY <1>3, <2>1, <3>2 DEF Covers
    <3> HIDE DEF l
    <3>9. Covers(t, k)
      BY <2>1, <3>1, <3>3, <3>5, <3>7, <3>8 DEF Covers
    <3> QED BY <3>9 DEF t
  <2>5. t = [s EXCEPT ![Len(s)].count = @ + 1] \/ t = Append(s, one)
    BY DEF PlaceOn, one
  <2> QED BY <2>3, <2>4, <2>5
<1> QED BY <1>2, <1>3

LEMMA PlacingExists ==
  ASSUME NEW n, NEW budget, NEW last \in Nat
  PROVE  \E g : Placing(n, budget, g, last)
<1> DEFINE bad == {m \in Nat : ~\E g : Placing(n, budget, g, m)}
<1>1. ASSUME bad # {} PROVE FALSE
  <2>1. PICK m \in bad : \A j \in bad : m =< j
    BY <1>1, LeastExists
  <2>2. m \in Nat /\ ~\E g : Placing(n, budget, g, m)
    OBVIOUS
  <2>3. CASE m = 0
    <3>1. Placing(n, budget, [k \in 0 .. 0 |-> <<>>], 0)
      BY DEF Placing
    <3> QED BY <2>2, <2>3, <3>1
  <2>4. CASE m # 0
    <3>1. m - 1 \in Nat /\ m - 1 \notin bad
      BY <2>1, <2>2, <2>4
    <3>2. PICK g : Placing(n, budget, g, m - 1)
      BY <3>1
    <3> DEFINE h == [k \in 0 .. m |-> IF k = m THEN PlaceOn(n, g[m - 1], m, budget) ELSE g[k]]
    <3>3. \A k \in 0 .. m :
            h[k] = IF k = 0 THEN <<>> ELSE PlaceOn(n, h[k - 1], k, budget)
      <4>1. ASSUME NEW k \in 0 .. m, k # m
            PROVE  h[k] = IF k = 0 THEN <<>> ELSE PlaceOn(n, h[k - 1], k, budget)
        <5>1. k \in 0 .. m - 1 /\ (k # 0 => k - 1 \in 0 .. m /\ k - 1 # m)
          BY <2>2, <4>1
        <5>2. g[k] = IF k = 0 THEN <<>> ELSE PlaceOn(n, g[k - 1], k, budget)
          BY <3>2, <5>1 DEF Placing
        <5> QED BY <4>1, <5>1, <5>2
      <4>2. h[m] = PlaceOn(n, h[m - 1], m, budget)
        <5>1. m - 1 \in 0 .. m /\ m - 1 # m /\ m \in 0 .. m
          BY <2>2, <2>4
        <5> QED BY <5>1
      <4> QED BY <2>4, <4>1, <4>2
    <3>4. h = [k \in 0 .. m |-> h[k]]
      OBVIOUS
    <3> HIDE DEF h
    <3>5. Placing(n, budget, h, m)
      BY <3>3, <3>4 DEF Placing
    <3> QED BY <2>2, <3>5
  <2> QED BY <2>3, <2>4
<1> QED BY <1>1

LEMMA PlacingCovers ==
  ASSUME NEW n, NEW budget, NEW last \in Nat, NEW g, Placing(n, budget, g, last)
  PROVE  \A k \in 0 .. last : (k = 0 /\ g[k] = <<>>) \/ (k # 0 /\ Covers(g[k], k))
<1> DEFINE bad == {k \in 0 .. last : ~((k = 0 /\ g[k] = <<>>) \/ (k # 0 /\ Covers(g[k], k)))}
<1>1. ASSUME bad # {} PROVE FALSE
  <2>1. bad \subseteq Nat
    OBVIOUS
  <2>2. PICK m \in bad : \A j \in bad : m =< j
    BY <1>1, <2>1, LeastExists
  <2>3. m \in 0 .. last /\ ~((m = 0 /\ g[m] = <<>>) \/ (m # 0 /\ Covers(g[m], m)))
    OBVIOUS
  <2>4. g[m] = IF m = 0 THEN <<>> ELSE PlaceOn(n, g[m - 1], m, budget)
    BY <2>3 DEF Placing
  <2>5. m # 0
    BY <2>3, <2>4
  <2>6. m - 1 \in 0 .. last /\ m - 1 \notin bad /\ m \in Nat \ {0}
    BY <2>2, <2>3, <2>5
  <2>7. (m - 1 = 0 /\ g[m - 1] = <<>>) \/ Covers(g[m - 1], m - 1)
    BY <2>6
  <2>8. (m = 1 /\ g[m - 1] = <<>>) \/ Covers(g[m - 1], m - 1)
    BY <2>6, <2>7
  <2>9. Covers(PlaceOn(n, g[m - 1], m, budget), m)
    BY <2>6, <2>8, PlaceCovers
  <2> QED BY <2>3, <2>4, <2>5, <2>9
<1> QED BY <1>1

\* The pages of a description are all of the instances, in order and once.
LEMMA SlicesCover ==
  ASSUME DescriptorsFit, NEW n \in AllNames
  PROVE  Covers(Slices(n, DescribeFixed + TrailerSize), Len(Instances))
<1> DEFINE N      == Len(Instances)
           fixed  == DescribeFixed + TrailerSize
           budget == Budget(n, fixed)
           S      == {m \in 0 .. N : \A k \in 1 .. m : SizeOf(n, k) =< budget}
           h      == CHOOSE g : Placing(n, budget, g, N)
<1>1. N \in Nat /\ DOMAIN Instances = 1 .. N
  BY InstanceCount
<1>2. Max(S) = N
  <2>1. N \in S /\ \A m \in S : m \in Int /\ m =< N
    BY <1>1 DEF DescriptorsFit
  <2> HIDE DEF S, N
  <2>2. \E x \in S : \A y \in S : x >= y
    BY <2>1
  <2>3. Max(S) \in S /\ Max(S) >= N
    BY <2>1, <2>2 DEF Max
  <2> QED BY <2>1, <2>3
<1>3. Slices(n, fixed) = IF Max(S) = 0 THEN <<[first |-> 0, count |-> 0]>>
                         ELSE (CHOOSE g : Placing(n, budget, g, Max(S)))[Max(S)]
  BY DEF Slices, Placing
<1> HIDE DEF S
<1>4. CASE N = 0
  <2> DEFINE none == [first |-> 0, count |-> 0]
             t    == <<none>>
  <2>1. none \in Slice /\ none.first = 0 /\ none.count = 0
    BY DEF Slice
  <2> HIDE DEF none
  <2>2. t \in Seq(Slice) /\ Len(t) = 1 /\ t[1] = none
    BY <2>1
  <2> HIDE DEF t
  <2>3. Covers(t, 0)
    BY <2>1, <2>2 DEF Covers, End
  <2>4. Slices(n, fixed) = t
    BY <1>2, <1>3, <1>4 DEF t, none
  <2> QED BY <1>4, <2>3, <2>4
<1>5. CASE N # 0
  <2>1. Slices(n, fixed) = h[N]
    BY <1>2, <1>3, <1>5
  <2>2. Placing(n, budget, h, N)
    BY <1>1, PlacingExists
  <2> HIDE DEF h
  <2>3. Covers(h[N], N)
    BY <1>1, <1>5, <2>2, PlacingCovers
  <2> QED BY <2>1, <2>3
<1> QED BY <1>4, <1>5

-----------------------------------------------------------------------------
(* A copy was true *)

SlicesOf(n) == Slices(n, DescribeFixed + TrailerSize)

\* The descriptors of the pages up to the k-th.
UpToPage(n, k) == SubSeq(Descriptors(n), 1, End(SlicesOf(n), k))

\* Of the pages heard, k of them, of the child when it was called n.
CopiedFrom(c, h, n, k) ==
  /\ h = [rev |-> DescriptorRev(n), next |-> k, pages |-> PageCount(n)]
  /\ k \in 1 .. PageCount(n)
  /\ c.name = n.name /\ c.instances = UpToPage(n, k)
  /\ k = PageCount(n) => c.described = TRUE /\ c.cachedRev = DescriptorRev(n)

IsCopy(c) == DOMAIN c = {"rev", "described", "cachedRev", "name", "instances", "values"}

Copying ==
  /\ IsCopy(copy)
  /\ heard = Unheard \/ \E n \in AllNames, k \in Nat : CopiedFrom(copy, heard, n, k)

LEMMA MinTwo ==
  ASSUME NEW a \in Nat, NEW b \in Nat
  PROVE  Min({a, b}) = IF a =< b THEN a ELSE b
<1> DEFINE m == IF a =< b THEN a ELSE b
<1>1. m \in {a, b} /\ \A y \in {a, b} : m =< y
  OBVIOUS
<1>2. \A x \in {a, b} : (\A y \in {a, b} : x =< y) => x = m
  OBVIOUS
<1> QED BY <1>1, <1>2 DEF Min

\* There is room for all the instances a node may have.
LEMMA AllFit ==
  ASSUME NEW S, NEW s \in Seq(S), Len(s) =< MaxInstances
  PROVE  UpTo(MaxInstances, s) = s
<1>1. MaxInstances \in Nat /\ Len(s) \in Nat
  BY MessagesAssumption
<1>2. Min({MaxInstances, Len(s)}) = Len(s)
  BY <1>1, MinTwo
<1>3. SubSeq(s, 1, Len(s)) = s
  OBVIOUS
<1> QED BY <1>2, <1>3 DEF UpTo

\* A page after those before it.
LEMMA Joined ==
  ASSUME NEW S, NEW d \in Seq(S), NEW e \in Nat, NEW c \in Nat, e + c =< Len(d)
  PROVE  SubSeq(d, 1, e) \o [j \in 1 .. c |-> d[e + j]] = SubSeq(d, 1, e + c)
<1> DEFINE page == [j \in 1 .. c |-> d[e + j]]
           head == SubSeq(d, 1, e)
           all  == SubSeq(d, 1, e + c)
<1>1. Len(d) \in Nat /\ \A k \in 1 .. Len(d) : d[k] \in S
  OBVIOUS
<1>2. page \in Seq(S) /\ Len(page) = c /\ \A j \in 1 .. c : page[j] = d[e + j]
  <2>1. \A j \in 1 .. c : e + j \in 1 .. Len(d)
    BY <1>1
  <2>2. page \in [1 .. c -> S]
    BY <1>1, <2>1
  <2> QED BY <2>2
<1>3. head \in Seq(S) /\ Len(head) = e /\ \A j \in 1 .. e : head[j] = d[j]
  BY <1>1
<1>4. all \in Seq(S) /\ Len(all) = e + c /\ \A j \in 1 .. e + c : all[j] = d[j]
  BY <1>1
<1> HIDE DEF page, head, all
<1>5. head \o page \in Seq(S) /\ Len(head \o page) = e + c
  BY <1>2, <1>3, ConcatProperties
<1>6. ASSUME NEW j \in 1 .. e + c PROVE (head \o page)[j] = all[j]
  <2>1. (head \o page)[j] = IF j =< e THEN head[j] ELSE page[j - e]
    BY <1>2, <1>3, ConcatProperties
  <2>2. CASE j =< e
    <3>1. j \in 1 .. e
      BY <2>2
    <3> QED BY <1>3, <1>4, <2>1, <2>2, <3>1
  <2>3. CASE ~(j =< e)
    <3>1. j - e \in 1 .. c /\ e + (j - e) = j
      BY <2>3
    <3> QED BY <1>2, <1>4, <2>1, <2>3, <3>1
  <2> QED BY <2>2, <2>3
<1>7. head \o page = all
  BY <1>4, <1>5, <1>6, SeqEqual
<1> QED BY <1>7 DEF head, page, all

LEMMA DescriptorsType ==
  ASSUME NEW n
  PROVE  /\ Descriptors(n) \in Seq(Range(Descriptors(n)))
         /\ Len(Descriptors(n)) = Len(Instances)
         /\ \A k \in 1 .. Len(Instances) : Descriptors(n)[k] = Describe(n, k)
<1> DEFINE D == Descriptors(n)
           N == Len(Instances)
           R == Range(D)
<1>1. N \in Nat /\ D = [k \in 1 .. N |-> Describe(n, k)]
  BY InstanceCount DEF Descriptors
<1>2. \A k \in 1 .. N : D[k] \in R /\ D[k] = Describe(n, k)
  BY <1>1 DEF Range
<1> HIDE DEF D, N, R
<1>3. D \in [1 .. N -> R]
  BY <1>1, <1>2
<1>4. D \in Seq(R) /\ Len(D) = N
  BY <1>1, <1>3
<1> QED BY <1>2, <1>4 DEF D, N, R

\* What a page says, and where its descriptors begin and end.
LEMMA PageSays ==
  ASSUME DescriptorsFit, NEW n \in AllNames, NEW p \in Nat, ~(p >= PageCount(n))
  PROVE  LET m == Page(n, p)
             s == SlicesOf(n)
         IN  /\ m.rev = DescriptorRev(n) /\ m.page = p /\ m.pages = PageCount(n)
             /\ m.name = n.name
             /\ PageCount(n) \in Nat /\ p + 1 \in 1 .. PageCount(n)
             /\ s[p + 1].first \in Nat /\ s[p + 1].count \in Nat
             /\ End(s, p + 1) =< Len(Instances)
             /\ m.items = [j \in 1 .. s[p + 1].count |-> Descriptors(n)[s[p + 1].first + j]]
<1> DEFINE m == Page(n, p)
           s == SlicesOf(n)
           a == s[p + 1].first
           c == s[p + 1].count
<1>1. Covers(s, Len(Instances)) /\ PageCount(n) = Len(s)
  BY SlicesCover DEF PageCount, SlicesOf
<1>2. s \in Seq(Slice) /\ Len(s) \in Nat
  BY <1>1 DEF Covers
<1>3. p + 1 \in 1 .. Len(s)
  BY <1>1, <1>2
<1>4. a \in Nat /\ c \in Nat
  <2>1. s[p + 1] \in Slice
    BY <1>2, <1>3
  <2> QED BY <2>1 DEF Slice
<1>5. End(s, p + 1) =< Len(Instances) /\ End(s, p + 1) = a + c
  BY <1>1, <1>3 DEF Covers, End
<1>6. FillDescribe(n, p) =
        <<[type |-> "DescribeResponse", rev |-> DescriptorRev(n),
           count |-> Len(Instances), page |-> p, pages |-> Len(s),
           name |-> n.name, items |-> OnPage(n, s[p + 1]), trailer |-> <<Interval>>]>>
  BY <1>1 DEF FillDescribe, SlicesOf
<1>7. /\ m.rev = DescriptorRev(n) /\ m.page = p /\ m.pages = Len(s) /\ m.name = n.name
      /\ m.items = OnPage(n, s[p + 1])
  BY <1>6 DEF Page
<1>8. OnPage(n, s[p + 1]) = [j \in 1 .. c |-> Describe(n, a + j)]
  BY DEF OnPage
<1> HIDE DEF m, s, a, c
<1>9. \A j \in 1 .. c : a + j \in 1 .. Len(Instances)
  BY <1>4, <1>5, InstanceCount
<1>10. [j \in 1 .. c |-> Describe(n, a + j)] = [j \in 1 .. c |-> Descriptors(n)[a + j]]
  BY <1>9, DescriptorsType
<1> QED BY <1>1, <1>2, <1>3, <1>4, <1>5, <1>7, <1>8, <1>10 DEF m, s, a, c

\* A page behind those that were heard leaves one page more.
LEMMA PageAdds ==
  ASSUME DescriptorsFit, NEW n \in AllNames, NEW p \in Nat, ~(p >= PageCount(n)),
         NEW before, before = IF p = 0 THEN <<>> ELSE UpToPage(n, p)
  PROVE  UpTo(MaxInstances, before \o Page(n, p).items) = UpToPage(n, p + 1)
<1> DEFINE D == Descriptors(n)
           R == Range(D)
           s == SlicesOf(n)
           a == s[p + 1].first
           c == s[p + 1].count
<1>1. /\ p + 1 \in 1 .. Len(s) /\ a \in Nat /\ c \in Nat
      /\ End(s, p + 1) = a + c /\ a + c =< Len(Instances)
      /\ Page(n, p).items = [j \in 1 .. c |-> D[a + j]]
  BY PageSays DEF PageCount, SlicesOf, End
<1>2. D \in Seq(R) /\ Len(D) = Len(Instances)
  BY DescriptorsType
<1>3. before = SubSeq(D, 1, a)
  <2>1. Covers(s, Len(Instances))
    BY SlicesCover DEF SlicesOf
  <2>2. CASE p = 0
    <3>1. a = 0
      BY <2>1, <2>2 DEF Covers
    <3> HIDE DEF a, D, R
    <3>2. SubSeq(D, 1, 0) = <<>>
      BY <1>2
    <3> QED BY <2>2, <3>1, <3>2
  <2>3. CASE p # 0
    <3>1. a = End(s, p)
      <4> DEFINE l == p + 1
      <4>1. l \in 1 .. Len(s) /\ l # 1 /\ l - 1 = p
        BY <1>1, <2>3
      <4> HIDE DEF l, s
      <4>2. s[l].first = End(s, l - 1)
        BY <2>1, <4>1 DEF Covers
      <4> QED BY <4>1, <4>2 DEF l
    <3> QED BY <2>3, <3>1 DEF UpToPage
  <2> QED BY <2>2, <2>3
<1> HIDE DEF D, R, s, a, c
<1>4. before \o Page(n, p).items = SubSeq(D, 1, a + c)
  BY SMTT(60), <1>1, <1>2, <1>3, Joined
<1>5. SubSeq(D, 1, a + c) \in Seq(R) /\ Len(SubSeq(D, 1, a + c)) = a + c
  BY <1>1, <1>2
<1>6. a + c =< MaxInstances
  <2>1. Len(Instances) \in Nat /\ MaxInstances \in Nat /\ Len(Instances) =< MaxInstances
    BY NodeAssumption, MessagesAssumption, InstanceCount
  <2> QED BY <1>1, <2>1
<1>7. UpTo(MaxInstances, SubSeq(D, 1, a + c)) = SubSeq(D, 1, a + c)
  BY <1>5, <1>6, AllFit
<1>8. UpToPage(n, p + 1) = SubSeq(D, 1, a + c)
  BY <1>1 DEF UpToPage, D, s
<1> QED BY <1>4, <1>7, <1>8

\* A page heard first, or behind those before it of the same revision.
LEMMA PageHeard ==
  ASSUME DescriptorsFit, RevisionsDiffer, Copying, NEW n \in AllNames, NEW p \in Nat,
         ~(p >= PageCount(n)), NEW m, m = Page(n, p),
         copy' = NoteDescribe(m), heard' = Heard(m)
  PROVE  Copying'
<1>1. /\ m.rev = DescriptorRev(n) /\ m.page = p /\ m.pages = PageCount(n)
      /\ m.name = n.name /\ PageCount(n) \in Nat /\ p + 1 \in 1 .. PageCount(n)
  BY PageSays
<1> DEFINE last == p + 1 >= PageCount(n)
<1>2. /\ IsCopy(copy') /\ copy'.name = n.name
      /\ copy'.instances = UpTo(MaxInstances, ListBefore(m) \o m.items)
      /\ last => copy'.described = TRUE /\ copy'.cachedRev = DescriptorRev(n)
  BY <1>1 DEF NoteDescribe, Copying, IsCopy
<1>3. CASE p # 0 /\ ~InPlace(m)
  <2>1. heard' = Unheard
    BY <1>1, <1>3 DEF Heard
  <2> QED BY <1>2, <2>1 DEF Copying
<1>4. ASSUME heard' = [rev |-> DescriptorRev(n), next |-> p + 1, pages |-> PageCount(n)],
             ListBefore(m) = IF p = 0 THEN <<>> ELSE UpToPage(n, p)
      PROVE  Copying'
  <2>1. copy'.instances = UpToPage(n, p + 1)
    BY <1>2, <1>4, PageAdds
  <2>2. CopiedFrom(copy', heard', n, p + 1)
    BY <1>1, <1>2, <1>4, <2>1 DEF CopiedFrom
  <2>3. p + 1 \in Nat
    OBVIOUS
  <2> QED BY <1>2, <2>2, <2>3 DEF Copying
<1>5. CASE p = 0
  <2>1. heard' = [rev |-> m.rev, next |-> 1, pages |-> m.pages] /\ ListBefore(m) = <<>>
    BY <1>1, <1>5 DEF Heard, ListBefore
  <2> QED BY <1>1, <1>4, <1>5, <2>1
<1>6. CASE p # 0 /\ InPlace(m)
  <2>1. heard.next = p /\ heard.rev = DescriptorRev(n) /\ heard' = [heard EXCEPT !.next = @ + 1]
    BY <1>1, <1>6 DEF Heard, InPlace
  <2>2. PICK b \in AllNames, k \in Nat : CopiedFrom(copy, heard, b, k)
    BY <1>6, <2>1 DEF Copying, Unheard
  <2>3. heard = [rev |-> DescriptorRev(b), next |-> k, pages |-> PageCount(b)]
    BY <2>2 DEF CopiedFrom
  <2>4. b = n /\ k = p
    BY <2>1, <2>3 DEF RevisionsDiffer
  <2>5. heard' = [rev |-> DescriptorRev(n), next |-> p + 1, pages |-> PageCount(n)]
    BY <2>1, <2>3, <2>4
  <2>6. ListBefore(m) = UpToPage(n, p)
    BY <1>1, <1>6, <2>2, <2>4 DEF ListBefore, CopiedFrom
  <2> QED BY <1>4, <1>6, <2>5, <2>6
<1> QED BY <1>3, <1>5, <1>6

\* What else is noted leaves the names, the instances and what was heard.
LEMMA OtherHeard ==
  ASSUME Copying, heard' = heard, IsCopy(copy'), copy'.name = copy.name,
         copy'.instances = copy.instances, copy'.described = copy.described,
         copy'.cachedRev = copy.cachedRev
  PROVE  Copying'
  BY DEF Copying, CopiedFrom

LEMMA CopyingInit == Init => Copying
  BY DEF Init, Blank, Copying, IsCopy

LEMMA CopyingNext ==
  ASSUME DescriptorsFit, RevisionsDiffer
  PROVE  Saying /\ Copying /\ MeaningSurvives /\ [Next]_vars => Copying'
<1> SUFFICES ASSUME Saying, Copying, MeaningSurvives, [Next]_vars PROVE Copying'
  OBVIOUS
<1>1. IsCopy(copy)
  BY DEF Copying
<1>2. CASE HearPage
  <2>1. PICK a \in Answers({"DescribeResponse"}) :
          /\ copy' = IF a.ok THEN NoteDescribe(a.m) ELSE copy
          /\ heard' = IF a.ok THEN Heard(a.m) ELSE heard
    BY <1>2 DEF HearPage
  <2>2. up # <<>> /\ a = Head(up).read /\ a.m.type = "DescribeResponse"
    BY DEF Answers, First
  <2>3. 1 \in DOMAIN up /\ Head(up) = up[1] /\ up[1] \in Range(up)
    BY <2>2 DEF Saying, Range
  <2>4. a = [ok |-> TRUE, m |-> up[1].meant]
    BY <2>2, <2>3 DEF MeaningSurvives
  <2>5. IsPage(up[1].meant)
    BY <2>2, <2>3, <2>4 DEF Saying, Pages
  <2>6. PICK n \in AllNames, p \in Nat : ~(p >= PageCount(n)) /\ a.m = Page(n, p)
    BY <2>4, <2>5 DEF IsPage
  <2>7. copy' = NoteDescribe(a.m) /\ heard' = Heard(a.m)
    BY <2>1, <2>4
  <2> QED BY <2>6, <2>7, PageHeard
<1>3. CASE HearValues
  <2>1. heard' = heard /\ \E m : copy' \in {NoteReport(m), copy}
    BY <1>3 DEF HearValues
  <2> QED BY <1>1, <2>1, OtherHeard DEF NoteReport, IsCopy
<1>4. CASE HearPong
  <2>1. heard' = heard /\ \E m : copy' = NotePong(m)
    BY <1>4 DEF HearPong
  <2> QED BY <1>1, <2>1, OtherHeard DEF NotePong, IsCopy
<1>5. CASE UNCHANGED root
  BY <1>1, <1>5, OtherHeard DEF root
<1>6. ASSUME NEW m, Ask(m) PROVE UNCHANGED root
  BY SMTT(60), <1>6 DEF Ask
<1>7. ASSUME \/ Tell \/ TakeWrite \/ TakeName \/ TakePolicy \/ TakeLink \/ TakeClear \/ TakeOta
      PROVE  UNCHANGED root
  BY <1>7 DEF Tell, TakeWrite, TakeName, TakePolicy, TakeLink, TakeClear, TakeOta, Answer
<1>8. ASSUME SendReport \/ Restart \/ HearOther \/ LoseRequest \/ LoseAnswer \/ UNCHANGED vars
      PROVE  UNCHANGED root
  BY <1>8 DEF SendReport, Restart, HearOther, LoseRequest, LoseAnswer, vars
<1> QED BY <1>2, <1>3, <1>4, <1>5, <1>6, <1>7, <1>8 DEF Next, Hear

LEMMA CopyingImplies ==
  ASSUME DescriptorsFit
  PROVE  Copying => CopyWasTrue
<1> SUFFICES ASSUME Copying, Whole
             PROVE  /\ copy.described /\ copy.cachedRev = heard.rev
                    /\ \E n \in AllNames : DescriptorRev(n) = heard.rev /\ CopyOf(n)
  BY DEF CopyWasTrue
<1>1. PICK n \in AllNames, k \in Nat : CopiedFrom(copy, heard, n, k)
  BY DEF Whole, Copying, Unheard
<1>2. heard.rev = DescriptorRev(n) /\ k = PageCount(n)
  BY <1>1 DEF CopiedFrom, Whole
<1>3. /\ copy.described = TRUE /\ copy.cachedRev = DescriptorRev(n) /\ copy.name = n.name
      /\ copy.instances = UpToPage(n, k)
  BY <1>1, <1>2 DEF CopiedFrom
<1>4. End(SlicesOf(n), k) = Len(Instances)
  <2>1. Covers(SlicesOf(n), Len(Instances))
    BY SlicesCover DEF SlicesOf
  <2> QED BY <1>2, <2>1 DEF Covers, PageCount, SlicesOf
<1>5. UpToPage(n, k) = Descriptors(n)
  <2> DEFINE D == Descriptors(n)
  <2>1. D \in Seq(Range(D)) /\ Len(D) = Len(Instances)
    BY DescriptorsType
  <2> HIDE DEF D
  <2>2. SubSeq(D, 1, Len(D)) = D
    BY <2>1
  <2> QED BY <1>4, <2>1, <2>2 DEF UpToPage, D
<1> QED BY <1>2, <1>3, <1>5 DEF CopyOf

-----------------------------------------------------------------------------
(* The checksum is a number of two bytes *)

LEMMA StaysIn ==
  ASSUME NEW S, NEW n \in Nat, NEW f, f[0] \in S,
         \A k \in 1 .. n : f[k - 1] \in S => f[k] \in S
  PROVE  \A k \in 0 .. n : f[k] \in S
<1> DEFINE bad == {k \in 0 .. n : f[k] \notin S}
<1>1. ASSUME bad # {} PROVE FALSE
  <2>0. bad \subseteq Nat
    OBVIOUS
  <2>1. PICK m \in bad : \A j \in bad : m =< j
    BY <1>1, <2>0, LeastExists
  <2>2. m \in 0 .. n /\ f[m] \notin S /\ m # 0
    OBVIOUS
  <2>5. m \in 1 .. n /\ m - 1 \in 0 .. n /\ m - 1 < m
    BY <2>2
  <2>6. m - 1 \notin bad
    <3> HIDE DEF bad
    <3> QED BY <2>0, <2>1, <2>5
  <2>7. f[m - 1] \in S
    BY <2>5, <2>6
  <2> QED BY <2>2, <2>5, <2>7
<1> QED BY <1>1

Weight(a, b, k) == 2 ^ (k - 1) * ((BitOf(a, k - 1) + BitOf(b, k - 1)) % 2)
Summing(a, b, f) == f = [k \in 0 .. 16 |-> IF k = 0 THEN 0 ELSE Weight(a, b, k) + f[k - 1]]

LEMMA HalfIs ==
  ASSUME NEW n \in Nat, n =< 65535
  PROVE  n \in Half
<1> DEFINE b == 65535
<1>1. b \in Nat /\ n =< b
  OBVIOUS
<1> HIDE DEF b
<1>2. n \in 0 .. b
  BY <1>1
<1> QED BY <1>2, PTL DEF b, Half

\* The bits of a byte.
LEMMA Powers ==
  /\ 2 ^ 0 = 1 /\ 2 ^ 1 = 2 /\ 2 ^ 2 = 4 /\ 2 ^ 3 = 8 /\ 2 ^ 4 = 16 /\ 2 ^ 5 = 32 /\ 2 ^ 6 = 64
  /\ 2 ^ 7 = 128 /\ 2 ^ 8 = 256 /\ 2 ^ 9 = 512 /\ 2 ^ 10 = 1024 /\ 2 ^ 11 = 2048
  /\ 2 ^ 12 = 4096 /\ 2 ^ 13 = 8192 /\ 2 ^ 14 = 16384 /\ 2 ^ 15 = 32768
  OBVIOUS

LEMMA BitIs ==
  ASSUME NEW n \in Nat, NEW k \in 0 .. 15
  PROVE  /\ BitOf(n, k) \in {0, 1} /\ 2 ^ k \in Nat
         /\ n < 256 /\ k > 7 => BitOf(n, k) = 0
<1> DEFINE e(x) == 2 ^ x
<1>1. /\ e(0) = 1 /\ e(1) = 2 /\ e(2) = 4 /\ e(3) = 8 /\ e(4) = 16 /\ e(5) = 32 /\ e(6) = 64
      /\ e(7) = 128 /\ e(8) = 256 /\ e(9) = 512 /\ e(10) = 1024 /\ e(11) = 2048
      /\ e(12) = 4096 /\ e(13) = 8192 /\ e(14) = 16384 /\ e(15) = 32768
  BY Powers
<1> HIDE DEF e
<1>2. e(k) \in Nat /\ e(k) > 0
  BY <1>1
<1>3. k > 7 => e(k) >= 256
  BY <1>1
<1> USE DEF e
<1> DEFINE p == 2 ^ k
<1>4. p \in Nat /\ p > 0 /\ (k > 7 => p >= 256)
  BY <1>2, <1>3
<1> HIDE DEF p
<1>5. n \div p \in Int
  BY <1>4
<1>6. (n \div p) % 2 \in {0, 1}
  <2> DEFINE q == n \div p
  <2>1. q \in Int
    BY <1>5
  <2> HIDE DEF q
  <2>2. q % 2 \in {0, 1}
    BY <2>1
  <2> QED BY <2>2 DEF q
<1>7. ASSUME n < 256, k > 7 PROVE (n \div p) % 2 = 0
  <2>1. n < p /\ n >= 0
    BY <1>4, <1>7
  <2>2. n \div p = 0
    BY <1>4, <2>1
  <2> QED BY <2>2
<1> QED BY <1>4, <1>6, <1>7 DEF p, BitOf

LEMMA WeightIs ==
  ASSUME NEW a \in Nat, NEW b \in Nat, NEW k \in 1 .. 16
  PROVE  /\ Weight(a, b, k) \in Nat /\ Weight(a, b, k) =< 2 ^ (k - 1)
         /\ a < 256 /\ b < 256 /\ k > 8 => Weight(a, b, k) = 0
<1> DEFINE j == k - 1
           s == (BitOf(a, j) + BitOf(b, j)) % 2
           p == 2 ^ j
<1>1. j \in 0 .. 15 /\ (k > 8 => j > 7)
  OBVIOUS
<1> HIDE DEF j
<1>2. /\ BitOf(a, j) \in {0, 1} /\ BitOf(b, j) \in {0, 1} /\ p \in Nat
      /\ a < 256 /\ b < 256 /\ k > 8 => BitOf(a, j) = 0 /\ BitOf(b, j) = 0
  BY <1>1, BitIs
<1>3. s \in {0, 1} /\ (a < 256 /\ b < 256 /\ k > 8 => s = 0)
  BY <1>2
<1> HIDE DEF s, p
<1>4. p * s \in Nat /\ p * s =< p /\ (s = 0 => p * s = 0)
  <2>1. CASE s = 0
    BY <1>2, <2>1
  <2>2. CASE s = 1
    BY <1>2, <2>2
  <2> QED BY <1>3, <2>1, <2>2
<1>5. Weight(a, b, k) = p * s
  BY DEF Weight, p, s, j
<1> QED BY <1>3, <1>4, <1>5 DEF p, j

LEMMA XorIs ==
  ASSUME NEW a \in Nat, NEW b \in Nat
  PROVE  Xor(a, b) \in Half /\ (a < 256 /\ b < 256 => Xor(a, b) \in Byte)
<1> DEFINE G == [x \in (1 .. 16) \X Nat |-> Weight(a, b, x[1]) + x[2]]
           W(k) == Weight(a, b, k)
<1>1. \A k \in 1 .. 16 : W(k) \in Nat /\ W(k) =< 2 ^ (k - 1)
  BY WeightIs
<1>2. a < 256 /\ b < 256 => \A k \in 1 .. 16 : k > 8 => W(k) = 0
  BY WeightIs
<1>3. \E f : Summing(a, b, f)
  <2>1. G \in [(1 .. 16) \X Nat -> Nat]
    <3>1. \A x \in (1 .. 16) \X Nat : W(x[1]) + x[2] \in Nat
      BY <1>1
    <3> HIDE DEF W
    <3> QED BY <3>1 DEF W
  <2>2. \A k \in 1 .. 16, x \in Nat : G[k, x] = W(k) + x
    OBVIOUS
  <2> HIDE DEF G
  <2>3. 0 \in Nat /\ 16 \in Nat
    OBVIOUS
  <2>4. PICK f \in [0 .. 16 -> Nat] : Recursion(f, 0, G, 16)
    BY <2>1, <2>3, RecursionExists
  <2>5. \A k \in 0 .. 16 : f[k] = IF k = 0 THEN 0 ELSE W(k) + f[k - 1]
    <3>1. \A k \in 0 .. 16 : f[k] = IF k = 0 THEN 0 ELSE G[k, f[k - 1]]
      BY <2>4 DEF Recursion
    <3>2. \A k \in 0 .. 16 : k # 0 => k \in 1 .. 16 /\ f[k - 1] \in Nat
      OBVIOUS
    <3> HIDE DEF W
    <3> QED BY <2>2, <3>1, <3>2
  <2>6. f = [k \in 0 .. 16 |-> f[k]]
    OBVIOUS
  <2> HIDE DEF W
  <2>7. f = [k \in 0 .. 16 |-> IF k = 0 THEN 0 ELSE W(k) + f[k - 1]]
    BY <2>5, <2>6
  <2> QED BY <2>7 DEF Summing, W
<1> DEFINE c == CHOOSE f : Summing(a, b, f)
<1>4. Summing(a, b, c)
  BY <1>3
<1>5. Xor(a, b) = c[16]
  BY DEF Xor, Summing, Weight
<1> HIDE DEF c
<1>6. c[0] = 0 /\ \A k \in 1 .. 16 : c[k] = W(k) + c[k - 1]
  BY <1>4 DEF Summing
<1> HIDE DEF W
<1>7. /\ c[1] \in Nat /\ c[1] =< 1 /\ c[2] \in Nat /\ c[2] =< 3
      /\ c[3] \in Nat /\ c[3] =< 7 /\ c[4] \in Nat /\ c[4] =< 15
  BY <1>1, <1>6, Powers, SMTT(30)
<1>8. /\ c[5] \in Nat /\ c[5] =< 31 /\ c[6] \in Nat /\ c[6] =< 63
      /\ c[7] \in Nat /\ c[7] =< 127 /\ c[8] \in Nat /\ c[8] =< 255
  BY <1>1, <1>6, <1>7, Powers, SMTT(30)
<1>9. /\ c[9] \in Nat /\ c[9] =< 511 /\ c[10] \in Nat /\ c[10] =< 1023
      /\ c[11] \in Nat /\ c[11] =< 2047 /\ c[12] \in Nat /\ c[12] =< 4095
  BY <1>1, <1>6, <1>8, Powers, SMTT(30)
<1>10. /\ c[13] \in Nat /\ c[13] =< 8191 /\ c[14] \in Nat /\ c[14] =< 16383
       /\ c[15] \in Nat /\ c[15] =< 32767 /\ c[16] \in Nat /\ c[16] =< 65535
  BY <1>1, <1>6, <1>9, Powers, SMTT(30)
<1>11. ASSUME a < 256, b < 256 PROVE c[16] = c[8]
  <2>1. \A k \in 9 .. 16 : W(k) = 0 /\ k \in 1 .. 16
    BY <1>2, <1>11
  <2> QED BY <1>6, <1>8, <2>1
<1>12. c[16] \in Half
  <2> DEFINE n == c[16]
  <2>1. n \in Nat /\ n =< 65535
    BY <1>10
  <2> HIDE DEF n
  <2>2. n \in Half
    BY <2>1, HalfIs
  <2> QED BY <2>2 DEF n
<1>13. c[8] \in Byte
  BY SMTT(60), <1>8 DEF Byte
<1> QED BY <1>5, <1>11, <1>12, <1>13

LEMMA ShiftedIs ==
  ASSUME NEW crc \in Half
  PROVE  ShiftedOut(crc) \in Half
<1>1. crc \in Nat
  BY HalfHas
<1>2. CASE crc >= 32768
  <2> DEFINE n == (2 * crc) % 65536
  <2>1. n \in Nat
    <3> DEFINE d == 2 * crc
               q == 65536
    <3>1. d \in Nat /\ q \in Nat \ {0}
      BY <1>1
    <3>2. n = d % q
      OBVIOUS
    <3> HIDE DEF d, q, n
    <3> QED BY <3>1, <3>2
  <2>2. Polynomial \in Nat
    BY DEF Polynomial
  <2> HIDE DEF n
  <2>3. Xor(n, Polynomial) \in Half
    BY <2>1, <2>2, XorIs
  <2> QED BY <1>2, <2>3 DEF ShiftedOut, n
<1>3. CASE ~(crc >= 32768)
  <2>1. 2 * crc \in Nat /\ 2 * crc =< 65535
    BY <1>1, <1>3
  <2>2. 2 * crc \in Half
    BY <2>1, HalfIs
  <2> QED BY <1>3, <2>2 DEF ShiftedOut
<1> QED BY <1>2, <1>3

LEMMA TableIs == ASSUME NEW f PROVE Table(f) = f
BY DEF Table

Shifting(b, f) == f = [n \in 0 .. 8 |-> IF n = 0 THEN 256 * b ELSE ShiftedOut(f[n - 1])]

LEMMA ShiftsAre ==
  ASSUME NEW b \in Byte
  PROVE  EightShifts[b] \in Half
<1> DEFINE G == [x \in (1 .. 8) \X Half |-> ShiftedOut(x[2])]
           a == 256 * b
           c == CHOOSE f : Shifting(b, f)
<1>1. a \in Half
  <2>1. a \in Nat /\ a =< 65535
    BY DEF Byte
  <2> QED BY <2>1, HalfIs
<1>2. G \in [(1 .. 8) \X Half -> Half]
  BY ShiftedIs
<1>3. \A k \in 1 .. 8, x \in Half : G[k, x] = ShiftedOut(x)
  OBVIOUS
<1>4. 8 \in Nat
  OBVIOUS
<1> HIDE DEF G, a
<1>5. PICK f \in [0 .. 8 -> Half] : Recursion(f, a, G, 8)
  BY <1>1, <1>2, <1>4, RecursionExists
<1>6. Shifting(b, f)
  <2>1. f = [n \in 0 .. 8 |-> f[n]]
    OBVIOUS
  <2>2. \A n \in 0 .. 8 : f[n] = IF n = 0 THEN a ELSE G[n, f[n - 1]]
    BY <1>5 DEF Recursion
  <2>3. \A n \in 0 .. 8 : n # 0 => n \in 1 .. 8 /\ f[n - 1] \in Half
    OBVIOUS
  <2>4. \A n \in 0 .. 8 : f[n] = IF n = 0 THEN a ELSE ShiftedOut(f[n - 1])
    BY <1>3, <2>2, <2>3
  <2>5. f = [n \in 0 .. 8 |-> IF n = 0 THEN a ELSE ShiftedOut(f[n - 1])]
    BY <2>1, <2>4
  <2> QED BY <2>5 DEF Shifting, a
<1>7. Shifting(b, c)
  BY <1>6
<1> HIDE DEF c
<1>8. \A n \in 0 .. 8 : c[n] = IF n = 0 THEN a ELSE ShiftedOut(c[n - 1])
  BY <1>7 DEF Shifting, a
<1>9. c[0] \in Half /\ c[1] \in Half /\ c[2] \in Half
  BY <1>1, <1>8, ShiftedIs
<1>10. c[3] \in Half /\ c[4] \in Half /\ c[5] \in Half
  BY <1>8, <1>9, ShiftedIs
<1>11. c[6] \in Half /\ c[7] \in Half /\ c[8] \in Half
  BY SMTT(60), <1>8, <1>10, ShiftedIs
<1>12. EightShifts[b] = c[8]
  <2> DEFINE F == [x \in 0 .. 255 |->
           LET shifted[n \in 0 .. 8] ==
                 IF n = 0 THEN 256 * x ELSE ShiftedOut(shifted[n - 1])
           IN  shifted[8]]
  <2>1. EightShifts = F
    BY ZenonT(60), TableIs DEF EightShifts
  <2>2. F[b] = c[8]
    BY DEF Byte, Shifting, c
  <2> QED BY ZenonT(60), <2>1, <2>2
<1> QED BY <1>11, <1>12

LEMMA WithByteIs ==
  ASSUME NEW crc \in Half, NEW byte \in Byte
  PROVE  WithByte(crc, byte) \in Half
<1>1. crc \in Nat /\ crc =< 65535
  BY HalfHas
<1>2. crc \div 256 \in Nat /\ crc \div 256 < 256 /\ 256 * (crc % 256) \in Nat
  BY <1>1
<1>3. byte \in Nat /\ byte < 256
  BY DEF Byte
<1>4. Xor(crc \div 256, byte) \in Byte
  BY <1>2, <1>3, XorIs
<1>5. EightShifts[Xor(crc \div 256, byte)] \in Nat
  BY <1>4, ShiftsAre, HalfHas
<1> QED BY <1>2, <1>5, XorIs DEF WithByte

Checking(start, bytes, f) ==
  f = [k \in 0 .. Len(bytes) |-> IF k = 0 THEN start ELSE WithByte(f[k - 1], bytes[k])]

LEMMA ChecksumIs ==
  ASSUME NEW start \in Half, NEW bytes \in Seq(Byte)
  PROVE  Crc16Update(start, bytes) \in Half
<1> DEFINE n == Len(bytes)
           G == [x \in (1 .. n) \X Half |-> WithByte(x[2], bytes[x[1]])]
           c == CHOOSE f : Checking(start, bytes, f)
<1>1. n \in Nat /\ \A k \in 1 .. n : bytes[k] \in Byte
  OBVIOUS
<1> HIDE DEF n
<1>2. G \in [(1 .. n) \X Half -> Half]
  BY <1>1, WithByteIs
<1>3. \A k \in 1 .. n, x \in Half : G[k, x] = WithByte(x, bytes[k])
  OBVIOUS
<1> HIDE DEF G
<1>5. PICK f \in [0 .. n -> Half] : Recursion(f, start, G, n)
  BY <1>1, <1>2, RecursionExists
<1>6. Checking(start, bytes, f)
  <2>1. f = [k \in 0 .. n |-> f[k]]
    OBVIOUS
  <2>2. \A k \in 0 .. n : f[k] = IF k = 0 THEN start ELSE G[k, f[k - 1]]
    BY <1>5 DEF Recursion
  <2>3. \A k \in 0 .. n : k # 0 => k \in 1 .. n /\ k - 1 \in 0 .. n
    BY <1>1
  <2>4. \A k \in 0 .. n : f[k] = IF k = 0 THEN start ELSE WithByte(f[k - 1], bytes[k])
    BY <1>3, <2>2, <2>3
  <2>5. f = [k \in 0 .. n |-> IF k = 0 THEN start ELSE WithByte(f[k - 1], bytes[k])]
    BY <2>1, <2>4
  <2> QED BY <2>5 DEF Checking, n
<1>7. Checking(start, bytes, c)
  BY <1>6
<1>8. Crc16Update(start, bytes) = c[n]
  BY DEF Crc16Update, Checking, n
<1> HIDE DEF c
<1>9. c[0] \in Half /\ \A k \in 1 .. n : c[k - 1] \in Half => c[k] \in Half
  <2>1. \A k \in 0 .. n : c[k] = IF k = 0 THEN start ELSE WithByte(c[k - 1], bytes[k])
    BY <1>7 DEF Checking, n
  <2>2. c[0] = start
    BY <1>1, <2>1
  <2>3. ASSUME NEW k \in 1 .. n, c[k - 1] \in Half PROVE c[k] \in Half
    <3>1. k \in 0 .. n /\ k # 0 /\ bytes[k] \in Byte
      BY <1>1
    <3>2. c[k] = WithByte(c[k - 1], bytes[k])
      BY <2>1, <3>1
    <3> QED BY <2>3, <3>1, <3>2, WithByteIs
  <2> QED BY <2>2, <2>3
<1>10. \A k \in 0 .. n : c[k] \in Half
  BY <1>1, <1>9, StaysIn
<1> QED BY <1>1, <1>8, <1>10

-----------------------------------------------------------------------------
(* What a node says of itself *)

LEMMA NamesAre ==
  ASSUME NodeFits, NEW n \in AllNames
  PROVE  IsText(n.name, MaxName) /\ \A k \in DOMAIN Instances : IsText(n.instances[k], MaxName)
BY DEF NodeFits, AllNames

LEMMA TypeOf ==
  ASSUME NEW class
  PROVE  PrimaryType(class) \in {"Null", "Bool", "String", "Float"}
BY DEF PrimaryType, ValueType, TypeOfKind

\* One descriptor is what its layout says, and takes as many bytes as it is counted for.
IsDescriptor(d) ==
  /\ d = [x \in {"class", "inst", "flags", "type", "name"} |-> d[x]]
  /\ d.class \in DOMAIN ClassCode /\ d.inst \in Byte /\ d.flags \in Byte
  /\ d.type \in DOMAIN TypeCode /\ IsText(d.name, MaxName)

LEMMA DescribeIs ==
  ASSUME NodeFits, NEW n \in AllNames, NEW k \in DOMAIN Instances
  PROVE  IsDescriptor(Describe(n, k)) /\ Describe(n, k).name = n.instances[k]
<1> DEFINE d == Describe(n, k)
<1>1. d = [class |-> Instances[k], inst |-> k - 1, flags |-> InstanceFlags(Instances[k]),
           type |-> PrimaryType(Instances[k]), name |-> n.instances[k]]
  BY DEF Describe
<1>2. Instances[k] \in DOMAIN ClassCode
  <2>1. Instances[k] \in ClassId
    BY LinksAssumption
  <2> QED BY <2>1 DEF ClassId, Catalogue, ClassCode
<1>3. k - 1 \in Byte
  <2>1. k \in 1 .. Len(Instances) /\ Len(Instances) \in Nat /\ Len(Instances) =< MaxInstances
        /\ MaxInstances \in 1 .. 255
    BY InstanceCount, NodeAssumption, MessagesAssumption
  <2>2. k - 1 \in Nat /\ k - 1 =< 255
    BY <2>1
  <2> QED BY <2>2, ByteIs
<1>4. InstanceFlags(Instances[k]) \in Byte
  BY DEF InstanceFlags, Byte
<1>5. PrimaryType(Instances[k]) \in DOMAIN TypeCode
  BY TypeOf DEF TypeCode
<1>6. IsText(n.instances[k], MaxName)
  BY NamesAre
<1> HIDE DEF d
<1>7. d = [x \in {"class", "inst", "flags", "type", "name"} |-> d[x]]
  BY <1>1
<1>8. d.class = Instances[k] /\ d.inst = k - 1 /\ d.flags = InstanceFlags(Instances[k])
      /\ d.type = PrimaryType(Instances[k]) /\ d.name = n.instances[k]
  BY <1>1
<1>9. IsDescriptor(d)
  BY <1>2, <1>3, <1>4, <1>5, <1>6, <1>7, <1>8 DEF IsDescriptor
<1> QED BY <1>8, <1>9 DEF d

LEMMA RevisionIs ==
  ASSUME NodeFits, NEW n \in AllNames
  PROVE  DescriptorRev(n) \in Half
<1> DEFINE One(k) == <<ClassCode[Describe(n, k).class], Describe(n, k).inst,
                       Describe(n, k).flags, TypeCode[Describe(n, k).type]>>
           All(k) == One(k) \o Describe(n, k).name
           s == [k \in DOMAIN Instances |-> All(k)]
           h == <<DeviceType, Capabilities>>
           B == RevisionBytes(n)
<1>1. ASSUME NEW k \in DOMAIN Instances PROVE All(k) \in Seq(Byte)
  <2>1. /\ ClassCode[Describe(n, k).class] \in Byte /\ Describe(n, k).inst \in Byte
        /\ Describe(n, k).flags \in Byte /\ TypeCode[Describe(n, k).type] \in Byte
        /\ Describe(n, k).name \in Seq(Byte)
    BY DescribeIs, ClassCodes, TypeCodes DEF IsDescriptor, IsText
  <2>2. One(k) \in Seq(Byte)
    BY <2>1
  <2> HIDE DEF One
  <2> QED BY <2>1, <2>2, ConcatTwo
<1> HIDE DEF All
<1>2. s \in Seq(Seq(Byte))
  <2>1. s \in [1 .. Len(Instances) -> Seq(Byte)] /\ Len(Instances) \in Nat
    BY <1>1, InstanceCount
  <2> HIDE DEF s
  <2> QED BY <2>1, SeqOfFunction
<1>3. B = h \o n.name \o FlattenSeq(s)
  BY DEF RevisionBytes, All
<1> HIDE DEF s, B
<1>4. h \in Seq(Byte) /\ n.name \in Seq(Byte) /\ FlattenSeq(s) \in Seq(Byte)
  BY <1>2, FlattenType, NamesAre DEF NodeFits, IsText
<1> HIDE DEF h
<1>5. B \in Seq(Byte)
  <2>1. h \o n.name \in Seq(Byte)
    BY <1>4, ConcatTwo
  <2> QED BY <1>3, <1>4, <2>1, ConcatTwo
<1>6. CrcInit \in Half
  BY HalfIs DEF CrcInit
<1>7. Crc16Update(CrcInit, B) \in Half
  BY <1>5, <1>6, ChecksumIs
<1>8. DescriptorRev(n) = Crc16Update(CrcInit, B)
  <2>1. Revisions = [called \in AllNames |-> Crc16Update(CrcInit, RevisionBytes(called))]
    BY TableIs DEF Revisions
  <2> QED BY <2>1 DEF DescriptorRev, B
<1> QED BY <1>7, <1>8

-----------------------------------------------------------------------------
(* A message in its frame *)

Types == {"BindAnnounce", "BindAccept", "BindConfirm", "ChildAttached",
          "DescribeRequest", "DescribeResponse", "Report", "ReadRequest", "ReadResponse",
          "WriteRequest", "WriteResponse", "SetPolicyRequest", "SetPolicyResponse",
          "SetNameRequest", "SetNameResponse", "Ping", "Pong", "Ack", "Nack", "RouteError",
          "SetLinkRequest", "SetLinkResponse", "ClearLinkRequest", "ClearLinkResponse",
          "ListLinksRequest", "ListLinksResponse", "OtaRequest", "OtaResponse"}

LEMMA Tables ==
  /\ DOMAIN BindLayout = {"BindAnnounce", "BindAccept", "BindConfirm", "ChildAttached"}
  /\ DOMAIN TellLayout = {"DescribeRequest", "DescribeResponse", "Report", "ReadRequest",
                          "ReadResponse"}
  /\ DOMAIN ChangeLayout = {"WriteRequest", "WriteResponse", "SetPolicyRequest",
                            "SetPolicyResponse", "SetNameRequest", "SetNameResponse"}
  /\ DOMAIN ControlLayout = {"Ping", "Pong", "Ack", "Nack", "RouteError"}
  /\ DOMAIN LinkLayout = {"SetLinkRequest", "SetLinkResponse", "ClearLinkRequest",
                          "ClearLinkResponse", "ListLinksRequest", "ListLinksResponse"}
  /\ DOMAIN ServiceLayout = {"OtaRequest", "OtaResponse"}
<1>1. DOMAIN BindLayout = {"BindAnnounce", "BindAccept", "BindConfirm", "ChildAttached"}
  BY DEF BindLayout
<1>2. DOMAIN TellLayout = {"DescribeRequest", "DescribeResponse", "Report", "ReadRequest",
                           "ReadResponse"}
  BY DEF TellLayout
<1>3. DOMAIN ChangeLayout = {"WriteRequest", "WriteResponse", "SetPolicyRequest",
                             "SetPolicyResponse", "SetNameRequest", "SetNameResponse"}
  BY DEF ChangeLayout
<1>4. DOMAIN ControlLayout = {"Ping", "Pong", "Ack", "Nack", "RouteError"}
  BY DEF ControlLayout
<1>5. DOMAIN LinkLayout = {"SetLinkRequest", "SetLinkResponse", "ClearLinkRequest",
                           "ClearLinkResponse", "ListLinksRequest", "ListLinksResponse"}
  BY DEF LinkLayout
<1>6. DOMAIN ServiceLayout = {"OtaRequest", "OtaResponse"}
  BY DEF ServiceLayout
<1> QED BY <1>1, <1>2, <1>3, <1>4, <1>5, <1>6

\* Each type is in one table.
LEMMA LayoutOf ==
  ASSUME NEW t \in Layouts, NEW type \in DOMAIN t
  PROVE  type \in DOMAIN Layout /\ Layout[type] = t[type]
<1>1. \A u \in Layouts : type \in DOMAIN u => u = t
  BY Tables DEF Layouts
<1>2. (CHOOSE u \in Layouts : type \in DOMAIN u) = t
  BY <1>1
<1>3. type \in DOMAIN Layout
  BY DEF Layout
<1>4. Layout[type] = (CHOOSE u \in Layouts : type \in DOMAIN u)[type]
  BY <1>3 DEF Layout
<1> QED BY <1>2, <1>3, <1>4

LEMMA AllTypes == DOMAIN Layout = Types /\ DOMAIN MessageCode = Types
<1>1. DOMAIN Layout = UNION {DOMAIN l : l \in Layouts}
  BY DEF Layout
<1>2. UNION {DOMAIN l : l \in Layouts}
        = DOMAIN BindLayout \cup DOMAIN TellLayout \cup DOMAIN ChangeLayout
            \cup DOMAIN ControlLayout \cup DOMAIN LinkLayout \cup DOMAIN ServiceLayout
  BY DEF Layouts
<1>3. DOMAIN Layout = Types
  BY <1>1, <1>2, Tables DEF Types
<1>4. DOMAIN MessageCode = Types
  BY DEF MessageCode, Types
<1> QED BY <1>3, <1>4

LEMMA MessageCodes ==
  /\ \A type \in Types : MessageCode[type] \in Byte /\ MessageCode[type] # 127
  /\ \A s, t \in Types : MessageCode[s] = MessageCode[t] => s = t
<1>1. \A type \in Types : MessageCode[type] \in 0 .. 100
  BY DEF MessageCode, Types
<1>2. \A s, t \in Types : MessageCode[s] = MessageCode[t] => s = t
  BY DEF MessageCode, Types
<1> QED BY <1>1, <1>2 DEF Byte

LEMMA FrameUnderstood ==
  ASSUME NEW code \in Byte, NEW flags \in Byte, NEW p \in Seq(Byte), Len(p) =< MaxPayload
  PROVE  LET f == [code |-> code, flags |-> flags, seq |-> 0, dest |-> <<>>, src |-> <<>>,
                   payload |-> p]
         IN  /\ EncodeFrame(f) \in Seq(Byte)
             /\ DecodeFrame(EncodeFrame(f)).error = "None"
             /\ DecodeFrame(EncodeFrame(f)).code = code
             /\ DecodeFrame(EncodeFrame(f)).payload = p
<1> DEFINE f == [code |-> code, flags |-> flags, seq |-> 0, dest |-> <<>>, src |-> <<>>,
                 payload |-> p]
<1>1. 0 \in Half
  BY HalfIs
<1>2. <<>> \in Seq(1 .. 254) /\ Len(<<>>) =< MaxDepth
  BY MessagesAssumption
<1>3. f.code = code /\ f.flags = flags /\ f.seq = 0 /\ f.dest = <<>> /\ f.src = <<>> /\ f.payload = p
  OBVIOUS
<1> HIDE DEF f
<1>4. IsFrame(f)
  BY <1>1, <1>2, <1>3 DEF IsFrame
<1>5. /\ EncodeFrame(f) \in Seq(Byte)
      /\ DecodeFrame(EncodeFrame(f))
              = [error |-> "None", code |-> f.code, flags |-> f.flags, seq |-> f.seq,
                 dest |-> f.dest, src |-> f.src, payload |-> f.payload]
  BY <1>4, FrameIsRead
<1> QED BY <1>3, <1>5 DEF f

LEMMA SentIsRead ==
  ASSUME NEW m, NEW writer, IsMessage(m, writer), Encode(m, writer).ok, NEW flags \in Byte,
         NEW reader \in {MaxName, PeerName}
  PROVE  Sent(m, flags, writer, reader)
           = [meant |-> m, read |-> [ok |-> TRUE, m |-> MessageRead(m, reader)]]
<1> DEFINE type == m.type
           p == Encode(m, writer).bytes
           f == [code |-> MessageCode[type], flags |-> flags, seq |-> 0, dest |-> <<>>,
                 src |-> <<>>, payload |-> p]
           B == Bytes(m, flags, writer)
           frame == DecodeFrame(B)
<1>1. type \in Types /\ type \in DOMAIN Layout /\ type \in DOMAIN MessageCode
  BY AllTypes DEF IsMessage
<1>2. /\ p \in Seq(Byte) /\ Len(p) =< MaxPayload
      /\ Decode(type, p, reader) = [ok |-> TRUE, m |-> MessageRead(m, reader)]
  BY EncodedIsRead
<1>3. MessageCode[type] \in Byte /\ \A t \in Types : MessageCode[t] = MessageCode[type] => t = type
  BY <1>1, MessageCodes
<1>4. B = EncodeFrame(f)
  BY <1>1 DEF Bytes, CodeOf
<1> HIDE DEF p, B
<1>5. /\ EncodeFrame(f) \in Seq(Byte) /\ DecodeFrame(EncodeFrame(f)).error = "None"
      /\ DecodeFrame(EncodeFrame(f)).code = MessageCode[type]
      /\ DecodeFrame(EncodeFrame(f)).payload = p
  BY <1>2, <1>3, FrameUnderstood
<1> HIDE DEF f
<1>6. B \in Seq(Byte) /\ frame.error = "None" /\ frame.code = MessageCode[type] /\ frame.payload = p
  BY <1>4, <1>5
<1> HIDE DEF frame
<1> DEFINE known == {t \in DOMAIN MessageCode : MessageCode[t] = frame.code}
<1>7. known = {type}
  BY <1>1, <1>3, <1>6, AllTypes
<1>8. (CHOOSE t \in known : TRUE) = type
  BY <1>7
<1> HIDE DEF known
<1>9. Understood(B, reader) = Decode(type, p, reader)
  BY <1>6, <1>7, <1>8 DEF Understood, known, frame
<1>10. ReadBy[reader][B] = Understood(B, reader)
  <2>1. B \in Seq(0 .. 255)
    BY <1>6 DEF Byte
  <2> QED BY <2>1 DEF ReadBy
<1> QED BY <1>2, <1>9, <1>10 DEF Sent, B

\* A message of a later version is read as one.
LEMMA UnknownIsRead ==
  ASSUME NEW flags \in Byte, NEW writer, NEW reader \in {MaxName, PeerName}
  PROVE  Sent([type |-> "Unknown"], flags, writer, reader).read
           = [ok |-> TRUE, m |-> [type |-> "Unknown"]]
<1> DEFINE m == [type |-> "Unknown"]
           f == [code |-> 127, flags |-> flags, seq |-> 0, dest |-> <<>>, src |-> <<>>,
                 payload |-> <<>>]
           B == Bytes(m, flags, writer)
           frame == DecodeFrame(B)
<1>1. "Unknown" \notin DOMAIN Layout /\ "Unknown" \notin DOMAIN MessageCode
  BY AllTypes DEF Types
<1>2. B = EncodeFrame(f)
  BY <1>1 DEF Bytes, CodeOf
<1> DEFINE p == <<>>
           c == 127
<1>3. p \in Seq(Byte) /\ Len(p) =< MaxPayload /\ c \in Byte
  BY MessagesAssumption DEF Byte
<1>4. f = [code |-> c, flags |-> flags, seq |-> 0, dest |-> <<>>, src |-> <<>>, payload |-> p]
  OBVIOUS
<1> HIDE DEF p, f
<1>5. /\ EncodeFrame(f) \in Seq(Byte) /\ DecodeFrame(EncodeFrame(f)).error = "None"
      /\ DecodeFrame(EncodeFrame(f)).code = c
  <2> HIDE DEF c
  <2> QED BY <1>3, <1>4, FrameUnderstood
<1> HIDE DEF B
<1>6. B \in Seq(Byte) /\ frame.error = "None" /\ frame.code = 127
  BY <1>2, <1>5
<1> HIDE DEF frame
<1> DEFINE known == {t \in DOMAIN MessageCode : MessageCode[t] = frame.code}
<1>7. known = {}
  BY <1>6, AllTypes, MessageCodes
<1> HIDE DEF known
<1>8. Understood(B, reader) = [ok |-> TRUE, m |-> m]
  BY <1>6, <1>7 DEF Understood, known, frame
<1>9. ReadBy[reader][B] = Understood(B, reader)
  <2>1. B \in Seq(0 .. 255)
    BY <1>6 DEF Byte
  <2> QED BY <2>1 DEF ReadBy
<1> QED BY <1>8, <1>9 DEF Sent, B

-----------------------------------------------------------------------------
(* How much room an answer takes *)

LEMMA OneTaken ==
  ASSUME NEW kind \in {"u8", "class", "result", "valueType"}, NEW v, NEW limit,
         IsOf(kind, v, limit)
  PROVE  Len(Spelt(kind, v, limit)) = 1
<1>1. \E b \in Byte : Chunks(kind, v, limit) = << <<b>> >>
  <2>1. CASE kind = "u8"
    BY <2>1 DEF IsOf, Chunks
  <2>2. CASE kind = "class"
    BY <2>2, ClassCodes DEF IsOf, Chunks
  <2>3. CASE kind = "result"
    BY <2>3, ResultCodes DEF IsOf, Chunks
  <2>4. CASE kind = "valueType"
    BY <2>4, TypeCodes DEF IsOf, Chunks
  <2> QED BY <2>1, <2>2, <2>3, <2>4
<1>2. PICK b \in Byte : Chunks(kind, v, limit) = << <<b>> >>
  BY <1>1
<1>3. IsFlat(Byte, << <<b>> >>, <<b>>) /\ Len(<<b>>) = 1
  BY OneByte, FlattenOne
<1> QED BY <1>2, <1>3 DEF Spelt, IsFlat

LEMMA TwoTaken ==
  ASSUME NEW v \in Half, NEW limit
  PROVE  Len(Spelt("u16", v, limit)) = 2
<1>1. Chunks("u16", v, limit) = << Little(v, 2) >>
  BY DEF Chunks
<1>2. Little(v, 2) \in Seq(Byte) /\ Len(Little(v, 2)) = 2
  BY LittleTwo
<1>3. IsFlat(Byte, << Little(v, 2) >>, Little(v, 2))
  BY <1>2, FlattenOne
<1> QED BY <1>1, <1>2, <1>3 DEF Spelt, IsFlat

LEMMA NameTaken ==
  ASSUME NEW v, NEW limit, IsText(v, limit)
  PROVE  Len(Spelt("name", v, limit)) = 1 + Len(v)
<1>1. Chunks("name", v, limit) = TextChunks(v, limit)
  BY DEF Chunks
<1> QED BY <1>1, TextSpelt DEF Spelt

LEMMA ValueTaken ==
  ASSUME NEW v, NEW limit, IsValue(v)
  PROVE  LET n == Len(Spelt("value", v, limit)) IN n =< 5 \/ n =< 2 + MaxText
<1>1. Chunks("value", v, limit) = ValueChunks(v)
  BY DEF Chunks
<1>2. ASSUME v = Null PROVE Len(Spelt("value", v, limit)) = 1
  <2>1. ValueChunks(v) = << <<0>> >>
    BY <1>2 DEF ValueChunks, Null
  <2>2. 0 \in Byte
    BY DEF Byte
  <2>3. IsFlat(Byte, << << 0 >> >>, << 0 >>) /\ Len(<< 0 >>) = 1
    BY <2>2, OneByte, FlattenOne
  <2>4. Spelt("value", v, limit) = << 0 >>
    BY <1>1, <2>1, <2>3 DEF Spelt, IsFlat
  <2>5. Len(Spelt("value", v, limit)) = 1
    BY <2>3, <2>4
  <2> QED BY <2>5
<1>3. ASSUME NEW n \in {0, 1}, v = Bool(n)
      PROVE  Len(Spelt("value", v, limit)) = 2
  <2> DEFINE a == << 1 >>
             b == <<n>>
  <2>1. ValueChunks(v) = <<a, b>>
    BY <1>3 DEF ValueChunks, Bool
  <2>2. 1 \in Byte /\ n \in Byte
    BY DEF Byte
  <2>3. a \in Seq(Byte) /\ b \in Seq(Byte) /\ Len(a) = 1 /\ Len(b) = 1
    BY <2>2, OneByte
  <2> HIDE DEF a, b
  <2>4. IsFlat(Byte, <<a, b>>, a \o b) /\ Len(a \o b) = Len(a) + Len(b)
    BY <2>3, FlattenTwo, ConcatTwo
  <2>5. Len(a \o b) = 2
    BY <2>3, <2>4
  <2>6. Spelt("value", v, limit) = a \o b
    BY <1>1, <2>1, <2>4 DEF Spelt, IsFlat
  <2> QED BY <2>5, <2>6
<1>4. ASSUME NEW n \in Word, v \in {Float(n), [type |-> "Int", n |-> n]}
      PROVE  Len(Spelt("value", v, limit)) = 5
  <2> DEFINE b == Little(n, 4)
  <2>1. \E k \in {2, 3} : ValueChunks(v) = << <<k>>, b>>
    BY <1>4 DEF ValueChunks, Float
  <2>2. PICK k \in {2, 3} : ValueChunks(v) = << <<k>>, b>>
    BY <2>1
  <2> DEFINE a == <<k>>
  <2>3. k \in Byte
    BY DEF Byte
  <2>4. a \in Seq(Byte) /\ b \in Seq(Byte) /\ Len(a) = 1 /\ Len(b) = 4
    BY <2>3, OneByte, LittleFour
  <2>5. ValueChunks(v) = <<a, b>>
    BY <2>2
  <2> HIDE DEF a, b
  <2>6. IsFlat(Byte, <<a, b>>, a \o b) /\ Len(a \o b) = Len(a) + Len(b)
    BY <2>4, FlattenTwo, ConcatTwo
  <2>7. Len(a \o b) = 5
    BY <2>4, <2>6
  <2>8. Spelt("value", v, limit) = a \o b
    BY <1>1, <2>5, <2>6 DEF Spelt, IsFlat
  <2> QED BY <2>7, <2>8
<1>5. ASSUME NEW text \in Seq(Byte), IsText(text, MaxText), v = Text(text)
      PROVE  Len(Spelt("value", v, limit)) =< 2 + MaxText
  <2> DEFINE a == << 4 >>
             b == <<Len(text)>>
  <2>1. ValueChunks(v) = <<a, b, text>>
    BY <1>5 DEF ValueChunks, Text
  <2>2. 4 \in Byte
    BY DEF Byte
  <2>3. Len(text) \in Byte /\ Len(text) \in Nat /\ Len(text) =< MaxText
    <3>1. Len(text) \in Byte
      BY <1>5, TextSpelt
    <3>2. Len(text) \in Nat
      BY <1>5
    <3>3. Len(text) =< MaxText
      BY <1>5 DEF IsText
    <3> QED BY <3>1, <3>2, <3>3
  <2>4. a \in Seq(Byte) /\ b \in Seq(Byte) /\ Len(a) = 1 /\ Len(b) = 1
    BY <2>2, <2>3, OneByte
  <2> HIDE DEF a, b
  <2>5. a \o b \in Seq(Byte) /\ Len(a \o b) = 1 + 1
    BY <2>4, ConcatTwo
  <2> DEFINE c == a \o b
             d == c \o text
  <2>6. IsFlat(Byte, <<a, b, text>>, d)
    BY <2>4, FlattenThree
  <2> HIDE DEF c
  <2>7. Len(d) = Len(c) + Len(text)
    BY <2>5, ConcatTwo DEF c
  <2>8. Len(d) = 2 + Len(text)
    BY <2>3, <2>5, <2>7 DEF c
  <2> HIDE DEF d
  <2>9. Len(d) =< 2 + MaxText
    BY <2>3, <2>8, CodecAssumption
  <2> QED BY <1>1, <2>1, <2>6, <2>9 DEF Spelt, IsFlat
<1> DEFINE n == Len(Spelt("value", v, limit))
<1>6. n = 1 \/ n = 2 \/ n = 5 \/ n =< 2 + MaxText
  BY <1>2, <1>3, <1>4, <1>5, ValueIs
<1> HIDE DEF n
<1>7. n =< 5 \/ n =< 2 + MaxText
  BY <1>6
<1> QED BY <1>7 DEF n

LEMMA RefTaken ==
  ASSUME NEW v, NEW limit, IsRef(v)
  PROVE  Len(Spelt("ref", v, limit)) = MaxDepth + 4
<1>1. PICK path \in Seq(1 .. 254), class \in DOMAIN ClassCode, inst \in Byte, port \in Byte :
        /\ Len(path) =< MaxDepth
        /\ v = [path |-> path, class |-> class, inst |-> inst, port |-> port]
  BY RefIs
<1> DEFINE l == Len(path)
           q == Padded(path)
           a == ClassCode[class]
           c == (((<<l>> \o q) \o <<a>>) \o <<inst>>) \o <<port>>
<1>2. q \in Seq(Byte) /\ Len(q) = MaxDepth /\ l \in Byte
  BY <1>1, PaddedIs
<1>3. a \in Byte
  BY ClassCodes
<1>4. Chunks("ref", v, limit) = << <<l>>, q, <<a>>, <<inst>>, <<port>> >>
  BY <1>1 DEF Chunks, RefChunks, Padded
<1> HIDE DEF l, q, a
<1>5. Len(c) = MaxDepth + 4
  <2>1. RefSpelt(c, l, q, a, inst, port)
    BY <1>2, <1>3, RefBytes
  <2> QED BY <2>1 DEF RefSpelt
<1>6. IsFlat(Byte, << <<l>>, q, <<a>>, <<inst>>, <<port>> >>, c)
  <2>1. <<l>> \in Seq(Byte) /\ <<a>> \in Seq(Byte) /\ <<inst>> \in Seq(Byte) /\ <<port>> \in Seq(Byte)
    BY <1>2, <1>3, OneByte
  <2> QED BY <1>2, <2>1, FlattenFive
<1> HIDE DEF c
<1> QED BY <1>4, <1>5, <1>6 DEF Spelt, IsFlat

\* What the first k fields take.
Taken(l, s, limit, k) == Reach(SpeltFields(l, s, limit), k)

LEMMA TakenSteps ==
  ASSUME NEW l, IsLayout(l), NEW s, NEW limit, Holds(l, s, limit)
  PROVE  /\ Taken(l, s, limit, 0) = 0 /\ Len(FieldBytes(l, s, limit)) = Taken(l, s, limit, Len(l))
         /\ \A k \in 1 .. Len(l) :
              /\ Taken(l, s, limit, k)
                   = Taken(l, s, limit, k - 1) + Len(Spelt(l[k][2], s[l[k][1]], limit))
              /\ Len(Spelt(l[k][2], s[l[k][1]], limit)) \in Nat
              /\ Taken(l, s, limit, k) \in Nat
<1> DEFINE e == SpeltFields(l, s, limit)
<1>1. e \in Seq(Seq(Byte)) /\ Len(e) = Len(l) /\ FieldBytes(l, s, limit) = FlattenSeq(e)
  BY FieldsSpelt
<1>2. \A k \in 1 .. Len(l) : e[k] = Spelt(l[k][2], s[l[k][1]], limit)
  BY DEF SpeltFields
<1> HIDE DEF e
<1>3. /\ Reach(e, 0) = 0 /\ Reach(e, Len(e)) = Len(FlattenSeq(e)) /\ Len(e) \in Nat
      /\ \A k \in 0 .. Len(e) : Reach(e, k) \in Nat
      /\ \A k \in 1 .. Len(e) : Reach(e, k) = Reach(e, k - 1) + Len(e[k]) /\ Len(e[k]) \in Nat
  BY <1>1, ReachSteps
<1>4. \A k \in 1 .. Len(l) : k \in 0 .. Len(e) /\ k \in 1 .. Len(e)
  BY <1>1, <1>3
<1>5. ASSUME NEW k \in 1 .. Len(l)
      PROVE  /\ Reach(e, k) = Reach(e, k - 1) + Len(Spelt(l[k][2], s[l[k][1]], limit))
             /\ Len(Spelt(l[k][2], s[l[k][1]], limit)) \in Nat
             /\ Reach(e, k) \in Nat
  BY <1>2, <1>3, <1>4
<1> QED BY <1>1, <1>3, <1>5 DEF Taken, e

LEMMA FitsWhole ==
  ASSUME NEW m, IsMessage(m, MaxName), Len(MessageBytes(m, MaxName)) =< MaxPayload
  PROVE  IsKept(m)
<1> DEFINE s == FieldChunks(Layout[m.type], m, MaxName) \o ItemChunks(m, MaxName) \o TrailerChunks(m)
           B == MessageBytes(m, MaxName)
<1>1. s \in Seq(Seq(Byte)) /\ FlattenSeq(s) = B
  BY MessageSpelt
<1>2. Encode(m, MaxName) = Written(s, MaxPayload)
  BY DEF Encode
<1>3. MaxPayload \in Nat
  BY MessagesAssumption
<1> HIDE DEF s, B
<1>4. Written(s, MaxPayload).ok
  BY <1>1, <1>3, WrittenWhole DEF B
<1> QED BY <1>2, <1>4 DEF IsKept

\* A message of fields only, that fit.
LEMMA PlainKept ==
  ASSUME NEW m, m.type \in DOMAIN Layout, m.type \notin DOMAIN Item,
         NEW l, l = Layout[m.type], m = [x \in {"type"} \cup NamesIn(l, Len(l)) |-> m[x]],
         Holds(l, m, MaxName), Taken(l, m, MaxName, Len(l)) =< MaxPayload
  PROVE  IsKept(m)
<1>1. m.type \notin Counted /\ m.type # "DescribeResponse"
  BY DEF Counted, Item
<1>2. Besides(m.type) = {"type"}
  BY <1>1 DEF Besides
<1>3. IsMessage(m, MaxName)
  BY <1>1, <1>2 DEF IsMessage
<1> DEFINE a == FieldBytes(l, m, MaxName)
           b == FlattenSeq(ItemChunks(m, MaxName))
           c == TrailerBytes(m)
<1>4. a \in Seq(Byte) /\ b = <<>>
  BY <1>3, MessageSpelt
<1>5. c = <<>>
  <2>1. TrailerChunks(m) = <<>>
    BY <1>1 DEF TrailerChunks
  <2> QED BY <2>1, FlattenEmpty DEF TrailerBytes
<1>6. MessageBytes(m, MaxName) = a \o b \o c
  BY DEF MessageBytes
<1> HIDE DEF a, b, c
<1>7. MessageBytes(m, MaxName) = a
  BY <1>4, <1>5, <1>6
<1>8. Len(a) =< MaxPayload
  <2>1. IsLayout(l)
    BY LayoutIs
  <2> QED BY <2>1, TakenSteps DEF a
<1> QED BY <1>3, <1>7, <1>8, FitsWhole

OneByteKinds == {"u8", "class", "result", "valueType"}

\* The first fields, when each is a byte.
LEMMA FirstTaken ==
  ASSUME NEW l, IsLayout(l), NEW s, NEW limit, Holds(l, s, limit), NEW n \in 0 .. Len(l),
         \A k \in 1 .. n : l[k][2] \in OneByteKinds
  PROVE  Taken(l, s, limit, n) = n
<1> DEFINE T(k) == Taken(l, s, limit, k)
           bad == {k \in 0 .. n : T(k) # k}
<1>1. Len(l) \in Nat /\ n \in Nat /\ DOMAIN l = 1 .. Len(l)
  BY DEF IsLayout
<1>2. T(0) = 0
  BY TakenSteps
<1>3. ASSUME NEW k \in 1 .. n PROVE T(k) = T(k - 1) + 1
  <2>1. k \in 1 .. Len(l) /\ k \in DOMAIN l
    BY <1>1
  <2>2. T(k) = T(k - 1) + Len(Spelt(l[k][2], s[l[k][1]], limit))
    BY <2>1, TakenSteps
  <2>3. Len(Spelt(l[k][2], s[l[k][1]], limit)) = 1
    <3>1. l[k][2] \in OneByteKinds /\ IsOf(l[k][2], s[l[k][1]], limit)
      BY <2>1 DEF Holds
    <3> QED BY <3>1, OneTaken DEF OneByteKinds
  <2> QED BY <2>2, <2>3
<1> HIDE DEF T
<1>4. ASSUME bad # {} PROVE FALSE
  <2>0. bad \subseteq Nat
    BY <1>1
  <2>1. PICK m \in bad : \A j \in bad : m =< j
    BY <1>4, <2>0, LeastExists
  <2>2. m \in 0 .. n /\ T(m) # m /\ m # 0
    BY <1>2
  <2>3. m \in 1 .. n /\ m - 1 \in 0 .. n /\ m - 1 < m
    BY <1>1, <2>2
  <2>4. m - 1 \notin bad
    <3> HIDE DEF bad
    <3> QED BY <2>0, <2>1, <2>3
  <2>5. T(m - 1) = m - 1
    BY <2>3, <2>4
  <2> QED BY <1>3, <2>2, <2>3, <2>5
<1> QED BY <1>1, <1>4 DEF T

\* One more field.
LEMMA NextTaken ==
  ASSUME NEW l, IsLayout(l), NEW s, NEW limit, Holds(l, s, limit), NEW k \in 1 .. Len(l)
  PROVE  /\ Taken(l, s, limit, k)
              = Taken(l, s, limit, k - 1) + Len(Spelt(l[k][2], s[l[k][1]], limit))
         /\ IsOf(l[k][2], s[l[k][1]], limit) /\ Len(Spelt(l[k][2], s[l[k][1]], limit)) \in Nat
<1>1. k \in DOMAIN l
  BY DEF IsLayout
<1>2. IsOf(l[k][2], s[l[k][1]], limit)
  BY <1>1 DEF Holds
<1>3. \A j \in 1 .. Len(l) :
        /\ Taken(l, s, limit, j)
             = Taken(l, s, limit, j - 1) + Len(Spelt(l[j][2], s[l[j][1]], limit))
        /\ Len(Spelt(l[j][2], s[l[j][1]], limit)) \in Nat
  BY TakenSteps
<1> QED BY <1>2, <1>3

LEMMA AnswerLayouts ==
  /\ LET l == Layout["WriteResponse"] IN
     /\ Len(l) = 5 /\ l[1] = <<"result", "result">> /\ l[2] = <<"class", "class">>
     /\ l[3] = <<"inst", "u8">> /\ l[4] = <<"port", "u8">> /\ l[5] = <<"value", "value">>
  /\ LET l == Layout["SetPolicyResponse"] IN
     /\ Len(l) = 6 /\ l[1] = <<"result", "result">> /\ l[2] = <<"class", "class">>
     /\ l[3] = <<"inst", "u8">> /\ l[4] = <<"port", "u8">> /\ l[5] = <<"interval", "u16">>
     /\ l[6] = <<"deadband", "value">>
  /\ LET l == Layout["SetNameResponse"] IN
     Len(l) = 2 /\ l[1] = <<"result", "result">> /\ l[2] = <<"rev", "u16">>
  /\ LET l == Layout["SetLinkResponse"] IN
     Len(l) = 2 /\ l[1] = <<"result", "result">> /\ l[2] = <<"id", "u8">>
  /\ LET l == Layout["ClearLinkResponse"] IN Len(l) = 1 /\ l[1] = <<"result", "result">>
  /\ LET l == Layout["OtaResponse"] IN
     Len(l) = 2 /\ l[1] = <<"result", "result">> /\ l[2] = <<"name", "name">>
  /\ LET l == Layout["Pong"] IN Len(l) = 1 /\ l[1] = <<"rev", "u16">>
  /\ LET l == Layout["Nack"] IN
     Len(l) = 2 /\ l[1] = <<"seq", "u16">> /\ l[2] = <<"reason", "result">>
<1>1. {"Pong", "Nack"} \subseteq DOMAIN ControlLayout
  BY Tables
<1>2. {"WriteResponse", "SetPolicyResponse", "SetNameResponse"} \subseteq DOMAIN ChangeLayout
  BY Tables
<1>3. {"SetLinkResponse", "ClearLinkResponse"} \subseteq DOMAIN LinkLayout
  BY Tables
<1>4. {"OtaResponse"} \subseteq DOMAIN ServiceLayout
  BY Tables
<1>5. /\ ControlLayout \in Layouts /\ ChangeLayout \in Layouts /\ LinkLayout \in Layouts
      /\ ServiceLayout \in Layouts
  BY DEF Layouts
<1>6. /\ Layout["Pong"] = ControlLayout["Pong"] /\ Layout["Nack"] = ControlLayout["Nack"]
      /\ Layout["WriteResponse"] = ChangeLayout["WriteResponse"]
      /\ Layout["SetPolicyResponse"] = ChangeLayout["SetPolicyResponse"]
      /\ Layout["SetNameResponse"] = ChangeLayout["SetNameResponse"]
      /\ Layout["SetLinkResponse"] = LinkLayout["SetLinkResponse"]
      /\ Layout["ClearLinkResponse"] = LinkLayout["ClearLinkResponse"]
      /\ Layout["OtaResponse"] = ServiceLayout["OtaResponse"]
  BY <1>1, <1>2, <1>3, <1>4, <1>5, LayoutOf
<1>7. /\ ControlLayout["Pong"] = Revision
      /\ ControlLayout["Nack"] = << <<"seq", "u16">>, <<"reason", "result">> >>
      /\ ChangeLayout["WriteResponse"] = Result \o Entry
      /\ ChangeLayout["SetPolicyResponse"] = Result \o Policy
      /\ ChangeLayout["SetNameResponse"] = Result \o Revision
      /\ LinkLayout["SetLinkResponse"] = Result \o << <<"id", "u8">> >>
      /\ LinkLayout["ClearLinkResponse"] = Result
      /\ ServiceLayout["OtaResponse"] = Result \o << <<"name", "name">> >>
  BY DEF ControlLayout, ChangeLayout, LinkLayout, ServiceLayout
<1> DEFINE a == Result \o Entry
           b == Result \o Policy
           c == Result \o Revision
           d == Result \o << <<"id", "u8">> >>
           e == Result \o << <<"name", "name">> >>
<1>8. /\ Len(a) = 5 /\ a[1] = <<"result", "result">> /\ a[2] = <<"class", "class">>
      /\ a[3] = <<"inst", "u8">> /\ a[4] = <<"port", "u8">> /\ a[5] = <<"value", "value">>
  BY DEF Result, Entry, PortFields
<1>9. /\ Len(b) = 6 /\ b[1] = <<"result", "result">> /\ b[2] = <<"class", "class">>
      /\ b[3] = <<"inst", "u8">> /\ b[4] = <<"port", "u8">> /\ b[5] = <<"interval", "u16">>
      /\ b[6] = <<"deadband", "value">>
  BY DEF Result, Policy, PortFields
<1>10. Len(c) = 2 /\ c[1] = <<"result", "result">> /\ c[2] = <<"rev", "u16">>
  BY DEF Result, Revision
<1>11. Len(d) = 2 /\ d[1] = <<"result", "result">> /\ d[2] = <<"id", "u8">>
  BY DEF Result
<1>12. Len(e) = 2 /\ e[1] = <<"result", "result">> /\ e[2] = <<"name", "name">>
  BY DEF Result
<1>13. /\ Len(Result) = 1 /\ Result[1] = <<"result", "result">>
       /\ Len(Revision) = 1 /\ Revision[1] = <<"rev", "u16">>
  BY DEF Result, Revision
<1>14. LET l == << <<"seq", "u16">>, <<"reason", "result">> >>
       IN  Len(l) = 2 /\ l[1] = <<"seq", "u16">> /\ l[2] = <<"reason", "result">>
  OBVIOUS
<1> HIDE DEF a, b, c, d, e
<1>15. LET l == Layout["Nack"] IN
       Len(l) = 2 /\ l[1] = <<"seq", "u16">> /\ l[2] = <<"reason", "result">>
  BY <1>6, <1>7, <1>14
<1>16. /\ Layout["WriteResponse"] = a /\ Layout["SetPolicyResponse"] = b
       /\ Layout["SetNameResponse"] = c /\ Layout["SetLinkResponse"] = d
       /\ Layout["ClearLinkResponse"] = Result /\ Layout["OtaResponse"] = e
       /\ Layout["Pong"] = Revision
  BY <1>6, <1>7 DEF a, b, c, d, e
<1> QED BY <1>8, <1>9, <1>10, <1>11, <1>12, <1>13, <1>15, <1>16

\* What answers a write: four bytes and a value.
LEMMA WriteAnswer ==
  ASSUME NodeFits, NEW r \in DOMAIN ResultCode, NEW c \in DOMAIN ClassCode, NEW i \in Byte,
         NEW p \in Byte, NEW v, IsValue(v)
  PROVE  IsKept([type |-> "WriteResponse", result |-> r, class |-> c, inst |-> i, port |-> p,
                 value |-> v])
<1> DEFINE m == [type |-> "WriteResponse", result |-> r, class |-> c, inst |-> i, port |-> p,
                 value |-> v]
           l == Layout["WriteResponse"]
           N == {"result", "class", "inst", "port", "value"}
<1>1. m.type = "WriteResponse" /\ m.type \in DOMAIN Layout /\ m.type \notin DOMAIN Item
  BY AllTypes DEF Item, Types
<1>2. /\ IsLayout(l) /\ Len(l) = 5 /\ l[1] = <<"result", "result">> /\ l[2] = <<"class", "class">>
      /\ l[3] = <<"inst", "u8">> /\ l[4] = <<"port", "u8">> /\ l[5] = <<"value", "value">>
  BY <1>1, LayoutIs, AnswerLayouts
<1> HIDE DEF l
<1>3. DOMAIN l = 1 .. 5
  BY <1>2 DEF IsLayout
<1>4. NamesIn(l, Len(l)) = N
  BY <1>2 DEF NamesIn
<1>5. m = [x \in {"type"} \cup N |-> m[x]]
  OBVIOUS
<1>6. Holds(l, m, MaxName)
  <2>1. /\ IsOf("result", m.result, MaxName) /\ IsOf("class", m.class, MaxName)
        /\ IsOf("u8", m.inst, MaxName) /\ IsOf("u8", m.port, MaxName)
        /\ IsOf("value", m.value, MaxName)
    BY DEF IsOf
  <2> HIDE DEF m
  <2>2. ASSUME NEW k \in 1 .. 5 PROVE IsOf(l[k][2], m[l[k][1]], MaxName)
    <3>1. k = 1 \/ k = 2 \/ k = 3 \/ k = 4 \/ k = 5
      OBVIOUS
    <3> QED BY <3>1, <1>2, <2>1
  <2> QED BY <1>3, <2>2 DEF Holds
<1>7. m.value = v
  OBVIOUS
<1>8. m = [x \in {"type"} \cup NamesIn(l, Len(l)) |-> m[x]]
  BY <1>4, <1>5
<1> HIDE DEF m, N
<1>9. Taken(l, m, MaxName, 4) = 4
  <2>1. \A k \in 1 .. 4 : l[k][2] \in OneByteKinds
    <3>1. \A k \in 1 .. 4 : k = 1 \/ k = 2 \/ k = 3 \/ k = 4
      OBVIOUS
    <3> QED BY <3>1, <1>2 DEF OneByteKinds
  <2>2. 4 \in 0 .. Len(l)
    BY <1>2
  <2> QED BY <1>2, <1>6, <2>1, <2>2, FirstTaken
<1> DEFINE w == Len(Spelt("value", v, MaxName))
<1>10. Taken(l, m, MaxName, 5) = Taken(l, m, MaxName, 5 - 1) + w /\ w \in Nat
  <2>1. 5 \in 1 .. Len(l)
    BY <1>2
  <2>2. /\ Taken(l, m, MaxName, 5)
             = Taken(l, m, MaxName, 5 - 1) + Len(Spelt(l[5][2], m[l[5][1]], MaxName))
        /\ Len(Spelt(l[5][2], m[l[5][1]], MaxName)) \in Nat
    BY <1>2, <1>6, <2>1, NextTaken
  <2>3. l[5][2] = "value" /\ m[l[5][1]] = v
    BY <1>2, <1>7
  <2> QED BY <2>2, <2>3
<1>11. w =< 5 \/ w =< 2 + MaxText
  BY ValueTaken
<1> HIDE DEF w
<1>12. Taken(l, m, MaxName, Len(l)) =< MaxPayload
  <2>1. 5 - 1 = 4
    OBVIOUS
  <2>2. Taken(l, m, MaxName, 5) = 4 + w
    BY <1>9, <1>10, <2>1
  <2>3. 4 + w =< MaxPayload
    BY <1>10, <1>11, CodecAssumption, MessagesAssumption DEF NodeFits
  <2> QED BY <1>2, <2>2, <2>3
<1>13. IsKept(m)
  BY <1>1, <1>2, <1>6, <1>8, <1>12, PlainKept DEF l
<1> QED BY <1>13 DEF m

\* What answers a policy: four bytes, an interval and a value.
LEMMA PolicyAnswer ==
  ASSUME NodeFits, NEW r \in DOMAIN ResultCode, NEW c \in DOMAIN ClassCode, NEW i \in Byte,
         NEW p \in Byte, NEW n \in Half, NEW v, IsValue(v)
  PROVE  IsKept([type |-> "SetPolicyResponse", result |-> r, class |-> c, inst |-> i, port |-> p,
                 interval |-> n, deadband |-> v])
<1> DEFINE m == [type |-> "SetPolicyResponse", result |-> r, class |-> c, inst |-> i, port |-> p,
                 interval |-> n, deadband |-> v]
           l == Layout["SetPolicyResponse"]
           N == {"result", "class", "inst", "port", "interval", "deadband"}
<1>1. m.type = "SetPolicyResponse" /\ m.type \in DOMAIN Layout /\ m.type \notin DOMAIN Item
  BY AllTypes DEF Item, Types
<1>2. IsLayout(l) /\ Len(l) = 6 /\ l[1] = <<"result", "result">> /\
      l[2] = <<"class", "class">> /\ l[3] = <<"inst", "u8">> /\ l[4] = <<"port", "u8">> /\
      l[5] = <<"interval", "u16">> /\ l[6] = <<"deadband", "value">>
  BY <1>1, LayoutIs, AnswerLayouts
<1> HIDE DEF l
<1>3. DOMAIN l = 1 .. 6
  BY <1>2 DEF IsLayout
<1>4. NamesIn(l, Len(l)) = N
  BY <1>2 DEF NamesIn
<1>5. m = [x \in {"type"} \cup N |-> m[x]]
  OBVIOUS
<1>6. Holds(l, m, MaxName)
  <2>1. /\ IsOf("result", m.result, MaxName)
        /\ IsOf("class", m.class, MaxName)
        /\ IsOf("u8", m.inst, MaxName)
        /\ IsOf("u8", m.port, MaxName)
        /\ IsOf("u16", m.interval, MaxName)
        /\ IsOf("value", m.deadband, MaxName)
    BY DEF IsOf
  <2> HIDE DEF m
  <2>2. ASSUME NEW k \in 1 .. 6 PROVE IsOf(l[k][2], m[l[k][1]], MaxName)
    <3>1. k = 1 \/ k = 2 \/ k = 3 \/ k = 4 \/ k = 5 \/ k = 6
      OBVIOUS
    <3> QED BY <3>1, <1>2, <2>1
  <2> QED BY <1>3, <2>2 DEF Holds
<1>7. m.result = r /\ m.class = c /\ m.inst = i /\ m.port = p /\ m.interval = n /\ m.deadband = v
  OBVIOUS
<1>8. m = [x \in {"type"} \cup NamesIn(l, Len(l)) |-> m[x]]
  BY <1>4, <1>5
<1> HIDE DEF m, N
<1>9. Taken(l, m, MaxName, 4) = 4
  <2>1. \A k \in 1 .. 4 : l[k][2] \in OneByteKinds
    <3>1. \A k \in 1 .. 4 : k = 1 \/ k = 2 \/ k = 3 \/ k = 4
      OBVIOUS
    <3> QED BY <3>1, <1>2 DEF OneByteKinds
  <2>2. 4 \in 0 .. Len(l)
    BY <1>2
  <2> QED BY <1>2, <1>6, <2>1, <2>2, FirstTaken
<1> DEFINE w5 == Len(Spelt("u16", n, MaxName))
<1>10. Taken(l, m, MaxName, 5) = Taken(l, m, MaxName, 5 - 1) + w5 /\ w5 \in Nat
  <2>1. 5 \in 1 .. Len(l)
    BY <1>2
  <2>2. /\ Taken(l, m, MaxName, 5)
             = Taken(l, m, MaxName, 5 - 1) + Len(Spelt(l[5][2], m[l[5][1]], MaxName))
        /\ Len(Spelt(l[5][2], m[l[5][1]], MaxName)) \in Nat
    BY <1>2, <1>6, <2>1, NextTaken
  <2>3. l[5][2] = "u16" /\ m[l[5][1]] = n
    BY <1>2, <1>7
  <2> QED BY <2>2, <2>3
<1>11. w5 = 2
  BY TwoTaken
<1> DEFINE w6 == Len(Spelt("value", v, MaxName))
<1>12. Taken(l, m, MaxName, 6) = Taken(l, m, MaxName, 6 - 1) + w6 /\ w6 \in Nat
  <2>1. 6 \in 1 .. Len(l)
    BY <1>2
  <2>2. /\ Taken(l, m, MaxName, 6)
             = Taken(l, m, MaxName, 6 - 1) + Len(Spelt(l[6][2], m[l[6][1]], MaxName))
        /\ Len(Spelt(l[6][2], m[l[6][1]], MaxName)) \in Nat
    BY <1>2, <1>6, <2>1, NextTaken
  <2>3. l[6][2] = "value" /\ m[l[6][1]] = v
    BY <1>2, <1>7
  <2> QED BY <2>2, <2>3
<1>13. w6 =< 5 \/ w6 =< 2 + MaxText
  BY ValueTaken
<1> HIDE DEF w5, w6
<1>14. Taken(l, m, MaxName, Len(l)) =< MaxPayload
  <2>1. 5 - 1 = 4 /\ 6 - 1 = 5
    OBVIOUS
  <2>2. Taken(l, m, MaxName, 6) = 4 + w5 + w6
    BY <1>9, <1>10, <1>11, <1>12, <1>13, <2>1
  <2>3. 4 + w5 + w6 =< MaxPayload
    BY <1>10, <1>11, <1>12, <1>13, CodecAssumption, MessagesAssumption, ConversationAssumption
       DEF NodeFits
  <2> QED BY <1>2, <2>2, <2>3
<1>15. IsKept(m)
  BY <1>1, <1>2, <1>6, <1>8, <1>14, PlainKept DEF l
<1> QED BY <1>15 DEF m

\* What answers a rename.
LEMMA NameAnswer ==
  ASSUME NodeFits, NEW r \in DOMAIN ResultCode, NEW n \in Half
  PROVE  IsKept([type |-> "SetNameResponse", result |-> r, rev |-> n])
<1> DEFINE m == [type |-> "SetNameResponse", result |-> r, rev |-> n]
           l == Layout["SetNameResponse"]
           N == {"result", "rev"}
<1>1. m.type = "SetNameResponse" /\ m.type \in DOMAIN Layout /\ m.type \notin DOMAIN Item
  BY AllTypes DEF Item, Types
<1>2. IsLayout(l) /\ Len(l) = 2 /\ l[1] = <<"result", "result">> /\ l[2] = <<"rev", "u16">>
  BY <1>1, LayoutIs, AnswerLayouts
<1> HIDE DEF l
<1>3. DOMAIN l = 1 .. 2
  BY <1>2 DEF IsLayout
<1>4. NamesIn(l, Len(l)) = N
  BY <1>2 DEF NamesIn
<1>5. m = [x \in {"type"} \cup N |-> m[x]]
  OBVIOUS
<1>6. Holds(l, m, MaxName)
  <2>1. IsOf("result", m.result, MaxName) /\ IsOf("u16", m.rev, MaxName)
    BY DEF IsOf
  <2> HIDE DEF m
  <2>2. ASSUME NEW k \in 1 .. 2 PROVE IsOf(l[k][2], m[l[k][1]], MaxName)
    <3>1. k = 1 \/ k = 2
      OBVIOUS
    <3> QED BY <3>1, <1>2, <2>1
  <2> QED BY <1>3, <2>2 DEF Holds
<1>7. m.result = r /\ m.rev = n
  OBVIOUS
<1>8. m = [x \in {"type"} \cup NamesIn(l, Len(l)) |-> m[x]]
  BY <1>4, <1>5
<1> HIDE DEF m, N
<1>9. Taken(l, m, MaxName, 1) = 1
  <2>1. \A k \in 1 .. 1 : l[k][2] \in OneByteKinds
    <3>1. \A k \in 1 .. 1 : k = 1
      OBVIOUS
    <3> QED BY <3>1, <1>2 DEF OneByteKinds
  <2>2. 1 \in 0 .. Len(l)
    BY <1>2
  <2> QED BY <1>2, <1>6, <2>1, <2>2, FirstTaken
<1> DEFINE w2 == Len(Spelt("u16", n, MaxName))
<1>10. Taken(l, m, MaxName, 2) = Taken(l, m, MaxName, 2 - 1) + w2 /\ w2 \in Nat
  <2>1. 2 \in 1 .. Len(l)
    BY <1>2
  <2>2. /\ Taken(l, m, MaxName, 2)
             = Taken(l, m, MaxName, 2 - 1) + Len(Spelt(l[2][2], m[l[2][1]], MaxName))
        /\ Len(Spelt(l[2][2], m[l[2][1]], MaxName)) \in Nat
    BY <1>2, <1>6, <2>1, NextTaken
  <2>3. l[2][2] = "u16" /\ m[l[2][1]] = n
    BY <1>2, <1>7
  <2> QED BY <2>2, <2>3
<1>11. w2 = 2
  BY TwoTaken
<1> HIDE DEF w2
<1>12. Taken(l, m, MaxName, Len(l)) =< MaxPayload
  <2>1. 2 - 1 = 1
    OBVIOUS
  <2>2. Taken(l, m, MaxName, 2) = 1 + w2
    BY <1>9, <1>10, <1>11, <2>1
  <2>3. 1 + w2 =< MaxPayload
    BY <1>10, <1>11, CodecAssumption, MessagesAssumption, ConversationAssumption DEF NodeFits
  <2> QED BY <1>2, <2>2, <2>3
<1>13. IsKept(m)
  BY <1>1, <1>2, <1>6, <1>8, <1>12, PlainKept DEF l
<1> QED BY <1>13 DEF m

\* What answers a link, and the clearing of one.
LEMMA LinkAnswer ==
  ASSUME NodeFits, NEW r \in DOMAIN ResultCode, NEW i \in Byte
  PROVE  IsKept([type |-> "SetLinkResponse", result |-> r, id |-> i])
<1> DEFINE m == [type |-> "SetLinkResponse", result |-> r, id |-> i]
           l == Layout["SetLinkResponse"]
           N == {"result", "id"}
<1>1. m.type = "SetLinkResponse" /\ m.type \in DOMAIN Layout /\ m.type \notin DOMAIN Item
  BY AllTypes DEF Item, Types
<1>2. IsLayout(l) /\ Len(l) = 2 /\ l[1] = <<"result", "result">> /\ l[2] = <<"id", "u8">>
  BY <1>1, LayoutIs, AnswerLayouts
<1> HIDE DEF l
<1>3. DOMAIN l = 1 .. 2
  BY <1>2 DEF IsLayout
<1>4. NamesIn(l, Len(l)) = N
  BY <1>2 DEF NamesIn
<1>5. m = [x \in {"type"} \cup N |-> m[x]]
  OBVIOUS
<1>6. Holds(l, m, MaxName)
  <2>1. IsOf("result", m.result, MaxName) /\ IsOf("u8", m.id, MaxName)
    BY DEF IsOf
  <2> HIDE DEF m
  <2>2. ASSUME NEW k \in 1 .. 2 PROVE IsOf(l[k][2], m[l[k][1]], MaxName)
    <3>1. k = 1 \/ k = 2
      OBVIOUS
    <3> QED BY <3>1, <1>2, <2>1
  <2> QED BY <1>3, <2>2 DEF Holds
<1>7. m.result = r /\ m.id = i
  OBVIOUS
<1>8. m = [x \in {"type"} \cup NamesIn(l, Len(l)) |-> m[x]]
  BY <1>4, <1>5
<1> HIDE DEF m, N
<1>9. Taken(l, m, MaxName, 2) = 2
  <2>1. \A k \in 1 .. 2 : l[k][2] \in OneByteKinds
    <3>1. \A k \in 1 .. 2 : k = 1 \/ k = 2
      OBVIOUS
    <3> QED BY <3>1, <1>2 DEF OneByteKinds
  <2>2. 2 \in 0 .. Len(l)
    BY <1>2
  <2> QED BY <1>2, <1>6, <2>1, <2>2, FirstTaken
<1>10. Taken(l, m, MaxName, Len(l)) =< MaxPayload
  <2>2. Taken(l, m, MaxName, 2) = 2
    BY <1>9
  <2>3. 2 =< MaxPayload
    BY CodecAssumption, MessagesAssumption, ConversationAssumption DEF NodeFits
  <2> QED BY <1>2, <2>2, <2>3
<1>11. IsKept(m)
  BY <1>1, <1>2, <1>6, <1>8, <1>10, PlainKept DEF l
<1> QED BY <1>11 DEF m

LEMMA ClearAnswer ==
  ASSUME NodeFits, NEW r \in DOMAIN ResultCode
  PROVE  IsKept([type |-> "ClearLinkResponse", result |-> r])
<1> DEFINE m == [type |-> "ClearLinkResponse", result |-> r]
           l == Layout["ClearLinkResponse"]
           N == {"result"}
<1>1. m.type = "ClearLinkResponse" /\ m.type \in DOMAIN Layout /\ m.type \notin DOMAIN Item
  BY AllTypes DEF Item, Types
<1>2. IsLayout(l) /\ Len(l) = 1 /\ l[1] = <<"result", "result">>
  BY <1>1, LayoutIs, AnswerLayouts
<1> HIDE DEF l
<1>3. DOMAIN l = 1 .. 1
  BY <1>2 DEF IsLayout
<1>4. NamesIn(l, Len(l)) = N
  BY <1>2 DEF NamesIn
<1>5. m = [x \in {"type"} \cup N |-> m[x]]
  OBVIOUS
<1>6. Holds(l, m, MaxName)
  <2>1. IsOf("result", m.result, MaxName)
    BY DEF IsOf
  <2> HIDE DEF m
  <2>2. ASSUME NEW k \in 1 .. 1 PROVE IsOf(l[k][2], m[l[k][1]], MaxName)
    <3>1. k = 1
      OBVIOUS
    <3> QED BY <3>1, <1>2, <2>1
  <2> QED BY <1>3, <2>2 DEF Holds
<1>7. m.result = r
  OBVIOUS
<1>8. m = [x \in {"type"} \cup NamesIn(l, Len(l)) |-> m[x]]
  BY <1>4, <1>5
<1> HIDE DEF m, N
<1>9. Taken(l, m, MaxName, 1) = 1
  <2>1. \A k \in 1 .. 1 : l[k][2] \in OneByteKinds
    <3>1. \A k \in 1 .. 1 : k = 1
      OBVIOUS
    <3> QED BY <3>1, <1>2 DEF OneByteKinds
  <2>2. 1 \in 0 .. Len(l)
    BY <1>2
  <2> QED BY <1>2, <1>6, <2>1, <2>2, FirstTaken
<1>10. Taken(l, m, MaxName, Len(l)) =< MaxPayload
  <2>2. Taken(l, m, MaxName, 1) = 1
    BY <1>9
  <2>3. 1 =< MaxPayload
    BY CodecAssumption, MessagesAssumption, ConversationAssumption DEF NodeFits
  <2> QED BY <1>2, <2>2, <2>3
<1>11. IsKept(m)
  BY <1>1, <1>2, <1>6, <1>8, <1>10, PlainKept DEF l
<1> QED BY <1>11 DEF m

\* What answers an update: a byte and the name of the firmware.
LEMMA OtaAnswer ==
  ASSUME NodeFits, NEW r \in DOMAIN ResultCode
  PROVE  IsKept([type |-> "OtaResponse", result |-> r, name |-> Firmware])
<1> DEFINE m == [type |-> "OtaResponse", result |-> r, name |-> Firmware]
           l == Layout["OtaResponse"]
           N == {"result", "name"}
<1>1. m.type = "OtaResponse" /\ m.type \in DOMAIN Layout /\ m.type \notin DOMAIN Item
  BY AllTypes DEF Item, Types
<1>2. IsLayout(l) /\ Len(l) = 2 /\ l[1] = <<"result", "result">> /\ l[2] = <<"name", "name">>
  BY <1>1, LayoutIs, AnswerLayouts
<1> HIDE DEF l
<1>3. DOMAIN l = 1 .. 2
  BY <1>2 DEF IsLayout
<1>4. NamesIn(l, Len(l)) = N
  BY <1>2 DEF NamesIn
<1>5. m = [x \in {"type"} \cup N |-> m[x]]
  OBVIOUS
<1>6. Holds(l, m, MaxName)
  <2>1. IsOf("result", m.result, MaxName) /\ IsOf("name", m.name, MaxName)
    BY DEF IsOf, NodeFits
  <2> HIDE DEF m
  <2>2. ASSUME NEW k \in 1 .. 2 PROVE IsOf(l[k][2], m[l[k][1]], MaxName)
    <3>1. k = 1 \/ k = 2
      OBVIOUS
    <3> QED BY <3>1, <1>2, <2>1
  <2> QED BY <1>3, <2>2 DEF Holds
<1>7. m.result = r /\ m.name = Firmware
  OBVIOUS
<1>8. m = [x \in {"type"} \cup NamesIn(l, Len(l)) |-> m[x]]
  BY <1>4, <1>5
<1> HIDE DEF m, N
<1>9. Taken(l, m, MaxName, 1) = 1
  <2>1. \A k \in 1 .. 1 : l[k][2] \in OneByteKinds
    <3>1. \A k \in 1 .. 1 : k = 1
      OBVIOUS
    <3> QED BY <3>1, <1>2 DEF OneByteKinds
  <2>2. 1 \in 0 .. Len(l)
    BY <1>2
  <2> QED BY <1>2, <1>6, <2>1, <2>2, FirstTaken
<1> DEFINE w2 == Len(Spelt("name", Firmware, MaxName))
<1>10. Taken(l, m, MaxName, 2) = Taken(l, m, MaxName, 2 - 1) + w2 /\ w2 \in Nat
  <2>1. 2 \in 1 .. Len(l)
    BY <1>2
  <2>2. /\ Taken(l, m, MaxName, 2)
             = Taken(l, m, MaxName, 2 - 1) + Len(Spelt(l[2][2], m[l[2][1]], MaxName))
        /\ Len(Spelt(l[2][2], m[l[2][1]], MaxName)) \in Nat
    BY <1>2, <1>6, <2>1, NextTaken
  <2>3. l[2][2] = "name" /\ m[l[2][1]] = Firmware
    BY <1>2, <1>7
  <2> QED BY <2>2, <2>3
<1>11. w2 =< 1 + MaxName
  <2>1. IsText(Firmware, MaxName)
    BY DEF NodeFits
  <2>2. w2 = 1 + Len(Firmware)
    BY <2>1, NameTaken
  <2>3. Len(Firmware) \in Nat /\ Len(Firmware) =< MaxName
    BY <2>1 DEF IsText
  <2> HIDE DEF w2
  <2> QED BY <2>2, <2>3, ConversationAssumption
<1> HIDE DEF w2
<1>12. Taken(l, m, MaxName, Len(l)) =< MaxPayload
  <2>1. 2 - 1 = 1
    OBVIOUS
  <2>2. Taken(l, m, MaxName, 2) = 1 + w2
    BY <1>9, <1>10, <1>11, <2>1
  <2>3. 1 + w2 =< MaxPayload
    BY <1>10, <1>11, CodecAssumption, MessagesAssumption, ConversationAssumption DEF NodeFits
  <2> QED BY <1>2, <2>2, <2>3
<1>13. IsKept(m)
  BY <1>1, <1>2, <1>6, <1>8, <1>12, PlainKept DEF l
<1> QED BY <1>13 DEF m

\* What answers a ping, and what is not understood.
LEMMA PongAnswer ==
  ASSUME NodeFits, NEW n \in Half
  PROVE  IsKept([type |-> "Pong", rev |-> n])
<1> DEFINE m == [type |-> "Pong", rev |-> n]
           l == Layout["Pong"]
           N == {"rev"}
<1>1. m.type = "Pong" /\ m.type \in DOMAIN Layout /\ m.type \notin DOMAIN Item
  BY AllTypes DEF Item, Types
<1>2. IsLayout(l) /\ Len(l) = 1 /\ l[1] = <<"rev", "u16">>
  BY <1>1, LayoutIs, AnswerLayouts
<1> HIDE DEF l
<1>3. DOMAIN l = 1 .. 1
  BY <1>2 DEF IsLayout
<1>4. NamesIn(l, Len(l)) = N
  BY <1>2 DEF NamesIn
<1>5. m = [x \in {"type"} \cup N |-> m[x]]
  OBVIOUS
<1>6. Holds(l, m, MaxName)
  <2>1. IsOf("u16", m.rev, MaxName)
    BY DEF IsOf
  <2> HIDE DEF m
  <2>2. ASSUME NEW k \in 1 .. 1 PROVE IsOf(l[k][2], m[l[k][1]], MaxName)
    <3>1. k = 1
      OBVIOUS
    <3> QED BY <3>1, <1>2, <2>1
  <2> QED BY <1>3, <2>2 DEF Holds
<1>7. m.rev = n
  OBVIOUS
<1>8. m = [x \in {"type"} \cup NamesIn(l, Len(l)) |-> m[x]]
  BY <1>4, <1>5
<1> HIDE DEF m, N
<1>9. Taken(l, m, MaxName, 0) = 0
  BY <1>2, <1>6, TakenSteps
<1> DEFINE w1 == Len(Spelt("u16", n, MaxName))
<1>10. Taken(l, m, MaxName, 1) = Taken(l, m, MaxName, 1 - 1) + w1 /\ w1 \in Nat
  <2>1. 1 \in 1 .. Len(l)
    BY <1>2
  <2>2. /\ Taken(l, m, MaxName, 1)
             = Taken(l, m, MaxName, 1 - 1) + Len(Spelt(l[1][2], m[l[1][1]], MaxName))
        /\ Len(Spelt(l[1][2], m[l[1][1]], MaxName)) \in Nat
    BY <1>2, <1>6, <2>1, NextTaken
  <2>3. l[1][2] = "u16" /\ m[l[1][1]] = n
    BY <1>2, <1>7
  <2> QED BY <2>2, <2>3
<1>11. w1 = 2
  BY TwoTaken
<1> HIDE DEF w1
<1>12. Taken(l, m, MaxName, Len(l)) =< MaxPayload
  <2>1. 1 - 1 = 0
    OBVIOUS
  <2>2. Taken(l, m, MaxName, 1) = 0 + w1
    BY <1>9, <1>10, <1>11, <2>1
  <2>3. 0 + w1 =< MaxPayload
    BY <1>10, <1>11, CodecAssumption, MessagesAssumption, ConversationAssumption DEF NodeFits
  <2> QED BY <1>2, <2>2, <2>3
<1>13. IsKept(m)
  BY <1>1, <1>2, <1>6, <1>8, <1>12, PlainKept DEF l
<1> QED BY <1>13 DEF m

LEMMA NackAnswer ==
  ASSUME NodeFits
  PROVE  IsKept([type |-> "Nack", seq |-> 0, reason |-> "Unsupported"])
<1> DEFINE m == [type |-> "Nack", seq |-> 0, reason |-> "Unsupported"]
           l == Layout["Nack"]
           N == {"seq", "reason"}
<1>1. m.type = "Nack" /\ m.type \in DOMAIN Layout /\ m.type \notin DOMAIN Item
  BY AllTypes DEF Item, Types
<1>2. IsLayout(l) /\ Len(l) = 2 /\ l[1] = <<"seq", "u16">> /\ l[2] = <<"reason", "result">>
  BY <1>1, LayoutIs, AnswerLayouts
<1> HIDE DEF l
<1>3. DOMAIN l = 1 .. 2
  BY <1>2 DEF IsLayout
<1>4. NamesIn(l, Len(l)) = N
  BY <1>2 DEF NamesIn
<1>5. m = [x \in {"type"} \cup N |-> m[x]]
  OBVIOUS
<1>6. Holds(l, m, MaxName)
  <2>1. IsOf("u16", m.seq, MaxName) /\ IsOf("result", m.reason, MaxName)
    BY DEF IsOf, Half, ResultCode
  <2> HIDE DEF m
  <2>2. ASSUME NEW k \in 1 .. 2 PROVE IsOf(l[k][2], m[l[k][1]], MaxName)
    <3>1. k = 1 \/ k = 2
      OBVIOUS
    <3> QED BY <3>1, <1>2, <2>1
  <2> QED BY <1>3, <2>2 DEF Holds
<1>7. m.seq = 0 /\ m.reason = "Unsupported"
  OBVIOUS
<1>8. m = [x \in {"type"} \cup NamesIn(l, Len(l)) |-> m[x]]
  BY <1>4, <1>5
<1> HIDE DEF m, N
<1>9. Taken(l, m, MaxName, 0) = 0
  BY <1>2, <1>6, TakenSteps
<1> DEFINE w1 == Len(Spelt("u16", 0, MaxName))
<1>10. Taken(l, m, MaxName, 1) = Taken(l, m, MaxName, 1 - 1) + w1 /\ w1 \in Nat
  <2>1. 1 \in 1 .. Len(l)
    BY <1>2
  <2>2. /\ Taken(l, m, MaxName, 1)
             = Taken(l, m, MaxName, 1 - 1) + Len(Spelt(l[1][2], m[l[1][1]], MaxName))
        /\ Len(Spelt(l[1][2], m[l[1][1]], MaxName)) \in Nat
    BY <1>2, <1>6, <2>1, NextTaken
  <2>3. l[1][2] = "u16" /\ m[l[1][1]] = 0
    BY <1>2, <1>7
  <2> QED BY <2>2, <2>3
<1>11. w1 = 2
  <2>1. 0 \in Half
    BY DEF Half
  <2> QED BY <2>1, TwoTaken
<1> DEFINE w2 == Len(Spelt("result", "Unsupported", MaxName))
<1>12. Taken(l, m, MaxName, 2) = Taken(l, m, MaxName, 2 - 1) + w2 /\ w2 \in Nat
  <2>1. 2 \in 1 .. Len(l)
    BY <1>2
  <2>2. /\ Taken(l, m, MaxName, 2)
             = Taken(l, m, MaxName, 2 - 1) + Len(Spelt(l[2][2], m[l[2][1]], MaxName))
        /\ Len(Spelt(l[2][2], m[l[2][1]], MaxName)) \in Nat
    BY <1>2, <1>6, <2>1, NextTaken
  <2>3. l[2][2] = "result" /\ m[l[2][1]] = "Unsupported"
    BY <1>2, <1>7
  <2> QED BY <2>2, <2>3
<1>13. w2 = 1
  <2>1. IsOf("result", "Unsupported", MaxName)
    BY DEF IsOf, ResultCode
  <2> QED BY <2>1, OneTaken
<1> HIDE DEF w1, w2
<1>14. Taken(l, m, MaxName, Len(l)) =< MaxPayload
  <2>1. 1 - 1 = 0 /\ 2 - 1 = 1
    OBVIOUS
  <2>2. Taken(l, m, MaxName, 2) = 0 + w1 + w2
    BY <1>9, <1>10, <1>11, <1>12, <1>13, <2>1
  <2>3. 0 + w1 + w2 =< MaxPayload
    BY <1>10, <1>11, <1>12, <1>13, CodecAssumption, MessagesAssumption, ConversationAssumption
       DEF NodeFits
  <2> QED BY <1>2, <2>2, <2>3
<1>15. IsKept(m)
  BY <1>1, <1>2, <1>6, <1>8, <1>14, PlainKept DEF l
<1> QED BY <1>15 DEF m

-----------------------------------------------------------------------------
(* How much room a page takes *)

Summed(n, from, to, f) ==
  f = [k \in from - 1 .. to |-> IF k < from THEN 0 ELSE f[k - 1] + SizeOf(n, k)]

LEMMA SizeIs ==
  ASSUME NodeFits, NEW n \in AllNames, NEW k \in DOMAIN Instances
  PROVE  SizeOf(n, k) \in Nat /\ SizeOf(n, k) = 5 + Len(n.instances[k])
<1>1. IsText(n.instances[k], MaxName)
  BY NamesAre
<1>2. Len(n.instances[k]) \in Nat
  BY <1>1 DEF IsText
<1> QED BY <1>2 DEF SizeOf

LEMMA SumIs ==
  ASSUME NodeFits, NEW n \in AllNames, NEW from \in Nat \ {0}, NEW to \in Nat,
         from - 1 =< to, to =< Len(Instances)
  PROVE  \E f : Summed(n, from, to, f) /\ SizeOfAll(n, from, to) = f[to]
<1> DEFINE c == to - (from - 1)
           G == [x \in (1 .. c) \X Nat |-> x[2] + SizeOf(n, x[1] + (from - 1))]
           h == CHOOSE f : Summed(n, from, to, f)
<1>1. c \in Nat
  OBVIOUS
<1>2. \A k \in 1 .. c : SizeOf(n, k + (from - 1)) \in Nat
  <2>1. ASSUME NEW k \in 1 .. c PROVE k + (from - 1) \in DOMAIN Instances
    BY InstanceCount
  <2> QED BY <2>1, SizeIs
<1> HIDE DEF c
<1>3. G \in [(1 .. c) \X Nat -> Nat]
  <2>1. ASSUME NEW x \in (1 .. c) \X Nat PROVE x[2] + SizeOf(n, x[1] + (from - 1)) \in Nat
    BY <1>2
  <2> QED BY <2>1
<1>4. \A k \in 1 .. c, x \in Nat : G[k, x] = x + SizeOf(n, k + (from - 1))
  OBVIOUS
<1> HIDE DEF G
<1> DEFINE z == 0
<1>5. z \in Nat
  OBVIOUS
<1> HIDE DEF z
<1>6. PICK g \in [0 .. c -> Nat] : Recursion(g, z, G, c)
  BY <1>1, <1>3, <1>5, RecursionExists
<1> DEFINE f == [k \in from - 1 .. to |-> g[k - (from - 1)]]
<1>7. ASSUME NEW k \in from - 1 .. to
      PROVE  f[k] = IF k < from THEN 0 ELSE f[k - 1] + SizeOf(n, k)
  <2> DEFINE i == k - (from - 1)
  <2>1. i \in 0 .. c /\ i + (from - 1) = k /\ (i = 0 <=> k < from)
    BY DEF c
  <2>2. g[i] = IF i = 0 THEN z ELSE G[i, g[i - 1]]
    BY <1>6, <2>1 DEF Recursion
  <2>3. CASE i = 0
    BY <2>1, <2>2, <2>3 DEF z
  <2>4. CASE i # 0
    <3>1. i \in 1 .. c /\ i - 1 \in 0 .. c /\ k - 1 \in from - 1 .. to /\ (k - 1) - (from - 1) = i - 1
      BY <2>1, <2>4 DEF c
    <3> HIDE DEF i
    <3>2. f[k] = g[i]
      BY DEF i
    <3>3. f[k - 1] = g[i - 1]
      BY <3>1
    <3>4. g[i - 1] \in Nat
      BY <3>1
    <3>5. G[i, g[i - 1]] = g[i - 1] + SizeOf(n, i + (from - 1))
      BY <1>4, <3>1, <3>4
    <3> HIDE DEF f
    <3> QED BY <2>1, <2>2, <2>4, <3>2, <3>3, <3>5
  <2> QED BY <2>3, <2>4
<1>8. f = [k \in from - 1 .. to |-> f[k]]
  OBVIOUS
<1> HIDE DEF f
<1>9. Summed(n, from, to, f)
  BY <1>7, <1>8 DEF Summed
<1>10. Summed(n, from, to, h)
  BY <1>9
<1>11. SizeOfAll(n, from, to) = h[to]
  BY DEF SizeOfAll, Summed
<1> QED BY <1>10, <1>11

LEMMA SumSteps ==
  ASSUME NEW n, NEW from \in Nat \ {0}, NEW to \in Nat, from - 1 =< to, NEW f,
         Summed(n, from, to, f)
  PROVE  /\ f[from - 1] = 0
         /\ \A k \in from .. to : f[k] = f[k - 1] + SizeOf(n, k)
<1>1. \A k \in from - 1 .. to : f[k] = IF k < from THEN 0 ELSE f[k - 1] + SizeOf(n, k)
  BY DEF Summed
<1>2. from - 1 \in from - 1 .. to /\ from - 1 < from
  OBVIOUS
<1>3. \A k \in from .. to : k \in from - 1 .. to /\ ~(k < from)
  OBVIOUS
<1> QED BY <1>1, <1>2, <1>3

LEMMA SumOfOne ==
  ASSUME NodeFits, NEW n \in AllNames, NEW k \in DOMAIN Instances
  PROVE  SizeOfAll(n, k, k) = SizeOf(n, k)
<1>1. k \in Nat \ {0} /\ k \in Nat /\ k - 1 =< k /\ k =< Len(Instances) /\ k \in k .. k
  BY InstanceCount
<1>2. PICK f : Summed(n, k, k, f) /\ SizeOfAll(n, k, k) = f[k]
  BY <1>1, SumIs
<1>3. f[k - 1] = 0 /\ f[k] = f[k - 1] + SizeOf(n, k)
  BY ONLY ZenonT(60), <1>1, <1>2, SumSteps
<1> QED BY <1>2, <1>3, SizeIs

\* The same, of c instances behind the first a.
SumOf(n, a, c, f)  == Summed(n, a + 1, a + c, f)
SumsUp(n, a, c, f) ==
  f[a] = 0 /\ \A j \in 1 .. c : f[a + j] = f[(a + j) - 1] + SizeOf(n, a + j)

LEMMA SumBehind ==
  ASSUME NEW n, NEW a \in Nat, NEW c \in Nat, NEW f, SumOf(n, a, c, f)
  PROVE  SumsUp(n, a, c, f)
<1>1. \A k \in (a + 1) - 1 .. a + c : f[k] = IF k < a + 1 THEN 0 ELSE f[k - 1] + SizeOf(n, k)
  BY DEF SumOf, Summed
<1>2. a \in (a + 1) - 1 .. a + c /\ a < a + 1
  OBVIOUS
<1>3. \A j \in 1 .. c : a + j \in (a + 1) - 1 .. a + c /\ ~(a + j < a + 1)
  OBVIOUS
<1> QED BY <1>1, <1>2, <1>3 DEF SumsUp

LEMMA SumOfNone ==
  ASSUME NodeFits, NEW n \in AllNames, NEW from \in Nat \ {0}, from - 1 =< Len(Instances)
  PROVE  SizeOfAll(n, from, from - 1) = 0
<1>1. from - 1 \in Nat /\ from - 1 =< from - 1
  OBVIOUS
<1>2. PICK f : Summed(n, from, from - 1, f) /\ SizeOfAll(n, from, from - 1) = f[from - 1]
  BY <1>1, SumIs
<1> QED BY ZenonT(60), <1>1, <1>2, SumSteps

\* Each of the slices of the first k instances has what fits it.
Tight(n, s, k, budget) ==
  /\ Len(s) =< k
  /\ \A j \in 1 .. Len(s) : SizeOfAll(n, s[j].first + 1, End(s, j)) =< budget

LEMMA PlaceTight ==
  ASSUME NodeFits, NEW n \in AllNames, NEW budget, NEW k \in DOMAIN Instances, NEW s,
         SizeOf(n, k) =< budget,
         (k = 1 /\ s = <<>>) \/ (Covers(s, k - 1) /\ Tight(n, s, k - 1, budget))
  PROVE  Tight(n, PlaceOn(n, s, k, budget), k, budget)
<1> DEFINE one == [first |-> k - 1, count |-> 1]
           t == PlaceOn(n, s, k, budget)
<1>1. one \in Slice /\ one.first = k - 1 /\ one.count = 1 /\ k \in Nat \ {0}
  BY InstanceCount DEF Slice
<1> HIDE DEF one
<1>2. SizeOfAll(n, (k - 1) + 1, (k - 1) + 1) =< budget
  <2>1. (k - 1) + 1 = k
    BY <1>1
  <2> QED BY <2>1, SumOfOne
<1>3. CASE k = 1 /\ s = <<>>
  <2>1. t = <<one>>
    BY <1>3 DEF PlaceOn, one
  <2> HIDE DEF t
  <2>2. Len(t) = 1 /\ t[1] = one
    BY <1>1, <2>1
  <2>3. End(t, 1) = (k - 1) + 1 /\ t[1].first = k - 1
    BY <1>1, <2>2 DEF End
  <2>4. \A j \in 1 .. Len(t) : j = 1
    BY <2>2
  <2>5. Tight(n, t, k, budget)
    BY <1>2, <1>3, <2>2, <2>3, <2>4 DEF Tight
  <2> QED BY <2>5 DEF t
<1>4. CASE Covers(s, k - 1) /\ Tight(n, s, k - 1, budget)
  <2> DEFINE l == Len(s)
  <2>1. l \in Nat \ {0} /\ s \in Seq(Slice) /\ s[l] \in Slice
    BY <1>4 DEF Covers
  <2>2. l =< k - 1 /\ \A j \in 1 .. l : SizeOfAll(n, s[j].first + 1, End(s, j)) =< budget
    BY <1>4 DEF Tight
  <2>3. End(s, l) = k - 1
    BY <1>4 DEF Covers
  <2>4. CASE /\ t = [s EXCEPT ![Len(s)].count = @ + 1]
             /\ SizeOfAll(n, Last(s).first + 1, k) =< budget
    <3> HIDE DEF t
    <3>1. Len(t) = l
      BY <2>1, <2>4
    <3>2. t[l].first = s[l].first /\ t[l].count = s[l].count + 1 /\ Last(s) = s[l]
      BY <2>1, <2>4 DEF Slice, Last
    <3>3. \A j \in 1 .. l : j # l => t[j] = s[j]
      BY <2>1, <2>4
    <3>4. End(t, l) = k
      <4>1. s[l].first \in Nat /\ s[l].count \in Nat
        BY <2>1 DEF Slice
      <4> HIDE DEF l
      <4> QED BY <1>1, <2>3, <3>2, <4>1 DEF End
    <3>5. SizeOfAll(n, t[l].first + 1, End(t, l)) =< budget
      BY <2>4, <3>2, <3>4
    <3>6. \A j \in 1 .. l : j # l => SizeOfAll(n, t[j].first + 1, End(t, j)) =< budget
      BY <2>2, <3>3 DEF End
    <3>7. Len(t) =< k
      BY <1>1, <2>1, <2>2, <3>1
    <3> HIDE DEF l
    <3>8. Tight(n, t, k, budget)
      BY <3>1, <3>5, <3>6, <3>7 DEF Tight
    <3> QED BY <3>8 DEF t
  <2>5. CASE t = Append(s, one)
    <3> HIDE DEF t
    <3>1. Len(t) = l + 1 /\ t[l + 1] = one
      BY <1>1, <2>1, <2>5
    <3>2. \A j \in 1 .. l : t[j] = s[j]
      BY <1>1, <2>1, <2>5
    <3>3. End(t, l + 1) = (k - 1) + 1 /\ t[l + 1].first = k - 1
      BY <1>1, <3>1 DEF End
    <3>4. \A j \in 1 .. l : SizeOfAll(n, t[j].first + 1, End(t, j)) =< budget
      BY <2>2, <3>2 DEF End
    <3>5. SizeOfAll(n, t[l + 1].first + 1, End(t, l + 1)) =< budget
      BY <1>2, <3>3
    <3>6. Len(t) =< k
      BY <1>1, <2>1, <2>2, <3>1
    <3>7. \A j \in 1 .. Len(t) : j \in 1 .. l \/ j = l + 1
      BY <2>1, <3>1
    <3> HIDE DEF l
    <3>8. Tight(n, t, k, budget)
      BY <3>4, <3>5, <3>6, <3>7 DEF Tight
    <3> QED BY <3>8 DEF t
  <2>6. \/ /\ t = [s EXCEPT ![Len(s)].count = @ + 1]
           /\ SizeOfAll(n, Last(s).first + 1, k) =< budget
        \/ t = Append(s, one)
    BY DEF PlaceOn, one
  <2> QED BY <2>4, <2>5, <2>6
<1> QED BY <1>3, <1>4

LEMMA PlacingTight ==
  ASSUME NodeFits, NEW n \in AllNames, NEW budget, NEW last \in 0 .. Len(Instances), NEW g,
         Placing(n, budget, g, last), \A k \in 1 .. last : SizeOf(n, k) =< budget
  PROVE  \A k \in 1 .. last : Tight(n, g[k], k, budget)
<1> DEFINE bad == {k \in 1 .. last : ~Tight(n, g[k], k, budget)}
<1>0. last \in Nat /\ \A k \in 1 .. last : k \in DOMAIN Instances
  BY InstanceCount
<1>1. ASSUME bad # {} PROVE FALSE
  <2>1. bad \subseteq Nat
    OBVIOUS
  <2>2. PICK m \in bad : \A j \in bad : m =< j
    BY <1>1, <2>1, LeastExists
  <2>3. m \in 1 .. last /\ ~Tight(n, g[m], m, budget)
    OBVIOUS
  <2>4. g[m] = PlaceOn(n, g[m - 1], m, budget)
    <3>1. m \in 0 .. last /\ m # 0
      BY <1>0, <2>3
    <3> QED BY <3>1 DEF Placing
  <2>5. (m = 1 /\ g[m - 1] = <<>>) \/ (Covers(g[m - 1], m - 1) /\ Tight(n, g[m - 1], m - 1, budget))
    <3>1. CASE m = 1
      <4>1. g[0] = <<>>
        BY <1>0 DEF Placing
      <4> QED BY <3>1, <4>1
    <3>2. CASE m # 1
      <4>1. m - 1 \in 1 .. last /\ m - 1 < m /\ m - 1 \in 0 .. last /\ m - 1 # 0
        BY <1>0, <2>3, <3>2
      <4>2. m - 1 \notin bad
        <5> HIDE DEF bad
        <5> QED BY <2>1, <2>2, <4>1
      <4>3. Covers(g[m - 1], m - 1)
        BY <1>0, <4>1, PlacingCovers
      <4> QED BY <4>1, <4>2, <4>3
    <3> QED BY <3>1, <3>2
  <2>6. m \in DOMAIN Instances /\ SizeOf(n, m) =< budget
    BY <1>0, <2>3
  <2> QED BY <2>3, <2>4, <2>5, <2>6, PlaceTight
<1> QED BY <1>1

\* The slices a node's descriptor is told in: of the first instances, as many as
\* there are until one fits no page.
LEMMA SlicesTight ==
  ASSUME NodeFits, NEW n \in AllNames, NEW fixed \in {DescribeFixed + TrailerSize, AnnounceFixed}
  PROVE  LET s == Slices(n, fixed)
             budget == Budget(n, fixed)
         IN  \E k \in 0 .. Len(Instances) :
               /\ Covers(s, k) /\ Len(s) \in 1 .. 255
               /\ \A j \in 1 .. Len(s) : SizeOfAll(n, s[j].first + 1, End(s, j)) =< budget
               /\ (\A i \in 1 .. Len(Instances) : SizeOf(n, i) =< budget) => k = Len(Instances)
<1> DEFINE N == Len(Instances)
           s == Slices(n, fixed)
           budget == Budget(n, fixed)
           S == {m \in 0 .. N : \A k \in 1 .. m : SizeOf(n, k) =< budget}
           P == Max(S)
           h == CHOOSE g : Placing(n, budget, g, P)
<1>1. N \in Nat /\ N =< 255 /\ DOMAIN Instances = 1 .. N
  BY InstanceCount, NodeAssumption, MessagesAssumption
<1>2. budget \in Nat
  <2>1. IsText(n.name, MaxName)
    BY NamesAre
  <2>2. Len(n.name) \in Nat /\ Len(n.name) =< MaxName
    BY <2>1 DEF IsText
  <2>3. fixed \in Nat /\ fixed =< 9
    BY DEF DescribeFixed, TrailerSize, AnnounceFixed
  <2> HIDE DEF NodeFits
  <2>4. 10 + MaxName =< MaxPayload
    BY DEF NodeFits
  <2> QED BY <2>2, <2>3, <2>4, ConversationAssumption, MessagesAssumption DEF Budget
<1> HIDE DEF budget
<1>3. P \in S /\ \A m \in S : m =< P
  <2>1. S \subseteq 0 .. N /\ 0 \in S
    BY <1>1
  <2> HIDE DEF S
  <2>2. \E x \in S : \A y \in S : x >= y
    <3> DEFINE T == {i \in Nat : N - i \in S}
    <3>1. T # {} /\ T \subseteq Nat
      <4>1. N \in T
        BY <1>1, <2>1
      <4> QED BY <4>1
    <3>2. PICK m \in T : \A j \in T : m =< j
      BY <3>1, LeastExists
    <3>3. ASSUME NEW y \in S PROVE N - m >= y
      <4>1. N - y \in T
        BY <1>1, <2>1
      <4>2. m =< N - y
        BY <3>2, <4>1
      <4> QED BY <1>1, <2>1, <4>2
    <3>4. N - m \in S
      OBVIOUS
    <3> QED BY <3>3, <3>4
  <2>3. P \in S /\ \A y \in S : P >= y
    BY <2>2 DEF Max
  <2> QED BY <1>1, <2>1, <2>3
<1>4. P \in 0 .. N /\ (\A k \in 1 .. P : SizeOf(n, k) =< budget)
  BY <1>3
<1>5. (\A k \in 1 .. N : SizeOf(n, k) =< budget) => P = N
  <2> SUFFICES ASSUME \A k \in 1 .. N : SizeOf(n, k) =< budget PROVE P = N
    OBVIOUS
  <2>2. N \in S
    BY <1>1
  <2>3. N =< P
    <3> HIDE DEF S, P
    <3> QED BY <1>3, <2>2
  <2>4. P =< N /\ P \in Nat
    <3> HIDE DEF P, N
    <3> QED BY <1>1, <1>4
  <2> HIDE DEF P, N
  <2> QED BY <1>1, <2>3, <2>4
<1>6. s = IF P = 0 THEN <<[first |-> 0, count |-> 0]>> ELSE h[P]
  BY DEF Slices, Placing, budget
<1> HIDE DEF P, S, s
<1>7. CASE P = 0
  <2> DEFINE none == [first |-> 0, count |-> 0]
             t    == <<none>>
  <2>1. none \in Slice /\ none.first = 0 /\ none.count = 0
    BY DEF Slice
  <2>2. s = t
    BY <1>6, <1>7
  <2> HIDE DEF none
  <2>3. t \in Seq(Slice) /\ Len(t) = 1 /\ t[1] = none
    BY <2>1
  <2> HIDE DEF t
  <2>4. Covers(t, 0)
    BY <2>1, <2>3 DEF Covers, End
  <2>5. SizeOfAll(n, t[1].first + 1, End(t, 1)) =< budget
    <3>1. 1 \in Nat \ {0} /\ 1 - 1 =< Len(Instances) /\ 1 - 1 = 0
      BY <1>1
    <3>2. SizeOfAll(n, 1, 1 - 1) = 0
      BY <3>1, SumOfNone
    <3>3. t[1].first + 1 = 1 /\ End(t, 1) = 1 - 1
      BY <2>1, <2>3 DEF End
    <3> QED BY <1>2, <3>2, <3>3
  <2>6. \A j \in 1 .. Len(t) : SizeOfAll(n, t[j].first + 1, End(t, j)) =< budget
    <3>1. \A j \in 1 .. Len(t) : j = 1
      BY <2>3
    <3> QED BY <2>5, <3>1
  <2>7. Len(t) \in 1 .. 255
    BY SMTT(60), <2>3
  <2> QED BY <1>4, <1>5, <1>7, <2>2, <2>4, <2>6, <2>7 DEF budget, s
<1>8. CASE P # 0
  <2>0. P \in Nat /\ P =< 255 /\ P \in 1 .. P /\ P \in 0 .. P /\ P \in 0 .. Len(Instances)
    BY <1>1, <1>4, <1>8
  <2>1. Placing(n, budget, h, P)
    BY <2>0, PlacingExists
  <2> HIDE DEF h
  <2>2. Covers(h[P], P)
    BY <1>8, <2>0, <2>1, PlacingCovers
  <2>3. Tight(n, h[P], P, budget)
    BY <1>4, <2>0, <2>1, PlacingTight
  <2>4. s = h[P]
    BY SMTT(60), <1>6, <1>8
  <2>5. Len(s) \in 1 .. 255
    <3> DEFINE l == Len(h[P])
    <3>1. l \in Nat /\ l >= 1 /\ l =< P
      BY <2>2, <2>3 DEF Covers, Tight
    <3> HIDE DEF l
    <3>2. l \in 1 .. 255
      BY <2>0, <3>1
    <3> QED BY <2>4, <3>2 DEF l
  <2>6. \A j \in 1 .. Len(s) : SizeOfAll(n, s[j].first + 1, End(s, j)) =< budget
    BY <2>3, <2>4 DEF Tight
  <2> QED BY <1>5, <2>0, <2>2, <2>4, <2>5, <2>6 DEF budget, s
<1> QED BY <1>7, <1>8

-----------------------------------------------------------------------------
(* What fills a page *)

LEMMA DescriptorLayout ==
  /\ IsLayout(Descriptor) /\ Len(Descriptor) = 5 /\ DOMAIN Descriptor = 1 .. 5
  /\ Descriptor[1] = <<"class", "class">> /\ Descriptor[2] = <<"inst", "u8">>
  /\ Descriptor[3] = <<"flags", "u8">> /\ Descriptor[4] = <<"type", "valueType">>
  /\ Descriptor[5] = <<"name", "name">>
<1>1. /\ Len(Descriptor) = 5 /\ DOMAIN Descriptor = 1 .. 5
      /\ Descriptor[1] = <<"class", "class">> /\ Descriptor[2] = <<"inst", "u8">>
      /\ Descriptor[3] = <<"flags", "u8">> /\ Descriptor[4] = <<"type", "valueType">>
      /\ Descriptor[5] = <<"name", "name">>
  BY DEF Descriptor
<1>2. IsLayout(Descriptor)
  BY DEF Descriptor, IsLayout, Kinds
<1> QED BY <1>1, <1>2

\* A descriptor takes as many bytes as it is counted for.
LEMMA DescriptorTaken ==
  ASSUME NodeFits, NEW n \in AllNames, NEW k \in DOMAIN Instances
  PROVE  LET d == Describe(n, k) IN
         /\ Holds(Descriptor, d, MaxName) /\ IsItem(Descriptor, d)
         /\ Len(FieldBytes(Descriptor, d, MaxName)) = SizeOf(n, k)
<1> DEFINE d == Describe(n, k)
           l == Descriptor
           N == {"class", "inst", "flags", "type", "name"}
<1>1. IsDescriptor(d) /\ d.name = n.instances[k]
  BY DescribeIs
<1>2. /\ IsLayout(l) /\ Len(l) = 5 /\ DOMAIN l = 1 .. 5
      /\ l[1] = <<"class", "class">> /\ l[2] = <<"inst", "u8">> /\ l[3] = <<"flags", "u8">>
      /\ l[4] = <<"type", "valueType">> /\ l[5] = <<"name", "name">>
  BY DescriptorLayout
<1> HIDE DEF d, l
<1>3. NamesIn(l, Len(l)) = N
  BY <1>2 DEF NamesIn
<1>4. Holds(l, d, MaxName)
  <2>1. /\ IsOf("class", d.class, MaxName) /\ IsOf("u8", d.inst, MaxName)
        /\ IsOf("u8", d.flags, MaxName) /\ IsOf("valueType", d.type, MaxName)
        /\ IsOf("name", d.name, MaxName)
    BY <1>1 DEF IsOf, IsDescriptor
  <2>2. ASSUME NEW k1 \in 1 .. 5 PROVE IsOf(l[k1][2], d[l[k1][1]], MaxName)
    <3>1. k1 = 1 \/ k1 = 2 \/ k1 = 3 \/ k1 = 4 \/ k1 = 5
      OBVIOUS
    <3> QED BY <3>1, <1>2, <2>1
  <2> QED BY <1>2, <2>2 DEF Holds
<1>5. IsItem(l, d)
  BY <1>1, <1>3 DEF IsItem, IsDescriptor
<1>6. Taken(l, d, MaxName, 4) = 4
  <2>1. \A i \in 1 .. 4 : l[i][2] \in OneByteKinds
    <3>1. \A i \in 1 .. 4 : i = 1 \/ i = 2 \/ i = 3 \/ i = 4
      OBVIOUS
    <3> QED BY <3>1, <1>2 DEF OneByteKinds
  <2>2. 4 \in 0 .. Len(l)
    BY <1>2
  <2> QED BY <1>2, <1>4, <2>1, <2>2, FirstTaken
<1> DEFINE w == Len(Spelt("name", d.name, MaxName))
<1>7. Taken(l, d, MaxName, 5) = Taken(l, d, MaxName, 5 - 1) + w
  <2>1. 5 \in 1 .. Len(l)
    BY <1>2
  <2>2. Taken(l, d, MaxName, 5)
          = Taken(l, d, MaxName, 5 - 1) + Len(Spelt(l[5][2], d[l[5][1]], MaxName))
    BY <1>2, <1>4, <2>1, NextTaken
  <2>3. l[5][2] = "name" /\ d[l[5][1]] = d.name
    BY <1>2
  <2> QED BY <2>2, <2>3
<1>8. IsText(d.name, MaxName)
  BY <1>1 DEF IsDescriptor
<1>9. w = 1 + Len(n.instances[k]) /\ Len(n.instances[k]) \in Nat
  <2>1. w = 1 + Len(d.name)
    BY <1>8, NameTaken
  <2>2. Len(d.name) \in Nat
    BY <1>8 DEF IsText
  <2> QED BY <1>1, <2>1, <2>2
<1> HIDE DEF w
<1>10. Taken(l, d, MaxName, Len(l)) = SizeOf(n, k)
  <2>1. 5 - 1 = 4
    OBVIOUS
  <2>2. Taken(l, d, MaxName, 5) = 4 + w
    BY <1>6, <1>7, <2>1
  <2>3. SizeOf(n, k) = 5 + Len(n.instances[k])
    BY SizeIs
  <2> QED BY <1>2, <1>9, <2>2, <2>3
<1>11. Len(FieldBytes(l, d, MaxName)) = SizeOf(n, k)
  BY <1>2, <1>4, <1>10, TakenSteps
<1> QED BY <1>4, <1>5, <1>11 DEF d, l

Paged == {"DescribeResponse", "BindAnnounce"}

\* What a page holds of a node's descriptors: c of them behind the first a.
HasDescriptors(m, n, a, c) ==
  m.type \in Paged /\ m.items = [j \in 1 .. c |-> Describe(n, a + j)]
IsFilled(m, n, a, c) ==
  /\ HoldsItems(m, MaxName) /\ m.items = [j \in 1 .. Len(m.items) |-> m.items[j]]
  /\ \A j \in 1 .. Len(m.items) : IsItem(Item[m.type].layout, m.items[j])
  /\ Len(FlattenSeq(ItemChunks(m, MaxName))) = SizeOfAll(n, a + 1, a + c)

LEMMA PageItems ==
  ASSUME NodeFits, NEW n \in AllNames, NEW a \in Nat, NEW c \in Nat, a + c =< Len(Instances),
         NEW m, HasDescriptors(m, n, a, c)
  PROVE  IsFilled(m, n, a, c)
<1> DEFINE q == m.items
           l == Item[m.type].layout
           e == SpeltItems(m, MaxName)
<1>0. m.type \in Paged /\ m.items = [j \in 1 .. c |-> Describe(n, a + j)]
  BY DEF HasDescriptors
<1>1. /\ m.type \in DOMAIN Item /\ l = Descriptor /\ Item[m.type].most = MaxInstances
  BY <1>0 DEF Item, Paged
<1>2. \A j \in 1 .. c : a + j \in DOMAIN Instances
  BY InstanceCount
<1>3. q \in Seq({Describe(n, a + j) : j \in 1 .. c}) /\ Len(q) = c /\ DOMAIN q = 1 .. c
      /\ \A j \in 1 .. c : q[j] = Describe(n, a + j)
  <2> DEFINE S == {Describe(n, a + j) : j \in 1 .. c}
  <2>1. q \in [1 .. c -> S] /\ DOMAIN q = 1 .. c /\ \A j \in 1 .. c : q[j] = Describe(n, a + j)
    BY <1>0
  <2> HIDE DEF S, q
  <2>2. q \in Seq(S) /\ Len(q) = c
    BY <2>1, SeqOfFunction
  <2> QED BY <2>1, <2>2 DEF S
<1>4. q = [j \in 1 .. Len(q) |-> q[j]]
  BY <1>3
<1> HIDE DEF q
<1>5. \A j \in 1 .. c : /\ Holds(l, q[j], MaxName) /\ IsItem(l, q[j])
                        /\ Len(FieldBytes(l, q[j], MaxName)) = SizeOf(n, a + j)
  <2> SUFFICES ASSUME NEW j \in 1 .. c
               PROVE  /\ Holds(l, q[j], MaxName) /\ IsItem(l, q[j])
                      /\ Len(FieldBytes(l, q[j], MaxName)) = SizeOf(n, a + j)
    OBVIOUS
  <2>1. a + j \in DOMAIN Instances /\ q[j] = Describe(n, a + j)
    BY <1>2, <1>3
  <2> QED BY <1>1, <2>1, DescriptorTaken
<1>6. c =< MaxInstances
  BY InstanceCount, NodeAssumption, MessagesAssumption
<1>7. HoldsItems(m, MaxName)
  BY <1>1, <1>3, <1>5, <1>6 DEF HoldsItems, q
<1>8. /\ e \in Seq(Seq(Byte)) /\ Len(e) = c
      /\ FlattenSeq(ItemChunks(m, MaxName)) = FlattenSeq(e)
  BY <1>1, <1>3, <1>7, ItemsSpelt DEF q
<1>9. \A j \in 1 .. c : Len(e[j]) = SizeOf(n, a + j)
  BY <1>3, <1>5 DEF SpeltItems, q
<1> HIDE DEF e
<1>10. PICK f : Summed(n, a + 1, a + c, f) /\ SizeOfAll(n, a + 1, a + c) = f[a + c]
  <2>1. a + 1 \in Nat \ {0} /\ a + c \in Nat /\ (a + 1) - 1 =< a + c
    OBVIOUS
  <2> QED BY <2>1, SumIs
<1>11. f[a] = 0 /\ \A j \in 1 .. c : f[a + j] = f[(a + j) - 1] + SizeOf(n, a + j)
  <2>1. SumOf(n, a, c, f)
    BY <1>10 DEF SumOf
  <2>2. SumsUp(n, a, c, f)
    BY <2>1, SumBehind
  <2> QED BY <2>2 DEF SumsUp
<1>12. /\ Reach(e, 0) = 0 /\ Reach(e, c) = Len(FlattenSeq(e))
       /\ \A j \in 1 .. c : Reach(e, j) = Reach(e, j - 1) + Len(e[j])
  BY <1>8, ReachSteps
<1> DEFINE bad == {j \in 0 .. c : Reach(e, j) # f[a + j]}
<1>13. ASSUME bad # {} PROVE FALSE
  <2>0. bad \subseteq Nat
    OBVIOUS
  <2>1. PICK i \in bad : \A j \in bad : i =< j
    BY <1>13, <2>0, LeastExists
  <2>2. i \in 0 .. c /\ Reach(e, i) # f[a + i] /\ i # 0
    <3>1. a + 0 = a
      OBVIOUS
    <3> QED BY <3>1, <1>11, <1>12
  <2>3. i \in 1 .. c /\ i - 1 \in 0 .. c /\ i - 1 < i /\ (a + i) - 1 = a + (i - 1)
    BY <2>2
  <2>4. i - 1 \notin bad
    <3> HIDE DEF bad
    <3> QED BY <2>0, <2>1, <2>3
  <2>5. Reach(e, i - 1) = f[a + (i - 1)]
    BY <2>3, <2>4
  <2> QED BY <1>9, <1>11, <1>12, <2>2, <2>3, <2>5
<1>14. Len(FlattenSeq(e)) = f[a + c]
  BY <1>12, <1>13
<1> QED BY <1>3, <1>4, <1>5, <1>7, <1>8, <1>10, <1>14 DEF q, IsFilled

-----------------------------------------------------------------------------
(* A page is kept *)

LEMMA OneMore ==
  ASSUME NEW l, IsLayout(l), NEW s, NEW limit, Holds(l, s, limit), NEW k \in 1 .. Len(l),
         l[k][2] \in OneByteKinds
  PROVE  Taken(l, s, limit, k) = Taken(l, s, limit, k - 1) + 1
<1>1. /\ Taken(l, s, limit, k) = Taken(l, s, limit, k - 1) + Len(Spelt(l[k][2], s[l[k][1]], limit))
      /\ IsOf(l[k][2], s[l[k][1]], limit)
  BY NextTaken
<1>2. Len(Spelt(l[k][2], s[l[k][1]], limit)) = 1
  BY <1>1, OneTaken DEF OneByteKinds
<1> QED BY <1>1, <1>2

LEMMA TwoMore ==
  ASSUME NEW l, IsLayout(l), NEW s, NEW limit, Holds(l, s, limit), NEW k \in 1 .. Len(l),
         l[k][2] = "u16"
  PROVE  Taken(l, s, limit, k) = Taken(l, s, limit, k - 1) + 2
<1>1. /\ Taken(l, s, limit, k) = Taken(l, s, limit, k - 1) + Len(Spelt(l[k][2], s[l[k][1]], limit))
      /\ IsOf("u16", s[l[k][1]], limit)
  BY NextTaken
<1>2. s[l[k][1]] \in Half
  BY <1>1 DEF IsOf
<1>3. Len(Spelt("u16", s[l[k][1]], limit)) = 2
  BY <1>2, TwoTaken
<1> QED BY <1>1, <1>3

LEMMA NameMore ==
  ASSUME NEW l, IsLayout(l), NEW s, NEW limit, Holds(l, s, limit), NEW k \in 1 .. Len(l),
         l[k][2] = "name"
  PROVE  Taken(l, s, limit, k) = Taken(l, s, limit, k - 1) + (1 + Len(s[l[k][1]]))
<1>1. /\ Taken(l, s, limit, k) = Taken(l, s, limit, k - 1) + Len(Spelt(l[k][2], s[l[k][1]], limit))
      /\ IsOf("name", s[l[k][1]], limit)
  BY NextTaken
<1>2. IsText(s[l[k][1]], limit)
  BY <1>1 DEF IsOf
<1>3. Len(Spelt("name", s[l[k][1]], limit)) = 1 + Len(s[l[k][1]])
  BY <1>2, NameTaken
<1> QED BY <1>1, <1>3

LEMMA PageLayouts ==
  /\ LET l == Layout["DescribeResponse"] IN
     /\ Len(l) = 5 /\ l[1] = <<"rev", "u16">> /\ l[2] = <<"count", "u8">>
     /\ l[3] = <<"page", "u8">> /\ l[4] = <<"pages", "u8">> /\ l[5] = <<"name", "name">>
  /\ LET l == Layout["BindAnnounce"] IN
     /\ Len(l) = 8 /\ l[1] = <<"deviceType", "u8">> /\ l[2] = <<"capabilities", "u8">>
     /\ l[3] = <<"interval", "u16">> /\ l[4] = <<"rev", "u16">> /\ l[5] = <<"count", "u8">>
     /\ l[6] = <<"page", "u8">> /\ l[7] = <<"pages", "u8">> /\ l[8] = <<"name", "name">>
<1>1. "DescribeResponse" \in DOMAIN TellLayout /\ "BindAnnounce" \in DOMAIN BindLayout
  BY Tables
<1>2. TellLayout \in Layouts /\ BindLayout \in Layouts
  BY DEF Layouts
<1>3. /\ Layout["DescribeResponse"] = TellLayout["DescribeResponse"]
      /\ Layout["BindAnnounce"] = BindLayout["BindAnnounce"]
  BY <1>1, <1>2, LayoutOf
<1> DEFINE a == Revision \o PageOf \o << <<"name", "name">> >>
           b == Device \o Revision \o PageOf \o << <<"name", "name">> >>
<1>4. TellLayout["DescribeResponse"] = a /\ BindLayout["BindAnnounce"] = b
  BY DEF TellLayout, BindLayout
<1>5. /\ Len(a) = 5 /\ a[1] = <<"rev", "u16">> /\ a[2] = <<"count", "u8">>
      /\ a[3] = <<"page", "u8">> /\ a[4] = <<"pages", "u8">> /\ a[5] = <<"name", "name">>
  BY DEF Revision, PageOf
<1>6. /\ Len(b) = 8 /\ b[1] = <<"deviceType", "u8">> /\ b[2] = <<"capabilities", "u8">>
      /\ b[3] = <<"interval", "u16">> /\ b[4] = <<"rev", "u16">> /\ b[5] = <<"count", "u8">>
      /\ b[6] = <<"page", "u8">> /\ b[7] = <<"pages", "u8">> /\ b[8] = <<"name", "name">>
  BY DEF Device, Revision, PageOf
<1> HIDE DEF a, b
<1> QED BY <1>3, <1>4, <1>5, <1>6

\* Where a page stands among the others.
LEMMA PagePlace ==
  ASSUME NodeFits, NEW n \in AllNames, NEW fixed \in {DescribeFixed + TrailerSize, AnnounceFixed},
         NEW p \in Nat, ~(p >= Len(Slices(n, fixed)))
  PROVE  LET s == Slices(n, fixed)
             a == s[p + 1].first
             c == s[p + 1].count
         IN  /\ a \in Nat /\ c \in Nat /\ a + c =< Len(Instances)
             /\ p \in Byte /\ Len(s) \in Byte /\ Len(Instances) \in Byte
             /\ SizeOfAll(n, a + 1, a + c) =< Budget(n, fixed)
<1> DEFINE s == Slices(n, fixed)
           budget == Budget(n, fixed)
<1>1. PICK k \in 0 .. Len(Instances) :
        /\ Covers(s, k) /\ Len(s) \in 1 .. 255
        /\ \A j \in 1 .. Len(s) : SizeOfAll(n, s[j].first + 1, End(s, j)) =< budget
  BY ZenonT(60), SlicesTight
<1> HIDE DEF s, budget
<1> DEFINE a == s[p + 1].first
           c == s[p + 1].count
           l == Len(s)
<1>10. l \in 1 .. 255 /\ ~(p >= l)
  BY <1>1 DEF s
<1> HIDE DEF l
<1>11. p + 1 \in 1 .. l /\ p =< 255 /\ l \in Nat /\ l =< 255
  BY <1>10
<1>2. p + 1 \in 1 .. Len(s) /\ p =< 255
  BY <1>11 DEF l
<1>3. a \in Nat /\ c \in Nat
  <2>1. s \in Seq(Slice)
    BY <1>1 DEF Covers
  <2>2. s[p + 1] \in Slice
    BY <1>2, <2>1
  <2> QED BY SMTT(60), <2>2 DEF Slice
<1>4. End(s, p + 1) = a + c
  BY SMTT(60) DEF End
<1>5. End(s, p + 1) =< k
  BY <1>1, <1>2 DEF Covers
<1>6. SizeOfAll(n, a + 1, a + c) =< budget
  BY <1>1, <1>2, <1>4
<1>7. p \in Byte /\ Len(s) \in Byte
  <2>1. Len(s) \in Nat /\ Len(s) =< 255
    BY <1>11 DEF l
  <2> QED BY <1>2, <2>1, ByteIs
<1>8. Len(Instances) \in Byte
  <2>1. Len(Instances) \in Nat /\ Len(Instances) =< 255
    BY SMTT(60), InstanceCount, NodeAssumption, MessagesAssumption
  <2> QED BY <2>1, ByteIs
<1>9. a + c =< Len(Instances)
  <2>1. k =< Len(Instances) /\ k \in Nat /\ Len(Instances) \in Nat
    BY <1>1, InstanceCount
  <2> HIDE DEF a, c
  <2> QED BY <1>3, <1>4, <1>5, <2>1
<1> QED BY <1>3, <1>6, <1>7, <1>8, <1>9 DEF s, budget

\* Three parts, and how long they are together.
LEMMA ThreeParts ==
  ASSUME NEW m, IsMessage(m, MaxName)
  PROVE  /\ Len(MessageBytes(m, MaxName))
              = Len(FieldBytes(Layout[m.type], m, MaxName))
                + Len(FlattenSeq(ItemChunks(m, MaxName))) + Len(TrailerBytes(m))
         /\ Len(FieldBytes(Layout[m.type], m, MaxName)) \in Nat
         /\ Len(FlattenSeq(ItemChunks(m, MaxName))) \in Nat /\ Len(TrailerBytes(m)) \in Nat
<1> DEFINE a == FieldBytes(Layout[m.type], m, MaxName)
           b == FlattenSeq(ItemChunks(m, MaxName))
           c == TrailerBytes(m)
<1>1. a \in Seq(Byte) /\ b \in Seq(Byte) /\ c \in Seq(Byte)
  BY MessageSpelt, TrailerIsRead
<1>2. MessageBytes(m, MaxName) = a \o b \o c
  BY DEF MessageBytes
<1> HIDE DEF a, b, c
<1>3. a \o b \in Seq(Byte) /\ Len(a \o b) = Len(a) + Len(b)
  BY <1>1, ConcatTwo
<1> DEFINE d == a \o b
<1> HIDE DEF d
<1>4. Len(d \o c) = Len(d) + Len(c)
  BY <1>1, <1>3, ConcatTwo DEF d
<1>5. Len(a) \in Nat /\ Len(b) \in Nat /\ Len(c) \in Nat
  BY <1>1
<1> QED BY <1>2, <1>3, <1>4, <1>5 DEF a, b, c, d

\* A page of a description and of an announcement, as it is written.
PageOfDescription(n, p, pages, slice) ==
  [type |-> "DescribeResponse", rev |-> DescriptorRev(n), count |-> Len(Instances), page |-> p,
   pages |-> pages, name |-> n.name, items |-> OnPage(n, slice), trailer |-> <<Interval>>]

PageOfAnnouncement(n, p, pages, slice) ==
  [type |-> "BindAnnounce", deviceType |-> DeviceType, capabilities |-> Capabilities,
   interval |-> Interval, rev |-> DescriptorRev(n), count |-> Len(Instances), page |-> p,
   pages |-> pages, name |-> n.name, items |-> OnPage(n, slice)]

LEMMA BudgetIs ==
  ASSUME NodeFits, NEW n \in AllNames
  PROVE  /\ Budget(n, DescribeFixed + TrailerSize) = MaxPayload - (8 + Len(n.name))
         /\ Budget(n, AnnounceFixed) = MaxPayload - (10 + Len(n.name))
         /\ Len(n.name) \in Nat /\ MaxPayload \in Nat /\ MaxPayload =< 255
<1>1. Len(n.name) \in Nat
  BY NamesAre DEF IsText
<1>2. MaxPayload \in Nat /\ MaxPayload =< 255
  BY MessagesAssumption
<1> QED BY <1>1, <1>2 DEF Budget, DescribeFixed, TrailerSize, AnnounceFixed

LEMMA DescriptionIsKept ==
  ASSUME NodeFits, NEW n \in AllNames, NEW p \in Byte, NEW pages \in Byte, NEW slice,
         slice.first \in Nat, slice.count \in Nat, slice.first + slice.count =< Len(Instances),
         Len(Instances) \in Byte,
         SizeOfAll(n, slice.first + 1, slice.first + slice.count)
           =< Budget(n, DescribeFixed + TrailerSize)
  PROVE  IsKept(PageOfDescription(n, p, pages, slice))
<1> DEFINE m == PageOfDescription(n, p, pages, slice)
           l == Layout["DescribeResponse"]
           N == {"rev", "count", "page", "pages", "name"}
           a == slice.first
           c == slice.count
<1>1. /\ m.type = "DescribeResponse" /\ m.rev = DescriptorRev(n) /\ m.count = Len(Instances)
      /\ m.page = p /\ m.pages = pages /\ m.name = n.name /\ m.trailer = <<Interval>>
      /\ m.items = OnPage(n, slice)
      /\ m = [x \in {"type", "items", "trailer"} \cup N |-> m[x]]
  BY DEF PageOfDescription
<1>2. m.items = [j \in 1 .. c |-> Describe(n, a + j)]
  BY <1>1 DEF OnPage
<1> HIDE DEF m
<1>3. /\ Len(l) = 5 /\ l[1] = <<"rev", "u16">> /\ l[2] = <<"count", "u8">>
      /\ l[3] = <<"page", "u8">> /\ l[4] = <<"pages", "u8">> /\ l[5] = <<"name", "name">>
  BY PageLayouts
<1>4. "DescribeResponse" \in DOMAIN Layout /\ IsLayout(l)
  BY AllTypes, LayoutIs DEF Types
<1> HIDE DEF l
<1>5. DOMAIN l = 1 .. 5
  BY <1>3, <1>4 DEF IsLayout
<1>6. NamesIn(l, Len(l)) = N
  BY <1>3 DEF NamesIn
<1>7. Holds(l, m, MaxName)
  <2>1. /\ IsOf("u16", m.rev, MaxName) /\ IsOf("u8", m.count, MaxName)
        /\ IsOf("u8", m.page, MaxName) /\ IsOf("u8", m.pages, MaxName)
        /\ IsOf("name", m.name, MaxName)
    <3>1. DescriptorRev(n) \in Half /\ IsText(n.name, MaxName)
      BY RevisionIs, NamesAre
    <3> QED BY <1>1, <3>1 DEF IsOf
  <2>2. ASSUME NEW k \in 1 .. 5 PROVE IsOf(l[k][2], m[l[k][1]], MaxName)
    <3>1. k = 1 \/ k = 2 \/ k = 3 \/ k = 4 \/ k = 5
      OBVIOUS
    <3> QED BY <3>1, <1>3, <2>1
  <2> QED BY <1>5, <2>2 DEF Holds
<1>8. /\ HoldsItems(m, MaxName) /\ m.items = [j \in 1 .. Len(m.items) |-> m.items[j]]
      /\ \A j \in 1 .. Len(m.items) : IsItem(Item[m.type].layout, m.items[j])
      /\ Len(FlattenSeq(ItemChunks(m, MaxName))) = SizeOfAll(n, a + 1, a + c)
  <2>1. HasDescriptors(m, n, a, c)
    BY <1>1, <1>2 DEF Paged, HasDescriptors
  <2>2. IsFilled(m, n, a, c)
    BY <2>1, PageItems
  <2> QED BY <2>2 DEF IsFilled
<1>9. IsMessage(m, MaxName)
  <2>1. Besides(m.type) = {"type", "items", "trailer"}
    BY <1>1 DEF Besides, Item
  <2>2. m.type \notin Counted
    BY <1>1 DEF Counted
  <2>3. \E i \in Half : m.trailer = <<i>>
    BY <1>1 DEF NodeFits
  <2> QED BY <1>1, <1>4, <1>6, <1>7, <1>8, <2>1, <2>2, <2>3 DEF IsMessage, l
<1> DEFINE T(k) == Taken(l, m, MaxName, k)
           w == Len(n.name)
<1>10. T(5) = 6 + w
  <2>1. T(0) = 0
    BY <1>4, <1>7, TakenSteps
  <2>2. T(1) = T(1 - 1) + 2
    <3>1. 1 \in 1 .. Len(l) /\ l[1][2] = "u16"
      BY <1>3
    <3> QED BY <1>4, <1>7, <3>1, TwoMore
  <2>3. T(2) = T(2 - 1) + 1
    <3>1. 2 \in 1 .. Len(l) /\ l[2][2] \in OneByteKinds
      BY <1>3 DEF OneByteKinds
    <3> QED BY <1>4, <1>7, <3>1, OneMore
  <2>4. T(3) = T(3 - 1) + 1
    <3>1. 3 \in 1 .. Len(l) /\ l[3][2] \in OneByteKinds
      BY <1>3 DEF OneByteKinds
    <3> QED BY <1>4, <1>7, <3>1, OneMore
  <2>5. T(4) = T(4 - 1) + 1
    <3>1. 4 \in 1 .. Len(l) /\ l[4][2] \in OneByteKinds
      BY <1>3 DEF OneByteKinds
    <3> QED BY <1>4, <1>7, <3>1, OneMore
  <2>6. T(5) = T(5 - 1) + (1 + w)
    <3>1. 5 \in 1 .. Len(l) /\ l[5][2] = "name" /\ m[l[5][1]] = n.name
      BY <1>1, <1>3
    <3> QED BY <1>4, <1>7, <3>1, NameMore
  <2>7. w \in Nat
    BY BudgetIs
  <2> HIDE DEF T, w
  <2>8. T(1) = 2 /\ T(2) = 3 /\ T(3) = 4 /\ T(4) = 5
    BY <2>1, <2>2, <2>3, <2>4, <2>5
  <2> QED BY <2>6, <2>7, <2>8
<1>11. Len(FieldBytes(l, m, MaxName)) = 6 + w
  BY <1>3, <1>4, <1>7, <1>10, TakenSteps
<1>12. Len(MessageBytes(m, MaxName)) =< MaxPayload
  <2> DEFINE i == Len(FlattenSeq(ItemChunks(m, MaxName)))
             t == Len(TrailerBytes(m))
             b == Budget(n, DescribeFixed + TrailerSize)
  <2>1. Len(MessageBytes(m, MaxName)) = (6 + w) + i + t /\ i \in Nat /\ t \in Nat
    BY <1>1, <1>9, <1>11, ThreeParts DEF l
  <2>2. t =< 2
    <3>1. t \in {0, 2}
      BY <1>9, TrailerIsRead
    <3> HIDE DEF t
    <3> QED BY <3>1
  <2>3. i =< b
    BY <1>8
  <2>4. b = MaxPayload - (8 + w) /\ w \in Nat /\ MaxPayload \in Nat
    BY BudgetIs
  <2> HIDE DEF i, t, b, w
  <2> QED BY <2>1, <2>2, <2>3, <2>4
<1> QED BY <1>9, <1>12, FitsWhole DEF m

LEMMA AnnouncementIsKept ==
  ASSUME NodeFits, NEW n \in AllNames, NEW p \in Byte, NEW pages \in Byte, NEW slice,
         slice.first \in Nat, slice.count \in Nat, slice.first + slice.count =< Len(Instances),
         Len(Instances) \in Byte,
         SizeOfAll(n, slice.first + 1, slice.first + slice.count) =< Budget(n, AnnounceFixed)
  PROVE  IsKept(PageOfAnnouncement(n, p, pages, slice))
<1> DEFINE m == PageOfAnnouncement(n, p, pages, slice)
           l == Layout["BindAnnounce"]
           N == {"deviceType", "capabilities", "interval", "rev", "count", "page", "pages",
                 "name"}
           a == slice.first
           c == slice.count
<1>1. /\ m.type = "BindAnnounce" /\ m.deviceType = DeviceType /\ m.capabilities = Capabilities
      /\ m.interval = Interval /\ m.rev = DescriptorRev(n) /\ m.count = Len(Instances)
      /\ m.page = p /\ m.pages = pages /\ m.name = n.name
      /\ m.items = OnPage(n, slice)
      /\ m = [x \in {"type", "items"} \cup N |-> m[x]]
  BY DEF PageOfAnnouncement
<1>2. m.items = [j \in 1 .. c |-> Describe(n, a + j)]
  BY <1>1 DEF OnPage
<1> HIDE DEF m
<1>3. /\ Len(l) = 8 /\ l[1] = <<"deviceType", "u8">> /\ l[2] = <<"capabilities", "u8">>
      /\ l[3] = <<"interval", "u16">> /\ l[4] = <<"rev", "u16">> /\ l[5] = <<"count", "u8">>
      /\ l[6] = <<"page", "u8">> /\ l[7] = <<"pages", "u8">> /\ l[8] = <<"name", "name">>
  BY PageLayouts
<1>4. "BindAnnounce" \in DOMAIN Layout /\ IsLayout(l)
  BY AllTypes, LayoutIs DEF Types
<1> HIDE DEF l
<1>5. DOMAIN l = 1 .. 8
  BY <1>3, <1>4 DEF IsLayout
<1>6. NamesIn(l, Len(l)) = N
  <2>1. \A k \in 1 .. 8 : k = 1 \/ k = 2 \/ k = 3 \/ k = 4 \/ k = 5 \/ k = 6 \/ k = 7 \/ k = 8
    OBVIOUS
  <2>2. /\ l[1][1] = "deviceType" /\ l[2][1] = "capabilities" /\ l[3][1] = "interval"
        /\ l[4][1] = "rev" /\ l[5][1] = "count" /\ l[6][1] = "page" /\ l[7][1] = "pages"
        /\ l[8][1] = "name"
    BY <1>3
  <2> QED BY SMTT(60), <1>3, <2>1, <2>2 DEF NamesIn
<1>7. Holds(l, m, MaxName)
  <2>1. /\ IsOf("u8", m.deviceType, MaxName) /\ IsOf("u8", m.capabilities, MaxName)
        /\ IsOf("u16", m.interval, MaxName)
        /\ IsOf("u16", m.rev, MaxName) /\ IsOf("u8", m.count, MaxName)
        /\ IsOf("u8", m.page, MaxName) /\ IsOf("u8", m.pages, MaxName)
        /\ IsOf("name", m.name, MaxName)
    <3>1. DescriptorRev(n) \in Half /\ IsText(n.name, MaxName)
      BY RevisionIs, NamesAre
    <3>2. DeviceType \in Byte /\ Capabilities \in Byte /\ Interval \in Half
      BY DEF NodeFits
    <3> QED BY <1>1, <3>1, <3>2 DEF IsOf
  <2>2. ASSUME NEW k \in 1 .. 8 PROVE IsOf(l[k][2], m[l[k][1]], MaxName)
    <3>1. k = 1 \/ k = 2 \/ k = 3 \/ k = 4 \/ k = 5 \/ k = 6 \/ k = 7 \/ k = 8
      OBVIOUS
    <3>2. IsOf(l[1][2], m[l[1][1]], MaxName) /\ IsOf(l[2][2], m[l[2][1]], MaxName)
      BY <1>3, <2>1
    <3>3. IsOf(l[3][2], m[l[3][1]], MaxName) /\ IsOf(l[4][2], m[l[4][1]], MaxName)
      BY <1>3, <2>1
    <3>4. IsOf(l[5][2], m[l[5][1]], MaxName) /\ IsOf(l[6][2], m[l[6][1]], MaxName)
      BY <1>3, <2>1
    <3>5. IsOf(l[7][2], m[l[7][1]], MaxName) /\ IsOf(l[8][2], m[l[8][1]], MaxName)
      BY <1>3, <2>1
    <3> QED BY <3>1, <3>2, <3>3, <3>4, <3>5
  <2> QED BY <1>5, <2>2 DEF Holds
<1>8. /\ HoldsItems(m, MaxName) /\ m.items = [j \in 1 .. Len(m.items) |-> m.items[j]]
      /\ \A j \in 1 .. Len(m.items) : IsItem(Item[m.type].layout, m.items[j])
      /\ Len(FlattenSeq(ItemChunks(m, MaxName))) = SizeOfAll(n, a + 1, a + c)
  <2>1. HasDescriptors(m, n, a, c)
    BY <1>1, <1>2 DEF Paged, HasDescriptors
  <2>2. IsFilled(m, n, a, c)
    BY <2>1, PageItems
  <2> QED BY <2>2 DEF IsFilled
<1>9. IsMessage(m, MaxName)
  <2>1. Besides(m.type) = {"type", "items"}
    BY <1>1 DEF Besides, Item
  <2>2. m.type \notin Counted /\ m.type # "DescribeResponse"
    BY <1>1 DEF Counted
  <2> QED BY <1>1, <1>4, <1>6, <1>7, <1>8, <2>1, <2>2 DEF IsMessage, l
<1> DEFINE T(k) == Taken(l, m, MaxName, k)
           w == Len(n.name)
<1>10. T(8) = 10 + w
  <2>1. T(2) = 2
    <3>1. 2 \in 0 .. Len(l)
      BY <1>3
    <3>2. \A k \in 1 .. 2 : l[k][2] \in OneByteKinds
      <4>1. \A k \in 1 .. 2 : k = 1 \/ k = 2
        OBVIOUS
      <4> QED BY <1>3, <4>1 DEF OneByteKinds
    <3> QED BY <1>4, <1>7, <3>1, <3>2, FirstTaken
  <2>2. T(3) = T(3 - 1) + 2 /\ T(4) = T(4 - 1) + 2
    <3>1. 3 \in 1 .. Len(l) /\ l[3][2] = "u16" /\ 4 \in 1 .. Len(l) /\ l[4][2] = "u16"
      BY <1>3
    <3> QED BY <1>4, <1>7, <3>1, TwoMore
  <2>3. T(5) = T(5 - 1) + 1
    <3>1. 5 \in 1 .. Len(l) /\ l[5][2] \in OneByteKinds
      BY <1>3 DEF OneByteKinds
    <3> QED BY <1>4, <1>7, <3>1, OneMore
  <2>4. T(6) = T(6 - 1) + 1
    <3>1. 6 \in 1 .. Len(l) /\ l[6][2] \in OneByteKinds
      BY <1>3 DEF OneByteKinds
    <3> QED BY <1>4, <1>7, <3>1, OneMore
  <2>5. T(7) = T(7 - 1) + 1
    <3>1. 7 \in 1 .. Len(l) /\ l[7][2] \in OneByteKinds
      BY <1>3 DEF OneByteKinds
    <3> QED BY <1>4, <1>7, <3>1, OneMore
  <2>6. T(8) = T(8 - 1) + (1 + w)
    <3>1. 8 \in 1 .. Len(l) /\ l[8][2] = "name" /\ m[l[8][1]] = n.name
      BY <1>1, <1>3
    <3> QED BY ZenonT(60), <1>4, <1>7, <3>1, NameMore
  <2>7. w \in Nat
    BY BudgetIs
  <2> HIDE DEF T, w
  <2>8. T(3) = 4 /\ T(4) = 6 /\ T(5) = 7 /\ T(6) = 8 /\ T(7) = 9
    BY <2>1, <2>2, <2>3, <2>4, <2>5
  <2> QED BY <2>6, <2>7, <2>8
<1>11. Len(FieldBytes(l, m, MaxName)) = 10 + w
  BY <1>3, <1>4, <1>7, <1>10, TakenSteps
<1>12. Len(MessageBytes(m, MaxName)) =< MaxPayload
  <2> DEFINE i == Len(FlattenSeq(ItemChunks(m, MaxName)))
             t == Len(TrailerBytes(m))
             b == Budget(n, AnnounceFixed)
  <2>1. Len(MessageBytes(m, MaxName)) = (10 + w) + i + t /\ i \in Nat /\ t \in Nat
    BY <1>1, <1>9, <1>11, ThreeParts DEF l
  <2>2. t = 0
    <3>1. t \in {0, 2} /\ (t = 2 => m.type = "DescribeResponse")
      BY <1>9, TrailerIsRead
    <3> QED BY <1>1, <3>1
  <2>3. i =< b
    BY <1>8
  <2>4. b = MaxPayload - (10 + w) /\ w \in Nat /\ MaxPayload \in Nat
    BY BudgetIs
  <2> HIDE DEF i, t, b, w
  <2> QED BY <2>1, <2>2, <2>3, <2>4
<1> QED BY <1>9, <1>12, FitsWhole DEF m

\* No page of a description or of an announcement outgrows its frame, whatever
\* the node and its instances have come to be called.
LEMMA PagesAreKept ==
  ASSUME NodeFits, NEW n \in AllNames, NEW p \in Nat
  PROVE  /\ FillDescribe(n, p) = <<>> \/ \E m : FillDescribe(n, p) = <<m>> /\ IsKept(m)
         /\ FillAnnounce(n, p) = <<>> \/ \E m : FillAnnounce(n, p) = <<m>> /\ IsKept(m)
<1>1. FillDescribe(n, p) = <<>> \/ \E m : FillDescribe(n, p) = <<m>> /\ IsKept(m)
  <2> DEFINE s == Slices(n, DescribeFixed + TrailerSize)
  <2>1. CASE p >= Len(s)
    BY <2>1 DEF FillDescribe
  <2>2. CASE ~(p >= Len(s))
    <3> DEFINE m == PageOfDescription(n, p, Len(s), s[p + 1])
    <3>1. FillDescribe(n, p) = <<m>>
      BY <2>2 DEF FillDescribe, PageOfDescription
    <3>2. IsKept(m)
      BY <2>2, PagePlace, DescriptionIsKept
    <3> QED BY <3>1, <3>2
  <2> QED BY <2>1, <2>2
<1>2. FillAnnounce(n, p) = <<>> \/ \E m : FillAnnounce(n, p) = <<m>> /\ IsKept(m)
  <2> DEFINE s == Slices(n, AnnounceFixed)
  <2>1. CASE p >= Len(s)
    BY <2>1 DEF FillAnnounce
  <2>2. CASE ~(p >= Len(s))
    <3> DEFINE m == PageOfAnnouncement(n, p, Len(s), s[p + 1])
    <3>1. FillAnnounce(n, p) = <<m>>
      BY <2>2 DEF FillAnnounce, PageOfAnnouncement
    <3>2. IsKept(m)
      BY <2>2, PagePlace, AnnouncementIsKept
    <3> QED BY <3>1, <3>2
  <2> QED BY <2>1, <2>2
<1> QED BY <1>1, <1>2

-----------------------------------------------------------------------------
(* A page of links is kept *)

Ends == [path : {p \in Seq(1 .. 254) : Len(p) =< MaxDepth}, class : DOMAIN ClassCode,
         inst : Byte, port : Byte]

\* A link with a slot and two ends that can be spelt.
Wired == [id : LinkId, src : Ends, dst : Ends]

LEMMA EndIs ==
  ASSUME NEW v
  PROVE  v \in Ends <=> IsRef(v)
BY DEF Ends, IsRef

LinkBytes == 1 + 2 * (MaxDepth + 4)

LEMMA LinkTables ==
  /\ IsLayout(LinkSpec) /\ Len(LinkSpec) = 3 /\ DOMAIN LinkSpec = 1 .. 3
  /\ LinkSpec[1] = <<"id", "u8">> /\ LinkSpec[2] = <<"src", "ref">>
  /\ LinkSpec[3] = <<"dst", "ref">>
  /\ LET l == Layout["ListLinksResponse"] IN
     /\ Len(l) = 3 /\ l[1] = <<"count", "u8">> /\ l[2] = <<"page", "u8">>
     /\ l[3] = <<"pages", "u8">>
<1>1. /\ Len(LinkSpec) = 3 /\ DOMAIN LinkSpec = 1 .. 3
      /\ LinkSpec[1] = <<"id", "u8">> /\ LinkSpec[2] = <<"src", "ref">>
      /\ LinkSpec[3] = <<"dst", "ref">>
  BY DEF LinkSpec
<1>2. IsLayout(LinkSpec)
  BY DEF LinkSpec, IsLayout, Kinds
<1>3. "ListLinksResponse" \in DOMAIN LinkLayout /\ LinkLayout \in Layouts
  BY Tables DEF Layouts
<1>4. Layout["ListLinksResponse"] = LinkLayout["ListLinksResponse"]
  BY <1>3, LayoutOf
<1>5. LinkLayout["ListLinksResponse"] = PageOf
  BY DEF LinkLayout
<1>6. /\ Len(PageOf) = 3 /\ PageOf[1] = <<"count", "u8">> /\ PageOf[2] = <<"page", "u8">>
      /\ PageOf[3] = <<"pages", "u8">>
  BY DEF PageOf
<1> QED BY <1>1, <1>2, <1>4, <1>5, <1>6

LEMMA LinkTaken ==
  ASSUME NodeFits, NEW w \in Wired
  PROVE  /\ Holds(LinkSpec, w, MaxName) /\ IsItem(LinkSpec, w)
         /\ Len(FieldBytes(LinkSpec, w, MaxName)) = LinkBytes
<1> DEFINE l == LinkSpec
<1>1. /\ IsLayout(l) /\ Len(l) = 3 /\ DOMAIN l = 1 .. 3
      /\ l[1] = <<"id", "u8">> /\ l[2] = <<"src", "ref">> /\ l[3] = <<"dst", "ref">>
  BY LinkTables
<1>2. w.id \in LinkId /\ IsRef(w.src) /\ IsRef(w.dst) /\ w = [x \in {"id", "src", "dst"} |-> w[x]]
  BY EndIs DEF Wired
<1>3. w.id \in Byte
  <2>1. MaxLinks \in Nat /\ MaxLinks =< 255
    BY LinksAssumption DEF NodeFits
  <2>2. w.id \in Nat /\ w.id =< 255
    BY <1>2, <2>1 DEF LinkId
  <2> QED BY <2>2, ByteIs
<1> HIDE DEF l
<1>4. NamesIn(l, Len(l)) = {"id", "src", "dst"}
  BY <1>1 DEF NamesIn
<1>5. IsItem(l, w)
  BY <1>2, <1>4 DEF IsItem
<1>6. Holds(l, w, MaxName)
  <2>1. IsOf("u8", w.id, MaxName) /\ IsOf("ref", w.src, MaxName) /\ IsOf("ref", w.dst, MaxName)
    BY <1>2, <1>3 DEF IsOf
  <2>2. ASSUME NEW k \in 1 .. 3 PROVE IsOf(l[k][2], w[l[k][1]], MaxName)
    <3>1. k = 1 \/ k = 2 \/ k = 3
      OBVIOUS
    <3> QED BY <3>1, <1>1, <2>1
  <2> QED BY <1>1, <2>2 DEF Holds
<1> DEFINE T(k) == Taken(l, w, MaxName, k)
<1>7. T(3) = LinkBytes
  <2>1. T(0) = 0
    BY <1>1, <1>6, TakenSteps
  <2>2. T(1) = T(1 - 1) + 1
    <3>1. 1 \in 1 .. Len(l) /\ l[1][2] \in OneByteKinds
      BY <1>1 DEF OneByteKinds
    <3> QED BY <1>1, <1>6, <3>1, OneMore
  <2>3. T(2) = T(2 - 1) + Len(Spelt("ref", w.src, MaxName))
    <3>1. 2 \in 1 .. Len(l) /\ l[2][2] = "ref" /\ w[l[2][1]] = w.src
      BY <1>1
    <3>2. T(2) = T(2 - 1) + Len(Spelt(l[2][2], w[l[2][1]], MaxName))
      BY <1>1, <1>6, <3>1, NextTaken
    <3> QED BY <3>1, <3>2
  <2>4. T(3) = T(3 - 1) + Len(Spelt("ref", w.dst, MaxName))
    <3>1. 3 \in 1 .. Len(l) /\ l[3][2] = "ref" /\ w[l[3][1]] = w.dst
      BY <1>1
    <3>2. T(3) = T(3 - 1) + Len(Spelt(l[3][2], w[l[3][1]], MaxName))
      BY <1>1, <1>6, <3>1, NextTaken
    <3> QED BY <3>1, <3>2
  <2>5. /\ Len(Spelt("ref", w.src, MaxName)) = MaxDepth + 4
        /\ Len(Spelt("ref", w.dst, MaxName)) = MaxDepth + 4
    BY <1>2, RefTaken
  <2>6. MaxDepth \in Nat
    BY MessagesAssumption
  <2> HIDE DEF T
  <2>7. T(1) = 1 /\ T(2) = 1 + (MaxDepth + 4)
    BY <2>1, <2>2, <2>3, <2>5, <2>6
  <2>8. T(3) = (1 + (MaxDepth + 4)) + (MaxDepth + 4)
    BY <2>4, <2>5, <2>7
  <2> QED BY <2>6, <2>8 DEF LinkBytes
<1>8. Len(FieldBytes(l, w, MaxName)) = LinkBytes
  BY <1>1, <1>6, <1>7, TakenSteps
<1> QED BY <1>5, <1>6, <1>8 DEF l

\* A page of links takes three bytes and as many as its links.
LEMMA LinkItems ==
  ASSUME NodeFits, NEW t \in Seq(Wired), Len(t) =< LinksPerPage, NEW m,
         m.type = "ListLinksResponse", m.items = t
  PROVE  /\ HoldsItems(m, MaxName) /\ m.items = [j \in 1 .. Len(m.items) |-> m.items[j]]
         /\ \A j \in 1 .. Len(m.items) : IsItem(Item[m.type].layout, m.items[j])
         /\ Len(FlattenSeq(ItemChunks(m, MaxName))) =< MaxPayload - 3
<1> DEFINE c == Len(t)
           e == SpeltItems(m, MaxName)
           s == LinkBytes
           L == LinksPerPage
<1>1. m.type \in DOMAIN Item /\ Item[m.type].layout = LinkSpec /\ Item[m.type].most = MaxPage
  BY DEF Item
<1>2. c \in Nat /\ DOMAIN t = 1 .. c /\ t = [j \in 1 .. c |-> t[j]]
      /\ \A j \in 1 .. c : t[j] \in Wired
  OBVIOUS
<1>3. c =< MaxPage
  <2>1. L =< MaxPage /\ L \in Nat /\ MaxPage \in Nat
    BY LinksAssumption, MessagesAssumption DEF NodeFits
  <2> QED BY <1>2, <2>1
<1>4. \A j \in 1 .. c : /\ Holds(LinkSpec, t[j], MaxName) /\ IsItem(LinkSpec, t[j])
                        /\ Len(FieldBytes(LinkSpec, t[j], MaxName)) = s
  BY <1>2, LinkTaken
<1> HIDE DEF s
<1>5. HoldsItems(m, MaxName)
  BY <1>1, <1>2, <1>3, <1>4 DEF HoldsItems
<1>6. /\ e \in Seq(Seq(Byte)) /\ Len(e) = c
      /\ FlattenSeq(ItemChunks(m, MaxName)) = FlattenSeq(e)
  BY <1>1, <1>5, ItemsSpelt
<1>7. \A j \in 1 .. c : Len(e[j]) = s
  BY <1>1, <1>4 DEF SpeltItems
<1> HIDE DEF c, e
<1>8. /\ Reach(e, 0) = 0 /\ Reach(e, c) = Len(FlattenSeq(e))
      /\ \A j \in 1 .. c : Reach(e, j) = Reach(e, j - 1) + Len(e[j])
  BY <1>6, ReachSteps
<1> DEFINE f(j) == j * s
<1>9. s \in Nat /\ s > 0
  BY MessagesAssumption DEF s, LinkBytes
<1>10. f(0) = 0 /\ \A j \in 1 .. c : f(j) = f(j - 1) + s
  BY <1>2, <1>9
<1> HIDE DEF f
<1> DEFINE bad == {j \in 0 .. c : Reach(e, j) # f(j)}
<1>11. ASSUME bad # {} PROVE FALSE
  <2>0. bad \subseteq Nat
    OBVIOUS
  <2>1. PICK i \in bad : \A j \in bad : i =< j
    BY <1>11, <2>0, LeastExists
  <2>2. i \in 0 .. c /\ Reach(e, i) # f(i) /\ i # 0
    BY <1>8, <1>10
  <2>3. i \in 1 .. c /\ i - 1 \in 0 .. c /\ i - 1 < i
    BY <1>2, <2>2
  <2>4. i - 1 \notin bad
    <3> HIDE DEF bad
    <3> QED BY <2>0, <2>1, <2>3
  <2>5. Reach(e, i - 1) = f(i - 1)
    BY <2>3, <2>4
  <2> QED BY <1>7, <1>8, <1>10, <2>2, <2>3, <2>5
<1>12. Len(FlattenSeq(e)) = c * s
  BY <1>2, <1>8, <1>11 DEF f
<1>13. c * s =< MaxPayload - 3
  <2> DEFINE P == MaxPayload - 3
  <2>1. P \in Nat
    BY MessagesAssumption DEF NodeFits
  <2>2. L = P \div s
    <3>1. s = 1 + 2 * (1 + MaxDepth + 3)
      BY MessagesAssumption DEF s, LinkBytes
    <3> QED BY <3>1, ConversationAssumption
  <2> HIDE DEF P, L
  <2>3. L \in Nat /\ L * s =< P
    BY <1>9, <2>1, <2>2
  <2>4. c =< L
    BY DEF c, L
  <2>5. c * s =< L * s
    BY <1>2, <1>9, <2>3, <2>4
  <2>6. c * s \in Nat /\ L * s \in Nat
    BY <1>2, <1>9, <2>3
  <2> QED BY <2>1, <2>3, <2>5, <2>6 DEF P
<1> QED BY <1>1, <1>2, <1>4, <1>5, <1>6, <1>12, <1>13 DEF c

\* Wires with slots of their own.
Sound(wires) ==
  /\ wires \in Seq(Wired)
  /\ \A j, k \in DOMAIN wires : j # k => wires[j].id # wires[k].id

LEMMA SetLinkSound ==
  ASSUME NEW wires, Sound(wires), NEW spec,
         spec = [id |-> spec.id, src |-> spec.src, dst |-> spec.dst],
         IsRef(spec.src), IsRef(spec.dst)
  PROVE  Sound(SetLink(wires, spec))
<1>1. CASE SetResult(wires, spec) # "Ok"
  BY <1>1 DEF SetLink
<1>2. CASE SetResult(wires, spec) = "Ok"
  <2>1. wires \in Seq(Wired) /\ spec \in Wired
    <3>1. spec.id \in LinkId
      BY <1>2 DEF SetResult
    <3>2. spec.src \in Ends /\ spec.dst \in Ends
      BY EndIs
    <3> QED BY <3>1, <3>2 DEF Wired, Sound
  <2>2. CASE \E k \in DOMAIN wires : wires[k].id = spec.id
    <3> DEFINE new == [k \in DOMAIN wires |-> IF wires[k].id = spec.id THEN spec ELSE wires[k]]
    <3>1. SetLink(wires, spec) = new
      BY <1>2, <2>2 DEF SetLink
    <3>2. new \in Seq(Wired) /\ DOMAIN new = DOMAIN wires
      BY <2>1
    <3>3. \A j, k \in DOMAIN new : j # k => new[j].id # new[k].id
      BY <2>1, <3>2 DEF Sound
    <3> QED BY <3>1, <3>2, <3>3 DEF Sound
  <2>3. CASE ~ \E k \in DOMAIN wires : wires[k].id = spec.id
    <3> DEFINE new == Append(wires, spec)
    <3>1. SetLink(wires, spec) = new
      BY <1>2, <2>3 DEF SetLink
    <3>2. /\ new \in Seq(Wired) /\ DOMAIN new = 1 .. Len(wires) + 1
          /\ DOMAIN wires = 1 .. Len(wires) /\ Len(wires) \in Nat
          /\ \A k \in DOMAIN wires : new[k] = wires[k]
          /\ new[Len(wires) + 1] = spec
      BY <2>1
    <3> HIDE DEF new
    <3>3. \A k \in DOMAIN new : k \in DOMAIN wires \/ k = Len(wires) + 1
      BY <3>2
    <3>4. \A j, k \in DOMAIN new : j # k => new[j].id # new[k].id
      BY <2>1, <2>3, <3>2, <3>3 DEF Sound
    <3> QED BY <3>1, <3>2, <3>4 DEF Sound
  <2> QED BY <2>2, <2>3
<1> QED BY <1>1, <1>2

LEMMA RemoveAtSound ==
  ASSUME NEW wires, Sound(wires), NEW i \in DOMAIN wires
  PROVE  Sound(RemoveAt(wires, i))
<1> DEFINE less == RemoveAt(wires, i)
           at   == [k \in 1 .. Len(wires) - 1 |-> IF k < i THEN k ELSE k + 1]
<1>1. wires \in Seq(Wired) /\ i \in 1 .. Len(wires) /\ Len(wires) \in Nat
  BY DEF Sound
<1>2. /\ less \in Seq(Wired) /\ Len(less) = Len(wires) - 1
      /\ \A k \in 1 .. Len(wires) - 1 : less[k] = wires[at[k]]
  <2> DEFINE before == SubSeq(wires, 1, i - 1)
             after  == SubSeq(wires, i + 1, Len(wires))
  <2>1. /\ before \in Seq(Wired) /\ Len(before) = i - 1
        /\ \A k \in 1 .. i - 1 : before[k] = wires[k]
    BY <1>1
  <2>2. /\ after \in Seq(Wired) /\ Len(after) = Len(wires) - i
        /\ \A k \in 1 .. Len(wires) - i : after[k] = wires[k + i]
    BY <1>1
  <2>3. less = before \o after
    BY DEF RemoveAt
  <2> HIDE DEF before, after, less
  <2>4. /\ before \o after \in Seq(Wired)
        /\ Len(before \o after) = Len(before) + Len(after)
        /\ \A k \in 1 .. Len(before) + Len(after) :
             (before \o after)[k] = IF k =< Len(before) THEN before[k]
                                   ELSE after[k - Len(before)]
    BY SMTT(60), <2>1, <2>2
  <2>5. ASSUME NEW k \in 1 .. Len(wires) - 1 PROVE less[k] = wires[at[k]]
    <3>0. /\ k \in 1 .. Len(before) + Len(after) /\ Len(before) = i - 1
          /\ i \in Nat /\ k \in Nat
      BY <1>1, <2>1, <2>2
    <3>1. CASE k < i
      <4>1. less[k] = before[k]
        BY <3>0, <3>1, <2>3, <2>4
      <4>2. before[k] = wires[k] /\ at[k] = k
        BY <3>0, <3>1, <2>1
      <4> QED BY <4>1, <4>2
    <3>2. CASE k >= i
      <4>0. ~(k =< Len(before)) /\ k - Len(before) = k - (i - 1)
        BY <3>0, <3>2
      <4>1. less[k] = after[k - (i - 1)]
        BY <3>0, <4>0, <2>3, <2>4
      <4>2. after[k - (i - 1)] = wires[k + 1]
        BY <3>2, <1>1, <2>2
      <4> QED BY <3>2, <1>1, <4>1, <4>2
    <3> QED BY <1>1, <3>1, <3>2
  <2>6. Len(less) = Len(wires) - 1
    BY <1>1, <2>1, <2>2, <2>3, <2>4
  <2>7. less \in Seq(Wired)
    BY <2>3, <2>4
  <2> QED BY <2>5, <2>6, <2>7
<1>3. \A k \in DOMAIN less : at[k] \in DOMAIN wires /\ less[k] = wires[at[k]]
  BY SMTT(30), <1>1, <1>2
<1>4. \A j, k \in DOMAIN less : j # k => at[j] # at[k]
  BY <1>1, <1>2
<1> HIDE DEF less, at
<1>5. ASSUME NEW j \in DOMAIN less, NEW k \in DOMAIN less, j # k
      PROVE  less[j].id # less[k].id
  <2>1. at[j] \in DOMAIN wires /\ at[k] \in DOMAIN wires /\ at[j] # at[k]
    BY <1>3, <1>4, <1>5
  <2>2. wires[at[j]].id # wires[at[k]].id
    BY <2>1 DEF Sound
  <2> QED BY <1>3, <2>2
<1> QED BY <1>2, <1>5 DEF less, Sound

LEMMA ClearLinkSound ==
  ASSUME NEW wires, Sound(wires), NEW id
  PROVE  Sound(ClearLink(wires, id))
<1> DEFINE hits == {k \in 1 .. Len(wires) : wires[k].id = id}
<1>1. Sound(<<>>)
  BY DEF Sound
<1>2. CASE id = AllLinks
  BY <1>1, <1>2 DEF ClearLink
<1>3. CASE id # AllLinks /\ hits = {}
  BY <1>3 DEF ClearLink, RemoveFirstMatch
<1>4. CASE id # AllLinks /\ hits # {}
  <2>1. PICK i : /\ ClearLink(wires, id) = RemoveAt(wires, i)
                 /\ i = SelectInSeq(wires, LAMBDA l : l.id = id)
    BY <1>4 DEF ClearLink, RemoveFirstMatch
  <2>2. i = Min(hits)
    BY <1>4, <2>1 DEF SelectInSeq
  <2>3. hits \in SUBSET Nat /\ hits \subseteq DOMAIN wires
    BY DEF Sound
  <2>4. \A m, n \in hits : m =< n
    BY <2>3 DEF Sound
  <2>5. i \in DOMAIN wires
    BY <1>4, <2>2, <2>3, <2>4 DEF Min
  <2> QED BY <2>1, <2>5, RemoveAtSound
<1> QED BY <1>2, <1>3, <1>4

\* There are MaxLinks slots.
LEMMA SlotsSuffice ==
  ASSUME NEW wires, Sound(wires)
  PROVE  Len(wires) =< MaxLinks /\ Len(wires) \in Nat
<1> DEFINE n == Len(wires)
           slot == [k \in 1 .. n |-> wires[k].id]
<1>1. wires \in Seq(Wired) /\ n \in Nat /\ DOMAIN wires = 1 .. n
  BY DEF Sound
<1>2. slot \in Injection(1 .. n, LinkId)
  <2>1. \A k \in 1 .. n : wires[k].id \in LinkId
    <3>1. \A k \in 1 .. n : wires[k] \in Wired
      BY <1>1
    <3> HIDE DEF n
    <3> QED BY <3>1 DEF Wired
  <2>2. \A j, k \in 1 .. n : wires[j].id = wires[k].id => j = k
    BY <1>1 DEF Sound
  <2> HIDE DEF n
  <2> QED BY <2>1, <2>2 DEF Injection, IsInjective
<1> HIDE DEF n, slot
<1>3. IsFiniteSet(LinkId) /\ Cardinality(LinkId) = MaxLinks
  <2>1. 0 \in Int /\ MaxLinks - 1 \in Int /\ ~(0 > MaxLinks - 1) /\ MaxLinks \in Nat
    BY LinksAssumption
  <2>2. /\ IsFiniteSet(0 .. MaxLinks - 1)
        /\ Cardinality(0 .. MaxLinks - 1) = IF 0 > MaxLinks - 1 THEN 0 ELSE MaxLinks - 1 - 0 + 1
    BY ONLY <2>1, FS_Interval
  <2> QED BY <2>1, <2>2 DEF LinkId
<1>4. Cardinality(1 .. n) = n
  <2>1. 1 \in Int /\ n \in Int
    BY <1>1
  <2>2. Cardinality(1 .. n) = IF 1 > n THEN 0 ELSE n - 1 + 1
    BY ONLY <2>1, FS_Interval
  <2> QED BY <1>1, <2>2
<1>5. Cardinality(1 .. n) =< Cardinality(LinkId)
  BY <1>2, <1>3, FS_Injection
<1> QED BY <1>1, <1>3, <1>4, <1>5 DEF n

\* No page of the links has more of them than it has room for.
LEMMA LinkPage ==
  ASSUME NEW wires, Sound(wires), NEW page \in Nat
  PROVE  ListPage(wires, page) \in Seq(Wired) /\ Len(ListPage(wires, page)) =< LinksPerPage
<1> DEFINE L == LinksPerPage
           a == page * L
           b == (page + 1) * L
           n == Len(wires)
           h == IF n < b THEN n ELSE b
           t == SubSeq(wires, a + 1, h)
<1>1. L \in Nat \ {0} /\ n \in Nat /\ wires \in Seq(Wired)
  BY LinksAssumption DEF Sound
<1> HIDE DEF L
<1>2. a \in Nat /\ b = a + L
  BY <1>1
<1>3. t = ListPage(wires, page)
  BY DEF ListPage, L
<1> HIDE DEF a, b
<1>4. h \in Nat /\ h =< n /\ h =< a + L
  BY <1>1, <1>2
<1>5. CASE a + 1 =< h
  <2>1. t \in Seq(Wired) /\ Len(t) = h - a
    <3> HIDE DEF h
    <3> QED BY <1>1, <1>2, <1>4, <1>5
  <2> HIDE DEF t, h
  <2> QED BY <1>1, <1>2, <1>3, <1>4, <2>1 DEF L
<1>6. CASE ~(a + 1 =< h)
  <2>1. t = <<>>
    <3> HIDE DEF h
    <3> QED BY <1>1, <1>2, <1>4, <1>6
  <2> HIDE DEF t
  <2>2. t \in Seq(Wired) /\ Len(t) = 0
    BY <2>1
  <2> QED BY <1>1, <1>3, <2>2 DEF L
<1> QED BY <1>5, <1>6

LEMMA LinkPages ==
  ASSUME NodeFits, NEW wires, Sound(wires)
  PROVE  ListPageCount(wires) \in Byte /\ Len(wires) \in Byte
<1> DEFINE n == Len(wires)
           L == LinksPerPage
           q == (n + L - 1) \div L
<1>1. n \in Nat /\ n =< 255 /\ wires \in Seq(Wired)
  <2>1. n =< MaxLinks /\ n \in Nat /\ MaxLinks \in Nat
    BY SlotsSuffice, LinksAssumption
  <2> QED BY <2>1 DEF NodeFits, Sound
<1>2. n \in Byte
  BY <1>1, ByteIs
<1>3. L \in Nat \ {0}
  BY LinksAssumption
<1>4. CASE wires = <<>>
  <2>1. ListPageCount(wires) = 1
    BY <1>4 DEF ListPageCount
  <2> QED BY <1>2, <2>1, ByteIs
<1>5. CASE wires # <<>>
  <2>1. ListPageCount(wires) = q
    BY <1>5 DEF ListPageCount
  <2> HIDE DEF n, L
  <2>2. q \in Nat /\ q * L =< n + L - 1
    BY <1>1, <1>3
  <2>3. q =< n
    <3> HIDE DEF q
    <3>1. SUFFICES ASSUME q >= n + 1 PROVE FALSE
      BY <1>1, <2>2
    <3>2. q * L >= (n + 1) * L
      BY <1>1, <1>3, <2>2, <3>1
    <3>3. (n + 1) * L = n * L + L /\ n * L >= n /\ n * L \in Nat
      BY <1>1, <1>3
    <3>4. q * L \in Nat
      BY <1>3, <2>2
    <3> QED BY <1>1, <1>3, <2>2, <3>2, <3>3, <3>4
  <2>4. q =< 255
    <3> HIDE DEF q
    <3> QED BY <1>1, <2>2, <2>3
  <2>5. q \in Byte
    <3> HIDE DEF q
    <3> QED BY <2>2, <2>4, ByteIs
  <2> QED BY <1>2, <2>1, <2>5 DEF n
<1> QED BY <1>2, <1>4, <1>5

\* No page of the links outgrows its frame.
LEMMA ListAnswer ==
  ASSUME NodeFits, NEW wires, Sound(wires), NEW page \in Byte
  PROVE  IsKept([type |-> "ListLinksResponse", count |-> Len(wires), page |-> page,
                 pages |-> ListPageCount(wires), items |-> ListPage(wires, page)])
<1> DEFINE m == [type |-> "ListLinksResponse", count |-> Len(wires), page |-> page,
                 pages |-> ListPageCount(wires), items |-> ListPage(wires, page)]
           l == Layout["ListLinksResponse"]
           N == {"count", "page", "pages"}
<1>1. /\ m.type = "ListLinksResponse" /\ m.count = Len(wires) /\ m.page = page
      /\ m.pages = ListPageCount(wires) /\ m.items = ListPage(wires, page)
      /\ m = [x \in {"type", "items"} \cup N |-> m[x]]
  OBVIOUS
<1> HIDE DEF m
<1>2. page \in Nat
  BY DEF Byte
<1>3. ListPage(wires, page) \in Seq(Wired) /\ Len(ListPage(wires, page)) =< LinksPerPage
  BY <1>2, LinkPage
<1>4. /\ HoldsItems(m, MaxName) /\ m.items = [j \in 1 .. Len(m.items) |-> m.items[j]]
      /\ \A j \in 1 .. Len(m.items) : IsItem(Item[m.type].layout, m.items[j])
      /\ Len(FlattenSeq(ItemChunks(m, MaxName))) =< MaxPayload - 3
  BY <1>1, <1>3, LinkItems
<1>5. Len(wires) \in Byte /\ ListPageCount(wires) \in Byte
  BY LinkPages
<1>6. /\ Len(l) = 3 /\ l[1] = <<"count", "u8">> /\ l[2] = <<"page", "u8">>
      /\ l[3] = <<"pages", "u8">>
  BY LinkTables
<1>7. "ListLinksResponse" \in DOMAIN Layout /\ IsLayout(l)
  BY AllTypes, LayoutIs DEF Types
<1> HIDE DEF l
<1>8. DOMAIN l = 1 .. 3 /\ NamesIn(l, Len(l)) = N
  BY <1>6, <1>7 DEF IsLayout, NamesIn
<1>9. Holds(l, m, MaxName)
  <2>1. IsOf("u8", m.count, MaxName) /\ IsOf("u8", m.page, MaxName) /\ IsOf("u8", m.pages, MaxName)
    BY <1>1, <1>5 DEF IsOf
  <2>2. ASSUME NEW k \in 1 .. 3 PROVE IsOf(l[k][2], m[l[k][1]], MaxName)
    <3>1. k = 1 \/ k = 2 \/ k = 3
      OBVIOUS
    <3> QED BY <3>1, <1>6, <2>1
  <2> QED BY <1>8, <2>2 DEF Holds
<1>10. IsMessage(m, MaxName)
  <2>1. Besides(m.type) = {"type", "items"}
    BY <1>1 DEF Besides, Item
  <2>2. m.type \notin Counted /\ m.type # "DescribeResponse"
    BY <1>1 DEF Counted
  <2> QED BY <1>1, <1>4, <1>7, <1>8, <1>9, <2>1, <2>2 DEF IsMessage, l
<1>11. Len(FieldBytes(l, m, MaxName)) = 3
  <2>1. 3 \in 0 .. Len(l)
    BY <1>6
  <2>2. \A k \in 1 .. 3 : l[k][2] \in OneByteKinds
    <3>1. \A k \in 1 .. 3 : k = 1 \/ k = 2 \/ k = 3
      OBVIOUS
    <3> QED BY <1>6, <3>1 DEF OneByteKinds
  <2>3. Taken(l, m, MaxName, 3) = 3
    BY <1>7, <1>9, <2>1, <2>2, FirstTaken
  <2> QED BY <1>6, <1>7, <1>9, <2>3, TakenSteps
<1>12. Len(MessageBytes(m, MaxName)) =< MaxPayload
  <2> DEFINE i == Len(FlattenSeq(ItemChunks(m, MaxName)))
             t == Len(TrailerBytes(m))
  <2>1. Len(MessageBytes(m, MaxName)) = 3 + i + t /\ i \in Nat /\ t \in Nat
    BY <1>1, <1>10, <1>11, ThreeParts DEF l
  <2>2. t = 0
    <3>1. t \in {0, 2} /\ (t = 2 => m.type = "DescribeResponse")
      BY <1>10, TrailerIsRead
    <3> QED BY <1>1, <3>1
  <2>3. i =< MaxPayload - 3 /\ MaxPayload \in Nat
    BY <1>4, MessagesAssumption
  <2> HIDE DEF i, t
  <2> QED BY <2>1, <2>2, <2>3
<1> QED BY <1>10, <1>12, FitsWhole DEF m

-----------------------------------------------------------------------------
(* What is asked *)

LEMMA AskedIsRead ==
  ASSUME RequestsAreMessages, NEW a \in Agendas, NEW m \in a
  PROVE  LET q == Asked(m).read IN
         /\ q.ok = TRUE
         /\ \/ q.m = [type |-> "Unknown"]
            \/ IsMessage(m, PeerName) /\ q.m = MessageRead(m, MaxName)
<1>1. FlagsOf(m) \in Byte
  BY DEF FlagsOf, AckRequested, Byte
<1>2. CASE m = [type |-> "Unknown"]
  <2>1. Asked(m).read = [ok |-> TRUE, m |-> [type |-> "Unknown"]]
    BY <1>1, <1>2, UnknownIsRead DEF Asked
  <2> QED BY <2>1
<1>3. CASE IsMessage(m, PeerName) /\ Encode(m, PeerName).ok
  <2>1. Asked(m) = [meant |-> m, read |-> [ok |-> TRUE, m |-> MessageRead(m, MaxName)]]
    BY <1>1, <1>3, SentIsRead DEF Asked
  <2> QED BY <1>3, <2>1
<1> QED BY <1>2, <1>3 DEF RequestsAreMessages

\* Every field but a name is read as it was.
LEMMA FieldOfRead ==
  ASSUME NEW m, NEW limit, IsMessage(m, limit), NEW room, NEW l, l = Layout[m.type],
         NEW k \in 1 .. Len(l), l[k][2] # "name"
  PROVE  /\ MessageRead(m, room).type = m.type
         /\ MessageRead(m, room)[l[k][1]] = m[l[k][1]] /\ IsOf(l[k][2], m[l[k][1]], limit)
<1> DEFINE x == l[k][1]
           N == NamesIn(l, Len(l))
           q == MessageRead(m, room)
<1>1. /\ m.type \in DOMAIN Layout /\ IsLayout(l) /\ Holds(l, m, limit)
      /\ m = [y \in Besides(m.type) \cup N |-> m[y]]
  BY LayoutIs DEF IsMessage
<1>2. k \in DOMAIN l
  BY <1>1 DEF IsLayout
<1>3. IsOf(l[k][2], m[x], limit)
  BY <1>1, <1>2 DEF Holds
<1>4. x \in N /\ x \notin {"items", "trailer"}
  BY <1>1, <1>2 DEF NamesIn, IsLayout
<1>5. KindIn(l, x) = l[k][2]
  <2>1. (CHOOSE j \in DOMAIN l : l[j][1] = x) = k
    BY <1>1, <1>2 DEF IsLayout
  <2> QED BY <2>1 DEF KindIn
<1> HIDE DEF N
<1>6. x \in DOMAIN m /\ "type" \in DOMAIN m
  <2>1. "type" \in Besides(m.type)
    BY DEF Besides
  <2> QED BY <1>1, <1>4, <2>1
<1>7. q.type = m.type
  BY <1>6 DEF MessageRead
<1>8. q[x] = IF x = "type" THEN m.type ELSE AsRead(KindIn(l, x), m[x], room)
  <2> HIDE DEF x
  <2> QED BY <1>4, <1>6 DEF MessageRead
<1>9. AsRead(KindIn(l, x), m[x], room) = m[x]
  BY <1>5 DEF AsRead
<1> QED BY <1>3, <1>7, <1>8, <1>9

LEMMA RequestLayouts ==
  /\ LET l == Layout["WriteRequest"] IN
     /\ Len(l) = 4 /\ l[1] = <<"class", "class">> /\ l[2] = <<"inst", "u8">>
     /\ l[3] = <<"port", "u8">> /\ l[4] = <<"value", "value">>
  /\ LET l == Layout["SetPolicyRequest"] IN
     /\ Len(l) = 5 /\ l[1] = <<"class", "class">> /\ l[2] = <<"inst", "u8">>
     /\ l[3] = <<"port", "u8">> /\ l[4] = <<"interval", "u16">> /\ l[5] = <<"deadband", "value">>
  /\ LET l == Layout["SetLinkRequest"] IN
     /\ Len(l) = 3 /\ l[1] = <<"id", "u8">> /\ l[2] = <<"src", "ref">> /\ l[3] = <<"dst", "ref">>
  /\ LET l == Layout["ListLinksRequest"] IN Len(l) = 1 /\ l[1] = <<"page", "u8">>
<1>1. /\ "WriteRequest" \in DOMAIN ChangeLayout /\ "SetPolicyRequest" \in DOMAIN ChangeLayout
      /\ "SetLinkRequest" \in DOMAIN LinkLayout /\ "ListLinksRequest" \in DOMAIN LinkLayout
  BY Tables
<1>2. ChangeLayout \in Layouts /\ LinkLayout \in Layouts
  BY DEF Layouts
<1>3. /\ Layout["WriteRequest"] = ChangeLayout["WriteRequest"]
      /\ Layout["SetPolicyRequest"] = ChangeLayout["SetPolicyRequest"]
      /\ Layout["SetLinkRequest"] = LinkLayout["SetLinkRequest"]
      /\ Layout["ListLinksRequest"] = LinkLayout["ListLinksRequest"]
  BY <1>1, <1>2, LayoutOf
<1> DEFINE a == PortFields \o << <<"value", "value">> >>
           b == PortFields \o << <<"interval", "u16">>, <<"deadband", "value">> >>
<1>4. /\ ChangeLayout["WriteRequest"] = a /\ ChangeLayout["SetPolicyRequest"] = b
      /\ LinkLayout["SetLinkRequest"] = LinkSpec /\ LinkLayout["ListLinksRequest"] = FromPage
  BY DEF ChangeLayout, LinkLayout, Entry, Policy
<1>5. /\ Len(a) = 4 /\ a[1] = <<"class", "class">> /\ a[2] = <<"inst", "u8">>
      /\ a[3] = <<"port", "u8">> /\ a[4] = <<"value", "value">>
  BY DEF PortFields
<1>6. /\ Len(b) = 5 /\ b[1] = <<"class", "class">> /\ b[2] = <<"inst", "u8">>
      /\ b[3] = <<"port", "u8">> /\ b[4] = <<"interval", "u16">> /\ b[5] = <<"deadband", "value">>
  BY DEF PortFields
<1>7. Len(FromPage) = 1 /\ FromPage[1] = <<"page", "u8">>
  BY DEF FromPage
<1> HIDE DEF a, b
<1> QED BY <1>3, <1>4, <1>5, <1>6, <1>7, LinkTables

LEMMA RequestIs ==
  ASSUME RequestsAreMessages, Saying, NEW q, down # <<>>, q = Head(down).read
  PROVE  /\ q.ok = TRUE
         /\ q.m.type = "WriteRequest" =>
              /\ q.m.class \in DOMAIN ClassCode /\ q.m.inst \in Byte /\ q.m.port \in Byte
              /\ IsValue(q.m.value)
         /\ q.m.type = "SetPolicyRequest" =>
              /\ q.m.class \in DOMAIN ClassCode /\ q.m.inst \in Byte /\ q.m.port \in Byte
              /\ q.m.interval \in Half /\ IsValue(q.m.deadband)
         /\ q.m.type = "SetLinkRequest" =>
              q.m.id \in Byte /\ IsRef(q.m.src) /\ IsRef(q.m.dst)
         /\ q.m.type = "ListLinksRequest" => q.m.page \in Byte
         /\ q.m.type = "DescribeRequest" => q.m.page \in Nat
         /\ MeasuresFit /\ q.m.type = "ReadRequest" =>
              \A n \in AllNames : IsKept(Read(q.m, n, Shown))
<1>1. PICK m \in agenda : q = Asked(m).read
  <2>1. PICK m \in agenda : down = <<Asked(m)>>
    BY DEF Saying
  <2> QED BY <2>1
<1>2. agenda \in Agendas
  BY DEF Saying
<1>3. /\ q.ok = TRUE
      /\ q.m = [type |-> "Unknown"] \/ (IsMessage(m, PeerName) /\ q.m = MessageRead(m, MaxName))
  BY <1>1, <1>2, AskedIsRead
<1>4. q.m.type = "DescribeRequest" => q.m.page \in Nat
  BY <1>1, <1>2, RequestsAssumption
<1>5. MeasuresFit /\ q.m.type = "ReadRequest" => \A n \in AllNames : IsKept(Read(q.m, n, Shown))
  BY <1>1, <1>2 DEF MeasuresFit
<1>6. CASE q.m = [type |-> "Unknown"]
  <2>1. q.m.type = "Unknown"
    BY <1>6
  <2> QED BY <1>3, <2>1
<1>7. CASE IsMessage(m, PeerName) /\ q.m = MessageRead(m, MaxName)
  <2> DEFINE l == Layout[m.type]
  <2>1. \A k \in 1 .. Len(l) : l[k][2] # "name" =>
          /\ q.m.type = m.type /\ IsOf(l[k][2], q.m[l[k][1]], PeerName)
    <3>1. ASSUME NEW k \in 1 .. Len(l), l[k][2] # "name"
          PROVE  q.m.type = m.type /\ IsOf(l[k][2], q.m[l[k][1]], PeerName)
      <4> DEFINE r == MessageRead(m, MaxName)
      <4>1. l = Layout[m.type]
        OBVIOUS
      <4> HIDE DEF l
      <4>2. r.type = m.type /\ r[l[k][1]] = m[l[k][1]] /\ IsOf(l[k][2], m[l[k][1]], PeerName)
        BY <1>7, <3>1, <4>1, FieldOfRead
      <4>3. q.m = r
        BY <1>7
      <4> HIDE DEF r
      <4> QED BY <4>2, <4>3
    <3> HIDE DEF l
    <3> QED BY <3>1
  <2>2. q.m.type = m.type
    <3>1. "type" \in DOMAIN m
      BY <1>7 DEF IsMessage, Besides
    <3> QED BY <1>7, <3>1 DEF MessageRead
  <2>3. ASSUME m.type = "WriteRequest"
        PROVE  /\ q.m.class \in DOMAIN ClassCode /\ q.m.inst \in Byte /\ q.m.port \in Byte
               /\ IsValue(q.m.value)
    <3>1. /\ Len(l) = 4 /\ l[1] = <<"class", "class">> /\ l[2] = <<"inst", "u8">>
          /\ l[3] = <<"port", "u8">> /\ l[4] = <<"value", "value">>
      BY <2>3, RequestLayouts
    <3> HIDE DEF l
    <3>2. /\ IsOf("class", q.m.class, PeerName) /\ IsOf("u8", q.m.inst, PeerName)
          /\ IsOf("u8", q.m.port, PeerName) /\ IsOf("value", q.m.value, PeerName)
      <4>1. 1 \in 1 .. Len(l) /\ 2 \in 1 .. Len(l) /\ 3 \in 1 .. Len(l) /\ 4 \in 1 .. Len(l)
        BY <3>1
      <4> QED BY <2>1, <3>1, <4>1
    <3> QED BY <3>2 DEF IsOf
  <2>4. ASSUME m.type = "SetPolicyRequest"
        PROVE  /\ q.m.class \in DOMAIN ClassCode /\ q.m.inst \in Byte /\ q.m.port \in Byte
               /\ q.m.interval \in Half /\ IsValue(q.m.deadband)
    <3>1. /\ Len(l) = 5 /\ l[1] = <<"class", "class">> /\ l[2] = <<"inst", "u8">>
          /\ l[3] = <<"port", "u8">> /\ l[4] = <<"interval", "u16">>
          /\ l[5] = <<"deadband", "value">>
      BY <2>4, RequestLayouts
    <3> HIDE DEF l
    <3>2. /\ IsOf("class", q.m.class, PeerName) /\ IsOf("u8", q.m.inst, PeerName)
          /\ IsOf("u8", q.m.port, PeerName) /\ IsOf("u16", q.m.interval, PeerName)
          /\ IsOf("value", q.m.deadband, PeerName)
      <4>1. /\ 1 \in 1 .. Len(l) /\ 2 \in 1 .. Len(l) /\ 3 \in 1 .. Len(l) /\ 4 \in 1 .. Len(l)
            /\ 5 \in 1 .. Len(l)
        BY <3>1
      <4> QED BY <2>1, <3>1, <4>1
    <3> QED BY <3>2 DEF IsOf
  <2>5. ASSUME m.type = "SetLinkRequest"
        PROVE  q.m.id \in Byte /\ IsRef(q.m.src) /\ IsRef(q.m.dst)
    <3>1. /\ Len(l) = 3 /\ l[1] = <<"id", "u8">> /\ l[2] = <<"src", "ref">>
          /\ l[3] = <<"dst", "ref">>
      BY <2>5, RequestLayouts
    <3> HIDE DEF l
    <3>2. /\ IsOf("u8", q.m.id, PeerName) /\ IsOf("ref", q.m.src, PeerName)
          /\ IsOf("ref", q.m.dst, PeerName)
      <4>1. 1 \in 1 .. Len(l) /\ 2 \in 1 .. Len(l) /\ 3 \in 1 .. Len(l)
        BY <3>1
      <4> QED BY <2>1, <3>1, <4>1
    <3> QED BY <3>2 DEF IsOf
  <2>6. ASSUME m.type = "ListLinksRequest" PROVE q.m.page \in Byte
    <3>1. Len(l) = 1 /\ l[1] = <<"page", "u8">>
      BY <2>6, RequestLayouts
    <3> HIDE DEF l
    <3>2. IsOf("u8", q.m.page, PeerName)
      <4>1. 1 \in 1 .. Len(l)
        BY <3>1
      <4> QED BY <2>1, <3>1, <4>1
    <3> QED BY <3>2 DEF IsOf
  <2> QED BY <1>3, <1>4, <1>5, <2>2, <2>3, <2>4, <2>5, <2>6
<1> QED BY <1>3, <1>4, <1>5, <1>6, <1>7

-----------------------------------------------------------------------------
(* What is heard is what was meant *)

\* What a frame that survives is: its message whole at both ends.
AsMeant(x) == [meant |-> x, read |-> [ok |-> TRUE, m |-> x]]

MeansSo(frames) ==
  \A k \in DOMAIN frames : IsKept(frames[k].meant) /\ frames[k] = AsMeant(frames[k].meant)

\* The values of the in ports are values, and of the ports' types.
Fed(values) ==
  /\ values = [i \in Ins |-> values[i]]
  /\ \A i \in Ins : IsValue(values[i]) /\ Fits(values[i], ValueType(i.class, "In", i.port))

\* The answers are as they were, or the first is gone, or there is one more that
\* fits its frame.
Speaks ==
  \/ up' = up
  \/ up # <<>> /\ up' = Tail(up)
  \/ /\ Len(up) + 1 =< MaxUp
     /\ \E x : IsKept(x) /\ up' = up \o <<AsMeant(x)>>

LEMMA KeptIsRead ==
  ASSUME NEW x, IsKept(x)
  PROVE  Sent(x, Upstream, MaxName, PeerName) = AsMeant(x)
<1>1. IsMessage(x, MaxName) /\ Encode(x, MaxName).ok
  BY DEF IsKept
<1>2. MaxName \in Nat /\ PeerName \in Nat /\ MaxName =< PeerName
  BY ConversationAssumption
<1>3. Upstream \in Byte
  BY DEF Upstream, Byte
<1>4. Sent(x, Upstream, MaxName, PeerName)
        = [meant |-> x, read |-> [ok |-> TRUE, m |-> MessageRead(x, PeerName)]]
  BY <1>1, <1>3, SentIsRead
<1>5. MessageRead(x, PeerName) = x
  BY <1>1, <1>2, MessageIsKept
<1> QED BY <1>4, <1>5 DEF AsMeant

\* A message that fits its frame is answered whole.
LEMMA KeptAnswer ==
  ASSUME NEW x, IsKept(x), Answer(<<x>>)
  PROVE  Speaks
<1>1. up' = up \o <<Sent(x, Upstream, MaxName, PeerName)>>
  BY AnswerOne
<1>2. Len(up) + 1 =< MaxUp
  <2>1. Len(<<x>>) = 1
    OBVIOUS
  <2> QED BY <2>1 DEF Answer
<1> QED BY <1>1, <1>2, KeptIsRead DEF Speaks

LEMMA MeansMore ==
  ASSUME NEW s, s \in Seq(Range(s)), MeansSo(s), NEW x, IsKept(x)
  PROVE  MeansSo(s \o <<AsMeant(x)>>)
<1> DEFINE y == AsMeant(x)
           t == s \o <<y>>
<1>0. y.meant = x /\ y = AsMeant(x)
  BY DEF AsMeant
<1> HIDE DEF y
<1>1. /\ DOMAIN t = 1 .. Len(s) + 1 /\ Len(s) \in Nat
      /\ t[Len(s) + 1] = y /\ DOMAIN s = 1 .. Len(s)
      /\ \A k \in DOMAIN s : t[k] = s[k]
  BY Longer
<1> HIDE DEF t
<1>2. ASSUME NEW k \in DOMAIN t
      PROVE  IsKept(t[k].meant) /\ t[k] = AsMeant(t[k].meant)
  <2>1. k \in DOMAIN s \/ k = Len(s) + 1
    BY <1>1, <1>2
  <2> QED BY <1>0, <1>1, <2>1 DEF MeansSo
<1> QED BY <1>2 DEF MeansSo, t, y

LEMMA MeansLess ==
  ASSUME NEW s, s \in Seq(Range(s)), MeansSo(s), s # <<>>
  PROVE  MeansSo(Tail(s))
<1> DEFINE t == Tail(s)
<1>1. /\ DOMAIN t = 1 .. Len(s) - 1
      /\ Len(s) \in Nat \ {0} /\ DOMAIN s = 1 .. Len(s)
      /\ \A k \in DOMAIN t : t[k] = s[k + 1]
  BY Shorter
<1> HIDE DEF t
<1>2. \A k \in DOMAIN t : k + 1 \in DOMAIN s
  BY <1>1
<1>3. MeansSo(t)
  BY <1>1, <1>2 DEF MeansSo
<1> QED BY <1>3 DEF t

LEMMA WriteResults ==
  ASSUME NEW r
  PROVE  /\ WriteResult(r) \in DOMAIN ResultCode
         /\ WriteResult(r) = "Ok" => Fits(r.value, ValueType(r.class, "In", r.port))
  BY DEF WriteResult, ResultCode

LEMMA LinkResults ==
  ASSUME NEW wires, NEW spec
  PROVE  SetResult(wires, spec) \in DOMAIN ResultCode
<1> DEFINE c == ValidateLink(spec.src, spec.dst)
           s == ValidateLocal(spec.src, "Out")
           d == ValidateLocal(spec.dst, "In")
           R == {"Ok", "NoSuchClass", "NotWritable", "NoSuchPort", "TypeMismatch", "BadRequest",
                 "InputBusy"}
<1>1. c \in R
  BY DEF ValidateLink
<1>2. s \in R /\ d \in R
  BY DEF ValidateLocal
<1>3. "BadRequest" \in R /\ "InputBusy" \in R /\ "Ok" \in R
  OBVIOUS
<1>4. R \subseteq DOMAIN ResultCode
  BY DEF ResultCode
<1> HIDE DEF c, s, d, R
<1>5. SetResult(wires, spec) \in R
  BY <1>1, <1>2, <1>3 DEF SetResult, c, s, d
<1> QED BY <1>4, <1>5

-----------------------------------------------------------------------------
(* A step at a time *)

\* What the child holds can be told, and what it told is on its way as it was meant.
Telling ==
  /\ MeansSo(up) /\ Len(up) =< MaxUp
  /\ Fed(input) /\ Sound(links)

LEMMA NullIs == IsValue(Null) /\ \A type : Fits(Null, type)
  BY DEF IsValue, Fits

LEMMA TellingTell ==
  ASSUME NodeFits, RequestsAreMessages, MeasuresFit, Saying, Telling, Tell
  PROVE  Speaks /\ UNCHANGED <<input, links>>
<1>1. PICK q \in First(down, Questions) : Answer(Told(q.m)) /\ UNCHANGED node
  BY DEF Tell
<1>2. down # <<>> /\ q = Head(down).read /\ q.m.type \in Questions
  BY DEF First
<1>3. /\ q.m.type = "ListLinksRequest" => q.m.page \in Byte
      /\ q.m.type = "DescribeRequest" => q.m.page \in Nat
      /\ q.m.type = "ReadRequest" => \A n \in AllNames : IsKept(Read(q.m, n, Shown))
  BY <1>2, RequestIs
<1>4. names \in AllNames /\ up \in Seq(Range(up)) /\ Sound(links)
  BY DEF Saying, Telling
<1>5. Told(q.m) = <<>> \/ \E x : Told(q.m) = <<x>> /\ IsKept(x)
  <2>1. CASE q.m.type = "Ping"
    <3> DEFINE r == DescriptorRev(names)
               x == [type |-> "Pong", rev |-> r]
    <3>1. r \in Half
      BY <1>4, RevisionIs
    <3> HIDE DEF r
    <3>2. IsKept(x)
      BY <3>1, PongAnswer
    <3>3. Told(q.m) = <<x>>
      BY <2>1 DEF Told, r
    <3> QED BY <3>2, <3>3
  <2>2. CASE q.m.type = "DescribeRequest"
    <3>1. Told(q.m) = FillDescribe(names, q.m.page)
      BY <2>2 DEF Told
    <3> QED BY <1>3, <1>4, <2>2, <3>1, PagesAreKept
  <2>3. CASE q.m.type = "ReadRequest"
    <3>1. Told(q.m) = <<Read(q.m, names, Shown)>>
      BY <2>3 DEF Told
    <3> QED BY <1>3, <1>4, <2>3, <3>1
  <2>4. CASE q.m.type = "ListLinksRequest"
    <3> DEFINE x == [type |-> "ListLinksResponse", count |-> Len(links), page |-> q.m.page,
                     pages |-> ListPageCount(links), items |-> ListPage(links, q.m.page)]
    <3>1. IsKept(x)
      BY <1>3, <1>4, <2>4, ListAnswer
    <3>2. Told(q.m) = <<>> \/ Told(q.m) = <<x>>
      BY <2>4 DEF Told
    <3> HIDE DEF x
    <3> QED BY <3>1, <3>2
  <2>5. CASE q.m.type = "Unknown"
    <3> DEFINE x == [type |-> "Nack", seq |-> 0, reason |-> "Unsupported"]
    <3>1. Told(q.m) = <<x>>
      BY <2>5 DEF Told
    <3>2. IsKept(x)
      BY NackAnswer
    <3> QED BY <3>1, <3>2
  <2> QED BY <1>2, <2>1, <2>2, <2>3, <2>4, <2>5 DEF Questions
<1>6. UNCHANGED <<input, links>>
  BY <1>1 DEF node
<1>7. CASE Told(q.m) = <<>>
  <2>1. Answer(<<>>)
    BY <1>1, <1>7
  <2> QED BY <1>4, <1>6, <2>1, AnswerNone DEF Speaks
<1>8. ASSUME NEW x, Told(q.m) = <<x>>, IsKept(x) PROVE Speaks
  <2>1. Answer(<<x>>)
    BY <1>1, <1>8
  <2> QED BY <1>8, <2>1, KeptAnswer
<1> QED BY <1>5, <1>6, <1>7, <1>8

LEMMA TellingWrite ==
  ASSUME NodeFits, RequestsAreMessages, Saying, Telling, TakeWrite
  PROVE  Speaks /\ links' = links /\ Fed(input')
<1>1. PICK q \in Request("WriteRequest") :
        LET result == WriteResult(q.m)
            port   == PortOf(q.m)
            taken  == IF result = "Ok" THEN [input EXCEPT ![port] = q.m.value] ELSE input
        IN  /\ input' = taken
            /\ Answer(<<[type |-> "WriteResponse", result |-> result, class |-> q.m.class,
                         inst |-> q.m.inst, port |-> q.m.port,
                         value |-> IF port \in Ins THEN taken[port] ELSE Null]>>)
  BY DEF TakeWrite
<1> DEFINE c == q.m.class
           i == q.m.inst
           p == q.m.port
           v == q.m.value
           r == WriteResult(q.m)
           port == PortOf(q.m)
           told == IF port \in Ins THEN input'[port] ELSE Null
<1>2. down # <<>> /\ q = Head(down).read /\ q.m.type = "WriteRequest"
  BY DEF Request, First
<1>3. c \in DOMAIN ClassCode /\ i \in Byte /\ p \in Byte /\ IsValue(v)
  BY <1>2, RequestIs
<1>4. r \in DOMAIN ResultCode /\ (r = "Ok" => Fits(v, ValueType(c, "In", p)))
  BY WriteResults
<1>5. port.class = c /\ port.port = p
  BY DEF PortOf, Ref
<1>6. input' = IF r = "Ok" THEN [input EXCEPT ![port] = v] ELSE input
  BY <1>1
<1>7. Answer(<<[type |-> "WriteResponse", result |-> r, class |-> c, inst |-> i, port |-> p,
                value |-> told]>>)
  BY <1>1, <1>6
<1> HIDE DEF c, i, p, v, r, port
<1>8. Fed(input')
  <2>1. input = [j \in Ins |-> input[j]]
    BY DEF Telling, Fed
  <2>2. \A j \in Ins : IsValue(input[j]) /\ Fits(input[j], ValueType(j.class, "In", j.port))
    BY DEF Telling, Fed
  <2>3. CASE r # "Ok"
    BY <1>6, <2>3 DEF Telling
  <2>4. CASE r = "Ok"
    <3>1. input' = [j \in Ins |-> IF j = port THEN v ELSE input[j]]
      BY <1>6, <2>1, <2>4
    <3>2. input' = [j \in Ins |-> input'[j]] /\ \A j \in Ins : input'[j] = IF j = port THEN v ELSE input[j]
      BY <3>1
    <3>3. ASSUME NEW j \in Ins
          PROVE  IsValue(input'[j]) /\ Fits(input'[j], ValueType(j.class, "In", j.port))
      BY <1>3, <1>4, <1>5, <2>2, <2>4, <3>2
    <3> QED BY <3>2, <3>3 DEF Fed
  <2> QED BY <2>3, <2>4
<1>9. IsValue(told)
  BY <1>8, NullIs DEF Fed
<1> HIDE DEF told
<1>10. IsKept([type |-> "WriteResponse", result |-> r, class |-> c, inst |-> i, port |-> p,
               value |-> told])
  BY <1>3, <1>4, <1>9, WriteAnswer
<1>11. Speaks
  BY <1>7, <1>10, KeptAnswer
<1> QED BY <1>8, <1>11 DEF TakeWrite

LEMMA TellingName ==
  ASSUME NodeFits, Saying, Telling, TakeName
  PROVE  Speaks /\ UNCHANGED <<input, links>>
<1>1. PICK q \in Request("SetNameRequest") :
        /\ names' = Rename(names, q.m)
        /\ Answer(<<[type |-> "SetNameResponse", result |-> RenameResult(q.m),
                     rev |-> DescriptorRev(names')]>>)
  BY DEF TakeName
<1>2. names' \in AllNames
  BY <1>1, RequestRead DEF Saying
<1> DEFINE r == RenameResult(q.m)
           n == DescriptorRev(names')
<1>3. r \in DOMAIN ResultCode
  BY DEF RenameResult, ResultCode
<1>4. n \in Half
  BY <1>2, RevisionIs
<1>5. Answer(<<[type |-> "SetNameResponse", result |-> r, rev |-> n]>>)
  BY <1>1
<1> HIDE DEF r, n
<1>6. IsKept([type |-> "SetNameResponse", result |-> r, rev |-> n])
  BY <1>3, <1>4, NameAnswer
<1>7. Speaks
  BY <1>5, <1>6, KeptAnswer
<1> QED BY <1>7 DEF TakeName

LEMMA TellingPolicy ==
  ASSUME NodeFits, RequestsAreMessages, Saying, Telling, TakePolicy
  PROVE  Speaks /\ UNCHANGED <<input, links>>
<1>1. PICK q \in Request("SetPolicyRequest") :
        LET known == PortOf(q.m) \in DOMAIN Shown
            told  == IF known THEN [interval |-> q.m.interval, deadband |-> q.m.deadband]
                     ELSE NoPolicy
        IN  Answer(<<[type |-> "SetPolicyResponse",
                      result |-> IF known THEN "Ok" ELSE "NoSuchPort",
                      class |-> q.m.class, inst |-> q.m.inst, port |-> q.m.port,
                      interval |-> told.interval, deadband |-> told.deadband]>>)
  BY DEF TakePolicy
<1> DEFINE known == PortOf(q.m) \in DOMAIN Shown
           told  == IF known THEN [interval |-> q.m.interval, deadband |-> q.m.deadband]
                    ELSE NoPolicy
           c == q.m.class
           i == q.m.inst
           p == q.m.port
           r == IF known THEN "Ok" ELSE "NoSuchPort"
           n == told.interval
           v == told.deadband
<1>2. down # <<>> /\ q = Head(down).read /\ q.m.type = "SetPolicyRequest"
  BY DEF Request, First
<1>3. /\ c \in DOMAIN ClassCode /\ i \in Byte /\ p \in Byte
      /\ q.m.interval \in Half /\ IsValue(q.m.deadband)
  BY <1>2, RequestIs
<1>4. r \in DOMAIN ResultCode
  BY DEF ResultCode
<1>5. n \in Half /\ IsValue(v)
  <2>1. 0 \in Half
    BY DEF Half
  <2> QED BY <1>3, <2>1, NullIs DEF NoPolicy
<1>6. Answer(<<[type |-> "SetPolicyResponse", result |-> r, class |-> c, inst |-> i,
                port |-> p, interval |-> n, deadband |-> v]>>)
  BY <1>1
<1> HIDE DEF known, told, c, i, p, r, n, v
<1>7. IsKept([type |-> "SetPolicyResponse", result |-> r, class |-> c, inst |-> i,
              port |-> p, interval |-> n, deadband |-> v])
  BY <1>3, <1>4, <1>5, PolicyAnswer
<1>8. Speaks
  BY <1>6, <1>7, KeptAnswer
<1> QED BY <1>8 DEF TakePolicy

LEMMA TellingLink ==
  ASSUME NodeFits, RequestsAreMessages, Saying, Telling, TakeLink
  PROVE  Speaks /\ input' = input /\ Sound(links')
<1>1. PICK q \in Request("SetLinkRequest") :
        LET spec == [id |-> q.m.id, src |-> q.m.src, dst |-> q.m.dst] IN
        /\ links' = IF q.ok THEN SetLink(links, spec) ELSE links
        /\ Answer(<<[type |-> "SetLinkResponse", id |-> q.m.id,
                     result |-> IF q.ok THEN SetResult(links, spec) ELSE "BadRequest"]>>)
  BY DEF TakeLink
<1> DEFINE spec == [id |-> q.m.id, src |-> q.m.src, dst |-> q.m.dst]
           i == q.m.id
           r == IF q.ok THEN SetResult(links, spec) ELSE "BadRequest"
<1>2. down # <<>> /\ q = Head(down).read /\ q.m.type = "SetLinkRequest"
  BY DEF Request, First
<1>3. i \in Byte /\ IsRef(q.m.src) /\ IsRef(q.m.dst)
  BY <1>2, RequestIs
<1>4. r \in DOMAIN ResultCode
  <2>1. "BadRequest" \in DOMAIN ResultCode
    BY DEF ResultCode
  <2> HIDE DEF spec
  <2> QED BY <2>1, LinkResults
<1>5. /\ spec = [id |-> spec.id, src |-> spec.src, dst |-> spec.dst]
      /\ IsRef(spec.src) /\ IsRef(spec.dst)
  BY <1>3
<1>6. links' = IF q.ok THEN SetLink(links, spec) ELSE links
  BY <1>1
<1>7. Answer(<<[type |-> "SetLinkResponse", id |-> i, result |-> r]>>)
  BY <1>1
<1> HIDE DEF spec, i, r
<1>8. Sound(links')
  BY <1>5, <1>6, SetLinkSound DEF Telling
<1> DEFINE x == [type |-> "SetLinkResponse", result |-> r, id |-> i]
<1>9. IsKept(x)
  BY <1>3, <1>4, LinkAnswer
<1>10. Answer(<<x>>)
  <2>1. [type |-> "SetLinkResponse", id |-> i, result |-> r] = x
    OBVIOUS
  <2> QED BY <1>7, <2>1
<1>11. Speaks
  BY <1>9, <1>10, KeptAnswer
<1> QED BY <1>8, <1>11 DEF TakeLink

LEMMA TellingClear ==
  ASSUME NodeFits, Saying, Telling, TakeClear
  PROVE  Speaks /\ input' = input /\ Sound(links')
<1>1. PICK q \in Request("ClearLinkRequest") :
        /\ links' = IF q.ok THEN ClearLink(links, q.m.id) ELSE links
        /\ Answer(<<[type |-> "ClearLinkResponse",
                     result |-> IF q.ok THEN ClearResult(links, q.m.id) ELSE "BadRequest"]>>)
  BY DEF TakeClear
<1> DEFINE r == IF q.ok THEN ClearResult(links, q.m.id) ELSE "BadRequest"
<1>2. r \in DOMAIN ResultCode
  BY DEF ClearResult, ResultCode
<1>3. Answer(<<[type |-> "ClearLinkResponse", result |-> r]>>)
  BY <1>1
<1> HIDE DEF r
<1>4. IsKept([type |-> "ClearLinkResponse", result |-> r])
  BY <1>2, ClearAnswer
<1>5. Speaks
  BY <1>3, <1>4, KeptAnswer
<1>6. Sound(links')
  BY <1>1, ClearLinkSound DEF Telling
<1> QED BY <1>5, <1>6 DEF TakeClear

LEMMA TellingOta ==
  ASSUME NodeFits, Saying, Telling, TakeOta
  PROVE  Speaks /\ UNCHANGED <<input, links>>
<1>1. PICK q \in Request("OtaRequest"), agreed \in {"Ok", "Busy"} :
        Answer(<<[type |-> "OtaResponse", name |-> Firmware,
                  result |-> CASE ~q.ok      -> "BadRequest"
                               [] ~CanUpdate -> "Unsupported"
                               [] OTHER      -> agreed]>>)
  BY DEF TakeOta
<1> DEFINE r == CASE ~q.ok      -> "BadRequest"
                  [] ~CanUpdate -> "Unsupported"
                  [] OTHER      -> agreed
           x == [type |-> "OtaResponse", result |-> r, name |-> Firmware]
<1>2. r \in DOMAIN ResultCode
  BY DEF ResultCode
<1>3. Answer(<<[type |-> "OtaResponse", name |-> Firmware, result |-> r]>>)
  BY <1>1
<1> HIDE DEF r
<1>4. Answer(<<x>>)
  <2>1. [type |-> "OtaResponse", name |-> Firmware, result |-> r] = x
    OBVIOUS
  <2> QED BY <1>3, <2>1
<1>5. IsKept(x)
  BY <1>2, OtaAnswer
<1>6. Speaks
  BY <1>4, <1>5, KeptAnswer
<1> QED BY <1>6 DEF TakeOta, node

LEMMA TellingReport ==
  ASSUME MeasuresFit, Saying, SendReport
  PROVE  Speaks /\ UNCHANGED <<input, links>>
<1> DEFINE x == ReportOf(names)
           y == AsMeant(x)
<1>1. names \in AllNames /\ up \in Seq(Range(up))
  BY DEF Saying
<1>2. IsKept(x)
  BY <1>1 DEF MeasuresFit
<1>3. Reports[names] = y
  BY <1>1, ReportsFit DEF AsMeant
<1>4. up' = up \o <<y>> /\ Len(up) + 1 =< MaxUp
  <2> HIDE DEF x, y
  <2>1. up' = Append(up, y) /\ Len(up) < MaxUp
    BY <1>3 DEF SendReport
  <2>2. up \in Seq(Range(up) \cup {y}) /\ y \in Range(up) \cup {y}
    BY <1>1
  <2>3. Append(up, y) = up \o <<y>>
    BY <2>2
  <2>4. MaxUp \in Nat /\ Len(up) \in Nat
    BY <1>1, ConversationAssumption
  <2> QED BY <2>1, <2>3, <2>4
<1> QED BY <1>2, <1>4 DEF Speaks, SendReport, node

\* Whatever happens speaks, if it says anything, and what it leaves can be told.
LEMMA TellingSteps ==
  ASSUME NodeFits, RequestsAreMessages, MeasuresFit, Saying, Telling, [Next]_vars
  PROVE  Speaks /\ Fed(input') /\ Sound(links')
<1>1. Fed(input) /\ Sound(links)
  BY DEF Telling
<1>2. ASSUME Speaks, UNCHANGED <<input, links>>
      PROVE  Speaks /\ Fed(input') /\ Sound(links')
  BY <1>1, <1>2
<1>3. CASE Tell \/ TakeName \/ TakePolicy \/ TakeOta \/ SendReport
  BY <1>2, <1>3, TellingTell, TellingName, TellingPolicy, TellingOta, TellingReport
<1>4. CASE TakeWrite \/ TakeLink \/ TakeClear
  BY <1>1, <1>4, TellingWrite, TellingLink, TellingClear
<1>5. CASE Restart
  <2>1. input' = Unwritten /\ links' = <<>> /\ up' = up
    BY <1>5 DEF Restart
  <2>2. Fed(Unwritten)
    BY NullIs DEF Unwritten, Fed
  <2>3. Sound(<<>>)
    BY DEF Sound
  <2> QED BY <2>1, <2>2, <2>3 DEF Speaks
<1>6. CASE Hear \/ LoseAnswer
  <2>1. up # <<>> /\ Took
    BY <1>6 DEF Hear, HearValues, HearPage, HearPong, HearOther, LoseAnswer, Answers, First
  <2> QED BY <1>2, <2>1 DEF Took, Speaks, node
<1>7. ASSUME NEW m, Ask(m) PROVE Speaks /\ UNCHANGED <<input, links>>
  BY <1>7 DEF Ask, Speaks, node
<1>8. CASE LoseRequest \/ UNCHANGED vars
  BY <1>2, <1>8 DEF LoseRequest, vars, node, air, Speaks
<1> QED BY <1>2, <1>3, <1>4, <1>5, <1>6, <1>7, <1>8 DEF Next

LEMMA TellingInit == Init => Telling
<1> SUFFICES ASSUME Init PROVE Telling
  OBVIOUS
<1>1. up = <<>> /\ links = <<>> /\ input = Unwritten
  BY DEF Init
<1>2. MeansSo(<<>>) /\ Sound(<<>>) /\ Len(<<>>) = 0
  BY DEF MeansSo, Sound
<1>3. Fed(Unwritten)
  BY NullIs DEF Unwritten, Fed
<1>4. 0 =< MaxUp
  BY ConversationAssumption
<1> QED BY <1>1, <1>2, <1>3, <1>4 DEF Telling

LEMMA TellingNext ==
  ASSUME NodeFits, RequestsAreMessages, MeasuresFit
  PROVE  Saying /\ Telling /\ [Next]_vars => Telling'
<1> SUFFICES ASSUME Saying, Telling, [Next]_vars PROVE Telling'
  OBVIOUS
<1>1. Speaks /\ Fed(input') /\ Sound(links')
  BY TellingSteps
<1>2. up \in Seq(Range(up)) /\ MeansSo(up) /\ Len(up) =< MaxUp
  BY DEF Saying, Telling
<1>3. CASE up' = up
  BY <1>1, <1>2, <1>3 DEF Telling
<1>4. CASE up # <<>> /\ up' = Tail(up)
  <2>1. MeansSo(up')
    BY <1>2, <1>4, MeansLess
  <2>2. Len(up') = Len(up) - 1 /\ Len(up) \in Nat \ {0} /\ MaxUp \in Nat
    BY <1>2, <1>4, Shorter, ConversationAssumption
  <2>3. Len(up') =< MaxUp
    BY <1>2, <2>2
  <2> QED BY <1>1, <2>1, <2>3 DEF Telling
<1>5. ASSUME NEW x, IsKept(x), up' = up \o <<AsMeant(x)>>, Len(up) + 1 =< MaxUp
      PROVE  Telling'
  <2>1. MeansSo(up')
    BY <1>2, <1>5, MeansMore
  <2>2. Len(up') = Len(up) + 1
    BY <1>2, <1>5, Longer
  <2> QED BY <1>1, <1>5, <2>1, <2>2 DEF Telling
<1> QED BY <1>1, <1>3, <1>4, <1>5 DEF Speaks

LEMMA TellingImplies == Telling => MeaningSurvives
<1> SUFFICES ASSUME Telling PROVE MeaningSurvives
  OBVIOUS
<1>1. ASSUME NEW k \in DOMAIN up
      PROVE  up[k].read = [ok |-> TRUE, m |-> up[k].meant]
  <2> DEFINE x == up[k].meant
  <2>1. up[k] = [meant |-> x, read |-> [ok |-> TRUE, m |-> x]]
    BY <1>1 DEF Telling, MeansSo, AsMeant
  <2> HIDE DEF x
  <2>2. up[k].read = [ok |-> TRUE, m |-> x]
    BY <2>1
  <2> QED BY <2>2 DEF x
<1>2. Range(up) = {up[k] : k \in DOMAIN up}
  BY DEF Range
<1> QED BY <1>1, <1>2 DEF MeaningSurvives

\* Whatever the child answers, and whatever it is called by then, its frame has
\* room for it and the root reads what the child meant - for any names, any
\* requests, any values written and any links set, whatever is lost between them.
THEOREM AnswersSurvive ==
  ASSUME NodeFits, RequestsAreMessages, MeasuresFit
  PROVE  Spec => []MeaningSurvives
<1>1. Init => Saying /\ Telling
  BY SayingInit, TellingInit
<1>2. Saying /\ Telling /\ [Next]_vars => Saying' /\ Telling'
  BY SayingNext, TellingNext
<1> QED BY <1>1, <1>2, TellingImplies, PTL DEF Spec

-----------------------------------------------------------------------------
(* What is noted of what is heard *)

LEMMA UpToIs ==
  ASSUME NEW S, NEW s \in Seq(S), NEW n \in Nat
  PROVE  UpTo(n, s) \in Seq(S) /\ Len(UpTo(n, s)) =< n
<1>1. Len(s) \in Nat
  OBVIOUS
<1>2. CASE n =< Len(s)
  <2>1. UpTo(n, s) = SubSeq(s, 1, n)
    BY <1>1, <1>2, MinTwo DEF UpTo
  <2>2. SubSeq(s, 1, n) \in Seq(S) /\ Len(SubSeq(s, 1, n)) = n
    BY <1>1, <1>2
  <2> QED BY <2>1, <2>2
<1>3. CASE ~(n =< Len(s))
  <2>1. UpTo(n, s) = SubSeq(s, 1, Len(s))
    BY <1>1, <1>3, MinTwo DEF UpTo
  <2>2. SubSeq(s, 1, Len(s)) = s
    OBVIOUS
  <2> QED BY <1>1, <1>3, <2>1, <2>2
<1> QED BY <1>2, <1>3

LEMMA ValuedLayouts ==
  \A type \in {"Report", "ReadResponse"} :
    Len(Layout[type]) = 2 /\ Layout[type][1] = <<"rev", "u16">>
<1>1. "Report" \in DOMAIN TellLayout /\ "ReadResponse" \in DOMAIN TellLayout
  BY Tables
<1>2. TellLayout \in Layouts
  BY DEF Layouts
<1>3. Layout["Report"] = Valued /\ Layout["ReadResponse"] = Valued
  <2>1. /\ Layout["Report"] = TellLayout["Report"]
        /\ Layout["ReadResponse"] = TellLayout["ReadResponse"]
    BY <1>1, <1>2, LayoutOf
  <2>2. TellLayout["Report"] = Valued /\ TellLayout["ReadResponse"] = Valued
    BY DEF TellLayout
  <2> QED BY <2>1, <2>2
<1>4. Len(Valued) = 2 /\ Valued[1] = <<"rev", "u16">>
  BY DEF Valued, Revision
<1> QED BY <1>3, <1>4

\* What tells a revision or repeats something.
LEMMA RevisionTold ==
  ASSUME NEW m, IsKept(m), m.type \in {"Report", "ReadResponse", "DescribeResponse", "Pong"}
  PROVE  m.rev \in Half
<1> DEFINE l == Layout[m.type]
<1>1. Len(l) \in Nat \ {0} /\ l[1] = <<"rev", "u16">>
  BY ValuedLayouts, PageLayouts, AnswerLayouts
<1>2. IsMessage(m, MaxName)
  BY DEF IsKept
<1>3. IsLayout(l) /\ Holds(l, m, MaxName)
  BY <1>2, LayoutIs DEF IsMessage
<1> HIDE DEF l
<1>4. 1 \in DOMAIN l
  BY <1>1, <1>3 DEF IsLayout
<1>5. IsOf("u16", m.rev, MaxName)
  BY <1>1, <1>3, <1>4 DEF Holds
<1> QED BY <1>5 DEF IsOf

LEMMA ItemsTold ==
  ASSUME NEW m, IsKept(m), m.type \in {"Report", "ReadResponse", "DescribeResponse"}
  PROVE  m.items \in Seq(Range(m.items))
<1>1. IsMessage(m, MaxName) /\ m.type \in DOMAIN Item
  BY DEF IsKept, Item
<1>2. /\ Len(m.items) \in Nat /\ DOMAIN m.items = 1 .. Len(m.items)
      /\ m.items = [j \in 1 .. Len(m.items) |-> m.items[j]]
  BY <1>1 DEF IsMessage, HoldsItems
<1> DEFINE s == m.items
           n == Len(s)
<1>3. n \in Nat /\ DOMAIN s = 1 .. n /\ s = [j \in 1 .. n |-> s[j]]
  BY <1>2
<1> HIDE DEF s, n
<1>4. \A j \in 1 .. n : s[j] \in Range(s)
  BY <1>3 DEF Range
<1>5. s \in [1 .. n -> Range(s)]
  BY <1>3, <1>4
<1>6. s \in Seq(Range(s))
  BY <1>3, <1>5
<1> QED BY <1>6 DEF s

IsNoted(c) ==
  /\ IsCopy(c) /\ c.rev \in Half /\ c.cachedRev \in Half
  /\ c.instances \in Seq(Range(c.instances)) /\ Len(c.instances) =< MaxInstances
  /\ Len(c.values) =< MaxEntries

LEMMA NotedInit == Init => IsNoted(copy)
<1>1. MaxInstances \in Nat /\ MaxEntries \in Nat
  BY MessagesAssumption
<1>2. 0 \in Half
  BY DEF Half
<1>3. /\ Len(Blank.instances) = 0 /\ Len(Blank.values) = 0
      /\ Blank.instances \in Seq(Range(Blank.instances))
  BY DEF Blank
<1>4. Blank.rev = 0 /\ Blank.cachedRev = 0 /\ IsCopy(Blank)
  BY DEF Blank, IsCopy
<1>5. IsNoted(Blank)
  BY <1>1, <1>2, <1>3, <1>4 DEF IsNoted
<1> QED BY <1>5 DEF Init

LEMMA NotedValues ==
  ASSUME NEW c, IsNoted(copy), NEW m, IsKept(m), m.type \in {"Report", "ReadResponse"},
         c = NoteReport(m)
  PROVE  IsNoted(c)
<1>1. m.rev \in Half /\ m.items \in Seq(Range(m.items))
  BY RevisionTold, ItemsTold
<1> DEFINE v == UpTo(MaxEntries, m.items)
<1>2. Len(v) =< MaxEntries
  BY <1>1, UpToIs, MessagesAssumption
<1>3. c = [copy EXCEPT !.rev = m.rev, !.values = v]
  BY DEF NoteReport
<1> HIDE DEF v
<1>4. /\ IsCopy(c) /\ c.rev = m.rev /\ c.values = v /\ c.cachedRev = copy.cachedRev
      /\ c.instances = copy.instances
  BY <1>3 DEF IsNoted, IsCopy
<1> QED BY <1>1, <1>2, <1>4 DEF IsNoted

LEMMA NotedPage ==
  ASSUME NEW c, IsNoted(copy), NEW m, IsKept(m), m.type = "DescribeResponse",
         c = NoteDescribe(m)
  PROVE  IsNoted(c)
<1>1. m.rev \in Half /\ m.items \in Seq(Range(m.items))
  BY RevisionTold, ItemsTold
<1> DEFINE before == ListBefore(m)
           S == Range(before) \cup Range(m.items)
           v == UpTo(MaxInstances, before \o m.items)
<1>2. before \in Seq(Range(before))
  <2> DEFINE i == copy.instances
  <2>1. i \in Seq(Range(i))
    BY DEF IsNoted
  <2>2. before = <<>> \/ before = i
    BY DEF ListBefore
  <2>3. <<>> \in Seq(Range(<<>>))
    OBVIOUS
  <2> HIDE DEF before, i
  <2> QED BY <2>1, <2>2, <2>3
<1>3. before \o m.items \in Seq(S)
  <2>1. before \in Seq(S) /\ m.items \in Seq(S)
    <3> HIDE DEF before
    <3> QED BY <1>1, <1>2
  <2> HIDE DEF before, S
  <2> QED BY <2>1
<1> HIDE DEF S
<1>4. v \in Seq(S) /\ Len(v) =< MaxInstances
  <2> DEFINE all == before \o m.items
  <2>1. all \in Seq(S) /\ MaxInstances \in Nat
    BY <1>3, MessagesAssumption
  <2> HIDE DEF all
  <2>2. UpTo(MaxInstances, all) \in Seq(S) /\ Len(UpTo(MaxInstances, all)) =< MaxInstances
    BY <2>1, UpToIs
  <2> QED BY <2>2 DEF all
<1>5. /\ IsCopy(c) /\ c.rev = m.rev /\ c.values = copy.values /\ c.instances = v
      /\ c.cachedRev \in {m.rev, copy.cachedRev}
  <2>1. c = [copy EXCEPT !.rev = m.rev, !.name = m.name, !.instances = v,
               !.described = (m.page + 1 >= m.pages) \/ (m.page # 0 /\ @),
               !.cachedRev = IF m.page + 1 >= m.pages THEN m.rev ELSE @]
    BY DEF NoteDescribe
  <2> HIDE DEF v
  <2> QED BY <2>1 DEF IsNoted, IsCopy
<1> HIDE DEF v
<1>6. v \in Seq(Range(v))
  BY <1>4, SeqOfRange
<1> QED BY <1>1, <1>4, <1>5, <1>6 DEF IsNoted

LEMMA NotedNext == Saying /\ Telling /\ IsNoted(copy) /\ [Next]_vars => IsNoted(copy')
<1> SUFFICES ASSUME Saying, Telling, IsNoted(copy), [Next]_vars PROVE IsNoted(copy')
  OBVIOUS
<1>1. ASSUME NEW types, NEW a \in Answers(types)
      PROVE  a.ok = TRUE /\ IsKept(a.m) /\ a.m.type \in types
  <2>1. up # <<>> /\ a = Head(up).read /\ a.m.type \in types
    BY DEF Answers, First
  <2>2. 1 \in DOMAIN up /\ Head(up) = up[1]
    BY <2>1 DEF Saying
  <2> DEFINE x == up[1].meant
  <2>3. IsKept(x) /\ up[1] = [meant |-> x, read |-> [ok |-> TRUE, m |-> x]]
    BY <2>2 DEF Telling, MeansSo, AsMeant
  <2> HIDE DEF x
  <2>4. up[1].read = [ok |-> TRUE, m |-> x]
    BY <2>3
  <2>5. a = up[1].read
    BY <2>1, <2>2
  <2>6. a.ok = TRUE /\ a.m = x
    BY <2>4, <2>5
  <2> QED BY <2>1, <2>3, <2>6
<1>2. CASE HearValues
  <2>1. PICK a \in Answers({"Report", "ReadResponse"}) :
          copy' = IF a.ok THEN NoteReport(a.m) ELSE copy
    BY <1>2 DEF HearValues
  <2> QED BY <1>1, <2>1, NotedValues
<1>3. CASE HearPage
  <2>1. PICK a \in Answers({"DescribeResponse"}) :
          copy' = IF a.ok THEN NoteDescribe(a.m) ELSE copy
    BY <1>3 DEF HearPage
  <2>2. a.ok = TRUE /\ IsKept(a.m) /\ a.m.type \in {"DescribeResponse"}
    BY <1>1
  <2>3. a.m.type = "DescribeResponse" /\ copy' = NoteDescribe(a.m)
    BY <2>1, <2>2
  <2> QED BY <2>2, <2>3, NotedPage
<1>4. CASE HearPong
  <2>1. PICK a \in Answers({"Pong"}) : copy' = NotePong(a.m)
    BY <1>4 DEF HearPong
  <2>2. a.m.rev \in Half
    BY <1>1, RevisionTold
  <2>3. copy' = [copy EXCEPT !.rev = a.m.rev]
    BY <2>1 DEF NotePong
  <2> QED BY <2>2, <2>3 DEF IsNoted, IsCopy
<1>5. CASE UNCHANGED root
  BY <1>5 DEF root
<1>6. ASSUME NEW m, Ask(m) PROVE UNCHANGED root
  BY SMTT(60), <1>6 DEF Ask
<1>7. ASSUME \/ Tell \/ TakeWrite \/ TakeName \/ TakePolicy \/ TakeLink \/ TakeClear \/ TakeOta
      PROVE  UNCHANGED root
  BY <1>7 DEF Tell, TakeWrite, TakeName, TakePolicy, TakeLink, TakeClear, TakeOta, Answer
<1>8. ASSUME SendReport \/ Restart \/ HearOther \/ LoseRequest \/ LoseAnswer \/ UNCHANGED vars
      PROVE  UNCHANGED root
  BY <1>8 DEF SendReport, Restart, HearOther, LoseRequest, LoseAnswer, vars
<1> QED BY <1>2, <1>3, <1>4, <1>5, <1>6, <1>7, <1>8 DEF Next, Hear

LEMMA TypeImplies == Saying /\ Telling /\ IsNoted(copy) => TypeOK
<1> SUFFICES ASSUME Saying, Telling, IsNoted(copy) PROVE TypeOK
  OBVIOUS
<1>1. Len(saved) =< 1 /\ Range(saved) \subseteq AllNames
  <2>1. CASE saved = <<>>
    <3>1. Len(<<>>) =< 1 /\ Range(<<>>) = {}
      BY DEF Range
    <3> QED BY <2>1, <3>1
  <2>2. ASSUME NEW n \in AllNames, saved = <<n>>
        PROVE  Len(saved) =< 1 /\ Range(saved) \subseteq AllNames
    <3>1. Len(<<n>>) = 1 /\ Range(<<n>>) = {n}
      BY DEF Range
    <3> QED BY <2>2, <3>1
  <2> QED BY <2>1, <2>2 DEF Saying
<1>2. Len(down) =< 1
  <2>1. CASE down = <<>>
    <3>1. Len(<<>>) =< 1
      OBVIOUS
    <3> QED BY <2>1, <3>1
  <2>2. ASSUME NEW m \in agenda, down = <<Asked(m)>> PROVE Len(down) =< 1
    <3> DEFINE x == Asked(m)
    <3>1. down = <<x>>
      BY <2>2
    <3> HIDE DEF x
    <3>2. Len(<<x>>) =< 1
      OBVIOUS
    <3> QED BY <3>1, <3>2
  <2> QED BY <2>1, <2>2 DEF Saying
<1>3. Len(links) =< MaxLinks
  BY SlotsSuffice DEF Telling
<1>4. copy.rev \in 0 .. 65535 /\ copy.cachedRev \in 0 .. 65535
  <2>1. copy.rev \in Half /\ copy.cachedRev \in Half
    BY DEF IsNoted
  <2> QED BY <2>1, PTL DEF Half
<1>5. names \in AllNames
  BY DEF Saying
<1>6. \A i \in Ins : Fits(input[i], ValueType(i.class, "In", i.port))
  BY DEF Telling, Fed
<1>7. Len(up) =< MaxUp
  BY DEF Telling
<1>8. Len(copy.instances) =< MaxInstances /\ Len(copy.values) =< MaxEntries
  BY DEF IsNoted
<1> QED BY <1>1, <1>2, <1>3, <1>4, <1>5, <1>6, <1>7, <1>8, PTL DEF TypeOK

\* Whatever is asked, lost, answered and restarted: the child has names it may have,
\* in memory and in its file, values of the right types on its in ports and no more
\* links than slots, and the root keeps no more of it than it has room for.
THEOREM TypeCorrect ==
  ASSUME NodeFits, RequestsAreMessages, MeasuresFit
  PROVE  Spec => []TypeOK
<1>1. Init => Saying /\ Telling /\ IsNoted(copy)
  BY SayingInit, TellingInit, NotedInit
<1>2. Saying /\ Telling /\ IsNoted(copy) /\ [Next]_vars
        => Saying' /\ Telling' /\ IsNoted(copy)'
  BY SayingNext, TellingNext, NotedNext
<1> QED BY <1>1, <1>2, TypeImplies, PTL DEF Spec

-----------------------------------------------------------------------------
(* Pages end to end *)

\* Each of some sequences takes D from one end to the next.
Parts(D, t, e) ==
  /\ e[0] = 0
  /\ \A k \in 1 .. Len(t) : SubSeq(D, 1, e[k - 1]) \o t[k] = SubSeq(D, 1, e[k])

LEMMA FlattenParts ==
  ASSUME NEW S, NEW D \in Seq(S), NEW t \in Seq(Seq(S)), NEW e, Parts(D, t, e)
  PROVE  FlattenSeq(t) = SubSeq(D, 1, e[Len(t)])
<1> DEFINE Good(k) == k =< Len(t) => FlattenSeq(SubSeq(t, 1, k)) = SubSeq(D, 1, e[k])
           bad == {k \in Nat : ~Good(k)}
           first == SubSeq(D, 1, 0)
<1>0. Len(t) \in Nat /\ bad \subseteq Nat
  OBVIOUS
<1>1. ASSUME NEW k \in Nat, k # 0, Good(k - 1) PROVE Good(k)
  <2> SUFFICES ASSUME k =< Len(t)
               PROVE  FlattenSeq(SubSeq(t, 1, k)) = SubSeq(D, 1, e[k])
    OBVIOUS
  <2> DEFINE b == SubSeq(t, 1, k - 1)
             x == t[k]
  <2>1. k \in 1 .. Len(t) /\ k - 1 =< Len(t) /\ k - 1 \in 0 .. Len(t)
    BY <1>0, <1>1
  <2>2. SubSeq(t, 1, k) = Append(b, x)
    BY <2>1, FirstMore
  <2>3. b \in Seq(Seq(S))
    BY <2>1, CutInTwo
  <2>4. x \in Seq(S)
    BY <2>1
  <2>5. FlattenSeq(b) = SubSeq(D, 1, e[k - 1])
    BY <1>1, <2>1
  <2>6. SubSeq(D, 1, e[k - 1]) \o x = SubSeq(D, 1, e[k])
    BY <2>1 DEF Parts
  <2> HIDE DEF b, x
  <2>7. FlattenSeq(Append(b, x)) = FlattenSeq(b) \o x
    BY <2>3, <2>4, FlattenMore
  <2> QED BY <2>2, <2>5, <2>6, <2>7
<1>2. Good(0)
  <2>1. SubSeq(t, 1, 0) = <<>> /\ SubSeq(D, 1, 0) = <<>>
    OBVIOUS
  <2> QED BY <2>1, FlattenEmpty DEF Parts
<1> HIDE DEF Good
<1>3. bad = {}
  <2> SUFFICES ASSUME bad # {} PROVE FALSE
    OBVIOUS
  <2>1. PICK m \in bad : \A j \in bad : m =< j
    BY <1>0, LeastExists
  <2>2. m \in Nat /\ ~Good(m) /\ m # 0
    BY <1>2
  <2>3. m - 1 \in Nat
    BY <2>2
  <2>4. m - 1 \notin bad
    <3> HIDE DEF bad
    <3> QED BY <2>1, <2>2, <2>3
  <2> QED BY <1>1, <2>2, <2>3, <2>4
<1>4. Good(Len(t))
  BY <1>0, <1>3
<1>5. SubSeq(t, 1, Len(t)) = t
  OBVIOUS
<1>6. Len(t) =< Len(t)
  <2>1. Len(t) \in Nat
    OBVIOUS
  <2> QED BY <2>1
<1>7. FlattenSeq(SubSeq(t, 1, Len(t))) = SubSeq(D, 1, e[Len(t)])
  BY <1>4, <1>6 DEF Good
<1> QED BY <1>5, <1>7

\* Sequences of one element each, and the empty one behind them.
LEMMA FlattenOnes ==
  ASSUME NEW S, NEW m \in Seq(S), NEW t, Len(t) = Len(m) + 1, DOMAIN t = 1 .. Len(m) + 1,
         t = [k \in 1 .. Len(m) + 1 |-> t[k]],
         \A k \in 1 .. Len(m) : t[k] = <<m[k]>>, t[Len(m) + 1] = <<>>
  PROVE  FlattenSeq(t) = m
<1> DEFINE n == Len(m)
           e == [k \in 0 .. n + 1 |-> IF k =< n THEN k ELSE n]
<1>1. n \in Nat /\ \A k \in 1 .. n : m[k] \in S
  OBVIOUS
<1>2. t \in Seq(Seq(S)) /\ Len(t) = n + 1
  <2>1. ASSUME NEW k \in 1 .. n + 1 PROVE t[k] \in Seq(S)
    <3>1. k \in 1 .. n \/ k = n + 1
      BY <1>1
    <3>2. \A x \in S : <<x>> \in Seq(S)
      OBVIOUS
    <3>3. <<>> \in Seq(S)
      OBVIOUS
    <3> HIDE DEF n
    <3> QED BY <1>1, <3>1, <3>2, <3>3 DEF n
  <2>2. n + 1 \in Nat /\ t = [k \in 1 .. n + 1 |-> t[k]]
    BY <1>1
  <2> HIDE DEF n
  <2>3. t \in [1 .. n + 1 -> Seq(S)]
    BY <2>1, <2>2
  <2>4. t \in Seq(Seq(S))
    BY <2>2, <2>3
  <2> QED BY <2>4 DEF n
<1>3. Parts(m, t, e)
  <2>1. e[0] = 0
    BY <1>1
  <2>2. ASSUME NEW k \in 1 .. n PROVE SubSeq(m, 1, e[k - 1]) \o t[k] = SubSeq(m, 1, e[k])
    <3>1. e[k - 1] = k - 1 /\ e[k] = k /\ k - 1 \in Nat /\ (k - 1) + 1 = k /\ k =< Len(m)
      BY <1>1
    <3> DEFINE b == k - 1
               c == 1
    <3>2. b \in Nat /\ c \in Nat /\ b + c =< Len(m) /\ b + c = k
      BY <3>1
    <3>3. t[k] = [j \in 1 .. 1 |-> m[b + j]]
      <4>1. t[k] = <<m[k]>>
        OBVIOUS
      <4>2. b + 1 = k
        BY <3>1
      <4> HIDE DEF b
      <4>3. [j \in 1 .. 1 |-> m[b + j]] = [j \in 1 .. 1 |-> m[k]]
        BY <4>2
      <4>4. [j \in 1 .. 1 |-> m[k]] = <<m[k]>>
        OBVIOUS
      <4> QED BY <4>1, <4>3, <4>4
    <3> HIDE DEF b, c, e, n
    <3>4. SubSeq(m, 1, b) \o [j \in 1 .. c |-> m[b + j]] = SubSeq(m, 1, b + c)
      BY <3>2, Joined
    <3> QED BY <3>1, <3>2, <3>3, <3>4 DEF b, c
  <2>3. SubSeq(m, 1, e[(n + 1) - 1]) \o t[n + 1] = SubSeq(m, 1, e[n + 1])
    <3>1. e[(n + 1) - 1] = n /\ e[n + 1] = n /\ t[n + 1] = <<>>
      BY <1>1
    <3>2. SubSeq(m, 1, n) = m /\ m \o <<>> = m
      OBVIOUS
    <3> HIDE DEF e, n
    <3> QED BY <3>1, <3>2
  <2>4. ASSUME NEW k \in 1 .. Len(t)
        PROVE  SubSeq(m, 1, e[k - 1]) \o t[k] = SubSeq(m, 1, e[k])
    <3>1. k \in 1 .. n \/ k = n + 1
      BY <1>1, <1>2
    <3> HIDE DEF e, n
    <3> QED BY <2>2, <2>3, <3>1
  <2> HIDE DEF e
  <2> QED BY <2>1, <2>4 DEF Parts
<1>4. e[Len(t)] = n
  BY <1>1
<1> HIDE DEF e
<1>5. FlattenSeq(t) = SubSeq(m, 1, e[Len(t)])
  BY <1>2, <1>3, FlattenParts
<1>6. SubSeq(m, 1, Len(m)) = m
  OBVIOUS
<1> QED BY <1>4, <1>5, <1>6 DEF n

\* Slices that cover the instances hold the descriptors, in order and once.
LEMMA SlicesHold ==
  ASSUME NEW n, NEW s, Covers(s, Len(Instances)), NEW t, t = [k \in 1 .. Len(s) |-> OnPage(n, s[k])]
  PROVE  FlattenSeq(t) = Descriptors(n)
<1> DEFINE D == Descriptors(n)
           S == Range(D)
           N == Len(Instances)
           l == Len(s)
           e == [k \in 0 .. l |-> IF k = 0 THEN 0 ELSE End(s, k)]
<1>1. D \in Seq(S) /\ Len(D) = N /\ N \in Nat /\ \A k \in 1 .. N : D[k] = Describe(n, k)
  BY DescriptorsType, InstanceCount
<1>2. s \in Seq(Slice) /\ l \in Nat \ {0}
  BY DEF Covers
<1> HIDE DEF D, S
<1>3. ASSUME NEW k \in 1 .. l
      PROVE  /\ t[k] \in Seq(S) /\ t[k] = [j \in 1 .. s[k].count |-> D[s[k].first + j]]
             /\ s[k].first \in Nat /\ s[k].count \in Nat
             /\ s[k].first + s[k].count =< N
  <2> DEFINE a == s[k].first
             c == s[k].count
  <2>1. s[k] \in Slice
    BY <1>2
  <2>2. a \in Nat /\ c \in Nat
    BY <2>1 DEF Slice
  <2>3. a + c =< N
    BY DEF Covers, End
  <2>4. t[k] = [j \in 1 .. c |-> Describe(n, a + j)]
    BY DEF OnPage
  <2> HIDE DEF a, c
  <2>5. \A j \in 1 .. c : a + j \in 1 .. N
    BY <1>1, <2>2, <2>3
  <2>6. t[k] = [j \in 1 .. c |-> D[a + j]]
    BY <1>1, <2>4, <2>5
  <2>7. \A j \in 1 .. c : D[a + j] \in S
    BY <1>1, <2>5
  <2>8. t[k] \in [1 .. c -> S]
    BY <2>6, <2>7
  <2>9. t[k] \in Seq(S)
    BY <2>2, <2>8
  <2> QED BY <2>2, <2>3, <2>6, <2>9 DEF a, c
<1>4. t \in Seq(Seq(S)) /\ Len(t) = l
  <2>1. t \in [1 .. l -> Seq(S)]
    BY <1>3
  <2> HIDE DEF l
  <2> QED BY <1>2, <2>1
<1>5. e[0] = 0 /\ \A k \in 1 .. l : e[k] = End(s, k)
  BY <1>2
<1>6. e[l] = N
  BY <1>2 DEF Covers
<1> HIDE DEF e
<1>7. Parts(D, t, e)
  <2>1. ASSUME NEW k \in 1 .. Len(t) PROVE SubSeq(D, 1, e[k - 1]) \o t[k] = SubSeq(D, 1, e[k])
    <3> DEFINE a == s[k].first
               c == s[k].count
    <3>1. k \in 1 .. l
      BY <1>4
    <3>2. a \in Nat /\ c \in Nat /\ a + c =< Len(D) /\ t[k] = [j \in 1 .. c |-> D[a + j]]
      BY <1>1, <1>3, <3>1
    <3>3. e[k] = a + c
      BY <1>5, <3>1 DEF End
    <3>4. e[k - 1] = a
      <4>1. CASE k = 1
        <5>1. a = 0
          BY <4>1 DEF Covers
        <5>2. k - 1 = 0
          BY <4>1
        <5> QED BY <1>5, <5>1, <5>2
      <4>2. CASE k # 1
        <5>1. k - 1 \in 1 .. l
          BY <1>2, <3>1, <4>2
        <5>2. a = End(s, k - 1)
          BY <3>1, <4>2 DEF Covers
        <5> QED BY <1>5, <5>1, <5>2
      <4> QED BY <4>1, <4>2
    <3> HIDE DEF a, c, l
    <3>5. SubSeq(D, 1, a) \o [j \in 1 .. c |-> D[a + j]] = SubSeq(D, 1, a + c)
      BY <1>1, <3>2, Joined
    <3> QED BY <3>2, <3>3, <3>4, <3>5
  <2> QED BY <1>5, <2>1 DEF Parts
<1>8. FlattenSeq(t) = SubSeq(D, 1, e[Len(t)])
  BY <1>1, <1>4, <1>7, FlattenParts
<1>9. SubSeq(D, 1, Len(D)) = D
  BY <1>1
<1> QED BY <1>1, <1>4, <1>6, <1>8, <1>9 DEF D

\* Pages of one node, one behind the other, and nothing behind them.
AreSlicesOf(n, s, page) ==
  /\ page \in Seq(Range(page)) /\ Len(page) = Len(s)
  /\ \A k \in 1 .. Len(s) : /\ IsKept(page[k]) /\ page[k].page = k - 1
                            /\ page[k].pages = Len(s) /\ page[k].items = OnPage(n, s[k])

\* The first l are each on their own, and there is nothing behind them.
OneByOne(l, page, pages) ==
  /\ Len(pages) = l + 1 /\ DOMAIN pages = 1 .. l + 1 /\ pages = [k \in 1 .. l + 1 |-> pages[k]]
  /\ \A k \in 1 .. l : pages[k] = <<page[k]>>
  /\ pages[l + 1] = <<>>

LEMMA PagesHold ==
  ASSUME NEW n, NEW s, Covers(s, Len(Instances)), NEW page, AreSlicesOf(n, s, page), NEW pages,
         OneByOne(Len(s), page, pages)
  PROVE  Tiles(n, pages)
<1> DEFINE l == Len(s)
           t == [k \in DOMAIN page |-> page[k].items]
<1>1. l \in Nat \ {0} /\ page \in Seq(Range(page)) /\ Len(page) = l
  BY DEF Covers, AreSlicesOf
<1>2. DOMAIN page = 1 .. l
  BY <1>1
<1>3. FlattenSeq(pages) = page
  BY <1>1, FlattenOnes DEF OneByOne
<1>4. Last(pages) = <<>>
  BY DEF Last, OneByOne
<1>5. \A k \in 1 .. l : /\ Encode(page[k], MaxName).ok /\ page[k].page = k - 1
                        /\ page[k].pages = l /\ page[k].items = OnPage(n, s[k])
  BY DEF AreSlicesOf, IsKept
<1>6. Len(page) = page[1].pages
  BY <1>1, <1>5
<1>7. t = [k \in 1 .. l |-> OnPage(n, s[k])]
  BY <1>2, <1>5
<1> HIDE DEF t
<1>8. FlattenSeq(t) = Descriptors(n)
  BY <1>7, SlicesHold
<1> HIDE DEF l
<1>9. \A k \in DOMAIN page : Encode(page[k], MaxName).ok /\ page[k].page = k - 1
  BY <1>2, <1>5
<1> QED BY <1>3, <1>4, <1>6, <1>8, <1>9 DEF Tiles, t

LEMMA DescriptionTiles ==
  ASSUME NodeFits, DescriptorsFit, NEW n \in AllNames
  PROVE  Tiles(n, [k \in 1 .. FillDescribe(n, 0)[1].pages + 1 |-> FillDescribe(n, k - 1)])
<1> DEFINE fixed == DescribeFixed + TrailerSize
           s == Slices(n, fixed)
           l == Len(s)
           page == [k \in 1 .. l |-> PageOfDescription(n, k - 1, l, s[k])]
           pages == [k \in 1 .. l + 1 |-> FillDescribe(n, k - 1)]
<1>1. Covers(s, Len(Instances)) /\ l \in Nat \ {0}
  BY SlicesCover DEF Covers
<1>2. \A p \in Nat : FillDescribe(n, p) = IF p >= l THEN <<>>
                                          ELSE <<PageOfDescription(n, p, l, s[p + 1])>>
  BY DEF FillDescribe, PageOfDescription
<1>3. ASSUME NEW k \in 1 .. l
      PROVE  /\ k - 1 \in Nat /\ ~(k - 1 >= l) /\ (k - 1) + 1 = k
             /\ IsKept(PageOfDescription(n, k - 1, l, s[k]))
  <2> DEFINE p == k - 1
  <2>1. p \in Nat /\ ~(p >= l) /\ p + 1 = k
    BY <1>1
  <2> HIDE DEF p, l, s, fixed
  <2>2. fixed \in {DescribeFixed + TrailerSize, AnnounceFixed}
    BY DEF fixed
  <2>3. /\ s[p + 1].first \in Nat /\ s[p + 1].count \in Nat
        /\ s[p + 1].first + s[p + 1].count =< Len(Instances)
        /\ p \in Byte /\ l \in Byte /\ Len(Instances) \in Byte
        /\ SizeOfAll(n, s[p + 1].first + 1, s[p + 1].first + s[p + 1].count) =< Budget(n, fixed)
    BY <2>1, <2>2, PagePlace DEF s, l
  <2>4. IsKept(PageOfDescription(n, p, l, s[p + 1]))
    BY <2>3, DescriptionIsKept DEF fixed
  <2> QED BY <2>1, <2>4 DEF p
<1> HIDE DEF s
<1>4. FillDescribe(n, 0)[1].pages = l
  <2>1. ~(0 >= l) /\ 0 \in Nat
    BY <1>1
  <2>2. FillDescribe(n, 0) = <<PageOfDescription(n, 0, l, s[0 + 1])>>
    BY <1>2, <2>1
  <2> QED BY <2>2 DEF PageOfDescription
<1> HIDE DEF l
<1>5. /\ Len(page) = l /\ DOMAIN page = 1 .. l
      /\ \A k \in 1 .. l : page[k] = PageOfDescription(n, k - 1, l, s[k])
  BY <1>1
<1>6. AreSlicesOf(n, s, page)
  <2> HIDE DEF page
  <2>1. page \in Seq(Range(page))
    <3>1. \A k \in 1 .. l : page[k] \in Range(page)
      BY <1>5 DEF Range
    <3>2. page = [k \in 1 .. l |-> page[k]]
      BY DEF page
    <3>3. page \in [1 .. l -> Range(page)]
      BY <3>1, <3>2
    <3> QED BY <1>1, <3>3
  <2>2. ASSUME NEW k \in 1 .. l
        PROVE  /\ IsKept(page[k]) /\ page[k].page = k - 1
               /\ page[k].pages = l /\ page[k].items = OnPage(n, s[k])
    <3>1. page[k] = PageOfDescription(n, k - 1, l, s[k]) /\ IsKept(page[k])
      BY <1>3, <1>5
    <3> QED BY <3>1 DEF PageOfDescription
  <2> QED BY <1>5, <2>1, <2>2 DEF AreSlicesOf, l
<1>7. /\ Len(pages) = l + 1 /\ DOMAIN pages = 1 .. l + 1
      /\ pages = [k \in 1 .. l + 1 |-> pages[k]]
  BY <1>1
<1>8. ASSUME NEW k \in 1 .. l PROVE pages[k] = <<page[k]>>
  <2>1. pages[k] = FillDescribe(n, k - 1)
    BY <1>1
  <2>2. FillDescribe(n, k - 1) = <<PageOfDescription(n, k - 1, l, s[k])>>
    BY <1>2, <1>3
  <2> HIDE DEF pages, page
  <2> QED BY <1>5, <2>1, <2>2
<1>9. pages[l + 1] = <<>>
  <2>1. pages[l + 1] = FillDescribe(n, (l + 1) - 1) /\ (l + 1) - 1 \in Nat /\ (l + 1) - 1 >= l
    BY <1>1
  <2> QED BY <1>2, <2>1
<1> HIDE DEF pages, page
<1>10. OneByOne(Len(s), page, pages)
  BY <1>7, <1>8, <1>9 DEF OneByOne, l
<1>11. Tiles(n, pages)
  BY <1>1, <1>6, <1>10, PagesHold
<1> QED BY <1>4, <1>11 DEF pages

LEMMA AnnouncementTiles ==
  ASSUME NodeFits, AnnouncementsFit, NEW n \in AllNames
  PROVE  Tiles(n, [k \in 1 .. FillAnnounce(n, 0)[1].pages + 1 |-> FillAnnounce(n, k - 1)])
<1> DEFINE fixed == AnnounceFixed
           s == Slices(n, fixed)
           l == Len(s)
           page == [k \in 1 .. l |-> PageOfAnnouncement(n, k - 1, l, s[k])]
           pages == [k \in 1 .. l + 1 |-> FillAnnounce(n, k - 1)]
<1>1. Covers(s, Len(Instances)) /\ l \in Nat \ {0}
  <2> HIDE DEF s
  <2>1. fixed \in {DescribeFixed + TrailerSize, AnnounceFixed}
    OBVIOUS
  <2>2. PICK k \in 0 .. Len(Instances) :
          /\ Covers(s, k)
          /\ (\A i \in 1 .. Len(Instances) : SizeOf(n, i) =< Budget(n, fixed))
               => k = Len(Instances)
    BY <2>1, SlicesTight DEF s
  <2>3. \A i \in 1 .. Len(Instances) : SizeOf(n, i) =< Budget(n, fixed)
    BY InstanceCount DEF AnnouncementsFit
  <2>4. Covers(s, Len(Instances))
    BY <2>2, <2>3
  <2> QED BY <2>4 DEF Covers
<1>2. \A p \in Nat : FillAnnounce(n, p) = IF p >= l THEN <<>>
                                          ELSE <<PageOfAnnouncement(n, p, l, s[p + 1])>>
  BY DEF FillAnnounce, PageOfAnnouncement
<1>3. ASSUME NEW k \in 1 .. l
      PROVE  /\ k - 1 \in Nat /\ ~(k - 1 >= l) /\ (k - 1) + 1 = k
             /\ IsKept(PageOfAnnouncement(n, k - 1, l, s[k]))
  <2> DEFINE p == k - 1
  <2>1. p \in Nat /\ ~(p >= l) /\ p + 1 = k
    BY <1>1
  <2> HIDE DEF p, l, s, fixed
  <2>2. fixed \in {DescribeFixed + TrailerSize, AnnounceFixed}
    BY DEF fixed
  <2>3. /\ s[p + 1].first \in Nat /\ s[p + 1].count \in Nat
        /\ s[p + 1].first + s[p + 1].count =< Len(Instances)
        /\ p \in Byte /\ l \in Byte /\ Len(Instances) \in Byte
        /\ SizeOfAll(n, s[p + 1].first + 1, s[p + 1].first + s[p + 1].count) =< Budget(n, fixed)
    BY <2>1, <2>2, PagePlace DEF s, l
  <2>4. IsKept(PageOfAnnouncement(n, p, l, s[p + 1]))
    BY <2>3, AnnouncementIsKept DEF fixed
  <2> QED BY <2>1, <2>4 DEF p
<1> HIDE DEF s
<1>4. FillAnnounce(n, 0)[1].pages = l
  <2>1. ~(0 >= l) /\ 0 \in Nat
    BY <1>1
  <2>2. FillAnnounce(n, 0) = <<PageOfAnnouncement(n, 0, l, s[0 + 1])>>
    BY <1>2, <2>1
  <2> QED BY <2>2 DEF PageOfAnnouncement
<1> HIDE DEF l
<1>5. /\ Len(page) = l /\ DOMAIN page = 1 .. l
      /\ \A k \in 1 .. l : page[k] = PageOfAnnouncement(n, k - 1, l, s[k])
  BY <1>1
<1>6. AreSlicesOf(n, s, page)
  <2> HIDE DEF page
  <2>1. page \in Seq(Range(page))
    <3>1. \A k \in 1 .. l : page[k] \in Range(page)
      BY <1>5 DEF Range
    <3>2. page = [k \in 1 .. l |-> page[k]]
      BY DEF page
    <3>3. page \in [1 .. l -> Range(page)]
      BY <3>1, <3>2
    <3> QED BY <1>1, <3>3
  <2>2. ASSUME NEW k \in 1 .. l
        PROVE  /\ IsKept(page[k]) /\ page[k].page = k - 1
               /\ page[k].pages = l /\ page[k].items = OnPage(n, s[k])
    <3>1. page[k] = PageOfAnnouncement(n, k - 1, l, s[k]) /\ IsKept(page[k])
      BY <1>3, <1>5
    <3> QED BY <3>1 DEF PageOfAnnouncement
  <2> QED BY <1>5, <2>1, <2>2 DEF AreSlicesOf, l
<1>7. /\ Len(pages) = l + 1 /\ DOMAIN pages = 1 .. l + 1
      /\ pages = [k \in 1 .. l + 1 |-> pages[k]]
  BY <1>1
<1>8. ASSUME NEW k \in 1 .. l PROVE pages[k] = <<page[k]>>
  <2>1. pages[k] = FillAnnounce(n, k - 1)
    BY <1>1
  <2>2. FillAnnounce(n, k - 1) = <<PageOfAnnouncement(n, k - 1, l, s[k])>>
    BY <1>2, <1>3
  <2> HIDE DEF pages, page
  <2> QED BY <1>5, <2>1, <2>2
<1>9. pages[l + 1] = <<>>
  <2>1. pages[l + 1] = FillAnnounce(n, (l + 1) - 1) /\ (l + 1) - 1 \in Nat /\ (l + 1) - 1 >= l
    BY <1>1
  <2> QED BY <1>2, <2>1
<1> HIDE DEF pages, page
<1>10. OneByOne(Len(s), page, pages)
  BY <1>7, <1>8, <1>9 DEF OneByOne, l
<1>11. Tiles(n, pages)
  BY <1>1, <1>6, <1>10, PagesHold
<1> QED BY <1>4, <1>11 DEF pages

\* Whatever the child is called, the pages of its description and of its
\* announcement hold its descriptors, all of them, in order and once, each page
\* fits its frame, and each says how many there are.
THEOREM PagesAlwaysTile ==
  ASSUME NodeFits, DescriptorsFit, AnnouncementsFit
  PROVE  Spec => []PagesTile
<1>1. Saying => PagesTile
  <2> SUFFICES ASSUME Saying PROVE PagesTile
    OBVIOUS
  <2>1. names \in AllNames
    BY DEF Saying
  <2> QED BY <2>1, DescriptionTiles, AnnouncementTiles DEF PagesTile, PagesOf
<1>2. Init => Saying
  BY SayingInit
<1>3. Saying /\ [Next]_vars => Saying'
  BY SayingNext
<1> QED BY <1>1, <1>2, <1>3, PTL DEF Spec

-----------------------------------------------------------------------------
(* Names of whole characters *)

IsCutOf(text, limit, c) ==
  /\ c \in 0 .. Len(text) /\ c =< limit
  /\ c = 0 \/ c = Len(text) \/ ~IsContinuation(text[c + 1])

\* Where a text is cut.
LEMMA CutIs ==
  ASSUME NEW text \in Seq(Byte), NEW limit \in Nat
  PROVE  \E c : IsCutOf(text, limit, c) /\ Cut(text, limit) = SubSeq(text, 1, c)
<1>1. CASE Len(text) =< limit
  <2>1. SafeLength(text, limit) = Len(text)
    BY <1>1 DEF SafeLength
  <2>2. IsCutOf(text, limit, Len(text))
    BY <1>1 DEF IsCutOf
  <2> QED BY <2>1, <2>2 DEF Cut
<1>2. CASE ~(Len(text) =< limit)
  <2> DEFINE S == {cut \in 0 .. limit : cut = 0 \/ ~IsContinuation(text[cut + 1])}
             c == Max(S)
  <2>1. SafeLength(text, limit) = c
    BY <1>2 DEF SafeLength
  <2>2. c \in S
    <3>1. S \subseteq 0 .. limit /\ 0 \in S
      OBVIOUS
    <3> HIDE DEF S
    <3> QED BY <3>1, LastExists
  <2>3. c \in 0 .. limit /\ (c = 0 \/ ~IsContinuation(text[c + 1]))
    BY <2>2
  <2> HIDE DEF c
  <2>4. c \in 0 .. Len(text)
    BY <1>2, <2>3
  <2>5. IsCutOf(text, limit, c)
    BY <2>3, <2>4 DEF IsCutOf
  <2> QED BY <2>1, <2>5 DEF Cut
<1> QED BY <1>1, <1>2

Begins(text, k) == k \in DOMAIN text => ~IsContinuation(text[k])

LEMMA WidthIs ==
  ASSUME NEW b
  PROVE  Width(b) \in 0 .. 4 /\ (~IsContinuation(b) => Width(b) \in 1 .. 4)
<1>1. b < 128 \/ ~(b < 128)
  OBVIOUS
<1> QED BY <1>1 DEF Width

\* What is left of whole characters is whole characters.
LEMMA CutLeavesWhole ==
  ASSUME NEW text \in Seq(Byte), WholeText(text), NEW limit, NEW c, IsCutOf(text, limit, c)
  PROVE  WholeText(SubSeq(text, 1, c))
<1> DEFINE t == SubSeq(text, 1, c)
<1>1. c \in Nat /\ c =< Len(text) /\ Len(text) \in Nat
  BY DEF IsCutOf
<1>2. DOMAIN t = 1 .. c /\ \A k \in 1 .. c : t[k] = text[k]
  BY <1>1
<1>3. DOMAIN text = 1 .. Len(text)
  OBVIOUS
<1>4. /\ Begins(text, 1)
      /\ \A k \in DOMAIN text :
           Begins(text, k) => /\ \A j \in k + 1 .. k + Width(text[k]) - 1 : ~Begins(text, j)
                              /\ Begins(text, k + Width(text[k]))
  BY DEF WholeText, Begins
<1> HIDE DEF t
<1>5. Begins(t, 1)
  BY <1>1, <1>2, <1>3, <1>4 DEF Begins
<1>6. ASSUME NEW k \in DOMAIN t, Begins(t, k)
      PROVE  /\ \A j \in k + 1 .. k + Width(t[k]) - 1 : ~Begins(t, j)
             /\ Begins(t, k + Width(t[k]))
  <2> DEFINE w == Width(t[k])
  <2>1. k \in 1 .. c /\ k \in DOMAIN text /\ t[k] = text[k] /\ Begins(text, k)
    BY <1>1, <1>2, <1>3, <1>6 DEF Begins
  <2>2. w \in Nat
    BY WidthIs
  <2>3. /\ \A j \in k + 1 .. k + w - 1 : ~Begins(text, j)
        /\ Begins(text, k + w)
    BY <1>4, <2>1
  <2> HIDE DEF w
  <2>4. k + w - 1 =< c
    <3> SUFFICES ASSUME ~(k + w - 1 =< c) PROVE FALSE
      OBVIOUS
    <3>1. c + 1 \in k + 1 .. k + w - 1
      BY <1>1, <2>1, <2>2
    <3>2. c + 1 \in DOMAIN text /\ IsContinuation(text[c + 1])
      BY <2>3, <3>1 DEF Begins
    <3>3. c # 0 /\ c # Len(text)
      <4>1. c + 1 =< Len(text)
        BY <1>3, <3>2
      <4>2. k \in 1 .. c
        BY <2>1
      <4> QED BY <1>1, <4>1, <4>2
    <3> QED BY <3>2, <3>3 DEF IsCutOf
  <2>5. ASSUME NEW j \in k + 1 .. k + w - 1 PROVE ~Begins(t, j)
    <3>1. j \in 1 .. c
      BY <1>1, <2>1, <2>2, <2>4
    <3> QED BY <1>1, <1>2, <1>3, <2>3, <2>5, <3>1 DEF Begins
  <2>6. Begins(t, k + w)
    BY <1>1, <1>2, <1>3, <2>1, <2>2, <2>3 DEF Begins
  <2> QED BY <2>5, <2>6 DEF w
<1>7. WholeText(t)
  BY <1>5, <1>6 DEF WholeText, Begins
<1> QED BY <1>7 DEF t

\* The bytes a character takes, and the room a build has, leave whole characters.
LEMMA CutIsText ==
  ASSUME NEW text \in Seq(Byte), WholeText(text), NEW limit \in Nat
  PROVE  WholeText(Cut(text, limit)) /\ Len(Cut(text, limit)) =< limit
<1>1. PICK c : IsCutOf(text, limit, c) /\ Cut(text, limit) = SubSeq(text, 1, c)
  BY CutIs
<1>2. WholeText(SubSeq(text, 1, c))
  BY <1>1, CutLeavesWhole
<1>3. Len(SubSeq(text, 1, c)) =< limit
  <2>1. c \in 0 .. Len(text) /\ c =< limit
    BY <1>1 DEF IsCutOf
  <2>2. Len(SubSeq(text, 1, c)) = c
    BY <2>1
  <2> QED BY <2>1, <2>2
<1> QED BY <1>1, <1>2, <1>3

-----------------------------------------------------------------------------
(* Names that stay text *)

LEMMA NameLayout ==
  /\ "SetNameRequest" \in DOMAIN Layout
  /\ LET l == Layout["SetNameRequest"] IN Len(l) = 4 /\ l[4] = <<"name", "name">>
<1>1. "SetNameRequest" \in DOMAIN ChangeLayout /\ ChangeLayout \in Layouts
  BY Tables DEF Layouts
<1>2. Layout["SetNameRequest"] = ChangeLayout["SetNameRequest"]
  BY <1>1, LayoutOf
<1> DEFINE a == << <<"target", "u8">>, <<"class", "class">>, <<"inst", "u8">>,
                   <<"name", "name">> >>
<1>3. ChangeLayout["SetNameRequest"] = a
  BY DEF ChangeLayout
<1>4. Len(a) = 4 /\ a[4] = <<"name", "name">>
  OBVIOUS
<1>5. "SetNameRequest" \in DOMAIN Layout
  BY <1>1 DEF Layout
<1> HIDE DEF a
<1> QED BY <1>2, <1>3, <1>4, <1>5

\* A name is read cut to the room there is.
LEMMA NameIsRead ==
  ASSUME NEW m, NEW limit, IsMessage(m, limit), m.type = "SetNameRequest", NEW room
  PROVE  m.name \in Seq(Byte) /\ MessageRead(m, room).name = Cut(m.name, room)
<1> DEFINE l == Layout[m.type]
           N == NamesIn(l, Len(l))
           q == MessageRead(m, room)
<1>1. /\ IsLayout(l) /\ Holds(l, m, limit)
      /\ m = [y \in Besides(m.type) \cup N |-> m[y]]
  BY LayoutIs DEF IsMessage
<1>2. Len(l) = 4 /\ l[4] = <<"name", "name">>
  BY NameLayout
<1> HIDE DEF l
<1>3. 4 \in DOMAIN l /\ l[4][1] = "name" /\ l[4][2] = "name"
  BY <1>1, <1>2 DEF IsLayout
<1>4. IsOf("name", m.name, limit)
  BY <1>1, <1>3 DEF Holds
<1>5. "name" \in N
  <2>1. l[4][1] \in N
    BY <1>1, <1>3 DEF NamesIn, IsLayout
  <2> QED BY <1>3, <2>1
<1>6. KindIn(l, "name") = "name"
  <2>1. (CHOOSE j \in DOMAIN l : l[j][1] = "name") = 4
    BY <1>1, <1>3 DEF IsLayout
  <2> QED BY <1>3, <2>1 DEF KindIn
<1> HIDE DEF N
<1>7. "name" \in DOMAIN m
  BY <1>1, <1>5
<1>8. q.name = AsRead(KindIn(l, "name"), m.name, room)
  BY <1>7 DEF MessageRead, l
<1> HIDE DEF q
<1>9. q.name = Cut(m.name, room)
  BY <1>6, <1>8 DEF AsRead
<1>10. m.name \in Seq(Byte)
  BY <1>4 DEF IsOf, IsText
<1> QED BY <1>9, <1>10 DEF q

\* What the child reads of a rename it may be called.
LEMMA NameAskedFits ==
  ASSUME RequestsAreMessages, NamesGivenAreText, Saying, NEW q, down # <<>>,
         q = Head(down).read, q.m.type = "SetNameRequest"
  PROVE  IsName(q.m.name)
<1>1. PICK m \in agenda : q = Asked(m).read
  <2>1. PICK m \in agenda : down = <<Asked(m)>>
    BY DEF Saying
  <2> QED BY <2>1
<1>2. agenda \in Agendas
  BY DEF Saying
<1>3. q.m = [type |-> "Unknown"] \/ (IsMessage(m, PeerName) /\ q.m = MessageRead(m, MaxName))
  BY <1>1, <1>2, AskedIsRead
<1>4. IsMessage(m, PeerName) /\ q.m = MessageRead(m, MaxName)
  <2>1. q.m = [type |-> "Unknown"] => q.m.type = "Unknown"
    OBVIOUS
  <2> QED BY <1>3, <2>1
<1>5. m.type = "SetNameRequest"
  <2>1. "type" \in DOMAIN m
    BY <1>4 DEF IsMessage, Besides
  <2> QED BY <1>4, <2>1 DEF MessageRead
<1>6. m.name \in Seq(Byte) /\ q.m.name = Cut(m.name, MaxName)
  BY <1>4, <1>5, NameIsRead
<1>7. WholeText(m.name)
  BY <1>2, <1>5 DEF NamesGivenAreText
<1>8. MaxName \in Nat
  BY ConversationAssumption
<1> QED BY <1>6, <1>7, <1>8, CutIsText DEF IsName

LEMMA RenameKeepsText ==
  ASSUME NEW n \in AllNames, AllNamed(n), NEW request, IsName(request.name)
  PROVE  AllNamed(Rename(n, request))
<1>1. DOMAIN n = {"name", "instances"} /\ DOMAIN n.instances = DOMAIN Instances
  BY DEF AllNames
<1>2. CASE RenameResult(request) # "Ok"
  <2>1. request.target # NodeTarget
    BY <1>2 DEF RenameResult
  <2>2. Rename(n, request) = n
    BY <1>2, <2>1 DEF Rename
  <2> QED BY <2>2
<1>3. CASE RenameResult(request) = "Ok" /\ request.target = NodeTarget
  <2>1. Rename(n, request) = [n EXCEPT !.name = request.name]
    BY <1>3 DEF Rename
  <2> QED BY <1>1, <2>1 DEF AllNamed
<1>4. CASE RenameResult(request) = "Ok" /\ request.target # NodeTarget
  <2>1. Rename(n, request) = [n EXCEPT !.instances[request.inst + 1] = request.name]
    BY <1>4 DEF Rename
  <2> QED BY <1>1, <2>1 DEF AllNamed
<1> QED BY <1>2, <1>3, <1>4

\* In memory and in the file alike.
Naming ==
  /\ Saying /\ AllNamed(names)
  /\ \A n \in AllNames : saved = <<n>> => AllNamed(n)

LEMMA NamingInit ==
  ASSUME NamesGivenAreText
  PROVE  Init => Naming
<1> SUFFICES ASSUME Init PROVE Naming
  OBVIOUS
<1>1. AllNamed(names)
  BY DEF Init, NamesGivenAreText
<1>2. ASSUME NEW n, saved = <<n>> PROVE FALSE
  BY <1>2 DEF Init
<1> QED BY <1>1, <1>2, SayingInit DEF Naming

LEMMA LoadedIsText ==
  ASSUME Naming, NamesGivenAreText
  PROVE  AllNamed(LoadNames(saved))
<1>1. CASE saved = <<>>
  BY <1>1 DEF LoadNames, NamesGivenAreText
<1>2. ASSUME NEW n \in AllNames, saved = <<n>> PROVE AllNamed(LoadNames(saved))
  <2>1. AllNamed(n) /\ AllNamed(FactoryNames)
    BY <1>2 DEF Naming, NamesGivenAreText
  <2> DEFINE r == LoadNames(<<n>>)
  <2>2. /\ r.name = Kept(n.name, FactoryNames.name)
        /\ \A k \in DOMAIN Instances :
             r.instances[k] = Kept(n.instances[k], FactoryNames.instances[k])
    BY DEF LoadNames
  <2> HIDE DEF r
  <2>3. AllNamed(r)
    BY <2>1, <2>2 DEF AllNamed, Kept
  <2> QED BY <1>2, <2>3 DEF r
<1> QED BY <1>1, <1>2 DEF Naming, Saying

LEMMA NamingNext ==
  ASSUME RequestsAreMessages, NamesGivenAreText
  PROVE  Naming /\ [Next]_vars => Naming'
<1> SUFFICES ASSUME Naming, [Next]_vars PROVE Naming'
  OBVIOUS
<1>1. Saying /\ Saying' /\ AllNamed(names) /\ names \in AllNames
  BY SayingNext DEF Naming, Saying
<1>2. \A n \in AllNames : saved = <<n>> => AllNamed(n)
  BY DEF Naming
<1>3. ASSUME UNCHANGED <<names, saved>> PROVE Naming'
  BY <1>1, <1>2, <1>3 DEF Naming
<1>4. CASE Restart
  <2>1. names' = LoadNames(saved) /\ saved' = saved
    BY <1>4 DEF Restart
  <2>2. AllNamed(LoadNames(saved))
    BY LoadedIsText
  <2> QED BY <1>1, <1>2, <2>1, <2>2 DEF Naming
<1>5. CASE TakeName
  <2>1. PICK q \in Request("SetNameRequest") :
          /\ names' = Rename(names, q.m)
          /\ saved' = IF RenameResult(q.m) = "Ok" THEN <<names'>> ELSE saved
    BY <1>5 DEF TakeName
  <2>2. down # <<>> /\ q = Head(down).read /\ q.m.type = "SetNameRequest"
    BY DEF Request, First
  <2>3. IsName(q.m.name)
    BY <1>1, <2>2, NameAskedFits
  <2>4. AllNamed(names')
    BY <1>1, <2>1, <2>3, RenameKeepsText
  <2>5. ASSUME NEW n \in AllNames, saved' = <<n>> PROVE AllNamed(n)
    <3>1. CASE saved' = saved
      BY <1>2, <2>5, <3>1
    <3>2. CASE saved' = <<names'>>
      <4>1. n = names'
        BY <2>5, <3>2
      <4> QED BY <2>4, <4>1
    <3> QED BY <2>1, <3>1, <3>2
  <2> QED BY <1>1, <2>4, <2>5 DEF Naming
<1>6. ASSUME NEW m, Ask(m) PROVE UNCHANGED <<names, saved>>
  BY <1>6 DEF Ask, node
<1>7. ASSUME Tell \/ TakeWrite \/ TakePolicy \/ TakeLink \/ TakeClear \/ TakeOta
      PROVE  UNCHANGED <<names, saved>>
  BY <1>7 DEF Tell, TakeWrite, TakePolicy, TakeLink, TakeClear, TakeOta, node
<1>8. ASSUME \/ SendReport \/ HearValues \/ HearPage \/ HearPong \/ HearOther
             \/ LoseRequest \/ LoseAnswer \/ UNCHANGED vars
      PROVE  UNCHANGED <<names, saved>>
  BY <1>8 DEF SendReport, HearValues, HearPage, HearPong, HearOther, Took, LoseRequest,
     LoseAnswer, vars, node
<1> QED BY <1>3, <1>4, <1>5, <1>6, <1>7, <1>8 DEF Next, Hear

\* What a child is called is whole characters its build has room for, whoever
\* renames it and whatever room his build has, and is so again after a restart.
THEOREM NamesStayText ==
  ASSUME RequestsAreMessages, NamesGivenAreText
  PROVE  Spec => []NamesAreText
<1>1. Naming => NamesAreText
  <2> SUFFICES ASSUME Naming PROVE NamesAreText
    OBVIOUS
  <2>1. AllNamed(names) /\ names \in AllNames
    BY DEF Naming, Saying
  <2>2. DOMAIN names.instances = DOMAIN Instances
    BY <2>1 DEF AllNames
  <2> QED BY <2>1, <2>2 DEF NamesAreText, AllNamed, IsName, Range
<1>2. Init => Naming
  BY NamingInit
<1>3. Naming /\ [Next]_vars => Naming'
  BY NamingNext
<1> QED BY <1>1, <1>2, <1>3, PTL DEF Spec

-----------------------------------------------------------------------------
(* Copies *)

\* Whatever is lost, restarted or renamed between two pages, a root that has put a
\* description together from every page, in order and of one revision, has what
\* the child was at that revision.
THEOREM CopiesAreTrue ==
  ASSUME NodeFits, RequestsAreMessages, MeasuresFit, DescriptorsFit, RevisionsDiffer
  PROVE  Spec => []CopyWasTrue
<1> DEFINE All == Saying /\ Telling /\ Copying
<1>1. Init => All
  BY SayingInit, TellingInit, CopyingInit
<1>2. All /\ [Next]_vars => All'
  BY SayingNext, TellingNext, TellingImplies, CopyingNext
<1>3. All => CopyWasTrue
  BY CopyingImplies
<1> QED BY <1>1, <1>2, <1>3, PTL DEF Spec
=============================================================================
