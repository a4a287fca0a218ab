------------------------------ MODULE AppProofs ------------------------------
(***************************************************************************)
(* Proofs about App.tla and what it is made of: Loopback.tla, for any tick *)
(* interval, frames and messages, and WebPage.tla, for any players of any  *)
(* versions, any browser and any order of its events.                      *)
(***************************************************************************)
EXTENDS App, SequenceTheorems, TLAPS

-----------------------------------------------------------------------------
(* A battle on one computer handles each tick once.  The heart of it is     *)
(* FilledLatestFirst: the ticks that wait are the end of the log, latest    *)
(* first.                                                                   *)

FilledLatestFirst ==
  /\ Len(log) = Len(handled) + Len(filled)
  /\ \A i \in 1..Len(filled) : filled[i] = log[Len(log) + 1 - i]

LoopbackInv ==
  /\ LoopbackTypeOK
  /\ FilledLatestFirst

\* The invariant holds when the battle begins.
LEMMA InitInv == LoopbackInit => LoopbackInv
<1> SUFFICES ASSUME LoopbackInit PROVE LoopbackInv
  OBVIOUS
<1>1. LoopbackTypeOK
  <2>1. <<>> \in Seq(Message) /\ <<>> \in Seq(Seq(Message))
    OBVIOUS
  <2>2. nextTickTime \in 1..TickInterval /\ dt \in Nat
    BY TickAssumption DEF LoopbackInit
  <2>3. updating \in BOOLEAN
    BY Zenon DEF LoopbackInit
  <2> QED
    BY <2>1, <2>2, <2>3, Zenon DEF LoopbackInit, LoopbackTypeOK
<1>2. FilledLatestFirst
  BY DEF LoopbackInit, FilledLatestFirst
<1> QED
  BY <1>1, <1>2 DEF LoopbackInv

\* The state keeps its types whatever a frame does.
LEMMA TypeStep == LoopbackTypeOK /\ [LoopbackNext]_loopbackVars => LoopbackTypeOK'
<1> SUFFICES ASSUME LoopbackTypeOK, [LoopbackNext]_loopbackVars
             PROVE  LoopbackTypeOK'
  OBVIOUS
<1> USE TickAssumption, FrameAssumption DEF LoopbackTypeOK
<1>1. CASE \E msg \in Message : SendMessage(msg)
  BY <1>1, AppendProperties DEF SendMessage
<1>2. CASE \E d \in 0..MaxFrame : Frame(d)
  BY <1>2 DEF Frame
<1>3. CASE LeaveOpen
  BY <1>3 DEF LeaveOpen
<1>4. CASE FillTick
  <2>1. filled' \in Seq(Seq(Message)) /\ log' \in Seq(Seq(Message))
    BY <1>4, ConcatProperties, AppendProperties, <<filling>> \in Seq(Seq(Message)) DEF FillTick
  <2>2. filling' \in Seq(Message)
    BY <1>4 DEF FillTick
  <2> QED
    BY <1>4, <2>1, <2>2 DEF FillTick
<1>5. CASE HandleTicks
  <2>1. handled' \in Seq(Seq(Message)) /\ filled' \in Seq(Seq(Message))
    BY <1>5, ConcatProperties, EmptySeq DEF HandleTicks
  <2> QED
    BY <1>5, <2>1 DEF HandleTicks
<1>6. CASE UNCHANGED loopbackVars
  BY <1>6 DEF loopbackVars
<1> QED
  BY <1>1, <1>2, <1>3, <1>4, <1>5, <1>6 DEF LoopbackNext

\* A tick that is closed is the last of the log and the first that waits.
LEMMA FillTickInFront ==
  ASSUME LoopbackInv, FillTick
  PROVE  FilledLatestFirst'
<1> USE DEF LoopbackInv, LoopbackTypeOK, FilledLatestFirst
<1>1. log' = Append(log, filling) /\ filled' = <<filling>> \o filled /\ handled' = handled
  BY DEF FillTick
<1>2. /\ Len(log') = Len(log) + 1
      /\ log'[Len(log) + 1] = filling
      /\ \A i \in 1..Len(log) : log'[i] = log[i]
  BY <1>1, AppendProperties
<1>3. /\ Len(filled') = Len(filled) + 1
      /\ filled'[1] = filling
      /\ \A i \in 2..(Len(filled) + 1) : filled'[i] = filled[i - 1]
  BY <1>1, <<filling>> \in Seq(Seq(Message)), ConcatProperties
<1>4. ASSUME NEW i \in 1..Len(filled') PROVE filled'[i] = log'[Len(log') + 1 - i]
  <2>1. CASE i = 1
    BY <1>2, <1>3, <2>1
  <2>2. CASE i # 1
    <3>1. i - 1 \in 1..Len(filled) /\ i \in 2..(Len(filled) + 1)
      BY <1>3, <2>2
    <3>2. filled'[i] = log[Len(log) + 1 - (i - 1)]
      BY <1>3, <3>1
    <3>3. Len(log) + 1 - (i - 1) = Len(log') + 1 - i /\ Len(log') + 1 - i \in 1..Len(log)
      BY <1>2, <3>1
    <3> QED
      BY <1>2, <3>2, <3>3
  <2> QED
    BY <2>1, <2>2
<1>5. Len(log') = Len(handled') + Len(filled')
  BY <1>1, <1>2, <1>3
<1> QED
  BY <1>4, <1>5

\* When a frame has taken the ticks, none waits.
LEMMA HandleTicksEmpties ==
  ASSUME LoopbackInv, HandleTicks
  PROVE  FilledLatestFirst'
<1> USE DEF LoopbackInv, LoopbackTypeOK, FilledLatestFirst
<1>1. handled' = handled \o filled /\ filled' = <<>> /\ log' = log
  BY DEF HandleTicks
<1>2. Len(handled') = Len(handled) + Len(filled)
  BY <1>1, ConcatProperties
<1> QED
  BY <1>1, <1>2

\* Every step keeps the invariant.
LEMMA NextInv == LoopbackInv /\ [LoopbackNext]_loopbackVars => LoopbackInv'
<1> SUFFICES ASSUME LoopbackInv, [LoopbackNext]_loopbackVars
             PROVE  LoopbackInv'
  OBVIOUS
<1>1. LoopbackTypeOK'
  BY TypeStep DEF LoopbackInv
<1>2. FilledLatestFirst'
  <2>1. CASE UNCHANGED <<log, filled, handled>>
    BY <2>1 DEF LoopbackInv, FilledLatestFirst
  <2>2. CASE FillTick
    BY <2>2, FillTickInFront
  <2>3. CASE HandleTicks
    BY <2>3, HandleTicksEmpties
  <2> QED
    BY <2>1, <2>2, <2>3
    DEF LoopbackNext, SendMessage, Frame, LeaveOpen, loopbackVars
<1> QED
  BY <1>1, <1>2 DEF LoopbackInv

\* What waits is the end of the log in some order, in the reverse one.
LEMMA HandlesWhatWasClosed ==
  ASSUME LoopbackInv, HandleTicks
  PROVE  LET closed == Len(log) - Len(handled)
         IN \E order \in Orders(closed) :
              handled' = handled \o [i \in 1..closed |-> log[Len(handled) + order[i]]]
<1> DEFINE closed == Len(log) - Len(handled)
           order == [i \in 1..closed |-> closed + 1 - i]
           taken == [i \in 1..closed |-> log[Len(handled) + order[i]]]
<1>1. closed = Len(filled) /\ closed \in Nat
  BY DEF LoopbackInv, LoopbackTypeOK, FilledLatestFirst
<1>2. order \in Orders(closed)
  BY <1>1 DEF Orders
<1>3. ASSUME NEW i \in 1..closed PROVE taken[i] = filled[i]
  <2>1. Len(handled) + order[i] = Len(log) + 1 - i
    BY <1>1 DEF LoopbackInv, LoopbackTypeOK
  <2> QED
    BY <1>1, <2>1 DEF LoopbackInv, FilledLatestFirst
<1>4. taken = filled
  <2>1. filled = [i \in 1..closed |-> filled[i]]
    BY <1>1 DEF LoopbackInv, LoopbackTypeOK
  <2> HIDE DEF order
  <2> QED
    BY <1>3, <2>1
<1>5. handled' = handled \o taken
  BY <1>4 DEF HandleTicks
<1> QED
  BY <1>2, <1>5

\* However long its frames are, a local battle handles each tick once and in the frame
\* that closed it (LoopbackMessageMgr.ticks, BattleMessages.processTicks).
THEOREM LocalTicksHandledOnce == LoopbackSpec => TicksHandledOnce
<1> DEFINE Handles ==
      LET closed == Len(log) - Len(handled)
      IN \E order \in Orders(closed) :
           handled' = handled \o [i \in 1..closed |-> log[Len(handled) + order[i]]]
<1>1. LoopbackSpec => []LoopbackInv
  BY InitInv, NextInv, PTL DEF LoopbackSpec
<1>2. LoopbackInv /\ [LoopbackNext]_loopbackVars
        => [IF updating /\ ~updating' THEN Handles ELSE handled' = handled]_loopbackVars
  <2> SUFFICES ASSUME LoopbackInv, LoopbackNext
               PROVE  IF updating /\ ~updating' THEN Handles ELSE handled' = handled
    OBVIOUS
  <2>1. CASE HandleTicks
    <3>1. Handles
      BY <2>1, HandlesWhatWasClosed
    <3>2. updating /\ ~updating'
      BY <2>1 DEF HandleTicks
    <3> HIDE DEF Handles
    <3> QED
      BY <3>1, <3>2
  <2>2. CASE ~HandleTicks
    <3>1. handled' = handled /\ ~(updating /\ ~updating')
      BY <2>2 DEF LoopbackNext, SendMessage, Frame, LeaveOpen, FillTick
    <3> HIDE DEF Handles
    <3> QED
      BY <3>1
  <2> QED
    BY <2>1, <2>2
<1> QED
  BY <1>1, <1>2, PTL DEF LoopbackSpec, TicksHandledOnce

-----------------------------------------------------------------------------
(* The state of swfobject.js *)

\* Nothing has happened to it but what the head does (the variables of swfobject).
Fresh(s) ==
  /\ ~s.isDomLoaded
  /\ s.told = <<>> /\ s.place = "flashContent" /\ ~s.isExpressInstallActive
  /\ s.probe = "none" /\ s.counter = 0 /\ s.pv = browser.described

\* embedSWF has decided: what is seen is what the page has been told.
Outcome(s) ==
  \/ s.place = "game" /\ s.told = <<TRUE>> /\ ~s.isExpressInstallActive
  \/ s.place = "expressInstall" /\ s.told = <<>> /\ s.isExpressInstallActive
  \/ s.place = "flashContent" /\ s.told = <<FALSE>> /\ ~s.isExpressInstallActive

\* It decided well, or by a description that was wrong, before the probe answered.
Right(s) ==
  \/ (s.place = "game") <=> HasPlayerVersion(browser.installed, Required)
  \/ /\ browser.described # browser.installed
     /\ s.counter > 0 \/ s.pv # browser.installed

\* The DOM becomes ready for what is in domLoadFnArr, once.
SwfInv ==
  /\ scripts < 3 => document = HeadOpen /\ swf.domLoadFnArr = <<"main">> /\ Fresh(swf)
  /\ scripts = 3 /\ ua.oldWk =>
       /\ swf.domLoadFnArr = <<"main">>
       /\ swf.told = <<FALSE>> /\ swf.place = "flashContent" /\ ~swf.isExpressInstallActive
  /\ scripts = 3 /\ ~ua.oldWk /\ ~swf.isDomLoaded =>
       swf.domLoadFnArr = <<"main", "embed">> /\ Fresh(swf)
  /\ scripts = 3 /\ ~ua.oldWk /\ swf.isDomLoaded => Outcome(swf) /\ Right(swf)
  /\ swf.probe = "object" => swf.counter > 0

\* What a browser is (navigator)
LEMMA BrowserFacts ==
  ASSUME browser \in Browser
  PROVE  /\ browser.installed \in Version /\ browser.described \in Version
         /\ ~browser.listed => browser.described = browser.installed
BY DEF Browser

\* A field that is assigned keeps its type, and no other changes (swfobject).
LEMMA SwfFields ==
  ASSUME NEW s \in Swf
  PROVE  /\ s.domLoadFnArr \in Seq({"main", "embed"}) /\ s.isDomLoaded \in BOOLEAN
         /\ s.pv \in Version /\ s.probe \in {"none", "object", "removed"}
         /\ s.counter \in 0..MaxRetries /\ s.place \in Place /\ s.display \in BOOLEAN
         /\ s.visible \in BOOLEAN /\ s.isExpressInstallActive \in BOOLEAN
         /\ s.told \in Seq(BOOLEAN)
BY DEF Swf

\* Lists of one and of two things (the lists of functions)
LEMMA ShortLists ==
  ASSUME NEW S, NEW x \in S, NEW y \in S
  PROVE  /\ <<x>> \in Seq(S) /\ <<x, y>> \in Seq(S)
         /\ Append(<<>>, x) = <<x>> /\ Append(<<x>>, y) = <<x, y>>
<1>1. <<>> \in Seq(S) /\ <<x>> \in Seq(S)
  OBVIOUS
<1>2. Append(<<>>, x) = <<x>>
  OBVIOUS
<1>3. <<x, y>> \in Seq(S) /\ Len(<<x, y>>) = 2 /\ <<x, y>>[1] = x /\ <<x, y>>[2] = y
  OBVIOUS
<1>4. Append(<<x>>, y) = <<x, y>>
  <2> DEFINE s == Append(<<x>>, y)
             t == <<x, y>>
  <2>1. s \in Seq(S) /\ Len(s) = 2 /\ s[1] = x /\ s[2] = y
    <3>1. Len(<<x>>) = 1 /\ <<x>>[1] = x /\ 1 \in 1..1
      OBVIOUS
    <3> QED
      BY <1>1, <3>1, AppendProperties
  <2>2. t \in Seq(S) /\ Len(t) = 2 /\ t[1] = x /\ t[2] = y
    BY <1>3
  <2> HIDE DEF s, t
  <2>3. \A i \in 1..Len(s) : i = 1 \/ i = 2
    BY <2>1
  <2>4. Len(s) = Len(t) /\ \A i \in 1..Len(s) : s[i] = t[i]
    BY <2>1, <2>2, <2>3
  <2>5. s = t
    BY <2>1, <2>2, <2>4, SeqEqual
  <2> QED
    BY <2>5 DEF s, t
<1> QED
  BY <1>1, <1>2, <1>3, <1>4

\* A try of the probe (testPlayerVersion)
LEMMA ProbeFacts ==
  ASSUME browser \in Browser, NEW s \in Swf, NEW answer, NEW r, r = Probe(s, answer)
  PROVE  /\ r \in Swf
         /\ r.domLoadFnArr = s.domLoadFnArr /\ r.isDomLoaded = s.isDomLoaded
         /\ r.told = s.told /\ r.place = s.place
         /\ r.isExpressInstallActive = s.isExpressInstallActive
         /\ r.pv \in {s.pv, browser.installed}
         /\ r.probe = "object" => r.counter > 0
         /\ s.counter > 0 => r.counter > 0
<1>1. /\ s.counter \in 0..MaxRetries /\ MaxRetries \in Nat
      /\ browser.installed \in Version
  BY RetriesAssumption, BrowserFacts, SwfFields
<1>2. CASE answer = "version"
  <2>1. r = [s EXCEPT !.probe = "removed", !.pv = browser.installed]
    BY <1>2 DEF Probe
  <2> QED
    BY <1>1, <2>1 DEF Swf
<1>3. CASE answer = "notYet" /\ s.counter < MaxRetries
  <2>1. r = [s EXCEPT !.probe = "object", !.counter = @ + 1]
    BY <1>3 DEF Probe
  <2>2. s.counter + 1 \in 0..MaxRetries /\ s.counter + 1 > 0
    BY <1>1, <1>3
  <2> QED
    BY <1>1, <2>1, <2>2 DEF Swf
<1>4. CASE answer # "version" /\ ~(answer = "notYet" /\ s.counter < MaxRetries)
  <2>1. r = [s EXCEPT !.probe = "removed"]
    BY <1>4 DEF Probe
  <2> QED
    BY <1>1, <2>1 DEF Swf
<1> QED
  BY <1>2, <1>3, <1>4

\* What is decided when the DOM is ready (embedSWF)
LEMMA EmbedFacts ==
  ASSUME NEW s \in Swf, s.told = <<>>, s.place = "flashContent",
         ~s.isExpressInstallActive, ~ua.oldWk,
         document \in Nat, document >= Parsed,
         NEW r, r = EmbedNow(s)
  PROVE  /\ r \in Swf
         /\ r.isDomLoaded = s.isDomLoaded
         /\ r.pv = s.pv /\ r.probe = s.probe /\ r.counter = s.counter
         /\ Outcome(r)
         /\ (r.place = "game") <=> HasPlayerVersion(s.pv, Required)
<1> USE DEF Place
<1>a. /\ <<>> \in Seq(BOOLEAN) /\ Append(<<>>, TRUE) = <<TRUE>> /\ Append(<<>>, FALSE) = <<FALSE>>
      /\ <<TRUE>> \in Seq(BOOLEAN) /\ <<FALSE>> \in Seq(BOOLEAN)
      /\ ~(document < Parsed)
  BY DEF Parsed
<1>1. CASE HasPlayerVersion(s.pv, Required)
  <2>1. r = [[s EXCEPT !.place = "game"] EXCEPT !.told = Append(@, TRUE)]
    BY <1>1, <1>a DEF EmbedNow, CallbackFn, CreateSWF
  <2>2. r = [s EXCEPT !.place = "game", !.told = <<TRUE>>]
    BY <1>a, <2>1 DEF Swf
  <2> QED
    BY <1>1, <1>a, <2>2 DEF Swf, Outcome
<1>2. CASE ~HasPlayerVersion(s.pv, Required) /\ CanExpressInstall(s)
  <2> DEFINE t == [s EXCEPT !.isExpressInstallActive = TRUE, !.place = "expressInstall"]
  <2>1. r = IF ua.ie THEN [t EXCEPT !.display = FALSE] ELSE t
    BY <1>2, <1>a DEF EmbedNow, ShowExpressInstall, CreateSWF
  <2>2. /\ t \in Swf /\ t.isDomLoaded = s.isDomLoaded
        /\ t.pv = s.pv /\ t.probe = s.probe /\ t.counter = s.counter
        /\ t.place = "expressInstall" /\ t.told = <<>> /\ t.isExpressInstallActive
    BY DEF Swf
  <2> HIDE DEF t
  <2> QED
    BY <1>2, <2>1, <2>2 DEF Swf, Outcome
<1>3. CASE ~HasPlayerVersion(s.pv, Required) /\ ~CanExpressInstall(s)
  <2> DEFINE t == SetVisibility(s, TRUE)
  <2>1. r = [t EXCEPT !.told = Append(@, FALSE)]
    BY <1>3 DEF EmbedNow, CallbackFn
  <2>2. t \in Swf /\ t.told = <<>> /\ t.place = "flashContent" /\ ~t.isExpressInstallActive
        /\ t.isDomLoaded = s.isDomLoaded
        /\ t.pv = s.pv /\ t.probe = s.probe /\ t.counter = s.counter
    BY DEF SetVisibility, Swf
  <2> HIDE DEF t
  <2> QED
    BY <1>3, <1>a, <2>1, <2>2 DEF Swf, Outcome
<1> QED
  BY <1>1, <1>2, <1>3

\* main, of domLoadFnArr: the probe, if there is a plug-in to ask
LEMMA MainFacts ==
  ASSUME browser \in Browser, NEW s \in Swf, NEW answer, NEW r, r = Main(s, answer)
  PROVE  /\ r \in Swf
         /\ r.domLoadFnArr = s.domLoadFnArr /\ r.isDomLoaded = s.isDomLoaded
         /\ r.told = s.told /\ r.place = s.place
         /\ r.isExpressInstallActive = s.isExpressInstallActive
         /\ r.pv \in {s.pv, browser.installed}
         /\ (s.probe = "object" => s.counter > 0) => (r.probe = "object" => r.counter > 0)
BY ProbeFacts DEF Main

\* The loop over domLoadFnArr does what is in it: main, and after it the function of
\* embedSWF if the page got that far (callDomLoadFunctions).
LEMMA RunFacts ==
  ASSUME NEW s \in Swf, NEW answer,
         s.domLoadFnArr \in {<<"main">>, <<"main", "embed">>}
  PROVE  LET main == Main([s EXCEPT !.isDomLoaded = TRUE], answer)
         IN /\ s.domLoadFnArr = <<"main">> => RunDomLoadFunctions(s, answer) = main
            /\ s.domLoadFnArr # <<"main">> => RunDomLoadFunctions(s, answer) = EmbedNow(main)
<1> DEFINE ready == [s EXCEPT !.isDomLoaded = TRUE]
           arr == s.domLoadFnArr
           n == Len(arr)
           Turn(i, was) == IF arr[i] = "main" THEN Main(was, answer) ELSE EmbedNow(was)
           Computed(f) == f = [i \in 0..n |-> IF i = 0 THEN ready ELSE Turn(i, f[i - 1])]
           run == CHOOSE f : Computed(f)
           done == [i \in 0..n |-> IF i = 0 THEN ready
                                   ELSE IF i = 1 THEN Main(ready, answer)
                                   ELSE EmbedNow(Main(ready, answer))]
<1>1. RunDomLoadFunctions(s, answer) = run[n]
  BY DEF RunDomLoadFunctions
<1>2. /\ n \in {1, 2} /\ arr[1] = "main"
      /\ n = 2 => arr[2] = "embed"
      /\ arr = <<"main">> <=> n = 1
  OBVIOUS
<1>3. Computed(done)
  <2>1. \A i \in 0..n : i = 0 \/ (i = 1 /\ i - 1 = 0) \/ (i = 2 /\ i - 1 = 1 /\ n = 2)
    <3> HIDE DEF n
    <3> QED
      BY <1>2
  <2>2. 0 \in 0..n /\ 1 \in 0..n
    <3> HIDE DEF n
    <3> QED
      BY <1>2
  <2> HIDE DEF ready, arr, n
  <2>3. done[0] = ready /\ done[1] = Main(ready, answer)
    BY <2>2
  <2>4. \A i \in 0..n : done[i] = IF i = 0 THEN ready ELSE Turn(i, done[i - 1])
    <3> TAKE i \in 0..n
    <3>1. CASE i = 0
      BY <2>3, <3>1
    <3>2. CASE i = 1 /\ i - 1 = 0
      BY <1>2, <2>3, <3>2
    <3>3. CASE i = 2 /\ i - 1 = 1 /\ n = 2
      <4>1. done[2] = EmbedNow(Main(ready, answer))
        BY <3>3
      <4>2. Turn(2, done[1]) = EmbedNow(Main(ready, answer))
        BY <1>2, <2>3, <3>3
      <4> QED
        BY <3>3, <4>1, <4>2
    <3> QED
      BY <2>1, <3>1, <3>2, <3>3
  <2> QED
    BY <2>4
<1>4. Computed(run)
  <2> HIDE DEF Computed, done
  <2> QED
    BY <1>3
<1>5. /\ run[0] = ready
      /\ run[1] = Turn(1, run[0])
      /\ n = 2 => run[2] = Turn(2, run[1])
  <2>1. 0 \in 0..n /\ 1 \in 0..n /\ (n = 2 => 2 \in 0..n)
    BY <1>2
  <2> HIDE DEF Turn, run, n, ready
  <2> QED
    BY <1>4, <2>1
<1> HIDE DEF run, ready
<1> QED
  BY <1>1, <1>2, <1>5 DEF ready

\* The DOM is found ready. When it was so before, nothing happens
\* (callDomLoadFunctions).
LEMMA CallKeeps ==
  ASSUME PageTypeOK, SwfInv, document >= Parsed \/ swf.isDomLoaded,
         NEW answer, swf' = CallDomLoadFunctions(swf, answer),
         UNCHANGED <<browser, scripts>>
  PROVE  swf' \in Swf /\ SwfInv'
<1> DEFINE ready == [swf EXCEPT !.isDomLoaded = TRUE]
           main == Main(ready, answer)
<1>a. /\ browser \in Browser /\ swf \in Swf /\ document \in Nat /\ scripts \in 0..3
      /\ ua' = ua
      /\ document >= Parsed => document # HeadOpen /\ ~(document < BodyOpen)
  BY DEF PageTypeOK, HeadOpen, BodyOpen, Parsed, Loaded, ua, Ua
<1>1. CASE swf.isDomLoaded
  <2>1. swf' = swf
    BY <1>1 DEF CallDomLoadFunctions
  <2>2. ~(scripts < 3)
    BY <1>1 DEF SwfInv, Fresh
  <2> QED
    BY <1>a, <2>1, <2>2 DEF SwfInv, Fresh, Outcome, Right
<1>2. CASE ~swf.isDomLoaded
  <2>1. document >= Parsed /\ swf' = RunDomLoadFunctions(swf, answer)
    BY <1>a, <1>2 DEF CallDomLoadFunctions
  <2>2. scripts = 3 /\ ~(scripts < 3)
    BY <1>a, <2>1 DEF SwfInv
  <2>3. /\ ready \in Swf /\ ready.isDomLoaded /\ ready.domLoadFnArr = swf.domLoadFnArr
        /\ ready.told = swf.told /\ ready.place = swf.place
        /\ ready.isExpressInstallActive = swf.isExpressInstallActive
        /\ ready.pv = swf.pv /\ ready.probe = swf.probe /\ ready.counter = swf.counter
    BY <1>a DEF Swf
  <2> HIDE DEF ready
  <2>4. /\ main \in Swf
        /\ main.domLoadFnArr = swf.domLoadFnArr /\ main.isDomLoaded
        /\ main.told = swf.told /\ main.place = swf.place
        /\ main.isExpressInstallActive = swf.isExpressInstallActive
        /\ main.pv \in {swf.pv, browser.installed}
        /\ main.probe = "object" => main.counter > 0
    BY <1>a, <2>3, MainFacts DEF SwfInv
  <2> HIDE DEF main
  <2>5. CASE ua.oldWk
    <3>1. swf.domLoadFnArr = <<"main">>
      BY <2>2, <2>5 DEF SwfInv
    <3>2. swf' = main
      BY <1>a, <2>1, <3>1, RunFacts DEF main, ready
    <3> QED
      BY <1>a, <2>2, <2>4, <2>5, <3>1, <3>2 DEF SwfInv
  <2>6. CASE ~ua.oldWk
    <3>1. swf.domLoadFnArr = <<"main", "embed">> /\ Fresh(swf)
      BY <1>2, <2>2, <2>6 DEF SwfInv
    <3>2. swf' = EmbedNow(main)
      <4>1. <<"main", "embed">> # <<"main">>
        OBVIOUS
      <4> QED
        BY <1>a, <2>1, <3>1, <4>1, RunFacts DEF main, ready
    <3>3. /\ swf' \in Swf
          /\ swf'.isDomLoaded
          /\ swf'.pv = main.pv /\ swf'.probe = main.probe /\ swf'.counter = main.counter
          /\ Outcome(swf)'
          /\ (swf'.place = "game") <=> HasPlayerVersion(main.pv, Required)
      <4>1. \A r : r = EmbedNow(main) =>
                     /\ r \in Swf /\ r.isDomLoaded = main.isDomLoaded
                     /\ r.pv = main.pv /\ r.probe = main.probe /\ r.counter = main.counter
                     /\ Outcome(r)
                     /\ (r.place = "game") <=> HasPlayerVersion(main.pv, Required)
        BY <1>a, <2>1, <2>4, <2>6, <3>1, EmbedFacts DEF Fresh
      <4>2. Outcome(swf') <=> Outcome(swf)'
        BY DEF Outcome
      <4> QED
        BY <2>4, <3>2, <4>1, <4>2
    <3>4. Right(swf)'
      <4>1. CASE main.pv = browser.installed
        BY <3>3, <4>1 DEF Right
      <4>2. CASE main.pv # browser.installed
        BY <2>4, <3>1, <3>3, <4>2 DEF Right, Fresh
      <4> QED
        BY <4>1, <4>2
    <3> QED
      BY <1>a, <2>2, <2>4, <2>6, <3>3, <3>4 DEF SwfInv
  <2> QED
    BY <2>5, <2>6
<1> QED
  BY <1>1, <1>2

-----------------------------------------------------------------------------
(* The page                                                                *)

PageInv == PageTypeOK /\ SwfInv

\* What does nothing to the state of swfobject.js, before the head is read or after.
LEMMA SwfUntouched ==
  ASSUME PageInv, UNCHANGED <<browser, swf>>,
         \/ UNCHANGED <<scripts, document>>
         \/ scripts' < 3 /\ scripts < 3 /\ document' = document
         \/ scripts' = scripts /\ ~(scripts < 3)
  PROVE  SwfInv'
<1>1. ua' = ua
  BY DEF ua, Ua
<1>2. (Fresh(swf) <=> Fresh(swf)') /\ (Outcome(swf) <=> Outcome(swf)') /\ (Right(swf) <=> Right(swf)')
  BY DEF Fresh, Outcome, Right
<1>3. scripts \in 0..3 /\ SwfInv
  BY DEF PageInv, PageTypeOK
<1>4. CASE UNCHANGED <<scripts, document>>
  BY <1>1, <1>2, <1>3, <1>4 DEF SwfInv
<1>5. CASE scripts' < 3 /\ scripts < 3 /\ document' = document
  <2>1. scripts' # 3
    BY <1>5
  <2> QED
    BY <1>1, <1>2, <1>3, <1>5, <2>1 DEF SwfInv
<1>6. CASE scripts' = scripts /\ ~(scripts < 3)
  BY <1>1, <1>2, <1>3, <1>6 DEF SwfInv
<1> QED
  BY <1>4, <1>5, <1>6

\* history.js keeps to what is its own (_initialize).
LEMMA InitializeTypes ==
  ASSUME Initialize
  PROVE  history' \in BOOLEAN /\ historyFrame' \in {"none", "later", "added", "lost"}
BY DEF Initialize

\* The scripts of the head (onDomLoad, addLoadEvent, embedSWF)
LEMMA HeadKeeps ==
  ASSUME PageInv, HeadScript
  PROVE  PageInv'
<1> USE DEF PageInv
<1>a. /\ onload \in Seq({"history", "swfobject"}) /\ scripts \in 0..3
      /\ browser \in Browser /\ swf \in Swf
  BY DEF PageTypeOK
<1>1. CASE RunHistory
  <2>1. onload' \in Seq({"history", "swfobject"})
    BY <1>1, <1>a, ShortLists DEF RunHistory
  <2>2. PageTypeOK'
    BY <1>1, <2>1 DEF RunHistory, PageTypeOK
  <2> QED
    BY <1>1, <2>2, SwfUntouched DEF RunHistory
<1>2. CASE RunSwfobject
  <2>1. onload' \in Seq({"history", "swfobject"})
    <3>1. Append(onload, "swfobject") \in Seq({"history", "swfobject"})
      BY <1>a, AppendProperties
    <3> QED
      BY <1>2, <1>a, <3>1 DEF RunSwfobject, AddToOnload
  <2>2. waiting' \subseteq {"DOMContentLoaded", "readystatechange", "doScroll", "readyState", "load"}
    BY <1>2 DEF RunSwfobject
  <2>3. scripts' \in 0..3 /\ UNCHANGED <<browser, document, swf, history, historyFrame>>
    BY <1>2 DEF RunSwfobject
  <2>4. PageTypeOK'
    BY <2>1, <2>2, <2>3 DEF PageTypeOK
  <2>5. scripts = 1 /\ scripts' = 2
    BY <1>2 DEF RunSwfobject
  <2> QED
    BY <2>3, <2>4, <2>5, SwfUntouched
<1>3. CASE RunEmbed
  <2>1. /\ scripts = 2 /\ scripts' = 3 /\ swf' = CreateCSSDisplay(EmbedSWF(swf))
        /\ UNCHANGED <<browser, document, waiting, onload, history, historyFrame>>
    BY <1>3 DEF RunEmbed
  <2>2. swf.domLoadFnArr = <<"main">> /\ Fresh(swf) /\ ua' = ua
    BY <2>1 DEF SwfInv, ua, Ua
  <2>3. /\ Append(<<>>, FALSE) = <<FALSE>> /\ <<FALSE>> \in Seq(BOOLEAN)
        /\ Append(<<"main">>, "embed") = <<"main", "embed">>
        /\ <<"main", "embed">> \in Seq({"main", "embed"})
    <3>1. Append(<<>>, FALSE) = <<FALSE>> /\ <<FALSE>> \in Seq(BOOLEAN)
      BY ShortLists
    <3>2. /\ Append(<<"main">>, "embed") = <<"main", "embed">>
          /\ <<"main", "embed">> \in Seq({"main", "embed"})
      <4> DEFINE S == {"main", "embed"}
      <4>1. "main" \in S /\ "embed" \in S
        OBVIOUS
      <4> HIDE DEF S
      <4>2. Append(<<"main">>, "embed") = <<"main", "embed">> /\ <<"main", "embed">> \in Seq(S)
        BY <4>1, ShortLists
      <4> QED
        BY <4>2 DEF S
    <3> QED
      BY <3>1, <3>2
  <2>4. CASE ua.oldWk
    <3> DEFINE t == [swf EXCEPT !.told = Append(@, FALSE)]
    <3>1. EmbedSWF(swf) = t
      BY <2>4 DEF EmbedSWF, CallbackFn
    <3>2. /\ t \in Swf /\ t.domLoadFnArr = swf.domLoadFnArr /\ t.told = <<FALSE>>
          /\ t.place = swf.place /\ t.isExpressInstallActive = swf.isExpressInstallActive
          /\ t.probe = "none"
      BY <1>a, <2>2, <2>3 DEF Swf, Fresh
    <3> HIDE DEF t
    <3>3. /\ swf' \in Swf /\ swf'.domLoadFnArr = t.domLoadFnArr /\ swf'.told = t.told
          /\ swf'.place = t.place /\ swf'.isExpressInstallActive = t.isExpressInstallActive
          /\ swf'.probe = t.probe
      BY <2>1, <3>1, <3>2 DEF CreateCSSDisplay, Swf
    <3>4. PageTypeOK'
      BY <2>1, <3>3 DEF PageTypeOK
    <3>5. SwfInv'
      BY <2>1, <2>2, <2>4, <3>2, <3>3 DEF SwfInv, Fresh
    <3> QED
      BY <3>4, <3>5
  <2>5. CASE ~ua.oldWk
    <3> DEFINE s == SetVisibility(swf, FALSE)
               t == [s EXCEPT !.domLoadFnArr = Append(@, "embed")]
    <3>1. /\ s \in Swf /\ s.domLoadFnArr = <<"main">> /\ Fresh(s)
      BY <1>a, <2>2 DEF SetVisibility, Swf, Fresh
    <3>2. EmbedSWF(swf) = t
      BY <2>5, <3>1 DEF EmbedSWF, AddDomLoadEvent, Fresh
    <3> HIDE DEF s
    <3>3. t \in Swf /\ t.domLoadFnArr = <<"main", "embed">> /\ Fresh(t)
      BY <2>3, <3>1 DEF Swf, Fresh
    <3> HIDE DEF t
    <3>4. swf' \in Swf /\ swf'.domLoadFnArr = t.domLoadFnArr /\ Fresh(swf)'
      BY <2>1, <3>2, <3>3 DEF CreateCSSDisplay, Swf, Fresh
    <3>5. PageTypeOK'
      BY <2>1, <3>4 DEF PageTypeOK
    <3>6. SwfInv'
      BY <2>1, <2>2, <2>5, <3>3, <3>4 DEF SwfInv, Fresh
    <3> QED
      BY <3>5, <3>6
  <2> QED
    BY <2>4, <2>5
<1> QED
  BY <1>1, <1>2, <1>3 DEF HeadScript

\* The events of the browser (onDomLoad)
LEMMA EventKeeps ==
  ASSUME PageInv, BrowserEvent
  PROVE  PageInv'
<1> USE DEF PageInv, HeadOpen, BodyOpen, Parsed, Content, Complete, Loaded
<1>1. CASE OpenBody \/ EndParsing
  <2>1. /\ ~(scripts < 3)
        /\ UNCHANGED <<browser, scripts, waiting, onload, swf, history, historyFrame>>
        /\ document' \in HeadOpen..Loaded
    BY <1>1 DEF OpenBody, EndParsing, SwfInv, PageTypeOK
  <2>2. PageTypeOK'
    BY <2>1 DEF PageTypeOK
  <2> QED
    BY <2>1, <2>2, SwfUntouched
\* An event that may report the DOM ready
<1>2. ASSUME document >= Parsed, document' \in HeadOpen..Loaded, waiting' \subseteq waiting,
             UNCHANGED <<browser, scripts, onload>>,
             history' \in BOOLEAN, historyFrame' \in {"none", "later", "added", "lost"},
             \E answer \in Answer : swf' \in {swf, CallDomLoadFunctions(swf, answer)}
      PROVE  PageInv'
  <2>1. PICK answer \in Answer : swf' \in {swf, CallDomLoadFunctions(swf, answer)}
    BY <1>2
  <2>2. ~(scripts < 3)
    BY <1>2 DEF SwfInv, PageTypeOK
  <2>3. CASE swf' = swf
    <3>1. SwfInv'
      BY <1>2, <2>2, <2>3, SwfUntouched
    <3> QED
      BY <1>2, <2>3, <3>1 DEF PageTypeOK
  <2>4. CASE swf' = CallDomLoadFunctions(swf, answer)
    <3>1. swf' \in Swf /\ SwfInv'
      BY <1>2, <2>4, CallKeeps
    <3> QED
      BY <1>2, <3>1 DEF PageTypeOK
  <2> QED
    BY <2>1, <2>3, <2>4
<1>a. history \in BOOLEAN /\ historyFrame \in {"none", "later", "added", "lost"}
  BY DEF PageTypeOK
<1>3. CASE DOMContentLoaded
  <2>1. history' \in BOOLEAN /\ historyFrame' \in {"none", "later", "added", "lost"}
    BY <1>3, <1>a, InitializeTypes DEF DOMContentLoaded
  <2> QED
    BY <1>2, <1>3, <2>1 DEF DOMContentLoaded
<1>4. CASE ReadyStateComplete
  BY <1>2, <1>4, <1>a DEF ReadyStateComplete
<1>5. CASE Load
  <2>1. history' \in BOOLEAN /\ historyFrame' \in {"none", "later", "added", "lost"}
    BY <1>5, <1>a, InitializeTypes DEF Load
  <2> QED
    BY <1>2, <1>5, <2>1 DEF Load
<1> QED
  BY <1>1, <1>3, <1>4, <1>5 DEF BrowserEvent

\* The timers, and the dialog that gives up (testPlayerVersion, expressInstallCallback)
LEMMA TimerKeeps ==
  ASSUME PageInv, HistoryTimer \/ Poll \/ ProbeAgain \/ ExpressInstallCallback
  PROVE  PageInv'
<1> USE DEF PageInv
<1>a. browser \in Browser /\ swf \in Swf /\ scripts \in 0..3
  BY DEF PageTypeOK
<1>1. CASE HistoryTimer
  <2>1. /\ UNCHANGED <<browser, document, scripts, waiting, onload, swf>>
        /\ history' \in BOOLEAN /\ historyFrame' \in {"none", "later", "added", "lost"}
    BY <1>1, InitializeTypes
    DEF HistoryTimer, HistoryPoll, HistoryDoScroll, AppendFrameLater, PageTypeOK
  <2>2. PageTypeOK'
    BY <2>1 DEF PageTypeOK
  <2> QED
    BY <2>1, <2>2, SwfUntouched
<1>2. CASE Poll
  <2>1. /\ UNCHANGED <<browser, document, scripts, onload, history, historyFrame>>
        /\ waiting' \subseteq waiting
        /\ document >= Parsed \/ swf.isDomLoaded
    BY <1>2 DEF Poll, PollReady, PageTypeOK, HeadOpen, Parsed, Complete, Loaded
  <2>2. PICK answer \in Answer : swf' = CallDomLoadFunctions(swf, answer)
    BY <1>2 DEF Poll
  <2>3. swf' \in Swf /\ SwfInv'
    BY <2>1, <2>2, CallKeeps
  <2>4. PageTypeOK'
    BY <2>1, <2>3 DEF PageTypeOK
  <2> QED
    BY <2>3, <2>4
<1>3. CASE ProbeAgain
  <2>1. PICK answer \in Answer : swf' = Probe(swf, answer)
    BY <1>3 DEF ProbeAgain
  <2>2. /\ UNCHANGED <<browser, document, scripts, waiting, onload, history, historyFrame>>
        /\ swf.probe = "object" /\ ua' = ua
    BY <1>3 DEF ProbeAgain, ua, Ua
  <2>3. swf.counter > 0 /\ ~Fresh(swf) /\ ~(scripts < 3)
    BY <2>2 DEF SwfInv, Fresh
  <2>4. /\ swf' \in Swf
        /\ swf'.domLoadFnArr = swf.domLoadFnArr /\ swf'.isDomLoaded = swf.isDomLoaded
        /\ swf'.told = swf.told /\ swf'.place = swf.place
        /\ swf'.isExpressInstallActive = swf.isExpressInstallActive
        /\ swf'.counter > 0
    BY <1>a, <2>1, <2>3, ProbeFacts
  <2>5. PageTypeOK'
    BY <2>2, <2>4 DEF PageTypeOK
  <2>6. SwfInv'
    BY <2>2, <2>3, <2>4 DEF SwfInv, Outcome, Right
  <2> QED
    BY <2>5, <2>6
<1>4. CASE ExpressInstallCallback
  <2> DEFINE s == SetVisibility(swf, TRUE)
             shown == [s EXCEPT !.place = "flashContent"]
             seen == IF ua.ie THEN [shown EXCEPT !.display = TRUE] ELSE shown
  <2>1. /\ swf' = [[seen EXCEPT !.told = Append(@, FALSE)] EXCEPT !.isExpressInstallActive = FALSE]
        /\ UNCHANGED <<browser, document, scripts, waiting, onload, history, historyFrame>>
        /\ swf.isExpressInstallActive /\ ua' = ua
    BY <1>4 DEF ExpressInstallCallback, CallbackFn, ua, Ua
  <2>2. /\ ~(scripts < 3) /\ scripts = 3 /\ ~ua.oldWk /\ swf.isDomLoaded
        /\ swf.told = <<>> /\ swf.place = "expressInstall" /\ Right(swf)
    BY <1>a, <2>1 DEF SwfInv, Fresh, Outcome
  <2>3. /\ s \in Swf /\ s.isDomLoaded /\ s.told = <<>>
        /\ s.pv = swf.pv /\ s.counter = swf.counter /\ s.probe = swf.probe
    BY <1>a, <2>2 DEF SetVisibility, Swf
  <2> HIDE DEF s
  <2>4. /\ seen \in Swf /\ seen.isDomLoaded /\ seen.told = <<>> /\ seen.place = "flashContent"
        /\ seen.pv = swf.pv /\ seen.counter = swf.counter /\ seen.probe = swf.probe
    BY <2>3 DEF Swf, Place
  <2> HIDE DEF seen
  <2>5. Append(<<>>, FALSE) = <<FALSE>> /\ <<FALSE>> \in Seq(BOOLEAN)
    OBVIOUS
  <2>6. /\ swf' \in Swf /\ swf'.isDomLoaded /\ swf'.told = <<FALSE>>
        /\ swf'.place = "flashContent" /\ ~swf'.isExpressInstallActive
        /\ swf'.pv = swf.pv /\ swf'.counter = swf.counter /\ swf'.probe = swf.probe
    BY <2>1, <2>4, <2>5 DEF Swf
  <2>7. PageTypeOK'
    BY <2>1, <2>6 DEF PageTypeOK
  <2>8. SwfInv'
    BY <2>1, <2>2, <2>6 DEF SwfInv, Outcome, Right
  <2> QED
    BY <2>7, <2>8
<1> QED
  BY <1>1, <1>2, <1>3, <1>4

-----------------------------------------------------------------------------
(* The application                                                         *)

AppInv == WebTypeOK /\ SwfInv

\* The page before its head is read (the variables of swfobject, SWFObject's events)
LEMMA PageBegins == PageInit => PageInv
<1> SUFFICES ASSUME PageInit PROVE PageInv
  OBVIOUS
<1>1. browser.described \in Version
  BY BrowserFacts DEF PageInit
<1>2. <<>> \in Seq(BOOLEAN) /\ <<>> \in Seq({"history", "swfobject"}) /\ 0 \in 0..MaxRetries
  BY RetriesAssumption, EmptySeq
<1>3. <<"main">> \in Seq({"main", "embed"})
  BY ShortLists
<1>4. swf \in Swf
  BY <1>1, <1>2, <1>3 DEF PageInit, Swf, Place
<1>5. PageTypeOK
  <2>1. /\ browser \in Browser /\ document = HeadOpen /\ scripts = 0
        /\ waiting = {} /\ onload = <<>> /\ historyFrame = "none"
    BY DEF PageInit
  <2>2. document \in HeadOpen..Loaded /\ scripts \in 0..3
    BY <2>1 DEF HeadOpen, Loaded
  <2>3. history \in BOOLEAN
    BY Zenon DEF PageInit
  <2> QED
    BY <1>2, <1>4, <2>1, <2>2, <2>3 DEF PageTypeOK
<1>6. Fresh(swf) /\ swf.domLoadFnArr = <<"main">> /\ scripts = 0 /\ document = HeadOpen
  BY DEF PageInit, Fresh
<1>7. SwfInv
  BY <1>6 DEF SwfInv, Fresh
<1> QED
  BY <1>5, <1>7 DEF PageInv

\* The page and the movie begin with the invariant.
LEMMA AppBegins == AppInit => AppInv
BY PageBegins, InitInv DEF AppInit, AppInv, PageInv, WebTypeOK, Movie, LoopbackInv

\* The movie goes from the splash screen of the preloader to the modes (AztecApp).
LEMMA MovieTypes ==
  ASSUME WebTypeOK, MovieStep
  PROVE  /\ multiplayer' \in BOOLEAN /\ movie' \in Movie
         /\ modes' \in {<<>>, <<"connect">>, <<"connect", "battle">>}
         /\ splash' \in {"none", "preloader", "app"}
BY DEF WebTypeOK, Movie, MovieStep, StartMovie, PreloaderComplete, Run, ResourcesLoaded,
       ResourcesFailed, RemoveSplash

\* Every step keeps the invariant.
LEMMA AppKeeps ==
  ASSUME AppInv, [AppNext]_allVars
  PROVE  AppInv'
<1> USE DEF AppInv
<1>1. ASSUME UNCHANGED pageVars PROVE PageInv'
  <2>1. PageTypeOK'
    BY <1>1 DEF pageVars, WebTypeOK, PageTypeOK
  <2>2. SwfInv'
    BY <1>1, SwfUntouched DEF pageVars, WebTypeOK, PageInv
  <2> QED
    BY <2>1, <2>2 DEF PageInv
<1>2. ASSUME UNCHANGED loopbackVars PROVE LoopbackTypeOK'
  BY <1>2, TypeStep DEF WebTypeOK
<1>3. ASSUME UNCHANGED appVars
      PROVE  /\ multiplayer' \in BOOLEAN /\ movie' \in Movie
             /\ modes' \in {<<>>, <<"connect">>, <<"connect", "battle">>}
             /\ splash' \in {"none", "preloader", "app"}
  BY <1>3 DEF appVars, WebTypeOK
<1>4. CASE PageNext /\ UNCHANGED <<appVars, loopbackVars>>
  <2>1. PageInv'
    BY <1>4, HeadKeeps, EventKeeps, TimerKeeps DEF PageNext, PageInv, WebTypeOK
  <2> QED
    BY <1>2, <1>3, <1>4, <2>1 DEF PageInv, WebTypeOK
<1>5. CASE MovieStep /\ UNCHANGED <<pageVars, loopbackVars>>
  BY <1>1, <1>2, <1>5, MovieTypes DEF PageInv, WebTypeOK
<1>6. CASE BattleStep /\ UNCHANGED <<pageVars, appVars>>
  <2>1. LoopbackTypeOK'
    BY <1>6, TypeStep DEF BattleStep, WebTypeOK
  <2> QED
    BY <1>1, <1>3, <1>6, <2>1 DEF PageInv, WebTypeOK
<1>7. CASE UNCHANGED allVars
  BY <1>1, <1>2, <1>3, <1>7 DEF allVars, PageInv, WebTypeOK
<1> QED
  BY <1>4, <1>5, <1>6, <1>7 DEF AppNext

\* The invariant holds in every state.
THEOREM AppInvariant == AppSpec => []AppInv
BY AppBegins, AppKeeps, PTL DEF AppSpec

\* Every variable of the page, the movie and the local battle keeps its type: the probe
\* is not tried more often than it may be (testPlayerVersion).
THEOREM WebTypeCorrect == AppSpec => []WebTypeOK
<1>1. AppInv => WebTypeOK
  BY DEF AppInv
<1> QED
  BY <1>1, AppInvariant, PTL

\* The page is told once at most what became of the game, and rightly
\* (callDomLoadFunctions, embedSWF, expressInstallCallback).
THEOREM PageIsToldOnce == AppSpec => []ToldOnce
<1>1. AppInv => ToldOnce
  <2> SUFFICES ASSUME AppInv PROVE ToldOnce
    OBVIOUS
  <2>1. scripts \in 0..3
    BY DEF AppInv, WebTypeOK, PageTypeOK
  <2> DEFINE none == <<>>
             yes == <<TRUE>>
             no == <<FALSE>>
  <2>2. /\ Len(none) = 0 /\ Len(yes) = 1 /\ Len(no) = 1
        /\ yes[1] = TRUE /\ no[1] = FALSE
    OBVIOUS
  <2>3. \/ swf.told = none /\ swf.place # "game"
        \/ swf.told = yes /\ swf.place = "game"
        \/ swf.told = no /\ swf.place = "flashContent"
    <3> HIDE DEF none, yes, no
    <3>1. Fresh(swf) => swf.told = none /\ swf.place # "game"
      BY DEF Fresh, none
    <3>2. Outcome(swf) => <2>3!:
      BY DEF Outcome, none, yes, no
    <3>3. ua.oldWk /\ scripts = 3 => swf.told = no /\ swf.place = "flashContent"
      BY DEF AppInv, SwfInv, no
    <3> QED
      BY <2>1, <3>1, <3>2, <3>3 DEF AppInv, SwfInv
  <2>4. yes # no
    <3> HIDE DEF yes, no
    <3> QED
      BY <2>2, Zenon
  <2>5. none # yes /\ none # no
    <3> HIDE DEF none, yes, no
    <3> QED
      BY <2>2
  <2>6. ToldOnce <=> /\ Len(swf.told) <= 1
                     /\ (swf.told = yes) <=> (swf.place = "game")
                     /\ swf.told = no => swf.place = "flashContent"
    BY DEF ToldOnce
  <2>7. "flashContent" # "game" /\ Len(none) = 0 /\ Len(yes) = 1 /\ Len(no) = 1
    OBVIOUS
  <2> HIDE DEF none, yes, no
  <2>8. Len(swf.told) <= 1
    <3>1. Len(swf.told) = 0 \/ Len(swf.told) = 1
      BY <2>3, <2>7, Zenon
    <3>2. \A n : n = 0 \/ n = 1 => n <= 1
      OBVIOUS
    <3> QED
      BY <3>1, <3>2, Zenon
  <2>9. (swf.told = yes) <=> (swf.place = "game")
    BY <2>3, <2>4, <2>5, <2>7
  <2>10. swf.told = no => swf.place = "flashContent"
    BY <2>3, <2>4, <2>5
  <2> QED
    BY <2>6, <2>8, <2>9, <2>10
<1> QED
  BY <1>1, AppInvariant, PTL

\* Comparing versions part by part is comparing them as numbers are (hasPlayerVersion).
LEMMA VersionOrder ==
  ASSUME NEW v \in Nat \X Nat \X Nat, NEW w \in Nat \X Nat \X Nat
  PROVE  HasPlayerVersion(v, w) <=> AtLeast(v, w)
<1>1. /\ v[1] \in Nat /\ v[2] \in Nat /\ v[3] \in Nat
      /\ w[1] \in Nat /\ w[2] \in Nat /\ w[3] \in Nat
      /\ v = w <=> v[1] = w[1] /\ v[2] = w[2] /\ v[3] = w[3]
  OBVIOUS
<1>2. /\ 1..3 = {1, 2, 3}
      /\ 1..(1 - 1) = {} /\ 1..(2 - 1) = {1} /\ 1..(3 - 1) = {1, 2}
  OBVIOUS
<1>3. AtLeast(v, w) <=>
        \/ v = w
        \/ v[1] > w[1]
        \/ v[2] > w[2] /\ v[1] = w[1]
        \/ v[3] > w[3] /\ v[1] = w[1] /\ v[2] = w[2]
  BY <1>2 DEF AtLeast
<1> QED
  BY <1>1, <1>3 DEF HasPlayerVersion

\* The game is put in the page just when the player that is there suffices, unless a
\* wrong description was believed before the probe answered (embedSWF, main).
THEOREM GameIsSupported == AppSpec => []GameSupported
<1>1. AppInv => GameSupported
  <2> SUFFICES ASSUME AppInv, Decided, ~ua.oldWk PROVE GameSupported
    BY DEF GameSupported
  <2>1. scripts \in 0..3 /\ browser.installed \in Nat \X Nat \X Nat
    BY BrowserFacts, VersionAssumption DEF AppInv, WebTypeOK, PageTypeOK
  <2>2. Right(swf)
    BY <2>1 DEF AppInv, SwfInv, Fresh, Decided
  <2>3. HasPlayerVersion(browser.installed, Required) <=> AtLeast(browser.installed, Required)
    BY <2>1, VersionOrder, VersionAssumption
  <2> QED
    BY <2>2, <2>3 DEF Right, GameSupported
<1> QED
  BY <1>1, AppInvariant, PTL

\* The local battle of the application is one of Loopback, or nothing happens in it.
LEMMA BattleOfTheApp ==
  [AppNext]_allVars => [LoopbackNext]_loopbackVars
BY DEF AppNext, BattleStep, allVars

\* The battle of the application handles each tick once, in the frame that closed it
\* (BattleMessages.processTicks, LoopbackMessageMgr).
THEOREM AppTicksHandledOnce == AppSpec => TicksHandledOnce
<1>1. AppSpec => LoopbackSpec
  <2>1. AppInit => LoopbackInit
    BY DEF AppInit
  <2> QED
    BY <2>1, BattleOfTheApp, PTL DEF AppSpec, LoopbackSpec
<1> QED
  BY <1>1, LocalTicksHandledOnce, PTL
=============================================================================
