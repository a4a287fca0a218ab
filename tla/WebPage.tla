------------------------------ MODULE WebPage ------------------------------
(***************************************************************************)
(* The page the game is played on: index.template.html with swfobject.js   *)
(* and history.js, the scripts of its head.  SWFObject asks the browser    *)
(* for the version of its Flash player and, once the DOM is ready, puts in *)
(* place of the div flashContent the game, the dialog of Adobe Express     *)
(* Install, or nothing: then the text that says which version is needed    *)
(* has to be seen.  The readiness of the DOM has no one event: which ones  *)
(* there are, and in which order they come, depends on the browser.        *)
(*                                                                         *)
(* SWFObject's state is the record swf, which its functions map to a new   *)
(* one.  Browsers differ by what the scripts ask of them:                  *)
(*   IE7, IE8   Internet Explorer to 7, and 8: no addEventListener         *)
(*   IE9        9 and 10                                                   *)
(*   macIE      5 for the Mac: neither addEventListener nor attachEvent    *)
(*   oldWebkit  WebKit before 312: no readyState                           *)
(*   safari     WebKit before 525: no DOMContentLoaded                     *)
(*   webkit, gecko   everything later (IE 11 and Opera are like gecko)     *)
(***************************************************************************)
EXTENDS Integers, Sequences, SequencesExt

CONSTANTS
  Version,    \* of players: <<major, minor, release>>, zero for no player
  Required,   \* swfVersionStr
  MaxRetries  \* of the probe, 10

NoVersion == <<0, 0, 0>>
ExpressVersion == <<6, 0, 65>>

ASSUME VersionAssumption ==
  /\ Version \subseteq Nat \X Nat \X Nat /\ NoVersion \in Version
  /\ Required \in Nat \X Nat \X Nat /\ Required # NoVersion
ASSUME RetriesAssumption == MaxRetries \in Nat

VARIABLES
  browser,    \* what the scripts can learn of it, fixed
  document,   \* how far the page has come
  scripts,    \* how many scripts of the head have run
  waiting,    \* what swfobject.js waits for until the DOM is ready
  onload,     \* the functions window.onload calls, where nothing else is there
  swf,        \* state of swfobject.js, and what it made of flashContent
  history,    \* of history.js: has BrowserHistory.initialize run?
  historyFrame

pageVars == <<browser, document, scripts, waiting, onload, swf, history, historyFrame>>

\* document.readyState is "complete" from Complete on.
HeadOpen == 1
BodyOpen == 2
Parsed == 3
Content == 4
Complete == 5
Loaded == 6

WindowsIE == {"IE7", "IE8", "IE9"}
WebKit == {"oldWebkit", "safari", "webkit"}
Kind == WindowsIE \cup WebKit \cup {"macIE", "gecko"}

\* listed: in navigator.plugins, and enabled.  There the player is described, rightly
\* or wrongly; ActiveX tells its real version.  framed: the page is in a frame.
Browser ==
  {b \in [kind : Kind, listed : BOOLEAN, installed : Version, described : Version,
          winOrMac : BOOLEAN, framed : BOOLEAN] :
     /\ b.listed => b.installed # NoVersion /\ b.described # NoVersion
     /\ ~b.listed => b.described = b.installed
     /\ ~b.listed /\ b.kind \notin WindowsIE => b.installed = NoVersion
     /\ b.kind \in {"IE7", "IE8"} => ~b.listed
     /\ b.kind = "macIE" => b.listed
     /\ b.framed => b.kind \in WindowsIE
     /\ b.winOrMac \/ b.kind \in {"webkit", "gecko"}}

\* ua: a string escape the old ones read wrongly, or the ActiveX player
Ua(b) ==
  [wk |-> b.kind \in WebKit, oldWk |-> b.kind = "oldWebkit", plugin |-> b.listed,
   ie |-> b.kind \in {"IE7", "IE8"} \/ (b.kind = "IE9" /\ ~b.listed /\ b.installed # NoVersion)]

ua == Ua(browser)

HasAddEventListener == browser.kind \notin {"IE7", "IE8", "macIE"}
HasAttachEvent == browser.kind \in WindowsIE
FiresContentLoaded == browser.kind \in {"IE9", "webkit", "gecko"}

\* Where typeof addRule is "object"; later it is "function", and no rule is added.
AddsRules == ~ua.ie \/ browser.kind \in {"IE7", "IE8"}

Place == {"flashContent", "game", "expressInstall"}

Swf == [domLoadFnArr : Seq({"main", "embed"}), isDomLoaded : BOOLEAN, pv : Version,
        probe : {"none", "object", "removed"}, counter : 0..MaxRetries,
        place : Place, display : BOOLEAN, visible : BOOLEAN,
        isExpressInstallActive : BOOLEAN, told : Seq(BOOLEAN)]

PageTypeOK ==
  /\ browser \in Browser
  /\ document \in HeadOpen..Loaded
  /\ scripts \in 0..3
  /\ waiting \subseteq {"DOMContentLoaded", "readystatechange", "doScroll", "readyState", "load"}
  /\ onload \in Seq({"history", "swfobject"})
  /\ swf \in Swf
  /\ history \in BOOLEAN
  /\ historyFrame \in {"none", "later", "added", "lost"}

PageInit ==
  /\ browser \in Browser
  /\ document = HeadOpen
  /\ scripts = 0
  /\ waiting = {} /\ onload = <<>>
  /\ swf = [domLoadFnArr |-> <<"main">>, isDomLoaded |-> FALSE, pv |-> browser.described,
            probe |-> "none", counter |-> 0, place |-> "flashContent",
            display |-> FALSE, visible |-> TRUE,
            isExpressInstallActive |-> FALSE, told |-> <<>>]
  /\ history = FALSE
  /\ historyFrame = "none"

-----------------------------------------------------------------------------
(* The functions of swfobject.js *)

\* Each part at least the part required
HasEachPart(pv, v) == \A i \in 1..3 : pv[i] >= v[i]

HasPlayerVersion(pv, v) ==
  \/ pv[1] > v[1]
  \/ pv[1] = v[1] /\ pv[2] > v[2]
  \/ pv[1] = v[1] /\ pv[2] = v[2] /\ pv[3] >= v[3]

CanExpressInstall(s) ==
  /\ ~s.isExpressInstallActive
  /\ HasPlayerVersion(s.pv, ExpressVersion)
  /\ browser.winOrMac
  /\ ~ua.oldWk

\* Before the DOM is ready by a rule, then on the element
SetVisibility(s, isVisible) ==
  IF s.isDomLoaded \/ AddsRules THEN [s EXCEPT !.visible = isVisible] ELSE s

CreateCSSDisplay(s) == IF AddsRules THEN [s EXCEPT !.display = TRUE] ELSE s

CreateSWF(s, what) ==
  IF ua.oldWk \/ document < Parsed THEN s ELSE [s EXCEPT !.place = what]

\* Internet Explorer keeps flashContent, not displayed, beside the dialog.
ShowExpressInstall(s) ==
  LET shown == CreateSWF([s EXCEPT !.isExpressInstallActive = TRUE], "expressInstall")
  IN IF ua.ie THEN [shown EXCEPT !.display = FALSE] ELSE shown

CallbackFn(s, success) == [s EXCEPT !.told = Append(@, success)]

\* What embedSWF does once the DOM is ready
EmbedNow(s) ==
  IF HasPlayerVersion(s.pv, Required) THEN CallbackFn(CreateSWF(s, "game"), TRUE)
  ELSE IF CanExpressInstall(s) THEN ShowExpressInstall(s)
  ELSE CallbackFn(SetVisibility(s, TRUE), FALSE)

\* A try of the probe: its object has no GetVariable yet, or has and tells the
\* version or nothing.  No object is registered, so matchVersions does nothing.
Answer == {"notYet", "version", "nothing"}

\* With one try too many
ProbeOnceMore(s, answer) ==
  CASE answer = "version" -> [s EXCEPT !.probe = "removed", !.pv = browser.installed]
    [] answer = "notYet" /\ s.counter <= MaxRetries ->
         [s EXCEPT !.probe = "object", !.counter = @ + 1]
    [] OTHER -> [s EXCEPT !.probe = "removed"]

Probe(s, answer) ==
  CASE answer = "version" -> [s EXCEPT !.probe = "removed", !.pv = browser.installed]
    [] answer = "notYet" /\ s.counter < MaxRetries ->
         [s EXCEPT !.probe = "object", !.counter = @ + 1]
    [] OTHER -> [s EXCEPT !.probe = "removed"]

Main(s, answer) == IF ua.plugin THEN Probe(s, answer) ELSE s

RunDomLoadFunctions(s, answer) ==
  LET run[i \in 0..Len(s.domLoadFnArr)] ==
        IF i = 0 THEN [s EXCEPT !.isDomLoaded = TRUE]
        ELSE IF s.domLoadFnArr[i] = "main" THEN Main(run[i - 1], answer)
        ELSE EmbedNow(run[i - 1])
  IN run[Len(s.domLoadFnArr)]

\* Without the return when it has been called
CallAgain(s, answer) ==
  IF document < BodyOpen THEN s ELSE RunDomLoadFunctions(s, answer)

CallDomLoadFunctions(s, answer) ==
  IF s.isDomLoaded \/ document < BodyOpen THEN s ELSE RunDomLoadFunctions(s, answer)

AddDomLoadEvent(s) ==
  IF s.isDomLoaded THEN EmbedNow(s) ELSE [s EXCEPT !.domLoadFnArr = Append(@, "embed")]

\* addLoadEvent without fnOld
ReplaceOnload(fns) == <<"swfobject">>

AddToOnload(fns) == Append(fns, "swfobject")

-----------------------------------------------------------------------------
(* The head *)

RunHistory ==
  /\ scripts = 0
  /\ scripts' = 1
  /\ onload' = IF browser.kind = "macIE" THEN <<"history">> ELSE onload
  /\ UNCHANGED <<browser, document, waiting, swf, history, historyFrame>>

\* onDomLoad
RunSwfobject ==
  /\ scripts = 1
  /\ scripts' = 2
  /\ waiting' = {w \in {"DOMContentLoaded"} : HasAddEventListener}
                \cup {w \in {"readystatechange"} : ua.ie}
                \cup {w \in {"doScroll"} : ua.ie /\ ~browser.framed}
                \cup {w \in {"readyState"} : ua.wk}
                \cup {w \in {"load"} : HasAddEventListener \/ HasAttachEvent}
  /\ onload' = IF HasAddEventListener \/ HasAttachEvent THEN onload ELSE AddToOnload(onload)
  /\ UNCHANGED <<browser, document, swf, history, historyFrame>>

EmbedSWF(s) ==
  IF ua.oldWk THEN CallbackFn(s, FALSE) ELSE AddDomLoadEvent(SetVisibility(s, FALSE))

\* The script of the page: embedSWF, then createCSS
RunEmbed ==
  /\ scripts = 2
  /\ scripts' = 3
  /\ swf' = CreateCSSDisplay(EmbedSWF(swf))
  /\ UNCHANGED <<browser, document, waiting, onload, history, historyFrame>>

-----------------------------------------------------------------------------
(* history.js *)

\* Internet Explorer, by its name, but for version 8
HistoryUsesFrame == browser.kind \in {"IE7", "IE9", "macIE"}

\* _initialize; a body still being parsed may refuse the frame, which is added later
Initialize ==
  /\ history' = TRUE
  /\ historyFrame' \in IF ~HistoryUsesFrame THEN {"none"}
                       ELSE IF document < Parsed THEN {"added", "later"} ELSE {"added"}

\* The readyState is looked at every 10 ms.
HistoryPoll ==
  /\ scripts >= 1 /\ ~history
  /\ \/ browser.kind = "safari" /\ document >= Parsed
     \/ browser.kind = "webkit" /\ document >= Complete
  /\ Initialize
  /\ UNCHANGED <<browser, document, scripts, waiting, onload, swf>>

\* doScroll does not throw when the DOM is ready, and in a frame it may not throw
\* before; then initialize throws without a body, and is called again.
HistoryDoScroll ==
  /\ scripts >= 1 /\ ~history
  /\ browser.kind \in WindowsIE
  /\ document >= IF browser.framed THEN BodyOpen ELSE Parsed
  /\ Initialize
  /\ UNCHANGED <<browser, document, scripts, waiting, onload, swf>>

AppendFrameLater ==
  /\ historyFrame = "later"
  /\ historyFrame' \in IF document < Parsed THEN {"added", "lost"} ELSE {"added"}
  /\ UNCHANGED <<browser, document, scripts, waiting, onload, swf, history>>

-----------------------------------------------------------------------------
(* The page and the browser's events *)

OpenBody ==
  /\ scripts = 3 /\ document = HeadOpen
  /\ document' = BodyOpen
  /\ UNCHANGED <<browser, scripts, waiting, onload, swf, history, historyFrame>>

EndParsing ==
  /\ document = BodyOpen
  /\ document' = Parsed
  /\ UNCHANGED <<browser, scripts, waiting, onload, swf, history, historyFrame>>

\* The event calls history's listener first, which was added first.
DOMContentLoaded ==
  /\ document = Parsed
  /\ document' = Content
  /\ IF browser.kind = "gecko" THEN Initialize ELSE UNCHANGED <<history, historyFrame>>
  /\ \E answer \in Answer :
       swf' = IF FiresContentLoaded THEN CallDomLoadFunctions(swf, answer) ELSE swf
  /\ UNCHANGED <<browser, scripts, waiting, onload>>

ReadyStateComplete ==
  /\ document = Content
  /\ document' = Complete
  /\ waiting' = waiting \ {"readystatechange"}
  /\ \E answer \in Answer :
       swf' = IF "readystatechange" \in waiting THEN CallDomLoadFunctions(swf, answer) ELSE swf
  /\ UNCHANGED <<browser, scripts, onload, history, historyFrame>>

Load ==
  /\ document = Complete
  /\ document' = Loaded
  /\ IF "history" \in ToSet(onload) THEN Initialize ELSE UNCHANGED <<history, historyFrame>>
  /\ \E answer \in Answer :
       swf' = IF "load" \in waiting \/ "swfobject" \in ToSet(onload)
                THEN CallDomLoadFunctions(swf, answer) ELSE swf
  /\ UNCHANGED <<browser, scripts, waiting, onload>>

\* The two loops of onDomLoad, which end when the DOM is ready for anyone
PollReady(w) ==
  \/ w = "doScroll" /\ document >= Parsed
  \/ w = "readyState" /\ browser.kind = "safari" /\ document >= Parsed
  \/ w = "readyState" /\ browser.kind = "webkit" /\ document >= Complete

Poll ==
  \E w \in waiting \cap {"doScroll", "readyState"} :
    /\ swf.isDomLoaded \/ PollReady(w)
    /\ waiting' = waiting \ {w}
    /\ \E answer \in Answer : swf' = CallDomLoadFunctions(swf, answer)
    /\ UNCHANGED <<browser, document, scripts, onload, history, historyFrame>>

\* The timer of testPlayerVersion
ProbeAgain ==
  /\ swf.probe = "object"
  /\ \E answer \in Answer : swf' = Probe(swf, answer)
  /\ UNCHANGED <<browser, document, scripts, waiting, onload, history, historyFrame>>

\* Called by the dialog's movie when the player asks not to be updated, or cannot be
ExpressInstallCallback ==
  /\ swf.isExpressInstallActive
  /\ LET shown == [SetVisibility(swf, TRUE) EXCEPT !.place = "flashContent"]
     IN swf' = [CallbackFn(IF ua.ie THEN [shown EXCEPT !.display = TRUE] ELSE shown, FALSE)
                  EXCEPT !.isExpressInstallActive = FALSE]
  /\ UNCHANGED <<browser, document, scripts, waiting, onload, history, historyFrame>>

BrowserEvent == OpenBody \/ EndParsing \/ DOMContentLoaded \/ ReadyStateComplete \/ Load
HeadScript == RunHistory \/ RunSwfobject \/ RunEmbed
HistoryTimer == HistoryPoll \/ HistoryDoScroll \/ AppendFrameLater

PageNext == HeadScript \/ BrowserEvent \/ HistoryTimer \/ Poll \/ ProbeAgain
            \/ ExpressInstallCallback

-----------------------------------------------------------------------------
(* Properties *)

AlternativeVisible == swf.place = "flashContent" /\ swf.display /\ swf.visible

Decided == swf.place # "flashContent" \/ swf.told # <<>>

\* One version is another, or the first part that is not the same is greater.
AtLeast(v, w) == v = w \/ \E i \in 1..3 : v[i] > w[i] /\ \A j \in 1..(i - 1) : v[j] = w[j]

\* The page is told what became of the game at most once, though several events and
\* loops report the DOM ready and each calls callDomLoadFunctions; and what it is told
\* is what is seen in place of flashContent.
ToldOnce ==
  /\ Len(swf.told) <= 1
  /\ (swf.told = <<TRUE>>) <=> (swf.place = "game")
  /\ swf.told = <<FALSE>> => swf.place = "flashContent"

\* The game is put in the page just when the player that is there suffices.  Only a
\* description that is wrong may decide otherwise, and only if the probe did not
\* answer at its first try: main runs before the function of embedSWF for that
\* (domLoadFnArr).  A WebKit before 312 is left out: embedSWF gives it nothing.
GameSupported ==
  Decided /\ ~ua.oldWk =>
    \/ (swf.place = "game") <=> AtLeast(browser.installed, Required)
    \/ /\ browser.described # browser.installed
       /\ swf.counter > 0 \/ swf.pv # browser.installed

\* "JavaScript enabled so display the flashContent div in case it is not replaced with
\* a swf object" (index.template.html:65): once the page is told that there will be no
\* game, the alternative text is to be seen.
AlternativeShown == swf.told = <<FALSE>> => AlternativeVisible
=============================================================================
