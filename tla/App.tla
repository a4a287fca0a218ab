-------------------------------- MODULE App --------------------------------
(***************************************************************************)
(* From the page to the first screen: the movie the page embeds begins     *)
(* with the preloader (AztecWebPreloader), whose splash screen is handed   *)
(* to the application (AztecApp); that loads its resources, shows its      *)
(* modes and takes the splash screen away.  A build for one computer goes  *)
(* on to a battle with messages of Loopback; otherwise the mode is         *)
(* ConnectMode, from which AztecClient goes on.                            *)
(***************************************************************************)
EXTENDS WebPage, Loopback

VARIABLES
  multiplayer,   \* Aztec.MULTIPLAYER, fixed when the movie is built
  movie,
  modes,         \* _modeStack
  splash         \* who shows the splash screen

appVars == <<multiplayer, movie, modes, splash>>
allVars == <<pageVars, appVars, loopbackVars>>

Movie == {"none", "preloader", "app", "resources", "running", "failed"}

WebTypeOK ==
  /\ PageTypeOK
  /\ LoopbackTypeOK
  /\ multiplayer \in BOOLEAN
  /\ movie \in Movie
  /\ modes \in {<<>>, <<"connect">>, <<"connect", "battle">>}
  /\ splash \in {"none", "preloader", "app"}

AppInit ==
  /\ PageInit
  /\ LoopbackInit
  /\ multiplayer \in BOOLEAN
  /\ movie = "none" /\ modes = <<>> /\ splash = "none"

\* An older player that was described as a newer one runs nothing.
StartMovie ==
  /\ movie = "none"
  /\ swf.place = "game" /\ HasPlayerVersion(browser.installed, Required)
  /\ movie' = "preloader"
  /\ splash' = "preloader"
  /\ UNCHANGED <<multiplayer, modes>>

\* onComplete: the application takes the splash screen over.
PreloaderComplete ==
  /\ movie = "preloader"
  /\ movie' = "app"
  /\ splash' = "app"
  /\ UNCHANGED <<multiplayer, modes>>

Run ==
  /\ movie = "app"
  /\ movie' = "resources"
  /\ UNCHANGED <<multiplayer, modes, splash>>

ResourcesLoaded ==
  /\ movie = "resources"
  /\ movie' = "running"
  /\ modes' = IF multiplayer THEN <<"connect">> ELSE <<"connect", "battle">>
  /\ UNCHANGED <<multiplayer, splash>>

\* The failure is logged, and that is all.
ResourcesFailed ==
  /\ movie = "resources"
  /\ movie' = "failed"
  /\ UNCHANGED <<multiplayer, modes, splash>>

\* delayFrame
RemoveSplash ==
  /\ movie = "running" /\ splash = "app"
  /\ splash' = "none"
  /\ UNCHANGED <<multiplayer, movie, modes>>

MovieStep ==
  StartMovie \/ PreloaderComplete \/ Run \/ ResourcesLoaded \/ ResourcesFailed \/ RemoveSplash

BattleStep == movie = "running" /\ modes = <<"connect", "battle">> /\ LoopbackNext

AppNext ==
  \/ PageNext /\ UNCHANGED <<appVars, loopbackVars>>
  \/ MovieStep /\ UNCHANGED <<pageVars, loopbackVars>>
  \/ BattleStep /\ UNCHANGED <<pageVars, appVars>>

\* A browser goes on with a page until it is loaded, timers fire, and the movie and
\* its resources load or fail.  Nobody has to answer the dialog of Express Install,
\* and whether frames or messages come in a battle is left open.
Fairness ==
  /\ WF_allVars((HeadScript \/ BrowserEvent) /\ UNCHANGED <<appVars, loopbackVars>>)
  /\ WF_allVars(HistoryTimer /\ UNCHANGED <<appVars, loopbackVars>>)
  /\ WF_allVars((Poll \/ ProbeAgain) /\ UNCHANGED <<appVars, loopbackVars>>)
  /\ WF_allVars(MovieStep /\ UNCHANGED <<pageVars, loopbackVars>>)

AppSpec == AppInit /\ [][AppNext]_allVars /\ Fairness

-----------------------------------------------------------------------------
\* The game shows a mode and no splash screen any more; or its resources have failed to
\* load, then the splash screen stays for ever (AztecApp.run only logs it); or the
\* player is too old for it though described as new enough.
GameSettled ==
  /\ swf.place = "game"
  /\ \/ movie = "running" /\ splash = "none"
     \/ movie = "failed" /\ splash = "app"
     \/ ~HasPlayerVersion(browser.installed, Required)

\* The page AlternativeShown is violated by: IE 9 and 10 take no rule of createCSS, and
\* only the dialog's callback shows what is hidden, so a player too old even for the
\* dialog leaves the page empty.
EmptyPage ==
  /\ browser.kind = "IE9" /\ ua.ie /\ ~HasPlayerVersion(browser.installed, ExpressVersion)
  /\ swf.place = "flashContent" /\ swf.told = <<FALSE>>

\* Whatever the browser, the order of its events and the answers of the probe, the page
\* comes to rest: with the game, with the dialog of Express Install, with the alternative
\* text to be seen, or empty where AlternativeShown fails and nowhere else; with no probe
\* left in it (testPlayerVersion); and with BrowserHistory initialized, unless a WebKit
\* before 312 never tells it that the page is ready.  That the game shows something when
\* its resources have failed is not said: it comes to rest on its splash screen.
PageSettles ==
  <>[](/\ GameSettled \/ swf.place = "expressInstall" \/ AlternativeVisible \/ EmptyPage
       /\ swf.probe # "object"
       /\ history \/ ua.oldWk)
=============================================================================
