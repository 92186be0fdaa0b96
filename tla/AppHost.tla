------------------------------- MODULE AppHost -------------------------------
(***************************************************************************)
(* A phone's host and its worklet (core/main.core.ts): the worklet writes  *)
(* handoff.json, the host polls for it, deletes it, and points its web     *)
(* view at the origin it names (BareHandoff.kt, BareWebHost.swift).  Host  *)
(* and worklet are threads of one process: it may be killed at any moment, *)
(* or the host may stop the worklet, and the next run finds the files the  *)
(* last one left.                                                          *)
(*                                                                         *)
(* A run is a runtime, and an origin is known by the run that serves it.   *)
(***************************************************************************)
EXTENDS WorkletRuntime

CONSTANTS
  Platforms,  \* the hosts considered
  Urls        \* what a page may navigate to

ASSUME HostAssumption ==
  /\ Platforms \subseteq {"android", "ios"}
  /\ Urls \subseteq {"app", "web", "blank", "other"}

VARIABLES
  platform,  \* which host this is; never changes
  run,       \* the current run, or 0 between runs
  host,      \* what the host does about the handoff
  handoff,   \* the run whose handoff the host holds
  view       \* what the web view's main frame shows

hostVars == <<platform, run, host, handoff, view>>

NoRun == 0

(* A document of the app's run i, or one of nobody's.                      *)
Page(i) == [doc |-> "app", of |-> i]
Status == [doc |-> "status", of |-> NoRun]
Foreign == [doc |-> "foreign", of |-> NoRun]
Refused == [doc |-> "refused", of |-> NoRun]

HostTypeOK ==
  /\ platform \in Platforms
  /\ run \in Runtimes \cup {NoRun}
  /\ host \in {"off", "polling", "read", "loaded"}
  /\ handoff \in Runtimes \cup {NoRun}
  /\ view \in {Page(i) : i \in Runtimes} \cup {Status, Foreign, Refused}

HostInit ==
  /\ platform \in Platforms
  /\ run = NoRun /\ host = "off"
  /\ handoff = NoRun /\ view = Status

-----------------------------------------------------------------------------
(* A plausible bug, as a mutant of the definition below: the host leaves   *)
(* the stale handoff to the worklet.                                       *)
KeepsStale == files

-----------------------------------------------------------------------------
(* Starting a run.                                                         *)

(* BareStorage.prepare(), and the start of the Android host: a stale       *)
(* handoff goes before the worklet is started and before the first poll.   *)
WithoutStale == [files EXCEPT ![AppStorage] = NoFile]

Boot(i) ==
  /\ host = "off"
  /\ life[i] = "absent"
  /\ \A j \in Runtimes : j < i => life[j] # "absent"
  /\ run' = i
  /\ host' = "polling"
  /\ files' = WithoutStale
  /\ UNCHANGED <<platform, handoff, view>>
  /\ UNCHANGED <<life, closed, server, sinks, wrappers>>

(* The worklet's thread gets to its entry script.                          *)
WorkletStarts ==
  /\ run # NoRun
  /\ CreateAndStart(run, AppStorage)
  /\ UNCHANGED hostVars

WorkletUp ==
  /\ run # NoRun
  /\ Bound(run, AppStorage, TRUE)
  /\ UNCHANGED hostVars

(* The entry script logs why, and closes the runtime.                      *)
WorkletFails ==
  /\ run # NoRun
  /\ StartFails(run)
  /\ UNCHANGED hostVars

-----------------------------------------------------------------------------
(* BareHandoff.consume(): a file that is missing leaves the host polling,  *)
(* and so does one that does not parse; one that parses is deleted.        *)

PollReads ==
  /\ host = "polling"
  /\ files[AppStorage] # NoFile
  /\ host' = "read"
  /\ handoff' = files[AppStorage]
  /\ UNCHANGED <<platform, run, view>>
  /\ UNCHANGED runtimeVars

(* The file is gone and the view is confined to the origin, then loaded.   *)
PollDeletes ==
  /\ host = "read"
  /\ host' = "loaded"
  /\ files' = [files EXCEPT ![AppStorage] = NoFile]
  /\ view' = Page(handoff)
  /\ UNCHANGED <<platform, run, handoff>>
  /\ UNCHANGED <<life, closed, server, sinks, wrappers>>

-----------------------------------------------------------------------------
(* What the page may navigate its trusted view to.  A url is a page of the *)
(* handed-off origin, of another web origin, about:blank, or of another    *)
(* scheme.  A browser or a POST comes with, or without, a user's gesture.  *)

(* isAppURL and isAllowedNavigation: same scheme, host and port, no user.  *)
IsAppUrl(url) == url = "app"

(* BareNavigationPolicy.decide.                                            *)
DecideIos(url, newWindow, activated) ==
  CASE IsAppUrl(url)               -> IF newWindow THEN "loadInPlace"
                                                   ELSE "allow"
    [] url = "blank" /\ ~newWindow -> "allow"
    [] url = "web" /\ activated    -> "openExternally"
    [] OTHER                       -> "cancel"

(* shouldOverrideUrlLoading for what is not posted, which it never sees;   *)
(* a POST is answered with an empty 403, and a page that got through all   *)
(* the same is stopped when it starts.                                     *)
DecideAndroid(url, posted, gesture) ==
  CASE IsAppUrl(url)                          -> "allow"
    [] url = "web" /\ posted                  -> "refuse"
    [] url = "web" /\ ~posted /\ gesture      -> "openExternally"
    [] url \in {"blank", "other"} /\ posted   -> "allow"
    [] OTHER                                  -> "cancel"

Shown(url) ==
  CASE url = "app"   -> Page(handoff)
    [] url = "web"   -> Foreign
    [] OTHER         -> Status

AfterDecision(decision, url) ==
  CASE decision \in {"allow", "loadInPlace"} -> Shown(url)
    [] decision = "refuse"                   -> Refused
    [] OTHER                                 -> view

(* A main-frame navigation.  A POST never goes to another scheme.          *)
Navigate(url, special, gesture) ==
  /\ host = "loaded"
  /\ special => url # "other"
  /\ view' = AfterDecision(IF platform = "ios"
                             THEN DecideIos(url, special, gesture)
                             ELSE DecideAndroid(url, special, gesture), url)
  /\ UNCHANGED <<platform, run, host, handoff>>
  /\ UNCHANGED runtimeVars

(* onPageStarted: the view goes back to the app's page.                    *)
GoBack ==
  /\ view = Refused
  /\ view' = Page(handoff)
  /\ UNCHANGED <<platform, run, host, handoff>>
  /\ UNCHANGED runtimeVars

-----------------------------------------------------------------------------
(* The process is killed, or the host stops the worklet: either way the    *)
(* host forgets the run, and only the files are left.  A run that ends     *)
(* before its worklet started left no trace, and its number is used again. *)
Stop ==
  /\ run # NoRun
  /\ AllDie
  /\ run' = NoRun /\ host' = "off"
  /\ handoff' = NoRun /\ view' = Status
  /\ UNCHANGED platform

AppNext ==
  \/ \E i \in Runtimes : Boot(i)
  \/ WorkletStarts \/ WorkletUp \/ WorkletFails
  \/ PollReads \/ PollDeletes
  \/ \E url \in Urls, special, gesture \in BOOLEAN :
       Navigate(url, special, gesture)
  \/ GoBack
  \/ Stop

-----------------------------------------------------------------------------
(* The handoff the host holds, and the page its view shows, are the        *)
(* current run's, whatever files runs that were killed left behind, and    *)
(* the trusted view never shows another origin.                            *)
FreshHandoff ==
  /\ handoff \in {NoRun, run}
  /\ view \in {Status, Refused} \cup {Page(i) : i \in {run} \ {NoRun}}

(* A host that polls gets its handoff, unless the worklet could not start  *)
(* or the process ends.                                                    *)
HandoffArrives ==
  host = "polling" ~>
    \/ host \in {"loaded", "off"}
    \/ run # NoRun /\ life[run] = "rejected"
=============================================================================
