--------------------------- MODULE LoopbackServer ---------------------------
(***************************************************************************)
(* The loopback server of core/server as the pages of the app see it: the  *)
(* login, files and media, and the log routes, behind one gate.            *)
(***************************************************************************)
EXTENDS StaticFileServer, LogRoutes, RuntimeConfig

allVars == <<vars, serverVars, logVars>>

Start ==
  /\ Init
  /\ ServerInit
  /\ LogInit

GateStep ==
  /\ Bind \/ Pause \/ Resume \/ Tick
     \/ \E d \in Docs :
          GiveNonce(d) \/ PostLogin(d) \/ Login(d) \/ LoginAborted(d)
  /\ UNCHANGED <<serverVars, logVars>>

(* A registered route runs behind the gate: a batch from a page without a  *)
(* session is refused.                                                     *)
PostLogs(post) == post.page \in session /\ Ingest(post)

LogStep ==
  /\ \/ \E p \in Consoles : PageLogs(p) \/ FlushTimer(p)
     \/ \E post \in posts : PostLogs(post) \/ BatchLost(post)
     \/ BackendLogs \/ ClearLogs
  /\ UNCHANGED <<vars, serverVars>>

ServerStep == ServerNext /\ UNCHANGED logVars

ServerSpec == Start /\ [][GateStep \/ ServerStep \/ LogStep]_allVars

-----------------------------------------------------------------------------
(* Files, media and logs: each part's account of what it holds is true,    *)
(* ranges are cut as they were asked for, and no launch leaves the server  *)
(* open that was not asked to.                                             *)
ServesInv ==
  /\ ServerInv
  /\ LogInv
  /\ Start => LaunchesAreSafe /\ RangesAreExact
=============================================================================
