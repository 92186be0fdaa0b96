---------------------------- MODULE PluginRouter ----------------------------
(***************************************************************************)
(* createPluginRouter of core/messages/plugin-kernel.ts: admission of      *)
(* calls under the global, per-channel and per-plugin caps, the queues of  *)
(* serial plugins, local adapters, and delegation to the host behind the   *)
(* cached snapshot of the capabilities the host announces.                 *)
(*                                                                         *)
(* A plugin stands for one event of it.  A call is an invoke with a        *)
(* requestId; a dispatch differs in going unanswered on success, and in    *)
(* never being delegated: a host-only plugin does not support it.          *)
(* Only the host's disowning an event is told apart from its other         *)
(* answers.  Promise continuations are actions of their own where another  *)
(* task can run in between.  The host and its ordered pipe are the         *)
(* environment.                                                            *)
(***************************************************************************)
EXTENDS Naturals, Sequences, FiniteSets, FiniteSetsExt, SequencesExt

CONSTANTS
  Calls,          \* the calls that may arrive
  Channels,       \* the channels they arrive on, e.g. "[ws]" and "[ipc]"
  Plugins,        \* plugin ids named by calls
  Registered,     \* ids with a manifest that declares the event
  Local,          \* registered ids with an adapter for this runtime
  Serial,         \* options.serialPlugins
  ChannelOf,      \* ChannelOf[c]: the channel of call c
  PluginOf,       \* PluginOf[c]: the plugin call c names
  Dispatches,     \* the calls the host is never asked to run
  MaxInflight,    \* options.maxInflight
  MaxPerChannel,  \* options.maxInflightPerChannel
  MaxPerPlugin,   \* options.maxInflightPerPlugin
  NoCall,         \* no serial tail
  NoCache         \* capsCache = null

ASSUME RouterAssumption ==
  /\ IsFiniteSet(Calls) /\ IsFiniteSet(Channels)
  /\ Registered \subseteq Plugins
  /\ Local \subseteq Registered
  /\ Serial \subseteq Plugins
  /\ ChannelOf \in [Calls -> Channels]
  /\ PluginOf \in [Calls -> Plugins]
  /\ Dispatches \subseteq Calls
  /\ MaxInflight \in Nat \ {0}
  /\ MaxPerChannel \in Nat \ {0}
  /\ MaxPerPlugin \in Nat \ {0}
  /\ NoCall \notin Calls

VARIABLES
  phase,       \* phase[c]: where call c stands, see Phases
  inflight,    \* the global counter
  byChannel,   \* inflightByChannel
  byPlugin,    \* inflightByPlugin
  tail,        \* serialTails: the last call of each serial plugin
  after,       \* after[c]: the call a serial call was chained behind
  tidy,        \* settled serial calls whose tail cleanup has not run
  cache,       \* capsCache: a snapshot and its age, or NoCache
  asking,      \* capsInflight # null
  hostCaps,    \* what the host offers right now
  toHost,      \* the pipe to the host
  fromHost,    \* the pipe from the host
  atHost,      \* delegated calls a host handler is working on
  ahead,       \* history: the serial calls c found unsettled on arrival
  disowned     \* history: disowned with no query under way, not added since

vars == <<phase, inflight, byChannel, byPlugin, tail, after, tidy,
          cache, asking, hostCaps, toHost, fromHost, atHost, ahead, disowned>>

routing == <<inflight, byChannel, byPlugin, tail, after, tidy>>
host    == <<hostCaps, toHost, fromHost, atHost>>
history == <<ahead, disowned>>

(* new, held behind a serial predecessor, running its local adapter,       *)
(* waiting for the capabilities, waiting for the host, settled (routeNow   *)
(* returned), and answered (route returned, its slots released).           *)
Phases == {"new", "held", "running", "waiting", "delegated", "settled",
           "answered"}

Unsettled == {"held", "running", "waiting", "delegated"}

(* What the host answers a delegated call: it disowns the event, or its    *)
(* handler ends, with a result or an error.                                *)
Codes == {"unsupported", "done"}

(* A snapshot is younger than NEGATIVE_REFRESH_MS, older, or past its TTL. *)
Ages == {"new", "aging", "old"}

HostOnly == Registered \ Local

Snapshots == [caps : SUBSET Plugins, age : Ages]

ToHostMsgs == [type : {"query"}] \cup [type : {"invoke"}, call : Calls]

FromHostMsgs ==
  [type : {"caps"}, caps : SUBSET Plugins]
    \cup [type : {"answer"}, call : Calls, code : Codes]

TypeOK ==
  /\ phase \in [Calls -> Phases]
  /\ inflight \in 0 .. MaxInflight
  /\ byChannel \in [Channels -> 0 .. MaxPerChannel]
  /\ byPlugin \in [Registered -> 0 .. MaxPerPlugin]
  /\ tail \in [Serial -> Calls \cup {NoCall}]
  /\ after \in [Calls -> Calls \cup {NoCall}]
  /\ tidy \subseteq Calls
  /\ cache \in Snapshots \cup {NoCache}
  /\ asking \in BOOLEAN
  /\ hostCaps \subseteq Plugins
  /\ toHost \in Seq(ToHostMsgs)
  /\ fromHost \in Seq(FromHostMsgs)
  /\ atHost \subseteq Calls
  /\ ahead \in [Calls -> SUBSET Calls]
  /\ disowned \subseteq Plugins

Init ==
  /\ phase = [c \in Calls |-> "new"]
  /\ inflight = 0
  /\ byChannel = [ch \in Channels |-> 0]
  /\ byPlugin = [p \in Registered |-> 0]
  /\ tail = [p \in Serial |-> NoCall]
  /\ after = [c \in Calls |-> NoCall]
  /\ tidy = {}
  /\ cache = NoCache
  /\ asking = FALSE
  /\ hostCaps \in SUBSET HostOnly
  /\ toHost = <<>>
  /\ fromHost = <<>>
  /\ atHost = {}
  /\ ahead = [c \in Calls |-> {}]
  /\ disowned = {}

-----------------------------------------------------------------------------
(* Admission and release: route() around its try/finally.                  *)

Counted(c) == PluginOf[c] \in Registered

(* Plausible bugs, as mutants of the definitions below: no cap per         *)
(* channel, a plugin slot that leaks, a tail deleted after it was          *)
(* replaced, a snapshot kept after a disownment, and waiters that a failed *)
(* query does not wake.                                                    *)
BusyPerPlugin(c) ==
  \/ inflight >= MaxInflight
  \/ Counted(c) /\ byPlugin[PluginOf[c]] >= MaxPerPlugin

PluginSlotKept(c) == byPlugin

TailDropped(c) == [tail EXCEPT ![PluginOf[c]] = NoCall]

CacheKept(code) == cache

WakesNobody == {}

Busy(c) ==
  \/ inflight >= MaxInflight
  \/ byChannel[ChannelOf[c]] >= MaxPerChannel
  \/ Counted(c) /\ byPlugin[PluginOf[c]] >= MaxPerPlugin

(* A call over a cap is answered at once instead of being queued.          *)
Refuse(c) ==
  /\ phase[c] = "new"
  /\ Busy(c)
  /\ phase' = [phase EXCEPT ![c] = "answered"]
  /\ UNCHANGED <<routing, cache, asking, host, history>>

(* An admitted call takes its slots; a serial plugin's call is chained     *)
(* behind the previous one.                                                *)
Admit(c) ==
  LET p == PluginOf[c] IN
  /\ phase[c] = "new"
  /\ ~Busy(c)
  /\ phase' = [phase EXCEPT ![c] = "held"]
  /\ inflight' = inflight + 1
  /\ byChannel' = [byChannel EXCEPT ![ChannelOf[c]] = @ + 1]
  /\ byPlugin' = IF Counted(c) THEN [byPlugin EXCEPT ![p] = @ + 1]
                               ELSE byPlugin
  /\ IF p \in Serial
       THEN /\ after' = [after EXCEPT ![c] = tail[p]]
            /\ tail' = [tail EXCEPT ![p] = c]
       ELSE UNCHANGED <<after, tail>>
  /\ ahead' = [ahead EXCEPT ![c] =
                 {d \in Calls : /\ p \in Serial /\ PluginOf[d] = p
                               /\ phase[d] \in Unsettled}]
  /\ UNCHANGED <<tidy, cache, asking, host, disowned>>

PluginSlotFreed(c) ==
  IF Counted(c) THEN [byPlugin EXCEPT ![PluginOf[c]] = @ - 1] ELSE byPlugin

(* The finally of route(): every slot the call took is given back.         *)
Release(c) ==
  /\ phase[c] = "settled"
  /\ phase' = [phase EXCEPT ![c] = "answered"]
  /\ inflight' = inflight - 1
  /\ byChannel' = [byChannel EXCEPT ![ChannelOf[c]] = @ - 1]
  /\ byPlugin' = PluginSlotFreed(c)
  /\ UNCHANGED <<tail, after, tidy, cache, asking, host,
                 history>>

TailAfter(c) ==
  IF tail[PluginOf[c]] = c THEN [tail EXCEPT ![PluginOf[c]] = NoCall] ELSE tail

(* The cleanup runSerial chains to each call: the tail is deleted only if  *)
(* no later call has replaced it.                                          *)
TidyTail(c) ==
  /\ c \in tidy
  /\ tidy' = tidy \ {c}
  /\ tail' = TailAfter(c)
  /\ UNCHANGED <<phase, inflight, byChannel, byPlugin, after, cache,
                 asking, host, history>>

-----------------------------------------------------------------------------
(* routeNow(): the call itself.                                            *)

(* The calls of S settle, with whatever response.                          *)
Settle(S) ==
  /\ phase' = [c \in Calls |-> IF c \in S THEN "settled" ELSE phase[c]]
  /\ tidy' = tidy \cup {c \in S : PluginOf[c] \in Serial}

Listed(p) == cache # NoCache /\ p \in cache.caps

(* hostAnnounces() may answer from the snapshot: yes while it is within    *)
(* its TTL, no only while it is younger than NEGATIVE_REFRESH_MS.          *)
KnownYes(p) == cache # NoCache /\ cache.age # "old" /\ p \in cache.caps
KnownNo(p)  == cache # NoCache /\ cache.age = "new" /\ p \notin cache.caps

MayStart(c) ==
  /\ phase[c] = "held"
  /\ after[c] # NoCall => phase[after[c]] \in {"settled", "answered"}

(* No manifest, or one that does not declare the event.                    *)
StartUndeclared(c) ==
  /\ MayStart(c)
  /\ PluginOf[c] \notin Registered
  /\ Settle({c})
  /\ UNCHANGED <<inflight, byChannel, byPlugin, tail, after, cache, asking,
                 host, history>>

StartLocal(c) ==
  /\ MayStart(c)
  /\ PluginOf[c] \in Local
  /\ phase' = [phase EXCEPT ![c] = "running"]
  /\ UNCHANGED <<routing, cache, asking, host, history>>

(* The adapter returns, or throws and is answered with a sanitised error.  *)
AdapterDone(c) ==
  /\ phase[c] = "running"
  /\ Settle({c})
  /\ UNCHANGED <<inflight, byChannel, byPlugin, tail, after, cache, asking,
                 host, history>>

(* A host-only plugin, by a call that cannot be delegated, or one whose    *)
(* snapshot answer is known.                                               *)
StartDenied(c) ==
  /\ MayStart(c)
  /\ PluginOf[c] \in HostOnly
  /\ c \in Dispatches \/ KnownNo(PluginOf[c])
  /\ Settle({c})
  /\ UNCHANGED <<inflight, byChannel, byPlugin, tail, after, cache, asking,
                 host, history>>

StartDelegated(c) ==
  /\ MayStart(c)
  /\ PluginOf[c] \in HostOnly /\ c \notin Dispatches
  /\ KnownYes(PluginOf[c])
  /\ phase' = [phase EXCEPT ![c] = "delegated"]
  /\ toHost' = Append(toHost, [type |-> "invoke", call |-> c])
  /\ UNCHANGED <<routing, cache, asking, hostCaps, fromHost, atHost,
                 history>>

(* Otherwise it waits for a capabilities query, joining one in flight.     *)
StartWaiting(c) ==
  /\ MayStart(c)
  /\ PluginOf[c] \in HostOnly /\ c \notin Dispatches
  /\ ~KnownYes(PluginOf[c]) /\ ~KnownNo(PluginOf[c])
  /\ phase' = [phase EXCEPT ![c] = "waiting"]
  /\ asking' = TRUE
  /\ toHost' = IF asking THEN toHost ELSE Append(toHost, [type |-> "query"])
  /\ UNCHANGED <<routing, cache, hostCaps, fromHost, atHost, history>>

Waiting == {c \in Calls : phase[c] = "waiting"}

(* The query resolves: the snapshot is cached, and every waiter is either  *)
(* delegated or told the event is unsupported.                             *)
QueryResolves ==
  /\ fromHost # <<>>
  /\ Head(fromHost).type = "caps"
  /\ asking
  /\ LET caps    == Head(fromHost).caps
         allowed == {c \in Waiting : PluginOf[c] \in caps}
         denied  == Waiting \ allowed
     IN /\ cache' = [caps |-> caps, age |-> "new"]
        /\ phase' = [c \in Calls |-> CASE c \in allowed -> "delegated"
                                       [] c \in denied  -> "settled"
                                       [] OTHER         -> phase[c]]
        /\ tidy' = tidy \cup {c \in denied : PluginOf[c] \in Serial}
        /\ \E order \in SetToSeqs(allowed) :
             toHost' = toHost \o
               [i \in DOMAIN order |-> [type |-> "invoke", call |-> order[i]]]
  /\ asking' = FALSE
  /\ fromHost' = Tail(fromHost)
  /\ UNCHANGED <<inflight, byChannel, byPlugin, tail, after, hostCaps, atHost,
                 history>>

(* A failed query wakes every call that waits for it.                      *)
Wakes == Waiting

IsQuery(m)  == m.type = "query"
IsCaps(m)   == m.type = "caps"
IsAnswer(m) == m.type = "answer"

(* The query is rejected (timeout, closed bridge, error response): every   *)
(* waiter fails, and its catch drops the snapshot.  The late response to   *)
(* it names a request nobody waits for, so it is taken off the pipes:      *)
(* there is one, see RequestsInOnePlace.                                   *)
QueryFails ==
  /\ asking
  /\ asking' = FALSE
  /\ cache' = NoCache
  /\ Settle(Wakes)
  /\ toHost' = RemoveFirstMatch(toHost, IsQuery)
  /\ fromHost' = RemoveFirstMatch(fromHost, IsCaps)
  /\ UNCHANGED <<inflight, byChannel, byPlugin, tail, after, hostCaps, atHost,
                 history>>

CacheAfter(code) == IF code = "unsupported" THEN NoCache ELSE cache

(* The host answers a delegated call.  Disowning the event drops the       *)
(* snapshot.  The answer takes fewer promise hops to get here than a       *)
(* capabilities response, so it overtakes one read in the same chunk.      *)
DelegationAnswered ==
  LET i == SelectInSeq(fromHost, IsAnswer)
      m == fromHost[i]
  IN
  /\ i # 0
  /\ m.call \in {c \in Calls : phase[c] = "delegated"}
  /\ Settle({m.call})
  /\ cache' = CacheAfter(m.code)
  /\ disowned' = IF /\ m.code = "unsupported"
                    /\ PluginOf[m.call] \notin hostCaps
                    /\ ~asking
                   THEN disowned \cup {PluginOf[m.call]}
                   ELSE disowned
  /\ fromHost' = RemoveAt(fromHost, i)
  /\ UNCHANGED <<inflight, byChannel, byPlugin, tail, after, asking,
                 hostCaps, toHost, atHost, ahead>>

(* The request of c, or its answer, taken off a pipe.                      *)
Without(pipe, c) ==
  RemoveFirstMatch(pipe,
    LAMBDA m : m.type \in {"invoke", "answer"} /\ m.call = c)

(* The delegation is rejected: timed out, evicted, superseded or closed.   *)
(* The host may still run it, but the bridge drops the late answer.        *)
DelegationFails(c) ==
  /\ phase[c] = "delegated"
  /\ Settle({c})
  /\ cache' = NoCache
  /\ toHost' = Without(toHost, c)
  /\ fromHost' = Without(fromHost, c)
  /\ atHost' = atHost \ {c}
  /\ UNCHANGED <<inflight, byChannel, byPlugin, tail, after, asking,
                 hostCaps, history>>

CacheAges ==
  /\ cache # NoCache
  /\ cache.age # "old"
  /\ cache' = [cache EXCEPT !.age = IF @ = "new" THEN "aging" ELSE "old"]
  /\ UNCHANGED <<phase, routing, asking, host, history>>

-----------------------------------------------------------------------------
(* The host: it reads its pipe in order, answers a query or disowns a call *)
(* on the spot, runs the other calls concurrently, and may gain or lose a  *)
(* plugin.                                                                 *)

HostReads ==
  /\ toHost # <<>>
  /\ toHost' = Tail(toHost)
  /\ LET m       == Head(toHost)
         reply(r) == fromHost' = Append(fromHost, r) /\ UNCHANGED atHost
     IN CASE m.type = "query" -> reply([type |-> "caps", caps |-> hostCaps])
          [] m.type = "invoke" /\ PluginOf[m.call] \notin hostCaps ->
               reply([type |-> "answer", call |-> m.call,
                      code |-> "unsupported"])
          [] OTHER -> atHost' = atHost \cup {m.call} /\ UNCHANGED fromHost
  /\ UNCHANGED <<phase, routing, cache, asking, hostCaps, history>>

HostFinishes(c) ==
  /\ c \in atHost
  /\ atHost' = atHost \ {c}
  /\ fromHost' = Append(fromHost, [type |-> "answer", call |-> c,
                                   code |-> "done"])
  /\ UNCHANGED <<phase, routing, cache, asking, hostCaps, toHost,
                 history>>

HostChanges(p) ==
  /\ p \in HostOnly
  /\ hostCaps' = IF p \in hostCaps THEN hostCaps \ {p} ELSE hostCaps \cup {p}
  /\ disowned' = disowned \ {p}
  /\ UNCHANGED <<phase, routing, cache, asking, toHost, fromHost,
                 atHost, ahead>>

-----------------------------------------------------------------------------

Start(c) ==
  \/ StartUndeclared(c) \/ StartLocal(c) \/ StartDenied(c)
  \/ StartDelegated(c) \/ StartWaiting(c)

CallStep(c) ==
  \/ Refuse(c) \/ Admit(c) \/ Start(c) \/ Release(c) \/ TidyTail(c)
  \/ AdapterDone(c) \/ DelegationFails(c) \/ HostFinishes(c)

Next ==
  \/ \E c \in Calls : CallStep(c)
  \/ QueryResolves \/ QueryFails \/ DelegationAnswered \/ CacheAges
  \/ HostReads
  \/ \E p \in Plugins : HostChanges(p)

Spec == Init /\ [][Next]_vars

(* Continuations run, local adapters return, and the bridge's timers bound *)
(* every wait on the host: the host itself owes nothing.                   *)
Fairness ==
  /\ \A c \in Calls :
       /\ WF_vars(Start(c))
       /\ WF_vars(AdapterDone(c))
       /\ WF_vars(DelegationFails(c))
       /\ WF_vars(Release(c))
  /\ WF_vars(QueryFails)

FairSpec == Spec /\ Fairness

-----------------------------------------------------------------------------
(* Properties.                                                             *)

Active == {c \in Calls : phase[c] \in Unsettled \cup {"settled"}}

(* No slot leaks and none is given back twice: whatever way a call ends,   *)
(* the three counters equal the calls that are really under way.           *)
SlotsBalance ==
  /\ inflight = Cardinality(Active)
  /\ \A ch \in Channels :
       byChannel[ch] = Cardinality({c \in Active : ChannelOf[c] = ch})
  /\ \A p \in Registered :
       byPlugin[p] = Cardinality({c \in Active : PluginOf[c] = p})

Delegated == {c \in Calls : phase[c] = "delegated"}

Asked == \E i \in DOMAIN toHost : IsQuery(toHost[i])
Told  == \E i \in DOMAIN fromHost : IsCaps(fromHost[i])

Invoked == {c \in Calls : \E i \in DOMAIN toHost :
                             ~IsQuery(toHost[i]) /\ toHost[i].call = c}
Replied == {c \in Calls : \E i \in DOMAIN fromHost :
                             IsAnswer(fromHost[i]) /\ fromHost[i].call = c}

SameRequest(m, n) ==
  m.type = n.type /\ (m.type \in {"invoke", "answer"} => m.call = n.call)

Distinct(pipe) ==
  \A i, j \in DOMAIN pipe : SameRequest(pipe[i], pipe[j]) => i = j

(* A request to the host is in one place only, on its way, being worked on *)
(* or on its way back, and only while somebody waits for its answer.       *)
RequestsInOnePlace ==
  /\ Distinct(toHost) /\ Distinct(fromHost)
  /\ Asked \/ Told => asking
  /\ ~(Asked /\ Told)
  /\ Invoked \cup atHost \cup Replied \subseteq Delegated
  /\ Invoked \cap atHost = {}
  /\ (Invoked \cup atHost) \cap Replied = {}

(* Well typed, with every slot and every request accounted for.            *)
Inv == TypeOK /\ SlotsBalance /\ RequestsInOnePlace

(* "The page cannot starve requests from the host": with two channels and  *)
(* a channel cap below the global one, a channel with nothing under way    *)
(* always finds a global slot free.                                        *)
NoChannelStarved ==
  Cardinality(Channels) = 2 /\ MaxPerChannel < MaxInflight =>
    \A ch \in Channels : byChannel[ch] = 0 => inflight < MaxInflight

(* Calls of a serial plugin run one at a time and in arrival order, even   *)
(* when one settles while another arrives and its tail is being cleaned.   *)
SerialInOrder ==
  \A c \in Calls :
    phase[c] \notin {"new", "held"} =>
      \A d \in ahead[c] : phase[d] \in {"settled", "answered"}

(* Once the host has disowned a plugin while no query was under way, no    *)
(* snapshot lists the plugin, however old or new, until the host adds it   *)
(* back.  (A query that was under way may still install an older list; the *)
(* next disownment drops that one.)                                        *)
DisownedNotTrusted == \A p \in disowned : ~Listed(p)

(* Every call is answered, whatever the host does.                         *)
EveryCallAnswered ==
  \A c \in Calls : (phase[c] # "new") ~> (phase[c] = "answered")
=============================================================================
