--------------------------- MODULE RuntimeConfig ---------------------------
(***************************************************************************)
(* What a command line and a list of plugins come to: the resolution of    *)
(* options in core/runtime.ts, the checks of createWorkletRuntime, of the  *)
(* plugin registry and of createLoopbackServer that make a launch throw.   *)
(*                                                                         *)
(* Options are functions from the names that are set.  An argument is a    *)
(* token `key=value', or the path of an existing directory or file.        *)
(***************************************************************************)
EXTENDS Naturals, Sequences, FiniteSets

CONSTANTS
  Arguments,    \* arguments of a command line: records of a key and a value
  MaxArgs,      \* bound: how many arguments the runs try
  BareOrigins,  \* what ORIGIN_PATTERN matches: scheme://host[:port]
  Consumers     \* plugins of an app: an id, is it namespaced and reserved

ASSUME ConfigAssumption ==
  /\ \A a \in Arguments : DOMAIN a = {"key", "value"}
  /\ MaxArgs \in Nat
  /\ \A p \in Consumers : {p.namespaced, p.reserved} \subseteq BOOLEAN

-----------------------------------------------------------------------------
(* The command line.                                                       *)

Has(options, name) == name \in DOMAIN options

(* options.name ?? default                                                 *)
Option(options, name, default) ==
  IF Has(options, name) THEN options[name] ELSE default

(* { ...default, ...given }                                                *)
Over(given, default) ==
  [name \in DOMAIN given \cup DOMAIN default |->
     Option(given, name, default[name])]

Labels == {"webassets", "storage", "cache", "host", "port", "auth"}

(* A port= token that is no port number is ignored.                        *)
Accepted(a) == a.key \in Labels /\ (a.key = "port" => a.value \in 0 .. 65535)

ValueOf(label, a) ==
  IF label = "auth" THEN a.value \notin {"off", "false", "0"} ELSE a.value

(* The last accepted token of a label counts.                              *)
TokensOf(argv, label) ==
  {i \in DOMAIN argv : argv[i].key = label /\ Accepted(argv[i])}

LastOf(argv, label) ==
  CHOOSE i \in TokensOf(argv, label) :
    \A j \in TokensOf(argv, label) : j <= i

(* origin= may be repeated; what it says is looked at by the server only.  *)
OriginsOf(argv) ==
  {argv[i].value : i \in {j \in DOMAIN argv : argv[j].key = "origin"}}

Parsed(argv) ==
  LET given == {l \in Labels : TokensOf(argv, l) # {}} IN
  [name \in given \cup {o \in {"allowedOrigins"} : OriginsOf(argv) # {}} |->
     IF name \in Labels THEN ValueOf(name, argv[LastOf(argv, name)])
                        ELSE OriginsOf(argv)]

(* mode=dev counts wherever it stands, also before mode=device.            *)
AsksForDev(argv) ==
  \E i \in DOMAIN argv : argv[i].key = "mode" /\ argv[i].value = "dev"

(* Outside dev mode the command line can only keep auth on.                *)
DropsAuth(given, dev) == ~dev /\ Option(given, "auth", TRUE) = FALSE

ResolveCliConfig(argv) ==
  LET given == Parsed(argv) IN
  IF AsksForDev(argv)
    THEN Over(given, [deviceMode |-> FALSE, auth |-> FALSE, port |-> 8080])
  ELSE IF DropsAuth(given, AsksForDev(argv))
    THEN [label \in DOMAIN given \ {"auth"} |-> given[label]]
  ELSE given

IsDir(argv, i) == i \in DOMAIN argv /\ argv[i].key = "directory"

(* Of what does not exist statSync() throws.                               *)
Exists(argv, i) == argv[i].key \in {"directory", "file"}

(* A host passes two or three directories.  A third argument that is no    *)
(* directory is replaced by the second; one that does not exist, a token   *)
(* for one, makes the whole command line one of tokens.                    *)
Positional(argv) ==
  /\ IsDir(argv, 1) /\ IsDir(argv, 2)
  /\ 3 \in DOMAIN argv => Exists(argv, 3)

ResolveWorkletConfig(argv) ==
  IF Positional(argv)
    THEN [webassets |-> argv[1].value, storage |-> argv[2].value,
          cache |-> argv[IF IsDir(argv, 3) THEN 3 ELSE 2].value]
    ELSE ResolveCliConfig(argv)

(* The sidecar's own options go over whatever its host passes.             *)
DesktopConfig(argv) ==
  Over([deviceMode |-> TRUE, auth |-> TRUE, handoffFile |-> FALSE],
       ResolveCliConfig(argv))

-----------------------------------------------------------------------------
(* The launch.                                                             *)

DeviceMode(options) == Option(options, "deviceMode", TRUE)

Auth(options) == Option(options, "auth", DeviceMode(options))

Port(options) ==
  Option(options, "port", IF DeviceMode(options) THEN 0 ELSE 8080)

(* isLoopbackHost(), of which 127.0.0.1 stands for all of 127/8.           *)
LoopbackHosts == {"127.0.0.1", "localhost", "::1", "[::1]"}

OpenToNetwork(options) ==
  ~Auth(options) /\ Option(options, "host", "127.0.0.1") \notin LoopbackHosts

(* createLoopbackGate() throws at an origin it could never match.          *)
OriginsAreBare(options) ==
  Option(options, "allowedOrigins", {}) \subseteq BareOrigins

Framework ==
  {"core.health", "core.discovery", "core.permissions", "core.logs",
   "vendor.media"}

(* register(): an id of its own, and none in a namespace of the framework  *)
(* that is not one of its plugins'.                                        *)
Registers(taken, plugin) ==
  /\ plugin.namespaced
  /\ plugin.reserved => plugin.id \in Framework
  /\ plugin.id \notin taken

(* The framework's plugins come first, then the app's, in order.           *)
TakenBefore(plugins, k) ==
  Framework \cup {plugins[j].id : j \in 1 .. k - 1}

AllRegister(plugins) ==
  \A k \in DOMAIN plugins : Registers(TakenBefore(plugins, k), plugins[k])

(* createWorkletRuntime() does not throw.                                  *)
Created(options, plugins) ==
  /\ ~(DeviceMode(options) /\ Option(options, "auth", TRUE) = FALSE)
  /\ ~OpenToNetwork(options)
  /\ OriginsAreBare(options)
  /\ AllRegister(plugins)

WritesHandoff(options) ==
  /\ Auth(options) /\ Has(options, "storage")
  /\ Option(options, "handoffFile", TRUE)

-----------------------------------------------------------------------------
(* Properties.                                                             *)

(* A worklet that was not told mode=dev, or that was told its directories, *)
(* has auth on, and starts whatever else it is told but an origin that is  *)
(* none; one that serves without a credential is reached from this machine *)
(* only, and leaves no handoff for a host.                                 *)
OpenOnlyAsAsked(argv) ==
  LET options == ResolveWorkletConfig(argv) IN
  /\ ~AsksForDev(argv) \/ Positional(argv) =>
       Auth(options) /\ (Created(options, <<>>) <=> OriginsAreBare(options))
  /\ Created(options, <<>>) /\ ~Auth(options) =>
       /\ Option(options, "host", "127.0.0.1") \in LoopbackHosts
       /\ ~WritesHandoff(options)

(* The sidecar has auth on and writes no handoff, whatever it is passed,   *)
(* and starts but for an origin that is none.                              *)
SidecarIsGuarded(argv) ==
  LET options == DesktopConfig(argv) IN
  /\ Auth(options) /\ ~WritesHandoff(options)
  /\ Created(options, <<>>) <=> OriginsAreBare(options)

(* The plugins of a runtime have an id each, and an app replaces none of   *)
(* the framework's.                                                        *)
NoPluginShadowed(plugins) ==
  AllRegister(plugins) =>
    /\ \A k \in DOMAIN plugins : plugins[k].id \notin Framework
    /\ \A j, k \in DOMAIN plugins :
         plugins[j].id = plugins[k].id => j = k

SeqsUpTo(S, n) == UNION {[1 .. m -> S] : m \in 0 .. n}

(* The three, for every command line and list of plugins up to a length.   *)
LaunchesAreSafe ==
  /\ \A argv \in SeqsUpTo(Arguments, MaxArgs) :
       OpenOnlyAsAsked(argv) /\ SidecarIsGuarded(argv)
  /\ \A plugins \in SeqsUpTo(Consumers, MaxArgs) : NoPluginShadowed(plugins)
=============================================================================
