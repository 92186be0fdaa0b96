--------------------------- MODULE MCPluginRouter ---------------------------
(* PluginRouter with calls of the page and of the host: to a host-only     *)
(* plugin, to one with a local adapter and to an unknown one.              *)
EXTENDS PluginRouter

CONSTANTS c1, c2, c3, c4, c5, c6, ws, ipc, photos, files, ghost

(* Three calls to a serial local plugin, so that a tail can be replaced    *)
(* while an older one is being cleaned up, and two to a host plugin, so    *)
(* that a delegation and a capabilities query can be under way together;   *)
(* and a dispatch to the host plugin.                                      *)
MixedPluginOf  == (c1 :> files) @@ (c2 :> files) @@ (c3 :> files)
                    @@ (c4 :> photos) @@ (c5 :> photos) @@ (c6 :> photos)
MixedChannelOf == (c1 :> ws) @@ (c2 :> ws) @@ (c3 :> ws) @@ (c4 :> ipc)
                    @@ (c5 :> ipc) @@ (c6 :> ipc)
MixedSymmetry == Permutations({c1, c2, c3}) \cup Permutations({c4, c5})

(* A serial queue behind a call to the host, a call to a local plugin and  *)
(* one to an unknown plugin.                                               *)
QueuedPluginOf  == (c1 :> photos) @@ (c2 :> photos) @@ (c3 :> files)
                     @@ (c4 :> ghost)
QueuedChannelOf == (c1 :> ws) @@ (c2 :> ws) @@ (c3 :> ws) @@ (c4 :> ipc)
=============================================================================
