-------------------------- MODULE StaticFileServer --------------------------
(***************************************************************************)
(* createLoopbackServer of core/server/static-file-server.ts behind its    *)
(* gate: request admission, mount resolution, files streamed from their    *)
(* descriptors, consumer routes; with the media plugin, which mounts what  *)
(* the host picks.  The login and the nonce are LoopbackGate's.            *)
(*                                                                         *)
(* The web app is the public mount `/'; one gated directory may be mounted *)
(* at `/shared'.  Its root can be missing when it is mounted, appear       *)
(* later, and become a symlink to a folder of the web app.  A document has *)
(* one request under way on its connection.                                *)
(***************************************************************************)
EXTENDS LoopbackGate, Integers, Sequences, SequencesExt

CONSTANTS
  Pages,      \* the documents that ask for more than the login
  Picks,      \* bound: the media the host picks, each under a new id
  MediaCap,   \* MEDIA_MOUNT_CAP
  Headers,    \* the requests' headers, as far as admission reads them
  MaxSize     \* bound: the largest file whose ranges are tried

ASSUME ServerAssumption ==
  /\ Pages \subseteq Docs
  /\ Picks \in Seq(Range(Picks)) /\ IsInjective(Picks)
  /\ Range(Picks) \cap {"none", "index", "asset", "secret", "nested", "shared"}
       = {}
  /\ MediaCap \in Nat \ {0} /\ MaxSize \in Nat
  /\ \A h \in Headers :
       /\ h.host \in BOOLEAN  \* Host names the bound server
       /\ h.origin \in {"unsent", "loopback", "listed", "foreign"}
       /\ h.site \in {"unsent", "same-origin", "none", "same-site", "cross-site"}

VARIABLES
  conn,        \* conn[d]: idle, route (a handler runs), stream, closing
  res,         \* res[d]: the response to the last request of d
  sending,     \* sending[d]: the file of d's open descriptor, or NoFile
  shared,      \* dirMounts has the gated mount
  place,       \* where the real path of the gated root lies
  cached,      \* rootCache of the gated mount
  moved,       \* history: place changed since the server found it
  fileMounts,  \* fileMounts: the media files reachable by URL
  mounted      \* the media plugin's map, in insertion order

responses  == <<conn, res, sending>>
roots      == <<shared, place, cached, moved>>
mounts     == <<fileMounts, mounted>>
serverVars == <<responses, roots, mounts>>

Media    == Range(Picks)
NoFile   == "none"
WebFiles == {"index", "asset"}
Secret   == "secret"  \* the file in the gated root
(* What requests name; media that is not mounted is missing.               *)
Targets  == WebFiles \cup {"nested", "shared"} \cup Media

ServerTypeOK ==
  /\ conn \in [Pages -> {"idle", "route", "stream", "closing"}]
  /\ res \in [Pages -> {"none", "open", "headed", "ended", "cut", "gone"}]
  /\ sending \in [Pages -> {NoFile, Secret} \cup WebFiles \cup Media]
  /\ {shared, moved} \subseteq BOOLEAN
  /\ place \in {"absent", "apart", "inside"}
  /\ cached \in {"absent", "apart", "inside"}
  /\ fileMounts \subseteq Media
  /\ mounted \in Seq(Media)

ServerInit ==
  /\ conn = [d \in Pages |-> "idle"]
  /\ res = [d \in Pages |-> "none"]
  /\ sending = [d \in Pages |-> NoFile]
  /\ shared = FALSE /\ moved = FALSE
  /\ place \in {"absent", "apart", "inside"}
  /\ cached = "absent"
  /\ fileMounts = {} /\ mounted = <<>>

-----------------------------------------------------------------------------
(* Plausible bugs, as mutants of the definitions below: a failed handler's *)
(* finished response is cut off; a root that was missing at the mount is   *)
(* never looked up again; an evicted file stays mounted.                   *)
NeverEnded(r) == FALSE

RootAtMount == cached

StillMounted(m) == fileMounts \cup {m}

-----------------------------------------------------------------------------
(* Admission.                                                              *)

OriginAllowed(h) ==
  /\ boundAt # Never
  /\ h.host
  /\ h.origin # "foreign"

(* A page nobody listed may be same-site (another port of the loopback     *)
(* host) and carry the cookie, but its requests name themselves so.        *)
SiteAllowed(h) ==
  h.origin = "listed" \/ h.site \in {"unsent", "same-origin", "none"}

AdmitsGated(d, h) == OriginAllowed(h) /\ SiteAllowed(h) /\ d \in session

-----------------------------------------------------------------------------
(* Mount resolution.                                                       *)

MountOf(t) ==
  CASE t \in fileMounts         -> "file"
    [] t = "shared" /\ shared   -> "gated"
    [] OTHER                    -> "public"

(* cachedRoot(): a root that did not exist is looked up again.  Roots are  *)
(* compared folded where the file system folds case, so that a place has   *)
(* one name here.                                                          *)
CachedRoot == IF cached = "absent" THEN place ELSE cached

(* What the public mount finds at the path itself.  The check against the  *)
(* gated roots refuses what lies in one of them.                           *)
InsideGatedMount(t) == t = "nested" /\ shared /\ CachedRoot = "inside"

FoundInWebRoot(t) ==
  CASE t \in WebFiles                        -> t
    [] t = "nested" /\ place = "inside"      -> Secret
    [] OTHER                                 -> NoFile

(* resolveDirFile for the public mount: a navigation to a path it cannot   *)
(* serve gets index.html.                                                  *)
PublicFile(t, navigates) ==
  IF FoundInWebRoot(t) # NoFile /\ ~InsideGatedMount(t) THEN FoundInWebRoot(t)
  ELSE IF navigates THEN "index" ELSE NoFile

(* The gated roots were compared with a file that was found.               *)
LooksAtRoots(t, navigates) ==
  shared /\ (FoundInWebRoot(t) # NoFile \/ navigates)

(* parseRange(): the first and last byte a Range header asks for in a file *)
(* of that size, or none; NoDigits is an empty side of the dash.           *)
NoDigits == -1

ParseRange(first, last, size) ==
  LET start == IF first # NoDigits THEN first
               ELSE IF last > size THEN 0 ELSE size - last
      end   == IF NoDigits \in {first, last} \/ last >= size
                 THEN size - 1 ELSE last
  IN IF (first = NoDigits /\ last = NoDigits) \/ start >= size \/ start > end
       THEN <<>> ELSE <<start, end>>

-----------------------------------------------------------------------------
(* Requests.                                                               *)

Answered(d, f) ==
  /\ conn' = [conn EXCEPT ![d] = IF f = NoFile THEN "idle" ELSE "stream"]
  /\ res' = [res EXCEPT ![d] = IF f = NoFile THEN "ended" ELSE "headed"]
  /\ sending' = [sending EXCEPT ![d] = f]

gateVars == <<clock, boundAt, firstPublicAt, nonce, given, posting, session,
              reply, history>>

(* Answered 400, 401 or 403: a malformed path, or not admitted.            *)
Refused(d, h, mount) ==
  /\ conn[d] = "idle"
  /\ IF mount = "public" THEN ~OriginAllowed(h) ELSE ~AdmitsGated(d, h)
  /\ Answered(d, NoFile)
  /\ UNCHANGED <<gateVars, roots, mounts>>

(* The public mount: 200, 206 or 404, or 304 for a copy the page has, in   *)
(* which case the descriptor is closed at once.                            *)
GetPublic(d, h, t, navigates, fresh) ==
  /\ conn[d] = "idle"
  /\ MountOf(t) = "public" /\ OriginAllowed(h)
  /\ fresh => PublicFile(t, navigates) # NoFile
  /\ AdmitPublic
  /\ Answered(d, IF fresh THEN NoFile ELSE PublicFile(t, navigates))
  /\ IF LooksAtRoots(t, navigates)
       THEN cached' = CachedRoot
       ELSE UNCHANGED cached
  /\ UNCHANGED <<clock, boundAt, given, posting, session, reply, redeemers,
                 boundRan, shared, place, moved, mounts>>

(* The gated mount: no fallback, and the root's real path is fresh.        *)
GetShared(d, h) ==
  /\ conn[d] = "idle"
  /\ shared /\ AdmitsGated(d, h)
  /\ Answered(d, IF place = "absent" THEN NoFile ELSE Secret)
  /\ IF place = "absent"
       THEN UNCHANGED <<cached, moved>>
       ELSE cached' = place /\ moved' = FALSE
  /\ UNCHANGED <<gateVars, shared, place, mounts>>

(* A mounted file; the system may have deleted it since.                   *)
GetMedia(d, h, m, readable) ==
  /\ conn[d] = "idle"
  /\ m \in fileMounts /\ AdmitsGated(d, h)
  /\ Answered(d, IF readable THEN m ELSE NoFile)
  /\ UNCHANGED <<gateVars, roots, mounts>>

(* The stream read the last byte, and closes its descriptor.               *)
StreamEnds(d) ==
  /\ conn[d] = "stream"
  /\ conn' = [conn EXCEPT ![d] = "idle"]
  /\ res' = [res EXCEPT ![d] = "ended"]
  /\ sending' = [sending EXCEPT ![d] = NoFile]
  /\ UNCHANGED <<gateVars, roots, mounts>>

(* A read error comes too late for a status: the response is cut off.      *)
StreamFails(d) ==
  /\ conn[d] = "stream"
  /\ conn' = [conn EXCEPT ![d] = "idle"]
  /\ res' = [res EXCEPT ![d] = "cut"]
  /\ sending' = [sending EXCEPT ![d] = NoFile]
  /\ UNCHANGED <<gateVars, roots, mounts>>

(* The client goes away.  A handler runs on; the pipe of a stream destroys *)
(* its source, which closes the descriptor some time later.                *)
ClientGone(d) ==
  /\ conn[d] \in {"route", "stream"} /\ res[d] \in {"open", "headed"}
  /\ res' = [res EXCEPT ![d] = "gone"]
  /\ conn' = [conn EXCEPT ![d] = IF @ = "stream" THEN "closing" ELSE @]
  /\ UNCHANGED <<sending, gateVars, roots, mounts>>

SourceDestroyed(d) ==
  /\ conn[d] = "closing"
  /\ conn' = [conn EXCEPT ![d] = "idle"]
  /\ sending' = [sending EXCEPT ![d] = NoFile]
  /\ UNCHANGED <<res, gateVars, roots, mounts>>

-----------------------------------------------------------------------------
(* Consumer routes.  A handler may write, end, return, throw and reject    *)
(* when it likes.                                                          *)

RunRoute(d, h) ==
  /\ conn[d] = "idle"
  /\ AdmitsGated(d, h)
  /\ conn' = [conn EXCEPT ![d] = "route"]
  /\ res' = [res EXCEPT ![d] = "open"]
  /\ UNCHANGED <<sending, gateVars, roots, mounts>>

RouteWrites(d) ==
  /\ conn[d] = "route"
  /\ res[d] \in {"open", "headed"}
  /\ \E r \in {"headed", "ended"} : res' = [res EXCEPT ![d] = r]
  /\ UNCHANGED <<conn, sending, gateVars, roots, mounts>>

RouteReturns(d) ==
  /\ conn[d] = "route"
  /\ res[d] \in {"ended", "gone"}
  /\ conn' = [conn EXCEPT ![d] = "idle"]
  /\ UNCHANGED <<res, sending, gateVars, roots, mounts>>

(* responseEnded()                                                         *)
ResponseEnded(r) == r \in {"ended", "cut", "gone"}

(* writeInternalError(): a bare 500 if nothing was sent, and a response    *)
(* that is under way is cut off.                                           *)
RouteFails(d) ==
  /\ conn[d] = "route"
  /\ conn' = [conn EXCEPT ![d] = "idle"]
  /\ res' = [res EXCEPT ![d] = CASE ResponseEnded(@) -> @
                                 [] @ = "open"       -> "ended"
                                 [] OTHER            -> "cut"]
  /\ UNCHANGED <<sending, gateVars, roots, mounts>>

-----------------------------------------------------------------------------
(* Mounts.                                                                 *)

(* mountDir(): a gated root inside the public one is refused; a root that  *)
(* does not exist is judged by its path, which lies apart.                 *)
MountShared ==
  /\ place # "inside"
  /\ shared' = TRUE
  /\ cached' = place /\ moved' = FALSE
  /\ UNCHANGED <<gateVars, responses, place, mounts>>

(* The folder is created, or replaced by a symlink.                        *)
RootMoves(p) ==
  /\ place # p /\ p # "absent"
  /\ place' = p
  /\ moved' = (moved \/ cached # "absent")
  /\ UNCHANGED <<gateVars, responses, shared, cached, mounts>>

Unmounted(m) == fileMounts \ {m}

(* mountMedia() for a file the host answered with.                         *)
MediaPicked(k) ==
  LET all == Append(mounted, Picks[k]) IN
  /\ IF k = 1 THEN mounted = <<>>
              ELSE mounted # <<>> /\ Last(mounted) = Picks[k - 1]
  /\ IF Len(all) > MediaCap
       THEN /\ mounted' = Tail(all)
            /\ fileMounts' = Unmounted(Head(all)) \cup {Picks[k]}
       ELSE /\ mounted' = all
            /\ fileMounts' = fileMounts \cup {Picks[k]}
  /\ UNCHANGED <<gateVars, responses, roots>>

-----------------------------------------------------------------------------
ServerNext ==
  \/ MountShared
  \/ \E p \in {"apart", "inside"} : RootMoves(p)
  \/ \E k \in DOMAIN Picks : MediaPicked(k)
  \/ \E d \in Pages :
       \/ StreamEnds(d) \/ StreamFails(d) \/ ClientGone(d) \/ SourceDestroyed(d)
       \/ RouteWrites(d) \/ RouteReturns(d) \/ RouteFails(d)
       \/ \E h \in Headers :
            \/ \E mount \in {MountOf(t) : t \in Targets} : Refused(d, h, mount)
            \/ \E t \in Targets, navigates, fresh \in BOOLEAN :
                 GetPublic(d, h, t, navigates, fresh)
            \/ GetShared(d, h)
            \/ \E m \in Media, readable \in BOOLEAN :
                 GetMedia(d, h, m, readable)
            \/ RunRoute(d, h)

-----------------------------------------------------------------------------
(* Properties.                                                             *)

(* The bytes a range names, among those the file has: the definition that  *)
(* ParseRange is held against.                                             *)
Named(first, last, size) ==
  {byte \in 0 .. size - 1 :
     IF first = NoDigits
       THEN last # NoDigits /\ byte >= size - last
       ELSE byte >= first /\ (last # NoDigits => byte <= last)}

(* A partial response holds the bytes that were asked for, no fewer and no *)
(* more than the file has, and there is none when there are none.          *)
RangesAreExact ==
  \A size \in 0 .. MaxSize : \A first, last \in NoDigits .. MaxSize + 1 :
    LET range == ParseRange(first, last, size) IN
      Named(first, last, size) = IF range = <<>> THEN {}
                                                 ELSE range[1] .. range[2]

(* Descriptors are open exactly while a stream needs them; what the plugin *)
(* believes mounted is what the server serves, the latest picks up to the  *)
(* cap.                                                                    *)
ServerInv ==
  /\ ServerTypeOK
  /\ \A d \in Pages : sending[d] # NoFile <=> conn[d] \in {"stream", "closing"}
  /\ fileMounts = Range(mounted)
  /\ Len(mounted) <= MediaCap
  /\ shared /\ ~moved => cached \in {"absent", place}

(* Media, and the files of a gated directory, are sent only to a document  *)
(* that holds the session, by whatever URL it asks; also when the gated    *)
(* root appeared after its mount, in the middle of the web app.  Only a    *)
(* root that moved once it was known is not noticed until it is asked for. *)
GatedStaysGated ==
  [][\A d \in Pages : sending'[d] # sending[d] =>
       /\ sending'[d] \in Media => d \in session
       /\ sending'[d] = Secret /\ shared /\ ~moved => d \in session]_serverVars

(* A complete answer is never taken back by a handler that fails after it. *)
AnswersStand ==
  [][\A d \in Pages : res[d] = "ended" => res'[d] # "cut"]_serverVars
=============================================================================
