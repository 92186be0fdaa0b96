------------------------------ MODULE LogRoutes ------------------------------
(***************************************************************************)
(* How log lines reach the store of core/logs: the page's console capture  *)
(* (capture-web.ts) buffers its lines and posts them in batches, without   *)
(* waiting for an answer; POST /logs (routes.ts) appends a batch; the      *)
(* worklet's own console capture (capture.ts) appends directly.            *)
(***************************************************************************)
EXTENDS LogRing, Integers, FiniteSets, SequencesExt

CONSTANTS
  Consoles,   \* the documents whose console is captured
  Threshold,  \* flushThreshold
  MaxLines,   \* bound: lines written on one page's console
  MaxSeq      \* bound: entries appended to the store

Line(p, n)  == <<"web", p, n>>
BackendLine == <<"backend">>

ASSUME LinesAssumption ==
  /\ IsFiniteSet(Consoles) /\ Threshold \in Nat \ {0}
  /\ MaxLines \in Nat /\ MaxSeq \in Nat
  /\ \A p \in Consoles, n \in 1 .. MaxLines : Line(p, n) \in Messages
  /\ BackendLine \in Messages

VARIABLES
  written,  \* written[p]: lines the page has written
  buffer,   \* pending: buffer[p], the lines not yet flushed
  posts     \* the batches on their way to the server

captureVars == <<written, buffer, posts>>
logVars == <<store, captureVars>>

LogTypeOK ==
  /\ written \in [Consoles -> 0 .. MaxLines]
  /\ buffer \in [Consoles -> Seq(Messages)]
  /\ posts \subseteq [page : Consoles, lines : Seq(Messages)]
  /\ store \in Stores

LogInit ==
  /\ RingInit
  /\ written = [p \in Consoles |-> 0]
  /\ buffer = [p \in Consoles |-> <<>>]
  /\ posts = {}

-----------------------------------------------------------------------------
(* flush(): pending.splice(0)                                              *)
Flushed(p, lines) == [buffer EXCEPT ![p] = <<>>]

(* A wrapped console method of the page.                                   *)
PageLogs(p) ==
  LET lines == Append(buffer[p], Line(p, written[p] + 1)) IN
  /\ written[p] < MaxLines
  /\ written' = [written EXCEPT ![p] = @ + 1]
  /\ IF Len(lines) >= Threshold
       THEN /\ buffer' = Flushed(p, lines)
            /\ posts' = posts \cup {[page |-> p, lines |-> lines]}
       ELSE /\ buffer' = [buffer EXCEPT ![p] = lines]
            /\ UNCHANGED posts
  /\ UNCHANGED store

(* The flush interval, or flush() called.                                  *)
FlushTimer(p) ==
  /\ buffer[p] # <<>>
  /\ buffer' = Flushed(p, buffer[p])
  /\ posts' = posts \cup {[page |-> p, lines |-> buffer[p]]}
  /\ UNCHANGED <<store, written>>

(* append(), line by line.                                                 *)
PutAll(s, lines) ==
  LET after[n \in 0 .. Len(lines)] ==
        IF n = 0 THEN s ELSE Put(after[n - 1], lines[n])
  IN after[Len(lines)]

(* POST /logs, admitted, with a body that can be read: the batch is        *)
(* appended in one go.                                                     *)
Ingest(post) ==
  /\ post \in posts
  /\ store.seq + Len(post.lines) <= MaxSeq
  /\ posts' = posts \ {post}
  /\ store' = PutAll(store, post.lines)
  /\ UNCHANGED <<written, buffer>>

(* Not admitted, too large, or lost: nobody retries.                       *)
BatchLost(post) ==
  /\ post \in posts
  /\ posts' = posts \ {post}
  /\ UNCHANGED <<store, written, buffer>>

(* The worklet's console, wrapped by installConsoleCapture.                *)
BackendLogs ==
  /\ store.seq < MaxSeq
  /\ store' = Put(store, BackendLine)
  /\ UNCHANGED captureVars

ClearLogs ==
  /\ ClearEntries
  /\ UNCHANGED captureVars

-----------------------------------------------------------------------------
(* GET /logs: the latest entries of one source, or of all.                 *)

(* The tail a request carries: none, a finite number, of which a fraction  *)
(* is rounded down, or what is no finite number.                           *)
Tails ==
  [is : {"omitted", "unreadable"}, n : {0}]
    \cup [is : {"number"}, n : {-1, 1}]

(* What the route hands to the store: a tail that is no finite number is   *)
(* dropped, as though it was omitted.                                      *)
Asked(tail) == {n \in {tail.n} : tail.is = "number"}

(* tailCount(), where {} is undefined: everything.                         *)
TailCount(asked, available) ==
  IF asked = {} THEN available
  ELSE LET n == CHOOSE n \in asked : TRUE IN
       CASE n <= 0        -> 0
         [] n > available -> available
         [] OTHER         -> n

(* The entries a filter lets through, in order.                            *)
Filtered(entries, wanted) ==
  LET upTo[n \in 0 .. Len(entries)] ==
        IF n = 0 THEN <<>>
        ELSE IF entries[n].message \in wanted
               THEN Append(upTo[n - 1], entries[n])
               ELSE upTo[n - 1]
  IN upTo[Len(entries)]

(* view(), its filters as the set of messages they let through.            *)
View(tail, wanted) ==
  LET filtered == Filtered(Ordered(store), wanted)
      count    == TailCount(Asked(tail), Len(filtered))
  IN SubSeq(filtered, Len(filtered) - count + 1, Len(filtered))

-----------------------------------------------------------------------------
(* A line of the page is in one place: waiting in its buffer, in one batch *)
(* under way, or in the store.  It is never read back twice.               *)
WebLinesOnce ==
  LET stored(l) == {i \in 1 .. store.size : Ordered(store)[i].message = l}
      sent(l)   == {post \in posts : l \in Range(post.lines)}
      held(l)   == {i \in DOMAIN buffer[l[2]] : buffer[l[2]][i] = l}
  IN \A p \in Consoles : \A n \in 1 .. written[p] :
       Cardinality(stored(Line(p, n))) + Cardinality(sent(Line(p, n)))
         + Cardinality(held(Line(p, n))) <= 1

(* A read-back holds entries that passed the filter, in order; it leaves   *)
(* one out only if it is older than all it holds, and only to stay within  *)
(* the number that was asked for, of which a negative one asks for none.   *)
(* Without a number, and also with a tail that is none, it leaves nothing  *)
(* out.  (Of an empty store there is nothing to read.)                     *)
ViewsAreLatest ==
  store.size > 0 =>
    \A wanted \in {Messages, {BackendLine}}, tail \in Tails :
      LET held == {e \in Range(Ordered(store)) : e.message \in wanted}
          view == View(tail, wanted)
          kept == Range(view)
          n    == tail.n
      IN /\ kept \subseteq held
         /\ \A i \in 1 .. Len(view) - 1 : view[i].seq < view[i + 1].seq
         /\ \A e \in held \ kept, k \in kept : e.seq < k.seq
         /\ CASE tail.is # "number" -> kept = held
              [] tail.is = "number" /\ n < 0 -> view = <<>>
              [] OTHER -> Len(view) <= n /\ (kept # held => Len(view) = n)

LogInv ==
  /\ LogTypeOK /\ HoldsLatest /\ WebLinesOnce /\ ViewsAreLatest
  /\ \A p \in Consoles : Len(buffer[p]) < Threshold
=============================================================================
