------------------------- MODULE PluginRouterProofs -------------------------
(***************************************************************************)
(* PluginRouter, for any calls, channels, plugins and caps: the admission  *)
(* counters count the calls really under way, a cap per channel below the  *)
(* global one keeps a slot free for the other channel, serial plugins keep *)
(* the order of arrival, and the host's word on its plugins is believed    *)
(* only while it stands.                                                   *)
(***************************************************************************)
EXTENDS PluginRouter, FiniteSetTheorems, NaturalsInduction, TLAPS

(* What the counters depend on.                                            *)
SlotTypeOK ==
  /\ phase \in [Calls -> Phases]
  /\ inflight \in 0 .. MaxInflight
  /\ byChannel \in [Channels -> 0 .. MaxPerChannel]
  /\ byPlugin \in [Registered -> 0 .. MaxPerPlugin]

SlotInv == SlotTypeOK /\ SlotsBalance

Counters == <<inflight, byChannel, byPlugin>>

OnChannel(ch) == {c \in Active : ChannelOf[c] = ch}

OnPlugin(p) == {c \in Active : PluginOf[c] = p}

(* Sets of calls are finite, and their cardinalities naturals.             *)
LEMMA CallsFinite ==
  ASSUME NEW S \in SUBSET Calls
  PROVE  IsFiniteSet(S) /\ Cardinality(S) \in Nat
BY RouterAssumption, FS_Subset, FS_CardinalityType

(* A step that keeps the counters and moves calls only among the active    *)
(* phases, or only among the others, keeps the balance.                    *)
LEMMA BalanceKept ==
  ASSUME SlotInv, UNCHANGED Counters, phase' \in [Calls -> Phases],
         \A c \in Calls : (phase'[c] \in Unsettled \cup {"settled"})
                            <=> (phase[c] \in Unsettled \cup {"settled"})
  PROVE  SlotInv'
<1>1. Active' = Active
  BY DEF Active, Unsettled
<1>2. SlotsBalance'
  BY <1>1 DEF SlotInv, SlotsBalance, Counters
<1>3. SlotTypeOK'
  BY DEF SlotInv, SlotTypeOK, Counters
<1>. QED  BY <1>2, <1>3 DEF SlotInv

(* The cardinality of the members of S with some property, when one call   *)
(* joins or leaves S.                                                      *)
LEMMA OneMore ==
  ASSUME NEW S \in SUBSET Calls, NEW c \in Calls \ S
  PROVE  Cardinality(S \cup {c}) = Cardinality(S) + 1
BY CallsFinite, FS_AddElement

LEMMA OneLess ==
  ASSUME NEW S \in SUBSET Calls, NEW c \in S
  PROVE  /\ Cardinality(S \ {c}) = Cardinality(S) - 1
         /\ Cardinality(S) > 0
<1>1. Cardinality(S) \in Nat /\ Cardinality(S \ {c}) \in Nat
  BY CallsFinite
<1>2. Cardinality(S \ {c}) = Cardinality(S) - 1
  BY CallsFinite, FS_RemoveElement
<1>. QED  BY <1>1, <1>2

(* Admission takes a slot of each counter, and no cap is passed.           *)
LEMMA AdmitBalances ==
  ASSUME SlotInv, NEW c \in Calls, Admit(c)
  PROVE  SlotInv'
<1>. DEFINE ch == ChannelOf[c]
            p  == PluginOf[c]
<1>0. /\ ch \in Channels /\ p \in Plugins
      /\ MaxInflight \in Nat /\ MaxPerChannel \in Nat /\ MaxPerPlugin \in Nat
  BY RouterAssumption
<1>1. /\ phase \in [Calls -> Phases] /\ phase[c] = "new"
      /\ phase' = [phase EXCEPT ![c] = "held"]
  BY DEF SlotInv, SlotTypeOK, Admit
<1>2. Active' = Active \cup {c} /\ c \notin Active /\ Active \in SUBSET Calls
  BY <1>1 DEF Active, Unsettled
<1>3. inflight' = Cardinality(Active') /\ inflight' \in 0 .. MaxInflight
  <2>1. inflight' = inflight + 1 /\ inflight < MaxInflight
    BY <1>0 DEF Admit, Busy, SlotInv, SlotTypeOK
  <2>2. Cardinality(Active') = inflight + 1
    BY <1>2, OneMore DEF SlotInv, SlotsBalance
  <2>. QED  BY <1>0, <2>1, <2>2 DEF SlotInv, SlotTypeOK
<1>4. \A h \in Channels : byChannel'[h] = Cardinality(OnChannel(h)')
  <2>. TAKE h \in Channels
  <2>1. byChannel' = [byChannel EXCEPT ![ch] = @ + 1]
    BY DEF Admit
  <2>2. byChannel[h] = Cardinality(OnChannel(h))
    BY DEF SlotInv, SlotsBalance, OnChannel
  <2>3. OnChannel(h) \in SUBSET Calls /\ c \notin OnChannel(h)
    BY <1>2 DEF OnChannel
  <2>4. CASE h = ch
    <3>1. OnChannel(h)' = OnChannel(h) \cup {c}
      BY <1>2, <2>4 DEF OnChannel
    <3>2. byChannel'[h] = byChannel[h] + 1
      BY <2>1, <2>4 DEF SlotInv, SlotTypeOK
    <3>. QED  BY <2>2, <2>3, <3>1, <3>2, OneMore
  <2>5. CASE h # ch
    <3>1. OnChannel(h)' = OnChannel(h)
      BY <1>2, <2>5 DEF OnChannel
    <3>. QED  BY <2>1, <2>2, <2>5, <3>1 DEF SlotInv, SlotTypeOK
  <2>. QED  BY <2>4, <2>5
<1>5. byChannel' \in [Channels -> 0 .. MaxPerChannel]
  <2>1. byChannel \in [Channels -> 0 .. MaxPerChannel]
    BY DEF SlotInv, SlotTypeOK
  <2>2. byChannel[ch] < MaxPerChannel
    BY <1>0, <2>1 DEF Admit, Busy
  <2>. QED  BY <1>0, <2>1, <2>2 DEF Admit
<1>6. \A q \in Registered : byPlugin'[q] = Cardinality(OnPlugin(q)')
  <2>. TAKE q \in Registered
  <2>1. byPlugin' = IF p \in Registered THEN [byPlugin EXCEPT ![p] = @ + 1]
                                        ELSE byPlugin
    BY DEF Admit, Counted
  <2>2. byPlugin[q] = Cardinality(OnPlugin(q))
    BY DEF SlotInv, SlotsBalance, OnPlugin
  <2>3. OnPlugin(q) \in SUBSET Calls /\ c \notin OnPlugin(q)
    BY <1>2 DEF OnPlugin
  <2>4. CASE q = p
    <3>1. OnPlugin(q)' = OnPlugin(q) \cup {c}
      BY <1>2, <2>4 DEF OnPlugin
    <3>2. byPlugin'[q] = byPlugin[q] + 1
      BY <2>1, <2>4 DEF SlotInv, SlotTypeOK
    <3>. QED  BY <2>2, <2>3, <3>1, <3>2, OneMore
  <2>5. CASE q # p
    <3>1. OnPlugin(q)' = OnPlugin(q)
      BY <1>2, <2>5 DEF OnPlugin
    <3>. QED  BY <2>1, <2>2, <2>5, <3>1 DEF SlotInv, SlotTypeOK
  <2>. QED  BY <2>4, <2>5
<1>7. byPlugin' \in [Registered -> 0 .. MaxPerPlugin]
  <2>1. byPlugin \in [Registered -> 0 .. MaxPerPlugin]
    BY DEF SlotInv, SlotTypeOK
  <2>2. p \in Registered => byPlugin[p] < MaxPerPlugin
    BY <1>0, <2>1 DEF Admit, Busy, Counted
  <2>. QED  BY <1>0, <2>1, <2>2 DEF Admit, Counted
<1>8. phase' \in [Calls -> Phases]
  BY <1>1 DEF Phases
<1>. QED
  BY <1>3, <1>4, <1>5, <1>6, <1>7, <1>8
     DEF SlotInv, SlotTypeOK, SlotsBalance, OnChannel, OnPlugin

(* Release gives back a slot of each counter, and none goes below zero.    *)
LEMMA ReleaseBalances ==
  ASSUME SlotInv, NEW c \in Calls, Release(c)
  PROVE  SlotInv'
<1>. DEFINE ch == ChannelOf[c]
            p  == PluginOf[c]
<1>0. /\ ch \in Channels /\ p \in Plugins
      /\ MaxInflight \in Nat /\ MaxPerChannel \in Nat /\ MaxPerPlugin \in Nat
  BY RouterAssumption
<1>1. /\ phase \in [Calls -> Phases] /\ phase[c] = "settled"
      /\ phase' = [phase EXCEPT ![c] = "answered"]
  BY DEF SlotInv, SlotTypeOK, Release
<1>2. Active' = Active \ {c} /\ c \in Active /\ Active \in SUBSET Calls
  BY <1>1 DEF Active, Unsettled
<1>3. inflight' = Cardinality(Active') /\ inflight' \in 0 .. MaxInflight
  <2>1. inflight' = inflight - 1 /\ inflight = Cardinality(Active)
    BY DEF Release, SlotInv, SlotsBalance
  <2>2. Cardinality(Active') = Cardinality(Active) - 1 /\ Cardinality(Active) > 0
    BY <1>2, OneLess
  <2>. QED  BY <1>0, <2>1, <2>2 DEF SlotInv, SlotTypeOK
<1>4. ASSUME NEW h \in Channels
      PROVE  /\ byChannel'[h] = Cardinality(OnChannel(h)')
             /\ byChannel'[h] \in 0 .. MaxPerChannel
  <2>1. byChannel' = [byChannel EXCEPT ![ch] = @ - 1]
    BY DEF Release
  <2>2. byChannel[h] = Cardinality(OnChannel(h))
    BY DEF SlotInv, SlotsBalance, OnChannel
  <2>3. byChannel[h] \in 0 .. MaxPerChannel
    BY DEF SlotInv, SlotTypeOK
  <2>4. OnChannel(h) \in SUBSET Calls
    BY <1>2 DEF OnChannel
  <2>5. CASE h = ch
    <3>1. OnChannel(h)' = OnChannel(h) \ {c} /\ c \in OnChannel(h)
      BY <1>2, <2>5 DEF OnChannel
    <3>2. byChannel'[h] = byChannel[h] - 1
      BY <2>1, <2>5 DEF SlotInv, SlotTypeOK
    <3>. QED  BY <1>0, <2>2, <2>3, <2>4, <3>1, <3>2, OneLess
  <2>6. CASE h # ch
    <3>1. OnChannel(h)' = OnChannel(h)
      BY <1>2, <2>6 DEF OnChannel
    <3>. QED  BY <2>1, <2>2, <2>3, <2>6, <3>1 DEF SlotInv, SlotTypeOK
  <2>. QED  BY <2>5, <2>6
<1>5. ASSUME NEW q \in Registered
      PROVE  /\ byPlugin'[q] = Cardinality(OnPlugin(q)')
             /\ byPlugin'[q] \in 0 .. MaxPerPlugin
  <2>1. byPlugin' = IF p \in Registered THEN [byPlugin EXCEPT ![p] = @ - 1]
                                        ELSE byPlugin
    BY DEF Release, PluginSlotFreed, Counted
  <2>2. byPlugin[q] = Cardinality(OnPlugin(q))
    BY DEF SlotInv, SlotsBalance, OnPlugin
  <2>3. byPlugin[q] \in 0 .. MaxPerPlugin
    BY DEF SlotInv, SlotTypeOK
  <2>4. OnPlugin(q) \in SUBSET Calls
    BY <1>2 DEF OnPlugin
  <2>5. CASE q = p
    <3>1. OnPlugin(q)' = OnPlugin(q) \ {c} /\ c \in OnPlugin(q)
      BY <1>2, <2>5 DEF OnPlugin
    <3>2. byPlugin'[q] = byPlugin[q] - 1
      BY <2>1, <2>5 DEF SlotInv, SlotTypeOK
    <3>. QED  BY <1>0, <2>2, <2>3, <2>4, <3>1, <3>2, OneLess
  <2>6. CASE q # p
    <3>1. OnPlugin(q)' = OnPlugin(q)
      BY <1>2, <2>6 DEF OnPlugin
    <3>. QED  BY <2>1, <2>2, <2>3, <2>6, <3>1 DEF SlotInv, SlotTypeOK
  <2>. QED  BY <2>5, <2>6
<1>6. byChannel' \in [Channels -> 0 .. MaxPerChannel]
  <2>1. byChannel' = [byChannel EXCEPT ![ch] = @ - 1]
    BY DEF Release
  <2>2. byChannel \in [Channels -> 0 .. MaxPerChannel]
    BY DEF SlotInv, SlotTypeOK
  <2>. QED  BY <1>4, <2>1, <2>2
<1>7. byPlugin' \in [Registered -> 0 .. MaxPerPlugin]
  <2>1. byPlugin' = IF p \in Registered THEN [byPlugin EXCEPT ![p] = @ - 1]
                                        ELSE byPlugin
    BY DEF Release, PluginSlotFreed, Counted
  <2>2. byPlugin \in [Registered -> 0 .. MaxPerPlugin]
    BY DEF SlotInv, SlotTypeOK
  <2>. QED  BY <1>5, <2>1, <2>2
<1>8. phase' \in [Calls -> Phases]
  BY <1>1 DEF Phases
<1>. QED
  BY <1>3, <1>4, <1>5, <1>6, <1>7, <1>8
     DEF SlotInv, SlotTypeOK, SlotsBalance, OnChannel, OnPlugin

-----------------------------------------------------------------------------
(* Every other step.                                                       *)

(* A step that is neither an admission nor a release.                      *)
OtherStep ==
  \/ \E c \in Calls :
       \/ Refuse(c) \/ Start(c) \/ TidyTail(c)
       \/ DelegationFails(c) \/ AdapterDone(c) \/ HostFinishes(c)
  \/ QueryResolves \/ QueryFails \/ DelegationAnswered \/ CacheAges
  \/ HostReads
  \/ \E p \in Plugins : HostChanges(p)
  \/ UNCHANGED vars

Started == {"running", "waiting", "delegated"}

(* How it may move a call: refuse it, start it once its predecessor is     *)
(* done, or take it further.                                               *)
Moved(c) ==
  \/ phase'[c] = phase[c]
  \/ phase[c] = "new" /\ phase'[c] = "answered"
  \/ MayStart(c) /\ phase'[c] \in Started \cup {"settled"}
  \/ phase[c] \in Started /\ phase'[c] \in {"delegated", "settled"}

Moves ==
  /\ phase' \in [Calls -> Phases]
  /\ \A c \in Calls : Moved(c)
  /\ tidy' \subseteq tidy \cup {c \in Calls : phase'[c] = "settled"}
  /\ tail' = tail \/ \E c \in tidy : tail' = TailAfter(c)
  /\ UNCHANGED <<Counters, after, ahead>>

LEMMA NextCases ==
  ASSUME [Next]_vars
  PROVE  (\E c \in Calls : Admit(c) \/ Release(c)) \/ OtherStep
BY DEF Next, CallStep, OtherStep

LEMMA SettlingMoves ==
  ASSUME SlotTypeOK, NEW S \in SUBSET Calls, Settle(S),
         \A c \in S : MayStart(c) \/ phase[c] \in Started,
         UNCHANGED <<Counters, tail, after, ahead>>
  PROVE  Moves
<1>1. phase' = [c \in Calls |-> IF c \in S THEN "settled" ELSE phase[c]]
  BY DEF Settle
<1>2. phase' \in [Calls -> Phases]
  BY <1>1 DEF SlotTypeOK, Phases
<1>3. \A c \in Calls : Moved(c)
  BY <1>1 DEF Moved
<1>4. tidy' \subseteq tidy \cup {c \in Calls : phase'[c] = "settled"}
  BY <1>1 DEF Settle
<1>. QED  BY <1>2, <1>3, <1>4 DEF Moves

LEMMA OtherStepMoves ==
  ASSUME SlotTypeOK, OtherStep
  PROVE  Moves
<1>. USE DEF SlotTypeOK, routing, host, history, Counters
<1>1. ASSUME NEW c \in Calls, Refuse(c)
      PROVE  Moves
  BY <1>1 DEF Refuse, Moves, Moved, Phases
<1>2. ASSUME NEW c \in Calls, Start(c)
      PROVE  Moves
  <2>1. CASE StartUndeclared(c)
    BY <2>1, SettlingMoves DEF StartUndeclared
  <2>2. CASE StartLocal(c)
    BY <2>2 DEF StartLocal, Moves, Moved, Phases, Started
  <2>3. CASE StartDenied(c)
    BY <2>3, SettlingMoves DEF StartDenied
  <2>4. CASE StartDelegated(c)
    BY <2>4 DEF StartDelegated, Moves, Moved, Phases, Started
  <2>5. CASE StartWaiting(c)
    BY <2>5 DEF StartWaiting, Moves, Moved, Phases, Started
  <2>. QED  BY <1>2, <2>1, <2>2, <2>3, <2>4, <2>5 DEF Start
<1>3. ASSUME NEW c \in Calls, TidyTail(c)
      PROVE  Moves
  BY <1>3 DEF TidyTail, Moves, Moved
<1>4. ASSUME NEW c \in Calls, DelegationFails(c)
      PROVE  Moves
  BY <1>4, SettlingMoves DEF DelegationFails, Started
<1>5. ASSUME NEW c \in Calls, AdapterDone(c)
      PROVE  Moves
  BY <1>5, SettlingMoves DEF AdapterDone, Started
<1>6. ASSUME QueryResolves
      PROVE  Moves
  <2>. DEFINE caps    == Head(fromHost).caps
              allowed == {c \in Waiting : PluginOf[c] \in caps}
              denied  == Waiting \ allowed
  <2>1. /\ phase' = [c \in Calls |-> CASE c \in allowed -> "delegated"
                                       [] c \in denied  -> "settled"
                                       [] OTHER         -> phase[c]]
        /\ tidy' = tidy \cup {c \in denied : PluginOf[c] \in Serial}
        /\ UNCHANGED <<Counters, tail, after, ahead>>
    BY <1>6 DEF QueryResolves
  <2>2. denied \subseteq Calls /\ \A c \in Waiting : phase[c] \in Started
    BY DEF Waiting, Started
  <2>3. \A c \in Calls : Moved(c) /\ phase'[c] \in Phases
    BY <2>1, <2>2 DEF Moved, Phases
  <2>4. \A c \in denied : phase'[c] = "settled"
    BY <2>1, <2>2
  <2>. QED  BY <2>1, <2>2, <2>3, <2>4 DEF Moves
<1>7. ASSUME QueryFails
      PROVE  Moves
  BY <1>7, SettlingMoves DEF QueryFails, Wakes, Waiting, Started
<1>8. ASSUME DelegationAnswered
      PROVE  Moves
  <2>. DEFINE m == fromHost[SelectInSeq(fromHost, IsAnswer)]
  <2>1. /\ m.call \in Calls /\ phase[m.call] = "delegated"
        /\ Settle({m.call})
        /\ UNCHANGED <<Counters, tail, after, ahead>>
    BY <1>8 DEF DelegationAnswered
  <2>. QED  BY <2>1, SettlingMoves DEF Started
<1>9. CASE CacheAges \/ HostReads \/ UNCHANGED vars
  BY <1>9 DEF CacheAges, HostReads, vars, Moves, Moved
<1>10. ASSUME NEW c \in Calls, HostFinishes(c)
       PROVE  Moves
  BY <1>10 DEF HostFinishes, Moves, Moved
<1>11. ASSUME NEW p \in Plugins, HostChanges(p)
       PROVE  Moves
  BY <1>11 DEF HostChanges, Moves, Moved
<1>. QED
  BY <1>1, <1>2, <1>3, <1>4, <1>5, <1>6, <1>7, <1>8, <1>9, <1>10, <1>11
     DEF OtherStep

-----------------------------------------------------------------------------
(* The slots.                                                              *)

LEMMA SlotInit == Init => SlotInv
<1>. SUFFICES ASSUME Init PROVE SlotInv
  OBVIOUS
<1>1. Active = {}
  BY DEF Init, Active, Unsettled
<1>2. Cardinality({}) = 0
  BY FS_EmptySet
<1>3. \A ch \in Channels : {c \in Active : ChannelOf[c] = ch} = {}
  BY <1>1
<1>4. \A p \in Registered : {c \in Active : PluginOf[c] = p} = {}
  BY <1>1
<1>5. SlotsBalance
  BY <1>1, <1>2, <1>3, <1>4 DEF Init, SlotsBalance
<1>6. SlotTypeOK
  BY RouterAssumption DEF Init, SlotTypeOK, Phases
<1>. QED  BY <1>5, <1>6 DEF SlotInv

LEMMA SlotStep == SlotInv /\ [Next]_vars => SlotInv'
<1>. SUFFICES ASSUME SlotInv, [Next]_vars PROVE SlotInv'
  OBVIOUS
<1>1. CASE OtherStep
  <2>1. Moves
    BY <1>1, OtherStepMoves DEF SlotInv
  <2>2. \A c \in Calls : (phase'[c] \in Unsettled \cup {"settled"})
                            <=> (phase[c] \in Unsettled \cup {"settled"})
    BY <2>1 DEF Moves, Moved, MayStart, Started, Unsettled
  <2>. QED  BY <2>1, <2>2, BalanceKept DEF Moves
<1>. QED  BY <1>1, NextCases, AdmitBalances, ReleaseBalances

(* The slots of the router balance in every execution: whatever way calls  *)
(* end, the finally of route() gives back exactly what it took.            *)
THEOREM SlotsAccounted == Spec => []SlotsBalance
<1>1. SlotInv => SlotsBalance
  BY DEF SlotInv
<1>. QED  BY <1>1, SlotInit, SlotStep, PTL DEF Spec

LEMMA StarvationBounded ==
  ASSUME SlotInv
  PROVE  NoChannelStarved
<1>. SUFFICES ASSUME Cardinality(Channels) = 2, MaxPerChannel < MaxInflight,
                     NEW ch \in Channels, byChannel[ch] = 0
              PROVE  inflight < MaxInflight
  BY DEF NoChannelStarved
<1>1. Active \in SUBSET Calls
  BY DEF Active
<1>2. PICK other \in Channels : \A h \in Channels : h = ch \/ h = other
  <2>1. /\ IsFiniteSet(Channels \ {ch})
        /\ Cardinality(Channels \ {ch}) = 1
    BY RouterAssumption, FS_RemoveElement
  <2>2. PICK other : Channels \ {ch} = {other}
    BY <2>1, FS_Singleton
  <2>. QED  BY <2>2
<1>3. OnChannel(ch) = {}
  <2>1. Cardinality(OnChannel(ch)) = 0
    BY DEF SlotInv, SlotsBalance, OnChannel
  <2>. QED  BY <1>1, <2>1, RouterAssumption, FS_Subset, FS_EmptySet DEF OnChannel
<1>4. OnChannel(other) = Active
  BY <1>1, <1>2, <1>3, RouterAssumption DEF OnChannel
<1>5. inflight = byChannel[other]
  BY <1>4 DEF SlotInv, SlotsBalance, OnChannel
<1>. QED  BY <1>5, RouterAssumption DEF SlotInv, SlotTypeOK

(* "The page cannot starve requests from the host": with two channels and  *)
(* maxInflightPerChannel below maxInflight, route() never answers busy to  *)
(* a channel with nothing under way for want of a global slot, for every   *)
(* number of calls, plugins and slots.                                     *)
THEOREM NoStarvation == Spec => []NoChannelStarved
<1>1. SlotInv => NoChannelStarved
  BY StarvationBounded
<1>. QED  BY <1>1, SlotInit, SlotStep, PTL DEF Spec

-----------------------------------------------------------------------------
(* The serial queues.                                                      *)

Finished == {c \in Calls : phase[c] \in {"settled", "answered"}}

(* The unfinished calls that c waits for when it is chained behind d: d    *)
(* and whatever d waits for.                                               *)
Behind(d) == IF d = NoCall THEN {} ELSE ahead[d] \cup {d}

SerialTypeOK ==
  /\ phase \in [Calls -> Phases]
  /\ tail \in [Serial -> Calls \cup {NoCall}]
  /\ after \in [Calls -> Calls \cup {NoCall}]
  /\ ahead \in [Calls -> SUBSET Calls]

(* A held call is chained behind every unfinished call ahead of it, and    *)
(* the tail of a plugin behind every unfinished call of that plugin.       *)
HeldBehindAhead ==
  \A c \in Calls : phase[c] = "held" =>
                      ahead[c] \subseteq Finished \cup Behind(after[c])

TailIsLast ==
  \A p \in Serial : \A d \in Calls :
    PluginOf[d] = p /\ phase[d] \in Unsettled => d \in Behind(tail[p])

(* Tails and predecessors have arrived, and new calls have no history.     *)
Arrived ==
  /\ \A p \in Serial : tail[p] # NoCall => phase[tail[p]] # "new"
  /\ \A c \in Calls : after[c] # NoCall => phase[after[c]] # "new"
  /\ \A c \in Calls : phase[c] = "new" => ahead[c] = {}

SerialInv ==
  /\ SerialTypeOK
  /\ tidy \subseteq Finished
  /\ Arrived
  /\ SerialInOrder
  /\ HeldBehindAhead
  /\ TailIsLast

(* What the queues see of a step that admits no call.                      *)
SerialMoves ==
  /\ phase' \in [Calls -> Phases]
  /\ \A c \in Calls : \/ Moved(c)
                      \/ phase[c] = "settled" /\ phase'[c] = "answered"
  /\ tidy' \subseteq tidy \cup {c \in Calls : phase'[c] = "settled"}
  /\ tail' = tail \/ \E c \in tidy : tail' = TailAfter(c)
  /\ UNCHANGED <<after, ahead>>

LEMMA SerialMovesKeep ==
  ASSUME SerialInv, SerialMoves
  PROVE  SerialInv'
<1>. USE DEF SerialInv
<1>1. Finished \subseteq Finished'
  BY DEF SerialMoves, Moved, MayStart, Started, Finished
<1>2. \A d \in Calls \cup {NoCall} : Behind(d)' = Behind(d)
  BY DEF SerialMoves, Behind
<1>3. \A c \in Calls :
        /\ phase'[c] \in Unsettled => phase[c] \in Unsettled
        /\ phase'[c] = "held" => phase[c] = "held"
        /\ phase'[c] = "new" => phase[c] = "new"
  BY DEF SerialMoves, Moved, MayStart, Started, Unsettled
<1>4. \A p \in Serial :
        /\ tail'[p] \in {tail[p], NoCall}
        /\ tail'[p] # tail[p] => tail[p] \in tidy
  BY DEF SerialMoves, TailAfter, SerialTypeOK
<1>5. \A c \in Finished : ahead[c] \subseteq Finished
  BY DEF SerialInOrder, Finished, SerialTypeOK
<1>6. SerialTypeOK'
  BY <1>4 DEF SerialMoves, SerialTypeOK, TailAfter
<1>7. (tidy \subseteq Finished)'
  <2>1. {c \in Calls : phase'[c] = "settled"} \subseteq Finished'
    BY DEF Finished
  <2>. QED  BY <1>1, <2>1 DEF SerialMoves
<1>8. Arrived'
  BY <1>3, <1>4, <1>6 DEF Arrived, SerialMoves, SerialTypeOK
<1>9. SerialInOrder'
  <2>. SUFFICES ASSUME NEW c \in Calls, phase'[c] \notin {"new", "held"},
                       NEW d \in ahead[c]
                PROVE  d \in Finished'
    BY DEF SerialInOrder, SerialMoves, Finished
  <2>1. CASE phase[c] \notin {"new", "held"}
    BY <1>1, <2>1 DEF SerialInOrder, Finished, SerialTypeOK
  <2>2. CASE phase[c] = "new"
    BY <2>2 DEF Arrived
  <2>3. CASE phase[c] = "held"
    <3>1. after[c] # NoCall => after[c] \in Finished
      BY <2>3 DEF SerialMoves, Moved, MayStart, Started, Finished, SerialTypeOK
    <3>2. Behind(after[c]) \subseteq Finished
      BY <1>5, <3>1 DEF Behind
    <3>. QED  BY <1>1, <2>3, <3>2 DEF HeldBehindAhead
  <2>. QED  BY <2>1, <2>2, <2>3
<1>10. HeldBehindAhead'
  BY <1>1, <1>2, <1>3 DEF HeldBehindAhead, SerialMoves, SerialTypeOK
<1>11. TailIsLast'
  <2>. SUFFICES ASSUME NEW p \in Serial, NEW d \in Calls, PluginOf[d] = p,
                       phase'[d] \in Unsettled
                PROVE  d \in Behind(tail[p])'
    BY DEF TailIsLast
  <2>1. d \in Behind(tail[p]) /\ d \notin Finished
    BY <1>3 DEF TailIsLast, Unsettled, Finished
  <2>2. tail'[p] = tail[p]
    <3>. SUFFICES ASSUME tail[p] \in tidy PROVE FALSE
      BY <1>4
    <3>1. Behind(tail[p]) \subseteq Finished
      BY <1>5 DEF Behind
    <3>. QED  BY <2>1, <3>1
  <2>. QED  BY <2>1, <2>2 DEF Behind, SerialMoves
<1>. QED  BY <1>6, <1>7, <1>8, <1>9, <1>10, <1>11

LEMMA SerialAdmitKeeps ==
  ASSUME SerialInv, NEW c \in Calls, Admit(c)
  PROVE  SerialInv'
<1>. DEFINE p == PluginOf[c]
            queued == {d \in Calls : /\ p \in Serial /\ PluginOf[d] = p
                                     /\ phase[d] \in Unsettled}
<1>. USE DEF SerialInv
<1>1. /\ phase[c] = "new"
      /\ phase' = [phase EXCEPT ![c] = "held"]
      /\ ahead' = [ahead EXCEPT ![c] = queued]
      /\ tidy' = tidy
      /\ IF p \in Serial
           THEN /\ after' = [after EXCEPT ![c] = tail[p]]
                /\ tail' = [tail EXCEPT ![p] = c]
           ELSE after' = after /\ tail' = tail
  BY DEF Admit
<1>. HIDE DEF queued
<1>2. SerialTypeOK'
  <2>1. queued \in SUBSET Calls
    BY DEF queued
  <2>. QED  BY <1>1, <2>1 DEF SerialTypeOK, Phases
<1>3. Finished' = Finished
  BY <1>1 DEF Finished, SerialTypeOK
<1>4. \A d \in (Calls \cup {NoCall}) \ {c} : Behind(d)' = Behind(d)
  BY <1>1 DEF Behind, SerialTypeOK
<1>5. c # NoCall
  BY RouterAssumption
<1>6. p \in Serial => tail[p] # c
  BY <1>1, <1>5 DEF Arrived
<1>7. \A e \in Calls : after[e] # c
  BY <1>1, <1>5 DEF Arrived
<1>8. (tidy \subseteq Finished)'
  BY <1>1, <1>3
<1>9. Arrived'
  BY <1>1, <1>2 DEF Arrived, SerialTypeOK
<1>10. SerialInOrder'
  <2>. SUFFICES ASSUME NEW e \in Calls, phase'[e] \notin {"new", "held"}
                PROVE  ahead'[e] \subseteq Finished'
    BY DEF SerialInOrder, Finished
  <2>1. e # c
    BY <1>1 DEF SerialTypeOK
  <2>2. ahead'[e] = ahead[e] /\ phase'[e] = phase[e]
    BY <1>1, <2>1 DEF SerialTypeOK
  <2>3. ahead[e] \subseteq Finished
    BY <2>2 DEF SerialInOrder, Finished, SerialTypeOK
  <2>. QED  BY <1>3, <2>2, <2>3
<1>11. HeldBehindAhead'
  <2>. SUFFICES ASSUME NEW e \in Calls, phase'[e] = "held"
                PROVE  ahead'[e] \subseteq Finished' \cup Behind(after[e])'
    BY DEF HeldBehindAhead
  <2>1. CASE e # c
    <3>1. /\ ahead'[e] = ahead[e] /\ after'[e] = after[e]
          /\ phase[e] = "held"
      BY <1>1, <2>1 DEF SerialTypeOK
    <3>2. Behind(after[e])' = Behind(after[e])
      <4>1. after[e] \in (Calls \cup {NoCall}) \ {c}
        BY <1>7 DEF SerialTypeOK
      <4>2. Behind(after[e])' = IF after'[e] = NoCall THEN {}
                                 ELSE ahead'[after'[e]] \cup {after'[e]}
        BY DEF Behind
      <4>. QED  BY <1>1, <3>1, <4>1, <4>2 DEF Behind, SerialTypeOK
    <3>. QED  BY <1>3, <3>1, <3>2 DEF HeldBehindAhead
  <2>2. CASE e = c
    <3>1. ahead'[c] = queued
      BY <1>1 DEF SerialTypeOK
    <3>2. CASE p \notin Serial
      BY <2>2, <3>1, <3>2 DEF queued
    <3>3. CASE p \in Serial
      <4>1. queued \subseteq Behind(tail[p])
        BY <3>3 DEF queued, TailIsLast
      <4>2. after'[c] = tail[p] /\ tail[p] \in (Calls \cup {NoCall}) \ {c}
        BY <1>1, <1>6, <3>3 DEF SerialTypeOK
      <4>3. Behind(after[c])' = Behind(tail[p])
        BY <1>1, <4>2 DEF Behind, SerialTypeOK
      <4>. QED  BY <2>2, <3>1, <4>1, <4>3
    <3>. QED  BY <3>2, <3>3
  <2>. QED  BY <2>1, <2>2
<1>12. TailIsLast'
  <2>. SUFFICES ASSUME NEW q \in Serial, NEW d \in Calls, PluginOf[d] = q,
                       phase'[d] \in Unsettled
                PROVE  d \in Behind(tail[q])'
    BY DEF TailIsLast
  <2>1. CASE q = p
    <3>1. tail'[q] = c /\ ahead'[c] = queued
      BY <1>1, <2>1 DEF SerialTypeOK
    <3>2. d = c \/ d \in queued
      BY <1>1, <2>1 DEF queued, SerialTypeOK
    <3>. QED  BY <1>5, <3>1, <3>2 DEF Behind
  <2>2. CASE q # p
    <3>1. tail'[q] = tail[q] /\ phase'[d] = phase[d]
      BY <1>1, <2>2 DEF SerialTypeOK
    <3>2. tail[q] # c /\ tail[q] \in Calls \cup {NoCall}
      BY <1>1, <1>5 DEF Arrived, SerialTypeOK
    <3>3. d \in Behind(tail[q])
      BY <3>1 DEF TailIsLast
    <3>. QED  BY <1>1, <3>1, <3>2, <3>3 DEF Behind, SerialTypeOK
  <2>. QED  BY <2>1, <2>2
<1>. QED  BY <1>2, <1>8, <1>9, <1>10, <1>11, <1>12

LEMMA SerialInit == Init => SerialInv
BY DEF Init, SerialInv, SerialTypeOK, Arrived, SerialInOrder, HeldBehindAhead,
       TailIsLast, Finished, Phases, Unsettled

LEMMA SerialStep == SlotInv /\ SerialInv /\ [Next]_vars => SerialInv'
<1>. SUFFICES ASSUME SlotInv, SerialInv, [Next]_vars PROVE SerialInv'
  OBVIOUS
<1>1. ASSUME NEW c \in Calls, Release(c)
      PROVE  SerialInv'
  <2>1. SerialMoves
    BY <1>1 DEF Release, SerialMoves, SerialInv, SerialTypeOK, Moved, Phases,
                history
  <2>. QED  BY <2>1, SerialMovesKeep
<1>2. CASE OtherStep
  <2>1. Moves
    BY <1>2, OtherStepMoves DEF SlotInv
  <2>. QED  BY <2>1, SerialMovesKeep DEF Moves, SerialMoves
<1>. QED  BY <1>1, <1>2, NextCases, SerialAdmitKeeps

(* Calls of a serial plugin run one at a time and in arrival order, for    *)
(* every number of calls: runSerial chains a call behind every unfinished  *)
(* one, and the cleanup of a settled call never deletes a later tail.      *)
THEOREM SerialOrder == Spec => []SerialInOrder
<1>1. SerialInv => SerialInOrder
  BY DEF SerialInv
<1>. QED
  BY <1>1, SlotInit, SlotStep, SerialInit, SerialStep, PTL DEF Spec

-----------------------------------------------------------------------------
(* Sequences.                                                              *)

LEMMA LeastNumber ==
  ASSUME NEW I \in SUBSET Nat, I # {}
  PROVE  Min(I) \in I
<1>1. \E m \in I : \A y \in I : ~(<<y, m>> \in OpToRel(<, Nat))
  BY NatLessThanWellFounded, WFMin
<1>2. PICK m \in I : \A y \in I : ~(<<y, m>> \in OpToRel(<, Nat))
  BY <1>1
<1>3. ASSUME NEW y \in I PROVE m <= y
  <2>1. ~(y < m)
    BY <1>2 DEF OpToRel
  <2>. QED  BY <2>1
<1>. QED  BY <1>3 DEF Min

(* RemoveAt() keeps the rest of a pipe in order.                           *)
LEMMA Removed ==
  ASSUME NEW S, NEW s \in Seq(S), NEW i \in 1 .. Len(s)
  PROVE  /\ RemoveAt(s, i) \in Seq(S)
         /\ DOMAIN RemoveAt(s, i) = 1 .. Len(s) - 1
         /\ \A k \in 1 .. Len(s) - 1 :
              RemoveAt(s, i)[k] = s[IF k < i THEN k ELSE k + 1]
<1>. DEFINE a == SubSeq(s, 1, i - 1)
            b == SubSeq(s, i + 1, Len(s))
<1>1. /\ a \in Seq(S) /\ Len(a) = i - 1
      /\ \A k \in 1 .. i - 1 : a[k] = s[k]
  OBVIOUS
<1>2. /\ b \in Seq(S) /\ Len(b) = Len(s) - i
      /\ \A k \in 1 .. Len(s) - i : b[k] = s[k + i]
  OBVIOUS
<1>3. RemoveAt(s, i) = a \o b
  BY DEF RemoveAt
<1>. HIDE DEF a, b
<1>4. a \o b \in Seq(S)
  BY <1>1, <1>2
<1>5. Len(a \o b) = Len(s) - 1 /\ DOMAIN (a \o b) = 1 .. Len(s) - 1
  <2>0. a \in Seq(S) /\ b \in Seq(S)
    BY <1>1, <1>2
  <2>1. Len(a \o b) = Len(a) + Len(b)
    BY <2>0
  <2>2. Len(a) + Len(b) = Len(s) - 1
    BY <1>1, <1>2
  <2>. QED  BY <1>4, <2>1, <2>2
<1>6. ASSUME NEW k \in 1 .. Len(s) - 1
      PROVE  (a \o b)[k] = s[IF k < i THEN k ELSE k + 1]
  <2>0. (a \o b)[k] = IF k <= Len(a) THEN a[k] ELSE b[k - Len(a)]
    BY <1>1, <1>2
  <2>1. CASE k < i
    BY <2>0, <2>1, <1>1
  <2>2. CASE ~(k < i)
    <3>1. k - Len(a) = k - i + 1 /\ k - i + 1 \in 1 .. Len(s) - i
      BY <2>2, <1>1
    <3>2. b[k - i + 1] = s[k - i + 1 + i]
      BY <3>1, <1>2
    <3>3. k - i + 1 + i = k + 1
      OBVIOUS
    <3>4. ~(k <= Len(a))
      BY <2>2, <1>1
    <3>. QED  BY <2>0, <2>2, <3>1, <3>2, <3>3, <3>4
  <2>. QED  BY <2>1, <2>2
<1>. QED  BY <1>3, <1>4, <1>5, <1>6

(* A request taken off a pipe is not found there again.                    *)
LEMMA TakenOff ==
  ASSUME NEW S, NEW s \in Seq(S), NEW i \in 1 .. Len(s), Distinct(s)
  PROVE  /\ RemoveAt(s, i) \in Seq(S)
         /\ Distinct(RemoveAt(s, i))
         /\ \A k \in DOMAIN RemoveAt(s, i) : \E j \in DOMAIN s :
              RemoveAt(s, i)[k] = s[j] /\ ~SameRequest(s[j], s[i])
<1>. DEFINE r == RemoveAt(s, i)
            from(k) == IF k < i THEN k ELSE k + 1
<1>1. /\ r \in Seq(S) /\ DOMAIN r = 1 .. Len(s) - 1
      /\ \A k \in 1 .. Len(s) - 1 : r[k] = s[from(k)]
  BY Removed
<1>. HIDE DEF r
<1>2. \A k \in 1 .. Len(s) - 1 : from(k) \in 1 .. Len(s) /\ from(k) # i
  OBVIOUS
<1>3. \A k, l \in 1 .. Len(s) - 1 : from(k) = from(l) => k = l
  OBVIOUS
<1>4. DOMAIN s = 1 .. Len(s)
  OBVIOUS
<1>. HIDE DEF from
<1>5. Distinct(r)
  BY <1>1, <1>2, <1>3, <1>4 DEF Distinct
<1>6. \A k \in DOMAIN r : \E j \in DOMAIN s :
        r[k] = s[j] /\ ~SameRequest(s[j], s[i])
  BY <1>1, <1>2, <1>4 DEF Distinct
<1>. QED  BY <1>1, <1>5, <1>6 DEF r

LEMMA QueryTakenOff ==
  ASSUME NEW s \in Seq(ToHostMsgs), Distinct(s)
  PROVE  LET r == RemoveFirstMatch(s, IsQuery) IN
         /\ r \in Seq(ToHostMsgs) /\ Distinct(r)
         /\ \A k \in DOMAIN r : /\ ~IsQuery(r[k])
                                /\ \E j \in DOMAIN s : r[k] = s[j]
<1>. DEFINE I == {i \in 1 .. Len(s) : s[i].type = "query"}
            r == RemoveFirstMatch(s, IsQuery)
<1>1. r = IF \E i \in 1 .. Len(s) : s[i].type = "query"
            THEN RemoveAt(s, IF I # {} THEN Min(I) ELSE 0) ELSE s
  BY DEF RemoveFirstMatch, SelectInSeq, IsQuery
<1>2. I \in SUBSET Nat /\ DOMAIN s = 1 .. Len(s)
  OBVIOUS
<1>. HIDE DEF r
<1>3. CASE I = {}
  <2>1. r = s
    BY <1>1, <1>3
  <2>. QED  BY <1>2, <1>3, <2>1 DEF r, IsQuery
<1>4. CASE I # {}
  <2>. DEFINE i == Min(I)
  <2>1. i \in I
    <3>. HIDE DEF I
    <3>. QED  BY <1>2, <1>4, LeastNumber
  <2>2. r = RemoveAt(s, i)
    <3>1. \E j \in 1 .. Len(s) : s[j].type = "query"
      BY <2>1
    <3>. QED  BY <1>1, <1>4, <3>1
  <2>. HIDE DEF i
  <2>3. i \in 1 .. Len(s) /\ s[i].type = "query"
    BY <2>1
  <2>4. \A j \in DOMAIN s : s[j].type = "query" => SameRequest(s[j], s[i])
    BY <2>3 DEF SameRequest
  <2>5. /\ r \in Seq(ToHostMsgs) /\ Distinct(r)
        /\ \A k \in DOMAIN r : \E j \in DOMAIN s :
              r[k] = s[j] /\ ~SameRequest(s[j], s[i])
    BY <2>2, <2>3, TakenOff
  <2>. QED  BY <2>4, <2>5 DEF r, IsQuery
<1>. QED  BY <1>3, <1>4

LEMMA CapsTakenOff ==
  ASSUME NEW s \in Seq(FromHostMsgs), Distinct(s)
  PROVE  LET r == RemoveFirstMatch(s, IsCaps) IN
         /\ r \in Seq(FromHostMsgs) /\ Distinct(r)
         /\ \A k \in DOMAIN r : /\ ~IsCaps(r[k])
                                /\ \E j \in DOMAIN s : r[k] = s[j]
<1>. DEFINE I == {i \in 1 .. Len(s) : s[i].type = "caps"}
            r == RemoveFirstMatch(s, IsCaps)
<1>1. r = IF \E i \in 1 .. Len(s) : s[i].type = "caps"
            THEN RemoveAt(s, IF I # {} THEN Min(I) ELSE 0) ELSE s
  BY DEF RemoveFirstMatch, SelectInSeq, IsCaps
<1>2. I \in SUBSET Nat /\ DOMAIN s = 1 .. Len(s)
  OBVIOUS
<1>. HIDE DEF r
<1>3. CASE I = {}
  <2>1. r = s
    BY <1>1, <1>3
  <2>. QED  BY <1>2, <1>3, <2>1 DEF r, IsCaps
<1>4. CASE I # {}
  <2>. DEFINE i == Min(I)
  <2>1. i \in I
    <3>. HIDE DEF I
    <3>. QED  BY <1>2, <1>4, LeastNumber
  <2>2. r = RemoveAt(s, i)
    <3>1. \E j \in 1 .. Len(s) : s[j].type = "caps"
      BY <2>1
    <3>. QED  BY <1>1, <1>4, <3>1
  <2>. HIDE DEF i
  <2>3. i \in 1 .. Len(s) /\ s[i].type = "caps"
    BY <2>1
  <2>4. \A j \in DOMAIN s : s[j].type = "caps" => SameRequest(s[j], s[i])
    BY <2>3 DEF SameRequest
  <2>5. /\ r \in Seq(FromHostMsgs) /\ Distinct(r)
        /\ \A k \in DOMAIN r : \E j \in DOMAIN s :
              r[k] = s[j] /\ ~SameRequest(s[j], s[i])
    BY <2>2, <2>3, TakenOff
  <2>. QED  BY <2>4, <2>5 DEF r, IsCaps
<1>. QED  BY <1>3, <1>4

(* Of one pipe, where the messages about calls are of one type.            *)
LEMMA CallTakenOff ==
  ASSUME NEW S, NEW type \in {"invoke", "answer"}, NEW s \in Seq(S),
         NEW c, Distinct(s),
         \A m \in S : m.type \in {"invoke", "answer"} => m.type = type
  PROVE  /\ Without(s, c) \in Seq(S) /\ Distinct(Without(s, c))
         /\ \A k \in DOMAIN Without(s, c) :
              /\ Without(s, c)[k].type = type => Without(s, c)[k].call # c
              /\ \E j \in DOMAIN s : Without(s, c)[k] = s[j]
<1>. DEFINE About(m) == m.type \in {"invoke", "answer"} /\ m.call = c
            I == {i \in 1 .. Len(s) : About(s[i])}
<1>1. Without(s, c) = IF \E i \in 1 .. Len(s) : About(s[i])
                        THEN RemoveAt(s, IF I # {} THEN Min(I) ELSE 0) ELSE s
  BY DEF Without, RemoveFirstMatch, SelectInSeq
<1>2. I \in SUBSET Nat /\ DOMAIN s = 1 .. Len(s)
  OBVIOUS
<1>3. \A k \in 1 .. Len(s) : s[k] \in S
  OBVIOUS
<1>4. CASE I = {}
  <2>1. Without(s, c) = s
    BY <1>1, <1>4
  <2>. QED  BY <1>2, <1>3, <1>4, <2>1
<1>5. CASE I # {}
  <2>. DEFINE i == Min(I)
  <2>1. i \in I
    <3>. HIDE DEF I
    <3>. QED  BY <1>2, <1>5, LeastNumber
  <2>2. Without(s, c) = RemoveAt(s, i)
    <3>1. \E j \in 1 .. Len(s) : About(s[j])
      BY <2>1
    <3>. HIDE DEF About
    <3>. QED  BY <1>1, <1>5, <3>1
  <2>. HIDE DEF i
  <2>3. i \in 1 .. Len(s) /\ s[i].type = type /\ s[i].call = c
    BY <1>3, <2>1
  <2>4. \A j \in DOMAIN s : s[j].type = type /\ s[j].call = c
                              => SameRequest(s[j], s[i])
    BY <2>3 DEF SameRequest
  <2>5. /\ Without(s, c) \in Seq(S) /\ Distinct(Without(s, c))
        /\ \A k \in DOMAIN Without(s, c) : \E j \in DOMAIN s :
              Without(s, c)[k] = s[j] /\ ~SameRequest(s[j], s[i])
    BY <2>2, <2>3, TakenOff
  <2>. QED  BY <2>4, <2>5
<1>. QED  BY <1>4, <1>5

(* Every message of r is one of s.                                         *)
From(r, s) == \A k \in DOMAIN r : \E j \in DOMAIN s : r[k] = s[j]

LEMMA TailTaken ==
  ASSUME NEW S, NEW s \in Seq(S), s # <<>>, Distinct(s)
  PROVE  /\ Head(s) = s[1] /\ 1 \in DOMAIN s /\ Head(s) \in S
         /\ Tail(s) \in Seq(S) /\ Distinct(Tail(s)) /\ From(Tail(s), s)
         /\ \A k \in DOMAIN Tail(s) : ~SameRequest(Tail(s)[k], Head(s))
<1>1. DOMAIN s = 1 .. Len(s) /\ Len(s) \in Nat /\ Len(s) > 0
  OBVIOUS
<1>2. /\ Tail(s) \in Seq(S) /\ DOMAIN Tail(s) = 1 .. Len(s) - 1
      /\ \A k \in 1 .. Len(s) - 1 : Tail(s)[k] = s[k + 1]
  OBVIOUS
<1>3. Head(s) = s[1] /\ s[1] \in S
  BY <1>1
<1>4. \A k \in 1 .. Len(s) - 1 : k + 1 \in 1 .. Len(s) /\ k + 1 # 1
  BY <1>1
<1>5. \A k, l \in 1 .. Len(s) - 1 : k + 1 = l + 1 => k = l
  BY <1>1
<1>. QED  BY <1>1, <1>2, <1>3, <1>4, <1>5 DEF From, Distinct

LEMMA PutOn ==
  ASSUME NEW S, NEW s \in Seq(S), NEW m \in S, Distinct(s),
         \A i \in DOMAIN s : ~SameRequest(s[i], m)
  PROVE  /\ Append(s, m) \in Seq(S) /\ Distinct(Append(s, m))
         /\ \A k \in DOMAIN Append(s, m) :
              \/ Append(s, m)[k] = m
              \/ \E j \in DOMAIN s : Append(s, m)[k] = s[j]
<1>1. DOMAIN s = 1 .. Len(s) /\ Len(s) \in Nat
  OBVIOUS
<1>2. /\ Append(s, m) \in Seq(S) /\ DOMAIN Append(s, m) = 1 .. Len(s) + 1
      /\ \A k \in 1 .. Len(s) : Append(s, m)[k] = s[k]
      /\ Append(s, m)[Len(s) + 1] = m
  OBVIOUS
<1>3. \A k \in 1 .. Len(s) + 1 : k \in 1 .. Len(s) \/ k = Len(s) + 1
  BY <1>1
<1>4. \A i \in DOMAIN s : ~SameRequest(m, s[i])
  BY DEF SameRequest
<1>5. Distinct(Append(s, m))
  BY <1>1, <1>2, <1>3, <1>4 DEF Distinct
<1>. QED  BY <1>1, <1>2, <1>3, <1>5

LEMMA Joined ==
  ASSUME NEW S, NEW s \in Seq(S), NEW t \in Seq(S), Distinct(s), Distinct(t),
         \A i \in DOMAIN s, j \in DOMAIN t : ~SameRequest(s[i], t[j])
  PROVE  /\ s \o t \in Seq(S) /\ Distinct(s \o t)
         /\ \A k \in DOMAIN (s \o t) :
              \/ \E j \in DOMAIN s : (s \o t)[k] = s[j]
              \/ \E j \in DOMAIN t : (s \o t)[k] = t[j]
<1>1. /\ DOMAIN s = 1 .. Len(s) /\ Len(s) \in Nat
      /\ DOMAIN t = 1 .. Len(t) /\ Len(t) \in Nat
  OBVIOUS
<1>2. s \o t \in Seq(S) /\ DOMAIN (s \o t) = 1 .. Len(s) + Len(t)
  OBVIOUS
<1>3. \A k \in 1 .. Len(s) + Len(t) :
        (s \o t)[k] = IF k <= Len(s) THEN s[k] ELSE t[k - Len(s)]
  OBVIOUS
<1>4. \A k \in 1 .. Len(s) + Len(t) :
        IF k <= Len(s) THEN k \in 1 .. Len(s) ELSE k - Len(s) \in 1 .. Len(t)
  BY <1>1
<1>5. \A k, l \in 1 .. Len(s) + Len(t) : k - Len(s) = l - Len(s) => k = l
  BY <1>1
<1>6. \A i \in DOMAIN s, j \in DOMAIN t : ~SameRequest(t[j], s[i])
  BY DEF SameRequest
<1>7. Distinct(s \o t)
  <2>. SUFFICES ASSUME NEW k \in 1 .. Len(s) + Len(t),
                       NEW l \in 1 .. Len(s) + Len(t),
                       SameRequest((s \o t)[k], (s \o t)[l])
                PROVE  k = l
    BY <1>2 DEF Distinct
  <2>1. CASE k <= Len(s) /\ l <= Len(s)
    BY <1>1, <1>3, <1>4, <2>1 DEF Distinct
  <2>2. CASE k <= Len(s) /\ ~(l <= Len(s))
    BY <1>1, <1>3, <1>4, <2>2
  <2>3. CASE ~(k <= Len(s)) /\ l <= Len(s)
    BY <1>1, <1>3, <1>4, <1>6, <2>3
  <2>4. CASE ~(k <= Len(s)) /\ ~(l <= Len(s))
    BY <1>1, <1>3, <1>4, <1>5, <2>4 DEF Distinct
  <2>. QED  BY <2>1, <2>2, <2>3, <2>4
<1>8. \A k \in DOMAIN (s \o t) :
        \/ \E j \in DOMAIN s : (s \o t)[k] = s[j]
        \/ \E j \in DOMAIN t : (s \o t)[k] = t[j]
  BY <1>1, <1>2, <1>3, <1>4
<1>. QED  BY <1>2, <1>7, <1>8

-----------------------------------------------------------------------------
(* The pipes and the snapshot.                                             *)

PipeTypeOK ==
  /\ cache \in Snapshots \cup {NoCache}
  /\ asking \in BOOLEAN
  /\ hostCaps \subseteq Plugins
  /\ toHost \in Seq(ToHostMsgs)
  /\ fromHost \in Seq(FromHostMsgs)
  /\ atHost \subseteq Calls
  /\ disowned \subseteq Plugins

(* No list of capabilities names a disowned plugin: not the host's, not    *)
(* one on its way, and not the snapshot.                                   *)
DisownedEverywhere ==
  \A p \in disowned :
    /\ p \notin hostCaps
    /\ ~Listed(p)
    /\ \A i \in DOMAIN fromHost :
         IsCaps(fromHost[i]) => p \notin fromHost[i].caps

PipeInv == PipeTypeOK /\ RequestsInOnePlace /\ DisownedEverywhere

LEMMA Messages ==
  ASSUME PipeTypeOK
  PROVE  /\ \A i \in DOMAIN toHost :
              /\ toHost[i] \in ToHostMsgs
              /\ IsQuery(toHost[i]) <=> toHost[i].type # "invoke"
         /\ \A i \in DOMAIN fromHost :
              /\ fromHost[i] \in FromHostMsgs
              /\ IsCaps(fromHost[i]) <=> ~IsAnswer(fromHost[i])
<1>1. /\ \A i \in DOMAIN toHost : toHost[i] \in ToHostMsgs
      /\ \A i \in DOMAIN fromHost : fromHost[i] \in FromHostMsgs
  BY DEF PipeTypeOK
<1>. QED
  BY <1>1 DEF ToHostMsgs, FromHostMsgs, IsQuery, IsCaps, IsAnswer

(* A step that leaves the pipes alone, makes no call stop waiting for the  *)
(* host and adds nothing to the snapshot.                                  *)
LEMMA PipesAlone ==
  ASSUME PipeInv, UNCHANGED <<asking, host, disowned>>,
         Delegated \subseteq Delegated',
         cache' \in Snapshots \cup {NoCache},
         \A p \in Plugins : Listed(p)' => Listed(p)
  PROVE  PipeInv'
<1>. USE DEF PipeInv, host
<1>1. PipeTypeOK'
  BY DEF PipeTypeOK
<1>2. /\ Asked' = Asked /\ Told' = Told
      /\ Invoked' = Invoked /\ Replied' = Replied
  BY DEF Asked, Told, Invoked, Replied
<1>3. RequestsInOnePlace'
  BY <1>2 DEF RequestsInOnePlace, Distinct
<1>4. DisownedEverywhere'
  BY DEF DisownedEverywhere, PipeTypeOK
<1>. QED  BY <1>1, <1>3, <1>4

LEMMA StartDelegatedPipes ==
  ASSUME PipeInv, phase \in [Calls -> Phases], NEW c \in Calls,
         StartDelegated(c)
  PROVE  PipeInv'
<1>. DEFINE m == [type |-> "invoke", call |-> c]
<1>. USE DEF PipeInv, history, routing
<1>1. /\ phase[c] = "held" /\ phase' = [phase EXCEPT ![c] = "delegated"]
      /\ toHost' = Append(toHost, m)
      /\ UNCHANGED <<cache, asking, hostCaps, fromHost, atHost, disowned>>
  BY DEF StartDelegated, MayStart
<1>2. Delegated' = Delegated \cup {c} /\ c \notin Delegated
  BY <1>1 DEF Delegated
<1>3. c \notin Invoked /\ c \notin atHost /\ c \notin Replied
  BY <1>2 DEF RequestsInOnePlace
<1>4. m \in ToHostMsgs
  BY DEF ToHostMsgs
<1>5. toHost \in Seq(ToHostMsgs) /\ Distinct(toHost)
  BY DEF PipeTypeOK, RequestsInOnePlace
<1>6. \A i \in DOMAIN toHost : ~SameRequest(toHost[i], m)
  BY <1>3, Messages DEF SameRequest, Invoked
<1>7. /\ toHost' \in Seq(ToHostMsgs) /\ Distinct(toHost)'
      /\ \A k \in DOMAIN toHost' : \/ toHost'[k] = m
                                   \/ \E j \in DOMAIN toHost : toHost'[k] = toHost[j]
  BY <1>1, <1>4, <1>5, <1>6, PutOn DEF Distinct
<1>8. PipeTypeOK'
  BY <1>1, <1>7 DEF PipeTypeOK
<1>9. Asked' => Asked
  BY <1>7 DEF Asked, IsQuery
<1>10. Told' = Told /\ Replied' = Replied /\ Distinct(fromHost)'
  BY <1>1 DEF Told, Replied, RequestsInOnePlace, Distinct
<1>11. Invoked' \subseteq Invoked \cup {c}
  BY <1>7 DEF Invoked, IsQuery
<1>12. RequestsInOnePlace'
  BY <1>1, <1>2, <1>3, <1>7, <1>9, <1>10, <1>11 DEF RequestsInOnePlace
<1>13. DisownedEverywhere'
  BY <1>1 DEF DisownedEverywhere, Listed
<1>. QED  BY <1>8, <1>12, <1>13

LEMMA StartWaitingPipes ==
  ASSUME PipeInv, phase \in [Calls -> Phases], NEW c \in Calls,
         StartWaiting(c)
  PROVE  PipeInv'
<1>. DEFINE m == [type |-> "query"]
<1>. USE DEF PipeInv, history, routing
<1>1. /\ phase[c] = "held" /\ phase' = [phase EXCEPT ![c] = "waiting"]
      /\ toHost' = IF asking THEN toHost ELSE Append(toHost, m)
      /\ asking' = TRUE
      /\ UNCHANGED <<cache, hostCaps, fromHost, atHost, disowned>>
  BY DEF StartWaiting, MayStart
<1>2. Delegated' = Delegated
  BY <1>1 DEF Delegated
<1>4. m \in ToHostMsgs
  BY DEF ToHostMsgs
<1>5. toHost \in Seq(ToHostMsgs) /\ Distinct(toHost)
  BY DEF PipeTypeOK, RequestsInOnePlace
<1>6. ~asking => \A i \in DOMAIN toHost : ~SameRequest(toHost[i], m)
  BY DEF SameRequest, RequestsInOnePlace, Asked, IsQuery
<1>7. /\ toHost' \in Seq(ToHostMsgs) /\ Distinct(toHost)'
      /\ \A k \in DOMAIN toHost' :
           \/ ~asking /\ toHost'[k] = m
           \/ \E j \in DOMAIN toHost : toHost'[k] = toHost[j]
  <2>1. CASE asking
    BY <1>1, <1>5, <2>1 DEF Distinct
  <2>2. CASE ~asking
    BY <1>1, <1>4, <1>5, <1>6, <2>2, PutOn DEF Distinct
  <2>. QED  BY <2>1, <2>2
<1>8. PipeTypeOK'
  BY <1>1, <1>7 DEF PipeTypeOK
<1>9. Asked' => Asked \/ ~asking
  BY <1>7 DEF Asked
<1>10. Told' = Told /\ Replied' = Replied /\ Distinct(fromHost)'
  BY <1>1 DEF Told, Replied, RequestsInOnePlace, Distinct
<1>11. Invoked' \subseteq Invoked
  BY <1>7 DEF Invoked, IsQuery
<1>12. RequestsInOnePlace'
  BY <1>1, <1>2, <1>7, <1>9, <1>10, <1>11 DEF RequestsInOnePlace
<1>13. DisownedEverywhere'
  BY <1>1 DEF DisownedEverywhere, Listed
<1>. QED  BY <1>8, <1>12, <1>13

LEMMA QueryResolvesPipes ==
  ASSUME PipeInv, phase \in [Calls -> Phases], QueryResolves
  PROVE  PipeInv'
<1>. DEFINE caps    == Head(fromHost).caps
            allowed == {c \in Waiting : PluginOf[c] \in caps}
            denied  == Waiting \ allowed
            invokes(order) ==
              [i \in DOMAIN order |-> [type |-> "invoke", call |-> order[i]]]
<1>. USE DEF PipeInv, history
<1>1. /\ fromHost # <<>> /\ IsCaps(Head(fromHost)) /\ asking
      /\ cache' = [caps |-> caps, age |-> "new"]
      /\ phase' = [c \in Calls |-> CASE c \in allowed -> "delegated"
                                     [] c \in denied  -> "settled"
                                     [] OTHER         -> phase[c]]
      /\ asking' = FALSE
      /\ fromHost' = Tail(fromHost)
      /\ UNCHANGED <<hostCaps, atHost, disowned>>
  BY DEF QueryResolves, IsCaps
<1>2. PICK order \in SetToSeqs(allowed) : toHost' = toHost \o invokes(order)
  BY DEF QueryResolves
<1>3. /\ Head(fromHost) = fromHost[1] /\ 1 \in DOMAIN fromHost
      /\ Head(fromHost) \in FromHostMsgs
      /\ Tail(fromHost) \in Seq(FromHostMsgs) /\ Distinct(Tail(fromHost))
      /\ From(Tail(fromHost), fromHost)
      /\ \A k \in DOMAIN Tail(fromHost) :
           ~SameRequest(Tail(fromHost)[k], Head(fromHost))
  BY <1>1, TailTaken DEF PipeTypeOK, RequestsInOnePlace
<1>4. caps \subseteq Plugins
  BY <1>1, <1>3 DEF FromHostMsgs, IsCaps
<1>5. Told /\ ~Asked
  BY <1>1, <1>3 DEF Told, RequestsInOnePlace
<1>6. /\ allowed \subseteq Calls /\ denied \subseteq Calls
      /\ allowed \cap Delegated = {} /\ denied \cap Delegated = {}
      /\ allowed \cap denied = {}
  BY DEF Waiting, Delegated
<1>. HIDE DEF allowed, denied
<1>7. Delegated' = Delegated \cup allowed
  <2>1. \A c \in Calls :
          phase'[c] = IF c \in allowed THEN "delegated"
                      ELSE IF c \in denied THEN "settled" ELSE phase[c]
    BY <1>1, <1>6
  <2>. QED  BY <1>6, <2>1 DEF Delegated
<1>8. /\ allowed \cap Invoked = {} /\ allowed \cap atHost = {}
      /\ allowed \cap Replied = {}
  BY <1>6 DEF RequestsInOnePlace
<1>9. /\ order \in Seq(allowed)
      /\ \A i, j \in DOMAIN order : order[i] = order[j] => i = j
  <2>1. Cardinality(allowed) \in Nat
    BY <1>6, CallsFinite
  <2>2. order \in [1 .. Cardinality(allowed) -> allowed]
    BY DEF SetToSeqs
  <2>3. \A i, j \in 1 .. Cardinality(allowed) : i # j => order[i] # order[j]
    BY DEF SetToSeqs
  <2>4. order \in Seq(allowed)
    BY <2>1, <2>2
  <2>. QED  BY <2>2, <2>3, <2>4
<1>10. /\ invokes(order) \in Seq(ToHostMsgs)
       /\ DOMAIN invokes(order) = DOMAIN order
       /\ \A i \in DOMAIN order :
            /\ order[i] \in allowed
            /\ invokes(order)[i] = [type |-> "invoke", call |-> order[i]]
  <2>1. DOMAIN order = 1 .. Len(order) /\ Len(order) \in Nat
    BY <1>9
  <2>2. \A i \in DOMAIN order : order[i] \in allowed
    BY <1>9
  <2>3. \A i \in DOMAIN order :
          [type |-> "invoke", call |-> order[i]] \in ToHostMsgs
    BY <1>6, <2>2 DEF ToHostMsgs
  <2>4. invokes(order) \in [1 .. Len(order) -> ToHostMsgs]
    BY <2>1, <2>3
  <2>. QED  BY <2>1, <2>2, <2>4
<1>. DEFINE new == invokes(order)
<1>11. Distinct(new)
  BY <1>9, <1>10 DEF Distinct, SameRequest
<1>. HIDE DEF new, invokes
<1>12. \A i \in DOMAIN toHost, j \in DOMAIN new : ~SameRequest(toHost[i], new[j])
  <2>. SUFFICES ASSUME NEW i \in DOMAIN toHost, NEW j \in DOMAIN order,
                       SameRequest(toHost[i], new[j])
                PROVE  FALSE
    BY <1>10 DEF new
  <2>1. new[j] = [type |-> "invoke", call |-> order[j]] /\ order[j] \in allowed
    BY <1>10 DEF new
  <2>2. toHost[i].type = "invoke" /\ toHost[i].call = order[j]
    BY <2>1 DEF SameRequest
  <2>3. order[j] \in Invoked
    BY <1>6, <2>1, <2>2, Messages DEF Invoked
  <2>. QED  BY <1>8, <2>1, <2>3
<1>13. /\ toHost' \in Seq(ToHostMsgs) /\ Distinct(toHost')
       /\ \A k \in DOMAIN toHost' :
            \/ \E j \in DOMAIN toHost : toHost'[k] = toHost[j]
            \/ \E j \in DOMAIN new : toHost'[k] = new[j]
  <2>1. new \in Seq(ToHostMsgs) /\ toHost \in Seq(ToHostMsgs) /\ Distinct(toHost)
    BY <1>10 DEF new, PipeTypeOK, RequestsInOnePlace
  <2>2. toHost' = toHost \o new
    BY <1>2 DEF new
  <2>. QED  BY <1>11, <1>12, <2>1, <2>2, Joined
<1>14. \A j \in DOMAIN new : ~IsQuery(new[j]) /\ new[j].call \in allowed
  BY <1>10 DEF IsQuery, new
<1>15. ~Asked' /\ Invoked' \subseteq Invoked \cup allowed
  BY <1>5, <1>13, <1>14 DEF Asked, Invoked
<1>16. ~Told' /\ Replied' \subseteq Replied
  <2>1. ~Told'
    BY <1>1, <1>3 DEF Told, SameRequest, IsCaps
  <2>. QED  BY <1>1, <1>3, <2>1 DEF Replied, From
<1>17. RequestsInOnePlace'
  BY <1>1, <1>3, <1>7, <1>8, <1>13, <1>15, <1>16 DEF RequestsInOnePlace, Distinct
<1>18. PipeTypeOK'
  BY <1>1, <1>3, <1>4, <1>13 DEF PipeTypeOK, Snapshots, Ages
<1>19. DisownedEverywhere'
  <2>1. \A p \in disowned : p \notin caps
    BY <1>1, <1>3 DEF DisownedEverywhere
  <2>2. \A p \in disowned : ~Listed(p)'
    BY <1>1, <2>1 DEF Listed
  <2>. QED  BY <1>1, <1>3, <2>2 DEF DisownedEverywhere, From
<1>. QED  BY <1>17, <1>18, <1>19

LEMMA QueryFailsPipes ==
  ASSUME PipeInv, phase \in [Calls -> Phases], QueryFails
  PROVE  PipeInv'
<1>. USE DEF PipeInv, history
<1>1. /\ cache' = NoCache /\ asking' = FALSE
      /\ phase' = [c \in Calls |-> IF c \in Waiting THEN "settled" ELSE phase[c]]
      /\ toHost' = RemoveFirstMatch(toHost, IsQuery)
      /\ fromHost' = RemoveFirstMatch(fromHost, IsCaps)
      /\ UNCHANGED <<hostCaps, atHost, disowned>>
  BY DEF QueryFails, Settle, Wakes
<1>2. /\ toHost' \in Seq(ToHostMsgs) /\ Distinct(toHost')
      /\ \A k \in DOMAIN toHost' :
           /\ ~IsQuery(toHost'[k])
           /\ \E j \in DOMAIN toHost : toHost'[k] = toHost[j]
  BY <1>1, QueryTakenOff DEF PipeTypeOK, RequestsInOnePlace
<1>3. /\ fromHost' \in Seq(FromHostMsgs) /\ Distinct(fromHost')
      /\ \A k \in DOMAIN fromHost' :
           /\ ~IsCaps(fromHost'[k])
           /\ \E j \in DOMAIN fromHost : fromHost'[k] = fromHost[j]
  BY <1>1, CapsTakenOff DEF PipeTypeOK, RequestsInOnePlace
<1>4. Delegated' = Delegated
  BY <1>1 DEF Delegated, Waiting
<1>5. ~Asked' /\ ~Told'
  BY <1>2, <1>3 DEF Asked, Told
<1>6. Invoked' \subseteq Invoked /\ Replied' \subseteq Replied
  BY <1>2, <1>3 DEF Invoked, Replied
<1>7. RequestsInOnePlace'
  BY <1>1, <1>2, <1>3, <1>4, <1>5, <1>6 DEF RequestsInOnePlace, Distinct
<1>8. PipeTypeOK'
  BY <1>1, <1>2, <1>3 DEF PipeTypeOK
<1>9. DisownedEverywhere'
  BY <1>1, <1>3 DEF DisownedEverywhere, Listed
<1>. QED  BY <1>7, <1>8, <1>9

LEMMA AnswerPipes ==
  ASSUME PipeInv, phase \in [Calls -> Phases], DelegationAnswered
  PROVE  PipeInv'
<1>. DEFINE i == SelectInSeq(fromHost, IsAnswer)
            m == fromHost[i]
            c == m.call
<1>. USE DEF PipeInv
<1>1. /\ i # 0 /\ c \in Calls /\ phase[c] = "delegated"
      /\ phase' = [d \in Calls |-> IF d \in {c} THEN "settled" ELSE phase[d]]
      /\ cache' = CacheAfter(m.code)
      /\ disowned' = IF /\ m.code = "unsupported"
                        /\ PluginOf[c] \notin hostCaps
                        /\ ~asking
                       THEN disowned \cup {PluginOf[c]} ELSE disowned
      /\ fromHost' = RemoveAt(fromHost, i)
      /\ UNCHANGED <<asking, hostCaps, toHost, atHost>>
  BY DEF DelegationAnswered, Settle
<1>2. i \in 1 .. Len(fromHost) /\ IsAnswer(m)
  <2>. DEFINE I == {k \in 1 .. Len(fromHost) : fromHost[k].type = "answer"}
  <2>1. i = IF I # {} THEN Min(I) ELSE 0
    BY DEF SelectInSeq, IsAnswer
  <2>. HIDE DEF i
  <2>a. i # 0
    BY <1>1
  <2>b. I \in SUBSET Nat
    OBVIOUS
  <2>2. I # {} /\ i = Min(I) /\ I \in SUBSET Nat
    <3>. HIDE DEF I
    <3>. QED  BY <2>a, <2>b, <2>1
  <2>3. i \in I
    <3>. HIDE DEF I, i
    <3>. QED  BY <2>2, LeastNumber
  <2>. QED  BY <2>3 DEF IsAnswer
<1>. HIDE DEF i
<1>3. /\ fromHost' \in Seq(FromHostMsgs) /\ Distinct(fromHost')
      /\ \A k \in DOMAIN fromHost' : \E j \in DOMAIN fromHost :
            fromHost'[k] = fromHost[j] /\ ~SameRequest(fromHost[j], m)
  BY <1>1, <1>2, TakenOff DEF PipeTypeOK, RequestsInOnePlace
<1>4. i \in DOMAIN fromHost /\ m \in FromHostMsgs
  BY <1>2, Messages DEF PipeTypeOK
<1>. HIDE DEF m
<1>. HIDE DEF c
<1>5. Delegated' = Delegated \ {c}
  BY <1>1 DEF Delegated
<1>6. c \in Replied /\ c \notin Invoked /\ c \notin atHost
  BY <1>1, <1>2, <1>4 DEF Replied, RequestsInOnePlace, m, c
<1>7. Asked' = Asked /\ Invoked' = Invoked /\ Distinct(toHost')
  BY <1>1 DEF Asked, Invoked, RequestsInOnePlace
<1>8. Told' => Told
  BY <1>3 DEF Told
<1>9. Replied' \subseteq Replied \ {c}
  BY <1>2, <1>3 DEF Replied, SameRequest, IsAnswer, c
<1>10. RequestsInOnePlace'
  BY <1>1, <1>3, <1>5, <1>6, <1>7, <1>8, <1>9 DEF RequestsInOnePlace, Distinct
<1>11. PipeTypeOK'
  <2>1. PluginOf[c] \in Plugins
    BY <1>1, RouterAssumption
  <2>. QED  BY <1>1, <1>3, <2>1 DEF PipeTypeOK, CacheAfter
<1>12. DisownedEverywhere'
  <2>. SUFFICES ASSUME NEW p \in disowned'
                PROVE  /\ p \notin hostCaps' /\ ~Listed(p)'
                       /\ \A k \in DOMAIN fromHost' :
                            IsCaps(fromHost'[k]) => p \notin fromHost'[k].caps
    BY DEF DisownedEverywhere
  <2>1. CASE p \in disowned
    BY <1>1, <1>3, <2>1 DEF DisownedEverywhere, Listed, CacheAfter
  <2>2. CASE p \notin disowned
    <3>1. /\ m.code = "unsupported" /\ p \notin hostCaps /\ ~asking
      BY <1>1, <2>2
    <3>2. ~Told' /\ cache' = NoCache
      BY <1>1, <1>8, <3>1 DEF RequestsInOnePlace, CacheAfter
    <3>. QED  BY <1>1, <3>1, <3>2 DEF Told, Listed
  <2>. QED  BY <2>1, <2>2
<1>. QED  BY <1>10, <1>11, <1>12

LEMMA DelegationFailsPipes ==
  ASSUME PipeInv, phase \in [Calls -> Phases], NEW c \in Calls,
         DelegationFails(c)
  PROVE  PipeInv'
<1>. USE DEF PipeInv, history
<1>1. /\ phase' = [d \in Calls |-> IF d \in {c} THEN "settled" ELSE phase[d]]
      /\ cache' = NoCache
      /\ toHost' = Without(toHost, c) /\ fromHost' = Without(fromHost, c)
      /\ atHost' = atHost \ {c}
      /\ UNCHANGED <<asking, hostCaps, disowned>>
  BY DEF DelegationFails, Settle
<1>2. /\ toHost' \in Seq(ToHostMsgs) /\ Distinct(toHost')
      /\ \A k \in DOMAIN toHost' :
           /\ toHost'[k].type = "invoke" => toHost'[k].call # c
           /\ \E j \in DOMAIN toHost : toHost'[k] = toHost[j]
  <2>1. \A m \in ToHostMsgs : m.type \in {"invoke", "answer"} => m.type = "invoke"
    BY DEF ToHostMsgs
  <2>. QED  BY <1>1, <2>1, CallTakenOff DEF PipeTypeOK, RequestsInOnePlace
<1>3. /\ fromHost' \in Seq(FromHostMsgs) /\ Distinct(fromHost')
      /\ \A k \in DOMAIN fromHost' :
           /\ fromHost'[k].type = "answer" => fromHost'[k].call # c
           /\ \E j \in DOMAIN fromHost : fromHost'[k] = fromHost[j]
  <2>1. \A m \in FromHostMsgs :
          m.type \in {"invoke", "answer"} => m.type = "answer"
    BY DEF FromHostMsgs
  <2>. QED  BY <1>1, <2>1, CallTakenOff DEF PipeTypeOK, RequestsInOnePlace
<1>4. Delegated' = Delegated \ {c}
  BY <1>1 DEF Delegated
<1>5. (Asked' => Asked) /\ (Told' => Told)
  BY <1>2, <1>3 DEF Asked, Told
<1>6. Invoked' \subseteq Invoked \ {c}
  BY <1>2, Messages DEF Invoked
<1>7. Replied' \subseteq Replied \ {c}
  BY <1>3 DEF Replied, IsAnswer
<1>8. RequestsInOnePlace'
  BY <1>1, <1>2, <1>3, <1>4, <1>5, <1>6, <1>7 DEF RequestsInOnePlace, Distinct
<1>9. PipeTypeOK'
  BY <1>1, <1>2, <1>3 DEF PipeTypeOK
<1>10. DisownedEverywhere'
  BY <1>1, <1>3 DEF DisownedEverywhere, Listed
<1>. QED  BY <1>8, <1>9, <1>10

LEMMA HostReadsPipes ==
  ASSUME PipeInv, HostReads
  PROVE  PipeInv'
<1>. DEFINE m == Head(toHost)
            list == [type |-> "caps", caps |-> hostCaps]
            no == [type |-> "answer", call |-> m.call, code |-> "unsupported"]
<1>. USE DEF PipeInv, history
<1>1. /\ toHost # <<>> /\ toHost' = Tail(toHost)
      /\ UNCHANGED <<phase, cache, asking, hostCaps, disowned>>
  BY DEF HostReads
<1>2. /\ m = toHost[1] /\ 1 \in DOMAIN toHost /\ m \in ToHostMsgs
      /\ toHost' \in Seq(ToHostMsgs) /\ Distinct(toHost')
      /\ From(toHost', toHost)
      /\ \A k \in DOMAIN toHost' : ~SameRequest(toHost'[k], m)
  BY <1>1, TailTaken DEF PipeTypeOK, RequestsInOnePlace
<1>3. Delegated' = Delegated
  BY <1>1 DEF Delegated
<1>4. (Asked' => Asked) /\ Invoked' \subseteq Invoked
  BY <1>2 DEF Asked, Invoked, From
<1>5. CASE m.type = "query"
  <2>1. fromHost' = Append(fromHost, list) /\ atHost' = atHost
    BY <1>5 DEF HostReads
  <2>2. list \in FromHostMsgs
    BY DEF FromHostMsgs, PipeTypeOK
  <2>3. Asked /\ ~Told /\ asking
    BY <1>2, <1>5 DEF Asked, RequestsInOnePlace, IsQuery
  <2>4. \A i \in DOMAIN fromHost : ~SameRequest(fromHost[i], list)
    BY <2>3 DEF SameRequest, Told, IsCaps
  <2>5. /\ fromHost' \in Seq(FromHostMsgs) /\ Distinct(fromHost')
        /\ \A k \in DOMAIN fromHost' :
             \/ fromHost'[k] = list
             \/ \E j \in DOMAIN fromHost : fromHost'[k] = fromHost[j]
    BY <2>1, <2>2, <2>4, PutOn DEF PipeTypeOK, RequestsInOnePlace
  <2>6. ~Asked'
    BY <1>2, <1>5 DEF Asked, SameRequest, IsQuery
  <2>7. Replied' \subseteq Replied
    BY <2>5 DEF Replied, IsAnswer
  <2>8. RequestsInOnePlace'
    BY <1>1, <1>2, <1>3, <1>4, <2>1, <2>3, <2>5, <2>6, <2>7
       DEF RequestsInOnePlace, Distinct
  <2>9. PipeTypeOK'
    BY <1>1, <1>2, <2>1, <2>5 DEF PipeTypeOK
  <2>10. DisownedEverywhere'
    BY <1>1, <2>5 DEF DisownedEverywhere, Listed
  <2>. QED  BY <2>8, <2>9, <2>10
<1>6. CASE m.type = "invoke"
  <2>. DEFINE c == m.call
  <2>1. c \in Calls /\ c \in Invoked
    BY <1>2, <1>6 DEF ToHostMsgs, Invoked, IsQuery
  <2>2. c \in Delegated /\ c \notin atHost /\ c \notin Replied
    BY <2>1 DEF RequestsInOnePlace
  <2>3. c \notin Invoked'
    <3>1. \A k \in DOMAIN toHost' : ~IsQuery(toHost'[k]) => toHost'[k].type = "invoke"
      BY <1>2, Messages DEF From
    <3>. QED  BY <1>2, <1>6, <3>1 DEF Invoked, SameRequest
  <2>4. CASE PluginOf[c] \notin hostCaps
    <3>1. fromHost' = Append(fromHost, no) /\ atHost' = atHost
      BY <1>6, <2>4 DEF HostReads
    <3>2. no \in FromHostMsgs
      BY <2>1 DEF FromHostMsgs, Codes
    <3>3. \A i \in DOMAIN fromHost : ~SameRequest(fromHost[i], no)
      BY <2>1, <2>2 DEF SameRequest, Replied, IsAnswer
    <3>4. /\ fromHost' \in Seq(FromHostMsgs) /\ Distinct(fromHost')
          /\ \A k \in DOMAIN fromHost' :
               \/ fromHost'[k] = no
               \/ \E j \in DOMAIN fromHost : fromHost'[k] = fromHost[j]
      BY <3>1, <3>2, <3>3, PutOn DEF PipeTypeOK, RequestsInOnePlace
    <3>5. Told' => Told
      BY <3>4 DEF Told, IsCaps
    <3>6. Replied' \subseteq Replied \cup {c}
      BY <3>4 DEF Replied, IsAnswer
    <3>7. RequestsInOnePlace'
      BY <1>1, <1>2, <1>3, <1>4, <2>2, <2>3, <3>1, <3>4, <3>5, <3>6
         DEF RequestsInOnePlace, Distinct
    <3>8. PipeTypeOK'
      BY <1>1, <1>2, <3>1, <3>4 DEF PipeTypeOK
    <3>9. DisownedEverywhere'
      BY <1>1, <3>4 DEF DisownedEverywhere, Listed, IsCaps
    <3>. QED  BY <3>7, <3>8, <3>9
  <2>5. CASE PluginOf[c] \in hostCaps
    <3>1. atHost' = atHost \cup {c} /\ fromHost' = fromHost
      BY <1>6, <2>5 DEF HostReads
    <3>2. Told' = Told /\ Replied' = Replied
      BY <3>1 DEF Told, Replied
    <3>3. RequestsInOnePlace'
      BY <1>1, <1>2, <1>3, <1>4, <2>2, <2>3, <3>1, <3>2
         DEF RequestsInOnePlace, Distinct
    <3>4. PipeTypeOK'
      BY <1>1, <1>2, <2>1, <3>1 DEF PipeTypeOK
    <3>5. DisownedEverywhere'
      BY <1>1, <3>1 DEF DisownedEverywhere, Listed
    <3>. QED  BY <3>3, <3>4, <3>5
  <2>. QED  BY <2>4, <2>5
<1>. QED  BY <1>2, <1>5, <1>6 DEF ToHostMsgs

LEMMA HostFinishesPipes ==
  ASSUME PipeInv, NEW c \in Calls, HostFinishes(c)
  PROVE  PipeInv'
<1>. DEFINE done == [type |-> "answer", call |-> c, code |-> "done"]
<1>. USE DEF PipeInv, history
<1>1. /\ c \in atHost /\ atHost' = atHost \ {c}
      /\ fromHost' = Append(fromHost, done)
      /\ UNCHANGED <<phase, cache, asking, hostCaps, toHost, disowned>>
  BY DEF HostFinishes
<1>2. done \in FromHostMsgs
  BY DEF FromHostMsgs, Codes
<1>3. c \in Delegated /\ c \notin Invoked /\ c \notin Replied
  BY <1>1 DEF RequestsInOnePlace
<1>4. \A i \in DOMAIN fromHost : ~SameRequest(fromHost[i], done)
  BY <1>3 DEF SameRequest, Replied, IsAnswer
<1>5. /\ fromHost' \in Seq(FromHostMsgs) /\ Distinct(fromHost')
      /\ \A k \in DOMAIN fromHost' :
           \/ fromHost'[k] = done
           \/ \E j \in DOMAIN fromHost : fromHost'[k] = fromHost[j]
  BY <1>1, <1>2, <1>4, PutOn DEF PipeTypeOK, RequestsInOnePlace
<1>6. /\ Delegated' = Delegated /\ Asked' = Asked /\ Invoked' = Invoked
      /\ Distinct(toHost')
  BY <1>1 DEF Delegated, Asked, Invoked, RequestsInOnePlace
<1>7. Told' => Told
  BY <1>5 DEF Told, IsCaps
<1>8. Replied' \subseteq Replied \cup {c}
  BY <1>5 DEF Replied, IsAnswer
<1>9. RequestsInOnePlace'
  BY <1>1, <1>3, <1>5, <1>6, <1>7, <1>8 DEF RequestsInOnePlace, Distinct
<1>10. PipeTypeOK'
  BY <1>1, <1>5 DEF PipeTypeOK
<1>11. DisownedEverywhere'
  BY <1>1, <1>5 DEF DisownedEverywhere, Listed, IsCaps
<1>. QED  BY <1>9, <1>10, <1>11

LEMMA HostChangesPipes ==
  ASSUME PipeInv, NEW p \in Plugins, HostChanges(p)
  PROVE  PipeInv'
<1>. USE DEF PipeInv, routing
<1>1. /\ p \in HostOnly
      /\ hostCaps' = IF p \in hostCaps THEN hostCaps \ {p} ELSE hostCaps \cup {p}
      /\ disowned' = disowned \ {p}
      /\ UNCHANGED <<phase, cache, asking, toHost, fromHost, atHost>>
  BY DEF HostChanges
<1>2. PipeTypeOK'
  BY <1>1 DEF PipeTypeOK
<1>3. RequestsInOnePlace'
  BY <1>1 DEF RequestsInOnePlace, Distinct, Asked, Told, Invoked, Replied,
              Delegated
<1>4. DisownedEverywhere'
  BY <1>1 DEF DisownedEverywhere, Listed
<1>. QED  BY <1>2, <1>3, <1>4

-----------------------------------------------------------------------------
(* All of it.                                                              *)

RouterInv == SlotInv /\ SerialInv /\ PipeInv

LEMMA PipeInit == Init => PipeInv
<1>. SUFFICES ASSUME Init PROVE PipeInv
  OBVIOUS
<1>1. PipeTypeOK
  <2>1. hostCaps \subseteq Plugins
    BY RouterAssumption DEF Init, HostOnly
  <2>2. toHost \in Seq(ToHostMsgs) /\ fromHost \in Seq(FromHostMsgs)
    BY DEF Init
  <2>. QED  BY <2>1, <2>2 DEF Init, PipeTypeOK
<1>2. RequestsInOnePlace
  BY DEF Init, RequestsInOnePlace, Distinct, Asked, Told, Invoked, Replied
<1>3. DisownedEverywhere
  BY DEF Init, DisownedEverywhere
<1>. QED  BY <1>1, <1>2, <1>3 DEF PipeInv

LEMMA PipeStep == SlotInv /\ PipeInv /\ [Next]_vars => PipeInv'
<1>. SUFFICES ASSUME SlotInv, PipeInv, [Next]_vars PROVE PipeInv'
  OBVIOUS
<1>0. phase \in [Calls -> Phases]
  BY DEF SlotInv, SlotTypeOK
<1>. USE DEF history, routing
<1>1. cache \in Snapshots \cup {NoCache}
  BY DEF PipeInv, PipeTypeOK
<1>2. ASSUME UNCHANGED <<cache, asking, host, disowned>>,
             Delegated \subseteq Delegated'
      PROVE  PipeInv'
  <2>1. \A p \in Plugins : Listed(p)' => Listed(p)
    BY <1>2 DEF Listed
  <2>. QED  BY <1>1, <1>2, <2>1, PipesAlone
<1>3. ASSUME NEW c \in Calls,
             Refuse(c) \/ Admit(c) \/ Release(c) \/ TidyTail(c) \/ StartLocal(c)
      PROVE  PipeInv'
  <2>1. UNCHANGED <<cache, asking, host, disowned>>
    BY <1>3 DEF Refuse, Admit, Release, TidyTail, StartLocal
  <2>2. Delegated \subseteq Delegated'
    BY <1>0, <1>3 DEF Refuse, Admit, Release, TidyTail, StartLocal, MayStart,
                      Delegated
  <2>. QED  BY <1>2, <2>1, <2>2
<1>4. ASSUME NEW c \in Calls, StartUndeclared(c) \/ StartDenied(c) \/ AdapterDone(c)
      PROVE  PipeInv'
  <2>1. UNCHANGED <<cache, asking, host, disowned>>
    BY <1>4 DEF StartUndeclared, StartDenied, AdapterDone
  <2>2. Settle({c}) /\ phase[c] # "delegated"
    BY <1>4 DEF StartUndeclared, StartDenied, AdapterDone, MayStart
  <2>3. Delegated \subseteq Delegated'
    BY <2>2 DEF Settle, Delegated
  <2>. QED  BY <1>2, <2>1, <2>3
<1>5. ASSUME CacheAges
      PROVE  PipeInv'
  <2>1. /\ cache \in Snapshots
        /\ cache' = [cache EXCEPT !.age = IF @ = "new" THEN "aging" ELSE "old"]
        /\ UNCHANGED <<phase, asking, host, disowned>>
    BY <1>1, <1>5 DEF CacheAges
  <2>2. cache' \in Snapshots /\ cache'.caps = cache.caps
    BY <2>1 DEF Snapshots, Ages
  <2>3. \A p \in Plugins : Listed(p)' => Listed(p)
    BY <1>5, <2>2 DEF Listed, CacheAges
  <2>4. Delegated' = Delegated
    BY <2>1 DEF Delegated
  <2>. QED  BY <2>1, <2>2, <2>3, <2>4, PipesAlone
<1>6. CASE UNCHANGED vars
  <2>1. UNCHANGED <<phase, cache, asking, host, disowned>>
    BY <1>6 DEF vars, host
  <2>. QED  BY <1>2, <2>1 DEF Delegated
<1>7. ASSUME NEW c \in Calls, CallStep(c)
      PROVE  PipeInv'
  BY <1>0, <1>3, <1>4, <1>7, StartDelegatedPipes, StartWaitingPipes,
     DelegationFailsPipes, HostFinishesPipes DEF CallStep, Start
<1>. QED
  BY <1>0, <1>5, <1>6, <1>7, QueryResolvesPipes, QueryFailsPipes, AnswerPipes,
     HostReadsPipes, HostChangesPipes DEF Next

(* Well typed, whatever the calls and the host do: every slot is accounted *)
(* for, and every request the router makes of the host is in one place     *)
(* while its answer is awaited, so that no answer comes twice or for       *)
(* nobody.                                                                 *)
THEOREM RouterInStep == Spec => []Inv
<1>1. RouterInv => Inv
  BY DEF RouterInv, SlotInv, SlotTypeOK, SerialInv, SerialTypeOK, Finished,
         PipeInv, PipeTypeOK, Inv, TypeOK
<1>2. Init => RouterInv
  BY SlotInit, SerialInit, PipeInit DEF RouterInv
<1>3. RouterInv /\ [Next]_vars => RouterInv'
  BY SlotStep, SerialStep, PipeStep DEF RouterInv
<1>. QED  BY <1>1, <1>2, <1>3, PTL DEF Spec

(* Once the host has disowned a plugin with no query under way, no answer  *)
(* about its capabilities that could list the plugin is left anywhere, and *)
(* the router does not believe it available until the host adds it back.   *)
THEOREM DisownedStaysUnlisted == Spec => []DisownedNotTrusted
<1>1. RouterInv => DisownedNotTrusted
  BY DEF RouterInv, PipeInv, DisownedEverywhere, DisownedNotTrusted
<1>2. Init => RouterInv
  BY SlotInit, SerialInit, PipeInit DEF RouterInv
<1>3. RouterInv /\ [Next]_vars => RouterInv'
  BY SlotStep, SerialStep, PipeStep DEF RouterInv
<1>. QED  BY <1>1, <1>2, <1>3, PTL DEF Spec
=============================================================================
