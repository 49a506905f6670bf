---------------------- MODULE StreamNotificationProofs ----------------------
(***************************************************************************)
(* No update is missed, for every set of scopes and subscribers and every  *)
(* number of changes.                                                      *)
(***************************************************************************)
EXTENDS StreamNotification, TLAPS

(***************************************************************************)
(* Initially nothing is known of any stream, and nobody waits.             *)
(***************************************************************************)
LEMMA InitStreamInv == Init => StreamInv
<1> SUFFICES ASSUME Init PROVE StreamInv
  OBVIOUS
<1> USE StreamAssumption DEF Init, Connected, Nothing, Version, Channels
<1>1. TypeOK
  BY DEF TypeOK
<1>2. WaitersKnowRevision /\ RevisionsAreFresh
  BY DEF WaitersKnowRevision, RevisionsAreFresh
<1>3. RevisionsIdentify
  BY DEF RevisionsIdentify
<1> QED BY <1>1, <1>2, <1>3 DEF StreamInv

(***************************************************************************)
(* A change that is announced: whoever waits is woken, and what a channel  *)
(* shows changes only if its revision grows.  A pass that ends (the only   *)
(* case in which what was unannounced becomes announced) announces.        *)
(***************************************************************************)
Announced ==
    /\ NotifyAll
    /\ watched' = watched
    /\ shown' \in [Channels -> Version]
    /\ revision' \in [Channels -> Version]
    /\ \A c \in Channels : \/ revision'[c] > revision[c]
                           \/ /\ revision'[c] = revision[c]
                              /\ shown'[c] = shown[c]
                              /\ Unannounced(c)' = Unannounced(c)

(* Waking those who wait changes nothing but their phase. *)
LEMMA NotifyAllWakes ==
    ASSUME TypeOK, NotifyAll
    PROVE  /\ subscriber' \in [Subscribers ->
                 [phase : {"polling", "sending", "waiting", "woken"},
                  last : Version, held : Version, snapshot : Version,
                  delivered : Version]]
           /\ \A w \in Subscribers :
                 /\ subscriber'[w].phase # "waiting"
                 /\ subscriber'[w].phase = "sending" => subscriber[w].phase = "sending"
                 /\ subscriber'[w].last = subscriber[w].last
                 /\ subscriber'[w].held = subscriber[w].held
                 /\ subscriber'[w].snapshot = subscriber[w].snapshot
                 /\ subscriber'[w].delivered = subscriber[w].delivered
    BY DEF TypeOK, NotifyAll

(* An announced change leaves nobody with a revision that is not theirs. *)
LEMMA AnnouncedKeeps ==
    ASSUME StreamInv, Announced, metricRevision' \in Nat, passing' \in BOOLEAN,
           \A scope \in Scopes : revision'[scope] <= metricRevision'
    PROVE  StreamInv'
<1> USE DEF StreamInv, Version, Nothing
<1>1. TypeOK'
  BY NotifyAllWakes DEF Announced, TypeOK
<1>2. WaitersKnowRevision'
  BY NotifyAllWakes DEF Announced, WaitersKnowRevision
<1>3. \A c \in Channels : /\ revision[c] \in Int /\ revision'[c] \in Int
                          /\ revision[c] <= revision'[c]
  BY DEF Announced, TypeOK
<1>4. \A w \in Subscribers : /\ subscriber[w].last \in Int /\ subscriber[w].held \in Int
                             /\ watched[w] \in Channels /\ watched'[w] = watched[w]
  BY DEF TypeOK, Announced
<1>5. RevisionsAreFresh'
  <2>1. ASSUME NEW w \in Subscribers
        PROVE  /\ subscriber'[w].last <= revision'[watched'[w]]
               /\ subscriber'[w].held <= revision'[watched'[w]]
    <3>1. /\ subscriber[w].last <= revision[watched[w]]
          /\ subscriber[w].held <= revision[watched[w]]
      BY DEF RevisionsAreFresh
    <3>2. /\ subscriber'[w].last = subscriber[w].last
          /\ subscriber'[w].held = subscriber[w].held
      BY NotifyAllWakes DEF Announced
    <3> QED BY <1>3, <1>4, <3>1, <3>2
  <2> QED BY <2>1 DEF RevisionsAreFresh
<1>6. RevisionsIdentify'
  <2> SUFFICES ASSUME NEW w \in Subscribers, ~ Unannounced(watched[w])'
               PROVE  /\ subscriber'[w].last = revision'[watched'[w]] =>
                            subscriber'[w].delivered = shown'[watched'[w]]
                      /\ (subscriber'[w].phase = "sending"
                            /\ subscriber'[w].held = revision'[watched'[w]]) =>
                            subscriber'[w].snapshot = shown'[watched'[w]]
    BY DEF RevisionsIdentify
  <2> DEFINE c == watched[w]
  <2>0. c \in Channels /\ watched'[w] = c
    BY <1>4
  <2>1. /\ subscriber'[w].last = subscriber[w].last
        /\ subscriber'[w].held = subscriber[w].held
        /\ subscriber'[w].snapshot = subscriber[w].snapshot
        /\ subscriber'[w].delivered = subscriber[w].delivered
        /\ subscriber'[w].phase = "sending" => subscriber[w].phase = "sending"
    BY NotifyAllWakes DEF Announced
  <2>2. subscriber[w].last <= revision[c] /\ subscriber[w].held <= revision[c]
    BY DEF RevisionsAreFresh
  <2>3. CASE revision'[c] > revision[c]
    BY <2>0, <2>1, <2>2, <2>3, <1>3, <1>4
  <2>4. CASE /\ revision'[c] = revision[c]
             /\ shown'[c] = shown[c]
             /\ Unannounced(c)' = Unannounced(c)
    <3>1. ~ Unannounced(c)
      BY <2>0, <2>4 DEF Unannounced
    <3> QED BY <2>0, <2>1, <2>4, <3>1 DEF RevisionsIdentify
  <2> QED BY <2>0, <2>3, <2>4 DEF Announced
<1> QED BY <1>1, <1>2, <1>5, <1>6 DEF StreamInv

(* A bump raises the revisions of some channels by one. *)
LEMMA BumpRaises ==
    ASSUME NEW f \in [Channels -> Version], NEW S \in SUBSET Channels,
           \A c \in S : f[c] \in Nat
    PROVE  /\ Bump(f, S) \in [Channels -> Version]
           /\ \A c \in S : Bump(f, S)[c] > f[c] /\ Bump(f, S)[c] \in Nat
           /\ \A c \in Channels \ S : Bump(f, S)[c] = f[c]
    BY DEF Bump, Version, Nothing

(***************************************************************************)
(* The market and the stable candles have a version and a revision from    *)
(* the start.                                                              *)
(***************************************************************************)
PlainFromStart ==
    \A c \in {"market", "stable"} : shown[c] \in Nat /\ revision[c] \in Nat

(* They have them initially. *)
LEMMA InitPlain == Init => PlainFromStart
    BY StreamAssumption DEF Init, PlainFromStart, Channels

(* A bump keeps versions and revisions numbers. *)
LEMMA BumpType ==
    ASSUME NEW f \in [Channels -> Version], NEW S \in SUBSET Channels
    PROVE  Bump(f, S) \in [Channels -> Version]
    BY DEF Bump, Version, Nothing

(* A trade, with the channels it moves. *)
LEMMA TradeKeeps ==
    ASSUME StreamInv, PlainFromStart, NEW moved \in SUBSET {"market", "stable"},
           ConsumeTrade(moved)
    PROVE  StreamInv' /\ PlainFromStart'
<1> USE StreamAssumption
<1>0. /\ moved \in SUBSET Channels
      /\ shown \in [Channels -> Version] /\ revision \in [Channels -> Version]
  BY DEF Channels, StreamInv, TypeOK
<1>1. /\ shown' = Bump(shown, moved) /\ revision' = Bump(revision, moved)
      /\ \A c \in moved : shown[c] \in Nat /\ revision[c] \in Nat
  BY DEF ConsumeTrade, PlainFromStart
<1>2. /\ shown' \in [Channels -> Version] /\ revision' \in [Channels -> Version]
      /\ \A c \in moved : revision'[c] > revision[c] /\ revision'[c] \in Nat
                              /\ shown'[c] \in Nat
      /\ \A c \in Channels \ moved : revision'[c] = revision[c] /\ shown'[c] = shown[c]
  BY <1>0, <1>1, BumpRaises
<1>3. passing' = passing /\ metricRevision' = metricRevision
  BY DEF ConsumeTrade
<1>4. Announced
  <2>1. \A c \in Channels : Unannounced(c)' = Unannounced(c)
    BY <1>3 DEF Unannounced
  <2> QED BY <1>2, <2>1 DEF Announced, ConsumeTrade
<1>5. \A scope \in Scopes : revision'[scope] <= metricRevision'
  <2> SUFFICES ASSUME NEW scope \in Scopes PROVE revision'[scope] <= metricRevision'
    OBVIOUS
  <2>1. scope \in Channels \ moved
    BY DEF Channels
  <2> QED BY <1>2, <1>3, <2>1 DEF StreamInv, RevisionsAreFresh
<1>6. metricRevision' \in Nat /\ passing' \in BOOLEAN
  BY <1>3 DEF StreamInv, TypeOK
<1>7. PlainFromStart'
  <2> SUFFICES ASSUME NEW c \in {"market", "stable"}
               PROVE  shown'[c] \in Nat /\ revision'[c] \in Nat
    BY DEF PlainFromStart
  <2>1. c \in Channels
    BY DEF Channels
  <2> QED BY <1>2, <2>1 DEF PlainFromStart
<1> QED BY <1>4, <1>5, <1>6, <1>7, AnnouncedKeeps

(***************************************************************************)
(* Within a pass the stable stream moves without a notification; until the *)
(* pass ends nothing is claimed of it.                                     *)
(***************************************************************************)
LEMMA ApplyKeeps ==
    ASSUME StreamInv, PlainFromStart, ApplyCandle
    PROVE  StreamInv' /\ PlainFromStart'
<1> USE StreamAssumption DEF StreamInv
<1>0. {"stable"} \in SUBSET Channels /\ shown \in [Channels -> Version]
  BY DEF Channels, TypeOK
<1>1. /\ shown' \in [Channels -> Version]
      /\ shown'["stable"] \in Nat
      /\ \A c \in Channels \ {"stable"} : shown'[c] = shown[c]
  BY <1>0, BumpRaises DEF ApplyCandle, PlainFromStart
<1>2. TypeOK'
  BY <1>1 DEF TypeOK, ApplyCandle
<1>3. WaitersKnowRevision' /\ RevisionsAreFresh'
  BY DEF WaitersKnowRevision, RevisionsAreFresh, ApplyCandle
<1>4. RevisionsIdentify'
  <2> SUFFICES ASSUME NEW w \in Subscribers, ~ Unannounced(watched[w])'
               PROVE  /\ subscriber'[w].last = revision'[watched'[w]] =>
                            subscriber'[w].delivered = shown'[watched'[w]]
                      /\ (subscriber'[w].phase = "sending"
                            /\ subscriber'[w].held = revision'[watched'[w]]) =>
                            subscriber'[w].snapshot = shown'[watched'[w]]
    BY DEF RevisionsIdentify
  <2>1. watched[w] \in Channels \ {"stable"} /\ watched' = watched
    BY DEF TypeOK, Unannounced, ApplyCandle
  <2>2. shown'[watched[w]] = shown[watched[w]] /\ ~ Unannounced(watched[w])
    BY <1>1, <2>1 DEF Unannounced
  <2> QED BY <2>1, <2>2 DEF RevisionsIdentify, ApplyCandle
<1>5. PlainFromStart'
  <2>1. shown'["market"] \in Nat
    BY <1>1 DEF PlainFromStart, Channels
  <2> QED BY <1>1, <2>1 DEF PlainFromStart, ApplyCandle
<1> QED BY <1>2, <1>3, <1>4, <1>5

(* The end of a pass announces what it applied. *)
LEMMA EndPassKeeps ==
    ASSUME StreamInv, PlainFromStart, EndPass
    PROVE  StreamInv' /\ PlainFromStart'
<1> USE StreamAssumption
<1>0. /\ {"stable"} \in SUBSET Channels
      /\ shown \in [Channels -> Version] /\ revision \in [Channels -> Version]
  BY DEF Channels, StreamInv, TypeOK
<1>1. /\ revision' \in [Channels -> Version]
      /\ revision'["stable"] > revision["stable"] /\ revision'["stable"] \in Nat
      /\ \A c \in Channels \ {"stable"} : revision'[c] = revision[c]
  BY <1>0, BumpRaises DEF EndPass, PlainFromStart
<1>2. shown' = shown /\ metricRevision' = metricRevision /\ passing' = FALSE
  BY DEF EndPass
<1>3. Announced
  <2>1. \A c \in Channels \ {"stable"} : Unannounced(c)' = Unannounced(c)
    BY DEF Unannounced
  <2> QED BY <1>0, <1>1, <1>2, <2>1 DEF Announced, EndPass, NotifyStable
<1>4. \A scope \in Scopes : revision'[scope] <= metricRevision'
  <2> SUFFICES ASSUME NEW scope \in Scopes PROVE revision'[scope] <= metricRevision'
    OBVIOUS
  <2>1. scope \in Channels \ {"stable"}
    BY DEF Channels
  <2> QED BY <1>1, <1>2, <2>1 DEF StreamInv, RevisionsAreFresh
<1>5. PlainFromStart'
  BY <1>1, <1>2 DEF PlainFromStart, Channels
<1> QED BY <1>2, <1>3, <1>4, <1>5, AnnouncedKeeps DEF StreamInv, TypeOK

(* A summary is published under a revision that no scope has had. *)
LEMMA PublishKeeps ==
    ASSUME StreamInv, PlainFromStart, NEW scope \in Scopes, Publish(scope)
    PROVE  StreamInv' /\ PlainFromStart'
<1> USE StreamAssumption
<1>0. /\ scope \in Channels /\ scope \notin {"market", "stable"}
      /\ shown \in [Channels -> Version] /\ revision \in [Channels -> Version]
      /\ metricRevision \in Nat
  BY DEF Channels, StreamInv, TypeOK
<1>1. /\ revision' = [revision EXCEPT ![scope] = metricRevision + 1]
      /\ shown' = Bump(shown, {scope})
      /\ metricRevision' = metricRevision + 1 /\ passing' = passing
  BY DEF Publish, NextMetricRevision
<1>2. revision[scope] <= metricRevision /\ revision[scope] \in Int
  BY <1>0 DEF StreamInv, RevisionsAreFresh, Version, Nothing
<1>3. /\ revision' \in [Channels -> Version]
      /\ revision'[scope] = metricRevision + 1
      /\ \A c \in Channels \ {scope} : revision'[c] = revision[c]
  BY <1>0, <1>1 DEF Version
<1>4. shown' \in [Channels -> Version]
  BY <1>0, <1>1, BumpType
<1>5. \A c \in Channels \ {scope} : shown'[c] = shown[c]
  BY <1>1 DEF Bump
<1>6. Announced
  <2>1. \A c \in Channels : Unannounced(c)' = Unannounced(c)
    BY <1>1 DEF Unannounced
  <2>2. revision'[scope] > revision[scope]
    BY <1>0, <1>2, <1>3
  <2> QED BY <1>3, <1>4, <1>5, <2>1, <2>2 DEF Announced, Publish
<1>7. \A s \in Scopes : revision'[s] <= metricRevision'
  <2> SUFFICES ASSUME NEW s \in Scopes PROVE revision'[s] <= metricRevision'
    OBVIOUS
  <2>1. s \in Channels
    BY DEF Channels
  <2>2. CASE s = scope
    BY <1>0, <1>1, <1>3, <2>2
  <2>3. CASE s # scope
    <3>1. revision'[s] = revision[s] /\ revision[s] \in Int
      BY <1>0, <1>3, <2>1, <2>3 DEF Version, Nothing
    <3> QED BY <1>0, <1>1, <3>1 DEF StreamInv, RevisionsAreFresh
  <2> QED BY <2>2, <2>3
<1>8. PlainFromStart'
  <2> SUFFICES ASSUME NEW c \in {"market", "stable"}
               PROVE  shown'[c] \in Nat /\ revision'[c] \in Nat
    BY DEF PlainFromStart
  <2>1. c \in Channels \ {scope}
    BY <1>0 DEF Channels
  <2> QED BY <1>3, <1>5, <2>1 DEF PlainFromStart
<1>9. metricRevision' \in Nat /\ passing' \in BOOLEAN
  BY <1>0, <1>1 DEF StreamInv, TypeOK
<1> QED BY <1>6, <1>7, <1>8, <1>9, AnnouncedKeeps

(***************************************************************************)
(* A step of one subscriber's loop changes that subscriber only.           *)
(***************************************************************************)
LEMMA LoopKeeps ==
    ASSUME StreamInv, NEW w \in Subscribers, NEW next, UNCHANGED <<channelVars, watched>>,
           subscriber' = [subscriber EXCEPT ![w] = next],
           next \in [phase : {"polling", "sending", "waiting", "woken"},
                     last : Version, held : Version, snapshot : Version,
                     delivered : Version],
           next.phase = "waiting" => next.last = revision[watched[w]],
           next.last <= revision[watched[w]],
           next.held <= revision[watched[w]],
           ~ Unannounced(watched[w]) =>
               /\ next.last = revision[watched[w]] =>
                     next.delivered = shown[watched[w]]
               /\ (next.phase = "sending" /\ next.held = revision[watched[w]]) =>
                     next.snapshot = shown[watched[w]]
    PROVE  StreamInv'
<1> USE DEF StreamInv
<1>1. /\ subscriber'[w] = next
      /\ \A v \in Subscribers \ {w} : subscriber'[v] = subscriber[v]
      /\ shown' = shown /\ revision' = revision /\ metricRevision' = metricRevision
      /\ passing' = passing /\ watched' = watched
  BY DEF TypeOK, channelVars
<1>2. TypeOK'
  BY <1>1 DEF TypeOK
<1>3. WaitersKnowRevision'
  BY <1>1 DEF WaitersKnowRevision
<1>4. RevisionsAreFresh'
  BY <1>1 DEF RevisionsAreFresh
<1>5. RevisionsIdentify'
  BY <1>1 DEF RevisionsIdentify, Unannounced
<1> QED BY <1>2, <1>3, <1>4, <1>5

(* What the invariant says of one subscriber. *)
LEMMA AboutOne ==
    ASSUME StreamInv, NEW w \in Subscribers
    PROVE  /\ subscriber[w] \in [phase : {"polling", "sending", "waiting", "woken"},
                  last : Version, held : Version, snapshot : Version,
                  delivered : Version]
           /\ watched[w] \in Channels
           /\ revision[watched[w]] \in Version /\ shown[watched[w]] \in Version
           /\ -1 <= revision[watched[w]]
           /\ subscriber[w].last <= revision[watched[w]]
           /\ subscriber[w].held <= revision[watched[w]]
           /\ ~ Unannounced(watched[w]) =>
                 /\ subscriber[w].last = revision[watched[w]] =>
                       subscriber[w].delivered = shown[watched[w]]
                 /\ (subscriber[w].phase = "sending"
                       /\ subscriber[w].held = revision[watched[w]]) =>
                       subscriber[w].snapshot = shown[watched[w]]
    BY DEF StreamInv, TypeOK, RevisionsAreFresh, RevisionsIdentify, Version, Nothing

(* Polling remembers the revision together with the snapshot of it. *)
LEMMA PollKeeps ==
    ASSUME StreamInv, NEW w \in Subscribers, Poll(w)
    PROVE  StreamInv'
<1> DEFINE c == watched[w]
           sub == subscriber[w]
<1>1. CASE revision[c] # sub.last
  <2> DEFINE next == [sub EXCEPT !.phase = "sending", !.held = revision[c],
                                 !.snapshot = shown[c]]
  <2>1. subscriber' = [subscriber EXCEPT ![w] = next]
    BY <1>1 DEF Poll, StreamInv, TypeOK
  <2>2. /\ next.phase = "sending" /\ next.last = sub.last /\ next.held = revision[c]
        /\ next.snapshot = shown[c] /\ next.delivered = sub.delivered
        /\ next \in [phase : {"polling", "sending", "waiting", "woken"},
                     last : Version, held : Version, snapshot : Version,
                     delivered : Version]
    BY AboutOne
  <2>3. UNCHANGED <<channelVars, watched>>
    BY DEF Poll
  <2>4. revision[c] <= revision[c]
    BY AboutOne DEF Version, Nothing
  <2> HIDE DEF next
  <2> QED BY <1>1, <2>1, <2>2, <2>3, <2>4, AboutOne, LoopKeeps
<1>2. CASE revision[c] = sub.last
  <2> DEFINE next == [sub EXCEPT !.phase = "waiting"]
  <2>1. subscriber' = [subscriber EXCEPT ![w] = next]
    BY <1>2 DEF Poll, StreamInv, TypeOK
  <2>2. /\ next.phase = "waiting" /\ next.last = sub.last /\ next.held = sub.held
        /\ next.snapshot = sub.snapshot /\ next.delivered = sub.delivered
        /\ next \in [phase : {"polling", "sending", "waiting", "woken"},
                     last : Version, held : Version, snapshot : Version,
                     delivered : Version]
    BY AboutOne
  <2>3. UNCHANGED <<channelVars, watched>>
    BY DEF Poll
  <2> HIDE DEF next
  <2> QED BY <1>2, <2>1, <2>2, <2>3, AboutOne, LoopKeeps
<1> QED BY <1>1, <1>2

(* A send makes the snapshot what was delivered under the revision held. *)
LEMMA SentKeeps ==
    ASSUME StreamInv, NEW w \in Subscribers, Sent(w)
    PROVE  StreamInv'
<1> DEFINE c == watched[w]
           sub == subscriber[w]
           next == [phase |-> PhaseAfter(w, sub.held), last |-> sub.held,
                    held |-> Nothing, snapshot |-> Nothing,
                    delivered |-> sub.snapshot]
<1>1. subscriber' = [subscriber EXCEPT ![w] = next] /\ sub.phase = "sending"
  BY DEF Sent, RevisionSent
<1>2. /\ next.phase \in {"waiting", "polling"}
      /\ next.phase = "waiting" => sub.held = revision[c]
      /\ next.last = sub.held /\ next.held = -1
      /\ next.delivered = sub.snapshot
      /\ next \in [phase : {"polling", "sending", "waiting", "woken"},
                   last : Version, held : Version, snapshot : Version,
                   delivered : Version]
  BY AboutOne DEF PhaseAfter, Version, Nothing
<1>3. UNCHANGED <<channelVars, watched>>
  BY DEF Sent
<1> HIDE DEF next
<1> QED BY <1>1, <1>2, <1>3, AboutOne, LoopKeeps

(* Waking, and timing out, change the phase only. *)
LEMMA PhaseKeeps ==
    ASSUME StreamInv, NEW w \in Subscribers, NEW phase \in {"polling", "waiting"},
           subscriber' = [subscriber EXCEPT ![w].phase = phase],
           phase = "waiting" => subscriber[w].last = revision[watched[w]],
           UNCHANGED <<channelVars, watched>>
    PROVE  StreamInv'
<1> DEFINE sub == subscriber[w]
           next == [sub EXCEPT !.phase = phase]
<1>1. subscriber' = [subscriber EXCEPT ![w] = next]
  OBVIOUS
<1>2. /\ next.phase = phase /\ next.last = sub.last /\ next.held = sub.held
      /\ next.snapshot = sub.snapshot /\ next.delivered = sub.delivered
      /\ next \in [phase : {"polling", "sending", "waiting", "woken"},
                   last : Version, held : Version, snapshot : Version,
                   delivered : Version]
  BY AboutOne
<1> HIDE DEF next
<1>3. /\ next.phase = "waiting" => next.last = revision[watched[w]]
      /\ next.last <= revision[watched[w]]
      /\ next.held <= revision[watched[w]]
      /\ next.phase # "sending"
      /\ ~ Unannounced(watched[w]) =>
            (next.last = revision[watched[w]] => next.delivered = shown[watched[w]])
  BY <1>2, AboutOne
<1> QED BY <1>1, <1>2, <1>3, LoopKeeps

(* Nothing is lost while nothing happens. *)
LEMMA StutterKeeps ==
    ASSUME StreamInv, PlainFromStart, UNCHANGED vars
    PROVE  StreamInv' /\ PlainFromStart'
    BY DEF vars, channelVars, StreamInv, PlainFromStart, TypeOK, WaitersKnowRevision,
           RevisionsAreFresh, RevisionsIdentify, Unannounced

(***************************************************************************)
(* A remembered revision never runs ahead of what was sent, for every      *)
(* number of subscribers (main.py's loops and service.py's condition).     *)
(***************************************************************************)
THEOREM StreamInvariant == Spec => []StreamInv
<1>1. Init => StreamInv /\ PlainFromStart
  BY InitStreamInv, InitPlain
<1>2. StreamInv /\ PlainFromStart /\ [Next]_vars => StreamInv' /\ PlainFromStart'
  <2> SUFFICES ASSUME StreamInv, PlainFromStart, [Next]_vars
               PROVE  StreamInv' /\ PlainFromStart'
    OBVIOUS
  <2>1. CASE UNCHANGED vars
    BY <2>1, StutterKeeps
  <2>2. CASE Change
    <3>1. CASE ConsumeTrade({"market"})
      BY <3>1, TradeKeeps
    <3>2. CASE ConsumeTrade({"market", "stable"})
      BY <3>2, TradeKeeps
    <3>3. CASE ApplyCandle
      BY <3>3, ApplyKeeps
    <3>4. CASE EndPass
      BY <3>4, EndPassKeeps
    <3>5. ASSUME NEW scope \in Scopes, Publish(scope)
          PROVE  StreamInv' /\ PlainFromStart'
      BY <3>5, PublishKeeps
    <3> QED BY <2>2, <3>1, <3>2, <3>3, <3>4, <3>5 DEF Change
  <2>3. ASSUME NEW w \in Subscribers, Loop(w)
        PROVE  StreamInv' /\ PlainFromStart'
    <3>0. UNCHANGED channelVars
      BY <2>3 DEF Loop, Poll, Sent, Wake, Timeout
    <3>1. PlainFromStart'
      BY <3>0 DEF channelVars, PlainFromStart
    <3>2. CASE Poll(w)
      BY <3>1, <3>2, PollKeeps
    <3>3. CASE Sent(w)
      BY <3>1, <3>3, SentKeeps
    <3>4. CASE Wake(w)
      <4>1. /\ PhaseAfter(w, subscriber[w].last) \in {"polling", "waiting"}
            /\ PhaseAfter(w, subscriber[w].last) = "waiting" =>
                  subscriber[w].last = revision[watched[w]]
        BY DEF PhaseAfter
      <4> QED BY <3>1, <3>4, <4>1, PhaseKeeps DEF Wake
    <3>5. CASE Timeout(w)
      BY <3>1, <3>5, PhaseKeeps DEF Timeout
    <3> QED BY <2>3, <3>2, <3>3, <3>4, <3>5 DEF Loop
  <2> QED BY <2>1, <2>2, <2>3 DEF Next
<1> QED BY <1>1, <1>2, PTL DEF Spec

(***************************************************************************)
(* No update is missed: whoever sleeps has been sent what its stream shows.*)
(***************************************************************************)
THEOREM NoUpdateMissed == Spec => []SleepersAreCurrent
<1>1. StreamInv => SleepersAreCurrent
  BY DEF StreamInv, WaitersKnowRevision, RevisionsIdentify, SleepersAreCurrent
<1> QED BY <1>1, StreamInvariant, PTL
=============================================================================
