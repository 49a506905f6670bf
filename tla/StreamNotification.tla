-------------------------- MODULE StreamNotification --------------------------
(***************************************************************************)
(* How websocket subscribers learn of changes.  Each stream has a revision *)
(* counter, and all share one condition variable.  A subscriber's loop     *)
(* reads the revision, takes a snapshot and sends it if the revision is    *)
(* new, and waits on the condition for another revision, at most 30        *)
(* seconds.                                                                *)
(*                                                                         *)
(* A step is what a coroutine does between two places where it suspends.   *)
(* Taking a snapshot of the store is not one (its lock is never held while *)
(* its holder waits); sending is, and so is a put into the database's      *)
(* queue, which parts the candles that a finalizer pass applies from the   *)
(* notification at its end.                                                *)
(*                                                                         *)
(* What a stream shows is a version, a number that grows when the data     *)
(* under it change: the latest trades, the candles in the store, a cached  *)
(* summary.  What a snapshot makes of them by the clock (the age of a      *)
(* trade, the delay that a stable candle is held back) is left out, and so *)
(* are the stream of provisional candles, which has the loop of the stable *)
(* ones, and connections that close.                                       *)
(***************************************************************************)
EXTENDS Integers, FiniteSets

CONSTANTS Scopes,       \* the metric scopes with a stream
          Subscribers,  \* the websocket connections
          MaxChanges    \* bound: changes of what the streams show

ASSUME StreamAssumption ==
    /\ {"market", "stable"} \cap Scopes = {}
    /\ MaxChanges \in Nat

Channels == {"market", "stable"} \cup Scopes

VARIABLES
    shown,          \* channel -> the version it shows, -1 if nothing
    revision,       \* channel -> its revision, -1 if never published
    metricRevision, \* metric_revision, shared by the scopes
    passing,        \* a finalizer pass has applied candles and is not over
    watched,        \* subscriber -> the channel it is connected to
    subscriber      \* subscriber -> the state of its loop

channelVars == <<shown, revision, metricRevision, passing>>
vars        == <<channelVars, watched, subscriber>>

Nothing == -1

(***************************************************************************)
(* A new connection: last_revision is -1 and nothing is sent.              *)
(***************************************************************************)
Connected == [phase |-> "polling", last |-> Nothing, held |-> Nothing,
              snapshot |-> Nothing, delivered |-> Nothing]

Init ==
    /\ shown = [c \in Channels |-> IF c \in Scopes THEN Nothing ELSE 0]
    /\ revision = [c \in Channels |-> IF c \in Scopes THEN Nothing ELSE 0]
    /\ metricRevision = 0
    /\ passing = FALSE
    /\ watched \in [Subscribers -> Channels]
    /\ subscriber = [w \in Subscribers |-> Connected]

-----------------------------------------------------------------------------
(* Changes *)

(***************************************************************************)
(* notify_all: whoever waits for the condition will look at it again.      *)
(***************************************************************************)
NotifyAll ==
    subscriber' = [w \in Subscribers |->
                     IF subscriber[w].phase = "waiting"
                       THEN [subscriber[w] EXCEPT !.phase = "woken"]
                       ELSE subscriber[w]]

Bump(f, S) == [c \in Channels |-> IF c \in S THEN f[c] + 1 ELSE f[c]]

MayChange(c) == shown[c] < MaxChanges

(***************************************************************************)
(* A trade moves the market; a late one also revises a stable candle.      *)
(***************************************************************************)
ConsumeTrade(moved) ==
    /\ \A c \in moved : MayChange(c)
    /\ shown' = Bump(shown, moved)
    /\ revision' = Bump(revision, moved)
    /\ NotifyAll
    /\ UNCHANGED <<metricRevision, passing, watched>>

(***************************************************************************)
(* A pass of the finalizer applies a candle, and may then suspend.         *)
(***************************************************************************)
ApplyCandle ==
    /\ MayChange("stable")
    /\ shown' = Bump(shown, {"stable"})
    /\ passing' = TRUE
    /\ UNCHANGED <<revision, metricRevision, watched, subscriber>>

(* Mutant of NotifyStable: the end of a pass notifies nobody. *)
NotifyNobody == UNCHANGED subscriber

NotifyStable == NotifyAll

EndPass ==
    /\ passing
    /\ passing' = FALSE
    /\ revision' = Bump(revision, {"stable"})
    /\ NotifyStable
    /\ UNCHANGED <<shown, metricRevision, watched>>

(* Mutant of NextMetricRevision: the shared counter is never advanced. *)
SameMetricRevision == metricRevision

NextMetricRevision == metricRevision + 1

(***************************************************************************)
(* A summary of a scope is published under the next shared revision.       *)
(***************************************************************************)
Publish(scope) ==
    /\ MayChange(scope)
    /\ shown' = Bump(shown, {scope})
    /\ metricRevision' = NextMetricRevision
    /\ revision' = [revision EXCEPT ![scope] = NextMetricRevision]
    /\ NotifyAll
    /\ UNCHANGED <<passing, watched>>

-----------------------------------------------------------------------------
(* The loop of a subscriber *)

(***************************************************************************)
(* The revision and the snapshot are read in one step.                     *)
(***************************************************************************)
Poll(w) ==
    LET c == watched[w]
    IN  /\ subscriber[w].phase = "polling"
        /\ subscriber' =
             [subscriber EXCEPT ![w] =
                IF revision[c] # subscriber[w].last
                  THEN [@ EXCEPT !.phase = "sending", !.held = revision[c],
                                 !.snapshot = shown[c]]
                  ELSE [@ EXCEPT !.phase = "waiting"]]
        /\ UNCHANGED <<channelVars, watched>>

(***************************************************************************)
(* The condition is looked at: wait until the revision is another one.     *)
(***************************************************************************)
PhaseAfter(w, last) ==
    IF revision[watched[w]] = last THEN "waiting" ELSE "polling"

(* Mutant of RevisionSent: the revision is read when the send returns. *)
RevisionAfterSend(w) == revision[watched[w]]

(***************************************************************************)
(* What was sent is remembered by the revision that was read before.       *)
(***************************************************************************)
RevisionSent(w) == subscriber[w].held

Sent(w) ==
    /\ subscriber[w].phase = "sending"
    /\ subscriber' =
         [subscriber EXCEPT ![w] =
            [phase |-> PhaseAfter(w, RevisionSent(w)), last |-> RevisionSent(w),
             held |-> Nothing, snapshot |-> Nothing,
             delivered |-> subscriber[w].snapshot]]
    /\ UNCHANGED <<channelVars, watched>>

Wake(w) ==
    /\ subscriber[w].phase = "woken"
    /\ subscriber' =
         [subscriber EXCEPT ![w].phase = PhaseAfter(w, subscriber[w].last)]
    /\ UNCHANGED <<channelVars, watched>>

(***************************************************************************)
(* The wait times out, and the loop begins again.                          *)
(***************************************************************************)
Timeout(w) ==
    /\ subscriber[w].phase \in {"waiting", "woken"}
    /\ subscriber' = [subscriber EXCEPT ![w].phase = "polling"]
    /\ UNCHANGED <<channelVars, watched>>

-----------------------------------------------------------------------------

Change ==
    \/ ConsumeTrade({"market"})
    \/ ConsumeTrade({"market", "stable"})
    \/ ApplyCandle
    \/ EndPass
    \/ \E scope \in Scopes : Publish(scope)

Loop(w) == Poll(w) \/ Sent(w) \/ Wake(w) \/ Timeout(w)

Next ==
    \/ Change
    \/ \E w \in Subscribers : Loop(w)

Spec == Init /\ [][Next]_vars

(***************************************************************************)
(* Tasks that can run do, passes end (see QueueDrains of DatabaseWriter)   *)
(* and subscribers read what they are sent.  Nothing has to change, and no *)
(* timeout has to pass.                                                    *)
(***************************************************************************)
Fairness ==
    /\ WF_vars(EndPass)
    /\ \A w \in Subscribers : WF_vars(Poll(w)) /\ WF_vars(Sent(w)) /\ WF_vars(Wake(w))

FairSpec == Spec /\ Fairness

-----------------------------------------------------------------------------
(* Properties *)

Version == Nat \cup {Nothing}

(* The types of the channels and the loops. *)
TypeOK ==
    /\ shown \in [Channels -> Version]
    /\ revision \in [Channels -> Version]
    /\ metricRevision \in Nat
    /\ passing \in BOOLEAN
    /\ watched \in [Subscribers -> Channels]
    /\ subscriber \in [Subscribers ->
          [phase : {"polling", "sending", "waiting", "woken"},
           last : Version, held : Version, snapshot : Version, delivered : Version]]

(***************************************************************************)
(* A pass has applied candles the stable stream is not told of yet.        *)
(***************************************************************************)
Unannounced(c) == c = "stable" /\ passing

(***************************************************************************)
(* No update is missed: a subscriber that sleeps has been sent what its    *)
(* stream shows now, unless a pass is about to notify it; whatever changed *)
(* between its reads, its sends and its waits.                             *)
(***************************************************************************)
SleepersAreCurrent ==
    \A w \in Subscribers :
        (subscriber[w].phase = "waiting" /\ ~ Unannounced(watched[w])) =>
            subscriber[w].delivered = shown[watched[w]]

(***************************************************************************)
(* Whoever waits knows the newest revision: no notification is lost.       *)
(***************************************************************************)
WaitersKnowRevision ==
    \A w \in Subscribers :
        subscriber[w].phase = "waiting" =>
            subscriber[w].last = revision[watched[w]]

(***************************************************************************)
(* Revisions only grow, so an old one is never mistaken for the newest.    *)
(***************************************************************************)
RevisionsAreFresh ==
    /\ \A scope \in Scopes : revision[scope] <= metricRevision
    /\ \A w \in Subscribers :
          /\ subscriber[w].last <= revision[watched[w]]
          /\ subscriber[w].held <= revision[watched[w]]

(***************************************************************************)
(* The newest revision stands for what the stream shows.                   *)
(***************************************************************************)
RevisionsIdentify ==
    \A w \in Subscribers :
        ~ Unannounced(watched[w]) =>
            /\ subscriber[w].last = revision[watched[w]] =>
                  subscriber[w].delivered = shown[watched[w]]
            /\ (subscriber[w].phase = "sending"
                  /\ subscriber[w].held = revision[watched[w]]) =>
                  subscriber[w].snapshot = shown[watched[w]]

(***************************************************************************)
(* Why no update is missed: the revision a loop remembers is never ahead   *)
(* of what it has sent.  It is inductive.                                  *)
(***************************************************************************)
StreamInv ==
    /\ TypeOK
    /\ WaitersKnowRevision
    /\ RevisionsAreFresh
    /\ RevisionsIdentify

(***************************************************************************)
(* Whatever a stream shows is sent to its subscribers, or something newer. *)
(***************************************************************************)
SubscribersCatchUp ==
    \A w \in Subscribers : \A v \in 0..MaxChanges :
        shown[watched[w]] = v ~> subscriber[w].delivered >= v
=============================================================================
