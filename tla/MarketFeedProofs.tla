-------------------------- MODULE MarketFeedProofs --------------------------
(***************************************************************************)
(* Proofs about one exchange's feed: it uses the aggregator as that one's  *)
(* own specification assumes, and its outages are the seconds published as *)
(* incomplete.                                                             *)
(***************************************************************************)
EXTENDS MarketFeed, CandleAggregatorProofs, SequenceTheorems

(* The gaps of s that are remembered end at t or before. *)
EndsBy(s, t) == gaps[s] # <<>> => Last(gaps[s])[2] <= t

(***************************************************************************)
(* Gaps are marked one after the other, each up to the present, and no     *)
(* disconnect time is left while one is being marked.                      *)
(***************************************************************************)
MarkingInv ==
    /\ now <= Horizon
    /\ \A s \in Streams : EndsBy(s, now)
    /\ disconnectedSince # None =>
           /\ phase = "down"
           /\ disconnectedSince <= now
           /\ \A s \in Streams : EndsBy(s, disconnectedSince)
    /\ marking # None =>
           /\ pass = None /\ disconnectedSince = None
           /\ marking.start <= now
           /\ \A s \in marking.streams : EndsBy(s, marking.start)

(* Whatever is marked as a gap, the feed was down in. *)
GapsAreOutages ==
    /\ disconnectedSince # None => disconnectedSince..(now - 1) \subseteq offline
    /\ marking # None => marking.start..(now - 1) \subseteq offline
    /\ \A s \in Streams : \A i \in DOMAIN gaps[s] :
           /\ gaps[s][i][1] < gaps[s][i][2]
           /\ gaps[s][i][1]..(gaps[s][i][2] - 1) \subseteq offline

(* No stream of a feed that is down is being finalized. *)
DownIsIdle ==
    phase = "down" => /\ ~ connected
                      /\ pass # None => pass.streams = {} /\ pass.stream = None

(* An outage of s that is not marked yet. *)
Unmarked(s) == disconnectedSince # None \/ (marking # None /\ s \in marking.streams)

(* There is a gap for each outage at most. *)
GapsAreCounted ==
    \A s \in Streams : /\ Len(gaps[s]) <= outages
                       /\ Unmarked(s) => Len(gaps[s]) + 1 <= outages

Marked(s, t) == \E i \in DOMAIN gaps[s] : gaps[s][i][1] <= t /\ t < gaps[s][i][2]

(* Whenever the feed was down, each stream has, or is about to get, a gap. *)
OutagesAreMarked ==
    /\ \A t \in offline : t < now
    /\ (subscribeFailures = 0 /\ outages <= MaxGaps) =>
           /\ phase = "down" => disconnectedSince # None
           /\ \A t \in offline, s \in Streams :
                  \/ Marked(s, t)
                  \/ disconnectedSince # None /\ disconnectedSince <= t
                  \/ marking # None /\ s \in marking.streams /\ marking.start <= t

FeedInv ==
    /\ FeedTypeOK
    /\ MarkingInv
    /\ GapsAreOutages
    /\ OnlyOutagesAreIncomplete
    /\ DownIsIdle
    /\ GapsAreCounted
    /\ OutagesAreMarked

-----------------------------------------------------------------------------
(* The gaps *)

(***************************************************************************)
(* What mark_gap leaves in the list of a stream: the new gap is the last,  *)
(* and the others are gaps that were there, all of them if there is room.  *)
(***************************************************************************)
LEMMA GapRecorded ==
    ASSUME TypeOK, NEW s \in Streams, NEW start \in Nat, RecordGap(s, start)
    PROVE  /\ \A r \in Streams \ {s} : gaps'[r] = gaps[r]
           /\ gaps'[s] # <<>> => Last(gaps'[s]) = <<start, now>>
           /\ \A i \in DOMAIN gaps'[s] :
                  \/ gaps'[s][i] = <<start, now>>
                  \/ \E j \in DOMAIN gaps[s] : gaps'[s][i] = gaps[s][j]
           /\ Len(gaps'[s]) <= Len(gaps[s]) + 1
           /\ Len(gaps[s]) + 1 <= MaxGaps => gaps'[s] = Append(gaps[s], <<start, now>>)
<1>1. /\ gaps' = [gaps EXCEPT ![s] = Newest(Append(@, <<start, now>>), MaxGaps)]
      /\ gaps \in [Streams -> Seq(Int \X Int)] /\ MaxGaps \in Nat
      /\ <<start, now>> \in Int \X Int
  BY ParameterAssumption DEF RecordGap, TypeOK
<1>2. PICK old : old = gaps[s]
  OBVIOUS
<1>3. PICK all : all = Append(old, <<start, now>>)
  OBVIOUS
<1>4. PICK new : new = gaps'[s]
  OBVIOUS
<1>5. /\ \A r \in Streams \ {s} : gaps'[r] = gaps[r]
      /\ new = IF Len(all) > MaxGaps THEN SubSeq(all, Len(all) - MaxGaps + 1, Len(all)) ELSE all
  BY <1>1, <1>2, <1>3, <1>4 DEF Newest
<1>6. /\ old \in Seq(Int \X Int) /\ all \in Seq(Int \X Int)
      /\ Len(old) \in Nat /\ Len(all) = Len(old) + 1
      /\ DOMAIN old = 1..Len(old) /\ DOMAIN all = 1..Len(old) + 1
      /\ all[Len(old) + 1] = <<start, now>>
      /\ \A i \in 1..Len(old) : all[i] = old[i]
  BY <1>1, <1>2, <1>3
<1>7. \A i \in 1..Len(old) + 1 :
          all[i] = <<start, now>> \/ \E j \in DOMAIN old : all[i] = old[j]
  <2> TAKE i \in 1..Len(old) + 1
  <2>1. i = Len(old) + 1 \/ i \in 1..Len(old)
    BY <1>6
  <2> QED BY <1>6, <2>1
<1>8. /\ new # <<>> => Last(new) = <<start, now>>
      /\ \A i \in DOMAIN new :
             new[i] = <<start, now>> \/ \E j \in DOMAIN old : new[i] = old[j]
      /\ Len(new) <= Len(old) + 1
      /\ Len(old) + 1 <= MaxGaps => new = all
  <2>1. CASE Len(all) <= MaxGaps
    <3>1. new = all
      BY <1>1, <1>5, <1>6, <2>1
    <3>2. Last(all) = <<start, now>> /\ Len(all) <= Len(old) + 1
      BY <1>6 DEF Last
    <3> QED BY <1>6, <1>7, <3>1, <3>2
  <2>2. CASE Len(all) > MaxGaps
    <3>1. /\ Len(all) - MaxGaps + 1 \in 1..Len(all) + 1 /\ Len(all) \in 0..Len(all)
          /\ Len(all) - (Len(all) - MaxGaps + 1) + 1 = MaxGaps
          /\ MaxGaps < Len(old) + 1
      BY <1>1, <1>6, <2>2
    <3>2. new = SubSeq(all, Len(all) - MaxGaps + 1, Len(all))
      BY <1>5, <2>2
    <3> DEFINE m == Len(all) - MaxGaps + 1
               n == Len(all)
    <3>0. m \in 1..Len(all) + 1 /\ n \in (m - 1)..Len(all) /\ n - m + 1 = MaxGaps
      BY <1>1, <1>6, <2>2
    <3>3. Len(new) = MaxGaps /\ new \in Seq(Int \X Int)
          /\ \A i \in 1..MaxGaps : new[i] = all[m + i - 1]
      <4> HIDE DEF m, n
      <4>1. /\ SubSeq(all, m, n) \in Seq(Int \X Int)
            /\ Len(SubSeq(all, m, n)) = IF m <= n THEN n - m + 1 ELSE 0
            /\ \A i \in 1..n - m + 1 : SubSeq(all, m, n)[i] = all[m + i - 1]
        BY <1>6, <3>0, SubSeqProperties
      <4>2. (IF m <= n THEN n - m + 1 ELSE 0) = MaxGaps
        BY <1>1, <3>0, <1>6
      <4> QED BY <3>0, <3>2, <4>1, <4>2 DEF m, n
    <3>4. \A i \in 1..MaxGaps :
              /\ new[i] = all[Len(old) + 1 - MaxGaps + i]
              /\ Len(old) + 1 - MaxGaps + i \in 1..Len(old) + 1
      <4> TAKE i \in 1..MaxGaps
      <4>1. m + i - 1 = Len(old) + 1 - MaxGaps + i
        BY <1>1, <1>6
      <4>2. new[i] = all[Len(old) + 1 - MaxGaps + i]
        BY <3>3, <4>1
      <4> QED BY <1>1, <1>6, <3>1, <4>2
    <3>5. DOMAIN new = 1..MaxGaps
      BY <3>3
    <3>6. new # <<>> => Last(new) = <<start, now>>
      <4> SUFFICES ASSUME new # <<>> PROVE new[Len(new)] = <<start, now>>
        BY DEF Last
      <4>1. MaxGaps \in 1..MaxGaps
        BY <1>1, <3>3
      <4>2. Len(old) + 1 - MaxGaps + MaxGaps = Len(old) + 1
        BY <1>1, <1>6
      <4> QED BY <1>6, <3>3, <3>4, <4>1, <4>2
    <3>7. Len(new) <= Len(old) + 1 /\ ~ (Len(old) + 1 <= MaxGaps)
      BY <1>1, <1>6, <3>1, <3>3
    <3> QED BY <1>7, <3>4, <3>5, <3>6, <3>7
  <2> QED BY <1>1, <1>6, <2>1, <2>2
<1> QED BY <1>2, <1>3, <1>4, <1>5, <1>8

(* Nothing but mark_gap changes the gaps, and only the clock changes the clock. *)
LEMMA OthersKeepGaps ==
    /\ \A trade \in Trades : AddTrade(trade) => UNCHANGED <<gaps, now>>
    /\ PassStep => UNCHANGED <<gaps, now>>
    /\ \A active \in SUBSET Streams : FinalizeDue(active) => UNCHANGED <<gaps, now>>
    /\ Tick => UNCHANGED gaps
    /\ UNCHANGED vars => UNCHANGED <<gaps, now>>
<1>1. \A trade \in Trades : AddTrade(trade) => UNCHANGED <<gaps, now>>
  BY DEF AddTrade, AddDuplicateTrade, ReviseCachedSecond, RecoverUncachedSecond,
         AccumulateOpenSecond, DeliverFresh, Deliver, aggregator
<1>2. PassStep => UNCHANGED <<gaps, now>>
  BY DEF PassStep, BeginStream, PassOverStream, EndStream, EndPass, FinalizeSecond,
         FinalizeGapSecond, SkipSecond, FinalizeTradedSecond, FinalizeEmptySecond,
         CloseSecond, inputs, aggregator
<1>3. \A active \in SUBSET Streams : FinalizeDue(active) => UNCHANGED <<gaps, now>>
  BY DEF FinalizeDue, inputs, aggregator
<1> QED BY <1>1, <1>2, <1>3 DEF Tick, vars, inputs, aggregator

-----------------------------------------------------------------------------
(* The feed uses the aggregator as it assumes *)

(* What marking the gap of one stream does. *)
LEMMA MarkStreamEffect ==
    ASSUME FeedTypeOK, NEW s \in Streams, MarkStream(s)
    PROVE  /\ marking # None /\ marking.streams \in (SUBSET Streams) \ {{}}
           /\ marking.start \in Nat /\ s \in marking.streams
           /\ RecordGap(s, marking.start) \/ (marking.start >= now /\ UNCHANGED vars)
           /\ now' = now /\ pass' = pass /\ candles' = candles
           /\ \/ marking' = None
              \/ /\ marking' \in [streams: (SUBSET Streams) \ {{}}, start: Nat]
                 /\ marking'.start = marking.start
                 /\ marking'.streams = marking.streams \ {s}
           /\ marking.streams = {s} => marking' = None
<1>1. /\ marking # None /\ s \in marking.streams
      /\ RecordGap(s, marking.start) \/ (marking.start >= now /\ UNCHANGED vars)
      /\ marking' = IF marking.streams = {s} THEN None
                    ELSE [marking EXCEPT !.streams = @ \ {s}]
  BY DEF MarkStream
<1>2. marking \in [streams: (SUBSET Streams) \ {{}}, start: Nat]
  BY <1>1 DEF FeedTypeOK
<1>3. now' = now /\ pass' = pass /\ candles' = candles
  BY <1>1 DEF RecordGap, vars, inputs
<1>4. marking.streams # {s} => marking.streams \ {s} \in (SUBSET Streams) \ {{}}
  BY <1>1, <1>2
<1> QED BY <1>1, <1>2, <1>3, <1>4

(***************************************************************************)
(* Every step of the feed is a step of the aggregator or leaves it alone.  *)
(***************************************************************************)
LEMMA FeedStepIsStep ==
    ASSUME FeedTypeOK, MarkingInv, [FeedNext]_feedVars
    PROVE  [Next]_vars
<1>1. CASE FeedTick
  BY <1>1 DEF FeedTick, Next
<1>2. CASE CollectorStep
  BY <1>2 DEF CollectorStep, Connect, Subscribe, SubscribeFails, AcceptTopic,
              RejectTopic, Disconnect, Receive
<1>3. ASSUME NEW s \in Streams, MarkStream(s) PROVE [Next]_vars
  <2>1. marking.start \in Disconnects
    <3>1. marking.start \in Nat /\ marking.start <= now /\ now <= Horizon /\ now \in Nat
      BY <1>3, MarkStreamEffect DEF MarkingInv, FeedTypeOK, TypeOK
    <3>2. marking.start \in 0..Horizon
      BY <3>1, ParameterAssumption
    <3> QED BY <3>2, FeedAssumption
  <2>2. pass = None /\ (gaps[s] # <<>> => Last(gaps[s])[2] <= marking.start)
    BY <1>3, MarkStreamEffect DEF MarkingInv, EndsBy
  <2>3. RecordGap(s, marking.start) \/ UNCHANGED vars
    BY <1>3, MarkStreamEffect
  <2> QED BY <2>1, <2>2, <2>3 DEF Next, MarkGap
<1>4. CASE Consume
  <2>1. Head(tradeQueue) \in Trades /\ AddTrade(Head(tradeQueue))
    BY <1>4 DEF Consume, FeedTypeOK
  <2> QED BY <2>1 DEF Next
<1>5. CASE FinalizeActive
  <2>1. ActiveStreams \in SUBSET Streams /\ FinalizeDue(ActiveStreams)
    BY <1>5 DEF FinalizeActive, ActiveStreams, FeedTypeOK
  <2> QED BY <2>1 DEF Next
<1>6. CASE ContinuePass
  BY <1>6 DEF ContinuePass, Next
<1>7. CASE UNCHANGED feedVars
  BY <1>7 DEF feedVars
<1> QED BY <1>1, <1>2, <1>3, <1>4, <1>5, <1>6, <1>7 DEF FeedNext

(* Every step of the feed keeps the types. *)
LEMMA FeedTypeStep ==
    ASSUME FeedTypeOK, TypeOK', [FeedNext]_feedVars
    PROVE  FeedTypeOK'
<1>0. now \in Nat /\ now' \in Nat
  BY DEF FeedTypeOK, TypeOK
<1>1. CASE FeedTick
  BY <1>0, <1>1 DEF FeedTick, FeedTypeOK, collector, bounds
<1>2. CASE Connect
  <2>1. marking' \in {None} \cup [streams: (SUBSET Streams) \ {{}}, start: Nat]
    <3>1. CASE disconnectedSince = None
      BY <1>2, <3>1 DEF Connect
    <3>2. CASE disconnectedSince \in Nat
      BY <1>2, <3>2, FeedAssumption, NoneAssumption DEF Connect
    <3> QED BY <3>1, <3>2 DEF FeedTypeOK
  <2> QED BY <1>2, <2>1 DEF Connect, FeedTypeOK, bounds
<1>3. ASSUME NEW s \in Streams, MarkStream(s) PROVE FeedTypeOK'
  <2>1. marking' \in {None} \cup [streams: (SUBSET Streams) \ {{}}, start: Nat]
    BY <1>3, MarkStreamEffect
  <2> QED BY <1>3, <2>1 DEF MarkStream, FeedTypeOK, collector, bounds
<1>4. CASE Subscribe
  BY <1>4 DEF Subscribe, FeedTypeOK, bounds
<1>5. CASE SubscribeFails
  <2>1. phase' \in {"new", "down"} /\ subscribeFailures' \in Nat
    BY <1>5 DEF SubscribeFails, FeedTypeOK
  <2> QED BY <1>5, <2>1 DEF SubscribeFails, FeedTypeOK
<1>6. ASSUME NEW s \in Streams, AcceptTopic(s) \/ RejectTopic(s) PROVE FeedTypeOK'
  BY <1>6 DEF AcceptTopic, RejectTopic, FeedTypeOK, bounds
<1>7. CASE Disconnect
  <2>1. outages' \in Nat /\ disconnectedSince' \in Nat \cup {None}
    BY <1>0, <1>7 DEF Disconnect, FeedTypeOK
  <2> QED BY <1>7, <2>1 DEF Disconnect, FeedTypeOK
<1>8. ASSUME NEW trade \in Trades, Receive(trade) PROVE FeedTypeOK'
  BY <1>8 DEF Receive, FeedTypeOK, collector, bounds
<1>9. CASE Consume
  BY <1>9 DEF Consume, FeedTypeOK, collector, bounds
<1>10. CASE FinalizeActive \/ ContinuePass
  BY <1>10 DEF FinalizeActive, ContinuePass, FeedTypeOK, collector, bounds
<1>11. CASE UNCHANGED feedVars
  BY <1>11 DEF feedVars, FeedTypeOK, collector, bounds
<1> QED BY <1>1, <1>2, <1>3, <1>4, <1>5, <1>6, <1>7, <1>8, <1>9, <1>10, <1>11
        DEF FeedNext, CollectorStep

(* Steps that neither mark a gap nor touch what marking one goes by. *)
LEMMA QuietStepKeepsMarking ==
    ASSUME MarkingInv,
           UNCHANGED <<gaps, now, marking, disconnectedSince>>,
           disconnectedSince # None => phase' = phase,
           marking # None => pass' = pass
    PROVE  MarkingInv'
BY DEF MarkingInv, EndsBy

(* The clock goes on. *)
LEMMA TickKeepsMarking ==
    ASSUME FeedTypeOK, MarkingInv, FeedTick
    PROVE  MarkingInv'
<1>1. /\ now' = now + 1 /\ now < Horizon /\ gaps' = gaps /\ pass' = pass
      /\ marking' = None /\ disconnectedSince' = disconnectedSince /\ phase' = phase
  BY OthersKeepGaps DEF FeedTick, LoopIsFree, Tick, collector
<1>2. now \in Nat /\ Horizon \in Nat /\ gaps \in [Streams -> Seq(Int \X Int)]
      /\ (disconnectedSince # None => disconnectedSince \in Nat)
  BY ParameterAssumption DEF FeedTypeOK, TypeOK
<1>3. ASSUME NEW s \in Streams, gaps[s] # <<>>
      PROVE  Last(gaps[s])[2] \in Int
  BY <1>2, <1>3 DEF Last
<1>4. ASSUME NEW s \in Streams PROVE gaps[s] # <<>> => Last(gaps[s])[2] <= now + 1
  BY <1>2, <1>3 DEF MarkingInv, EndsBy
<1> QED BY <1>1, <1>2, <1>4 DEF MarkingInv, EndsBy

(* A connection takes the disconnect time and turns it into gaps to mark. *)
LEMMA ConnectKeepsMarking ==
    ASSUME FeedTypeOK, MarkingInv, Connect
    PROVE  MarkingInv'
<1>1. /\ gaps' = gaps /\ now' = now /\ pass' = pass /\ pass = None
      /\ disconnectedSince' = None
      /\ marking' = IF disconnectedSince = None THEN None
                    ELSE [streams |-> Streams, start |-> disconnectedSince]
  BY OthersKeepGaps DEF Connect, LoopIsFree, vars
<1>2. CASE disconnectedSince = None
  BY <1>1, <1>2 DEF MarkingInv, EndsBy
<1>3. CASE disconnectedSince # None
  <2>1. marking'.streams = Streams /\ marking'.start = disconnectedSince
    BY <1>1, <1>3
  <2> QED BY <1>1, <1>3, <2>1 DEF MarkingInv, EndsBy
<1> QED BY <1>2, <1>3

(* A connection is lost. *)
LEMMA DisconnectKeepsMarking ==
    ASSUME FeedTypeOK, MarkingInv, Disconnect
    PROVE  MarkingInv'
<1>1. /\ gaps' = gaps /\ now' = now /\ pass' = pass /\ marking' = marking /\ marking = None
      /\ phase' = "down"
      /\ disconnectedSince' = IF disconnectedSince = None THEN now ELSE disconnectedSince
  BY OthersKeepGaps DEF Disconnect, LoopIsFree, vars
<1>2. now \in Nat
  BY DEF FeedTypeOK, TypeOK
<1> QED BY <1>1, <1>2 DEF MarkingInv, EndsBy

(* The gap of one stream is marked, up to the present. *)
LEMMA MarkStreamKeepsMarking ==
    ASSUME FeedTypeOK, MarkingInv, NEW s \in Streams, MarkStream(s)
    PROVE  MarkingInv'
<1>1. /\ now' = now /\ pass' = pass /\ disconnectedSince' = disconnectedSince
      /\ marking # None /\ s \in marking.streams /\ marking.start \in Nat
      /\ \A r \in marking.streams : r \in Streams
      /\ RecordGap(s, marking.start) \/ UNCHANGED vars
      /\ \/ marking' = None
         \/ marking'.start = marking.start /\ marking'.streams = marking.streams \ {s}
  BY MarkStreamEffect DEF MarkStream
<1>2. /\ pass = None /\ disconnectedSince = None /\ marking.start <= now
      /\ \A r \in marking.streams : EndsBy(r, marking.start)
      /\ now <= Horizon /\ \A r \in Streams : EndsBy(r, now)
  BY <1>1 DEF MarkingInv
<1>3. /\ \A r \in Streams \ {s} : gaps'[r] = gaps[r]
      /\ gaps'[s] # <<>> => Last(gaps'[s])[2] <= now
  <2>1. CASE RecordGap(s, marking.start)
    <3>1. gaps'[s] # <<>> => Last(gaps'[s])[2] = now
      BY <1>1, <2>1, GapRecorded DEF FeedTypeOK
    <3> QED BY <1>1, <2>1, <3>1, GapRecorded DEF FeedTypeOK, TypeOK
  <2>2. CASE UNCHANGED vars
    BY <1>2, <2>2, OthersKeepGaps DEF EndsBy
  <2> QED BY <1>1, <2>1, <2>2
<1>4. \A r \in Streams : gaps'[r] # <<>> => Last(gaps'[r])[2] <= now
  BY <1>2, <1>3 DEF EndsBy
<1>5. marking' # None => \A r \in marking'.streams :
          gaps'[r] # <<>> => Last(gaps'[r])[2] <= marking'.start
  BY <1>1, <1>2, <1>3 DEF EndsBy
<1>6. marking' # None => marking'.start <= now
  BY <1>1, <1>2
<1> QED BY <1>1, <1>2, <1>4, <1>5, <1>6 DEF MarkingInv, EndsBy

(* Every step of the feed keeps the gaps in order. *)
LEMMA MarkingStep ==
    ASSUME FeedTypeOK, MarkingInv, [FeedNext]_feedVars
    PROVE  MarkingInv'
<1>1. CASE Subscribe \/ SubscribeFails
  BY <1>1, QuietStepKeepsMarking, OthersKeepGaps
     DEF Subscribe, SubscribeFails, LoopIsFree, vars, MarkingInv
<1>2. ASSUME NEW s \in Streams, AcceptTopic(s) \/ RejectTopic(s) PROVE MarkingInv'
  BY <1>2, QuietStepKeepsMarking, OthersKeepGaps DEF AcceptTopic, RejectTopic, vars
<1>3. ASSUME NEW trade \in Trades, Receive(trade) PROVE MarkingInv'
  BY <1>3, QuietStepKeepsMarking, OthersKeepGaps DEF Receive, vars, collector
<1>4. CASE Consume
  <2>1. Head(tradeQueue) \in Trades /\ AddTrade(Head(tradeQueue))
    BY <1>4 DEF Consume, FeedTypeOK
  <2> QED BY <1>4, <2>1, QuietStepKeepsMarking, OthersKeepGaps
          DEF Consume, LoopIsFree, collector
<1>5. CASE FinalizeActive
  <2>1. ActiveStreams \in SUBSET Streams /\ FinalizeDue(ActiveStreams)
    BY <1>5 DEF FinalizeActive, ActiveStreams, FeedTypeOK
  <2> QED BY <1>5, <2>1, QuietStepKeepsMarking, OthersKeepGaps
          DEF FinalizeActive, LoopIsFree, collector
<1>6. CASE ContinuePass
  <2>1. marking = None
    BY <1>6 DEF ContinuePass, PassStep, BeginStream, PassOverStream, EndStream, EndPass,
                MarkingInv
  <2> QED BY <1>6, <2>1, QuietStepKeepsMarking, OthersKeepGaps DEF ContinuePass, collector
<1>7. CASE UNCHANGED feedVars
  BY <1>7, QuietStepKeepsMarking, OthersKeepGaps DEF feedVars, vars, collector
<1> QED BY <1>1, <1>2, <1>3, <1>4, <1>5, <1>6, <1>7, TickKeepsMarking, ConnectKeepsMarking,
           DisconnectKeepsMarking, MarkStreamKeepsMarking DEF FeedNext, CollectorStep

-----------------------------------------------------------------------------

(* The collector and the service keep their types, and mark gaps in order. *)
LEMMA FeedBasics == FeedSpec => [](FeedTypeOK /\ MarkingInv)
<1>1. FeedInit => FeedTypeOK /\ MarkingInv
  <2> SUFFICES ASSUME FeedInit PROVE FeedTypeOK /\ MarkingInv
    OBVIOUS
  <2>1. TypeOK
    BY InitType DEF FeedInit
  <2>2. FeedTypeOK
    <3>1. marking \in {None} \cup [streams: (SUBSET Streams) \ {{}}, start: Nat]
      BY DEF FeedInit
    <3>2. tradeQueue \in Seq(Trades) /\ disconnectedSince \in Nat \cup {None}
      BY DEF FeedInit
    <3> QED BY <2>1, <3>1, <3>2 DEF FeedInit, FeedTypeOK
  <2>3. MarkingInv
    BY ParameterAssumption DEF FeedInit, Init, MarkingInv, EndsBy
  <2> QED BY <2>2, <2>3
<1>2. FeedTypeOK /\ MarkingInv /\ [FeedNext]_feedVars => (FeedTypeOK /\ MarkingInv)'
  <2> SUFFICES ASSUME FeedTypeOK, MarkingInv, [FeedNext]_feedVars
               PROVE  FeedTypeOK' /\ MarkingInv'
    OBVIOUS
  <2>1. TypeOK'
    BY FeedStepIsStep, NextType DEF FeedTypeOK
  <2> QED BY <2>1, FeedTypeStep, MarkingStep
<1> QED BY <1>1, <1>2, PTL DEF FeedSpec

(***************************************************************************)
(* The collector, the trade queue, the service and the aggregator keep     *)
(* their types, through every loss of the connection.                      *)
(***************************************************************************)
THEOREM FeedTypeCorrect == FeedSpec => []FeedTypeOK
BY FeedBasics, PTL

(***************************************************************************)
(* The feed implements the aggregator's specification: each of its steps   *)
(* is a step of the aggregator or leaves it alone.  What is to be shown is *)
(* that handle_connection_state marks gaps forward in time and one after   *)
(* the other, and that nothing happens within a finalizer pass; then every *)
(* theorem about the aggregator is one about the feed.                     *)
(***************************************************************************)
THEOREM FeedImplementsAggregator == FeedSpec => ImplementsAggregator
<1>1. FeedInit => Init
  BY DEF FeedInit
<1>2. FeedTypeOK /\ MarkingInv /\ [FeedNext]_feedVars => [Next]_vars
  BY FeedStepIsStep
<1> QED BY <1>1, <1>2, FeedBasics, PTL DEF FeedSpec, ImplementsAggregator, Spec

-----------------------------------------------------------------------------
(* Outages and incomplete seconds *)

(* The statuses a second has been published with, once a candle is added. *)
LEMMA PublishStatus ==
    ASSUME TypeOK, NEW key \in Key, NEW candle \in Candle, Publish(key, candle),
           NEW k, NEW status, PublishedAs(k, status)'
    PROVE  PublishedAs(k, status) \/ (k = key /\ status = candle.status)
<1>1. /\ DOMAIN candles' = DOMAIN candles \cup {key}
      /\ \A j \in DOMAIN candles : j # key => candles'[j] = candles[j]
      /\ Published(key) \in Seq(Candle)
      /\ candles'[key] = Append(Published(key), candle)
  BY PublishEffect
<1>2. PICK i \in DOMAIN Published(k)' : Published(k)'[i].status = status
  BY DEF PublishedAs
<1>3. CASE k # key
  <2>1. Published(k)' = Published(k)
    BY <1>1, <1>3 DEF Published
  <2> QED BY <1>2, <2>1 DEF PublishedAs
<1>4. CASE k = key
  <2>1. Published(k)' = Append(Published(k), candle)
    BY <1>1, <1>4 DEF Published
  <2>2. PICK old \in Seq(Candle) : old = Published(k)
    BY <1>1, <1>4
  <2>3. i \in 1..Len(old) + 1 /\ Append(old, candle)[i].status = status
    BY <1>2, <2>1, <2>2
  <2>4. CASE i = Len(old) + 1
    BY <1>4, <2>2, <2>3, <2>4
  <2>5. CASE i \in 1..Len(old)
    <3>1. i \in DOMAIN old /\ old[i].status = status
      BY <2>2, <2>3, <2>5
    <3> QED BY <2>2, <3>1 DEF PublishedAs
  <2> QED BY <2>2, <2>3, <2>4, <2>5
<1> QED BY <1>3, <1>4

(***************************************************************************)
(* A second is first published as complete or incomplete by the pass that  *)
(* is at it, as incomplete if, and only if, it has a gap.                  *)
(***************************************************************************)
LEMMA NewlyPublished ==
    ASSUME TypeOK, [Next]_vars, NEW k,
           NEW status \in {"complete", "complete_empty", "incomplete"},
           PublishedAs(k, status)', ~ PublishedAs(k, status)
    PROVE  /\ pass # None /\ pass.stream # None
           /\ k \in Key /\ k[1] = pass.stream
           /\ HasGap(k) <=> status = "incomplete"
<1>1. ~ UNCHANGED candles
  BY DEF PublishedAs, Published
<1>2. ASSUME NEW trade \in Trades, AddTrade(trade) PROVE FALSE
  <2>1. KeyOf(trade) \in Key
    BY KeyOfType
  <2>2. ASSUME ReviseCachedSecond(trade) PROVE FALSE
    <3> DEFINE revised == [Apply(finalized[KeyOf(trade)], trade) EXCEPT !.revision = @ + 1]
    <3>1. Apply(finalized[KeyOf(trade)], trade) \in State
      BY <2>2, ApplyType DEF ReviseCachedSecond, TypeOK
    <3>2. revised \in State
      BY <3>1 DEF State
    <3>3. Finalize(revised, "recovered") \in Candle
          /\ Finalize(revised, "recovered").status = "recovered"
      BY <3>2, FinalizeType DEF Status, Finalize
    <3>4. Publish(KeyOf(trade), Finalize(revised, "recovered"))
      BY <2>2 DEF ReviseCachedSecond
    <3> HIDE DEF revised
    <3> QED BY <2>1, <3>3, <3>4, PublishStatus
  <2>3. ASSUME RecoverUncachedSecond(trade) PROVE FALSE
    <3> DEFINE recovered == [FromTrade(trade) EXCEPT !.revision = 2]
    <3>1. recovered \in State
      BY FromTradeType DEF State
    <3>2. Finalize(recovered, "recovered") \in Candle
          /\ Finalize(recovered, "recovered").status = "recovered"
      BY <3>1, FinalizeType DEF Status, Finalize
    <3>3. Publish(KeyOf(trade), Finalize(recovered, "recovered"))
      BY <2>3 DEF RecoverUncachedSecond
    <3> HIDE DEF recovered
    <3> QED BY <2>1, <3>2, <3>3, PublishStatus
  <2> QED BY <1>1, <1>2, <2>2, <2>3 DEF AddTrade, AddDuplicateTrade, AccumulateOpenSecond
<1>3. pass # None /\ FinalizeSecond(<<pass.stream, pass.at>>)
  BY <1>1, <1>2 DEF Next, Tick, MarkGap, RecordGap, FinalizeDue, PassStep, BeginStream,
                    PassOverStream, EndStream, EndPass, vars
<1> DEFINE key == <<pass.stream, pass.at>>
<1>4. FinalizeGapSecond(key) \/ FinalizeTradedSecond(key) \/ FinalizeEmptySecond(key)
  BY <1>1, <1>3 DEF FinalizeSecond, SkipSecond
<1>5. IterateOn(key) /\ pass.stream # None
  BY <1>4 DEF FinalizeGapSecond, FinalizeTradedSecond, FinalizeEmptySecond, IterateOn
<1>6. key \in Key /\ key[1] = pass.stream
  BY <1>5, IterateType
<1> HIDE DEF key
<1>7. ASSUME NEW state \in State, CloseSecond(key, state)
      PROVE  k = key /\ (HasGap(k) <=> status = "incomplete")
  <2> DEFINE given == IF HasGap(key) THEN "incomplete" ELSE ResolvedStatus(state)
  <2>1. given \in Status /\ (HasGap(key) <=> given = "incomplete")
    BY DEF ResolvedStatus, Status
  <2>2. Publish(key, Finalize(state, given))
    BY <1>7 DEF CloseSecond
  <2> HIDE DEF given
  <2>3. Finalize(state, given) \in Candle /\ Finalize(state, given).status = given
    BY <2>1, FinalizeType DEF Finalize
  <2>4. k = key /\ status = given
    BY <1>6, <2>2, <2>3, PublishStatus
  <2> QED BY <2>1, <2>4
<1>8. CASE FinalizeGapSecond(key)
  <2>1. Publish(key, IncompleteCandle) /\ HasGap(key)
    BY <1>8 DEF FinalizeGapSecond
  <2>2. k = key /\ status = IncompleteCandle.status
    BY <1>6, <2>1, IncompleteCandleType, PublishStatus
  <2> QED BY <1>3, <1>5, <1>6, <2>1, <2>2 DEF IncompleteCandle
<1>9. CASE FinalizeTradedSecond(key)
  BY <1>3, <1>5, <1>6, <1>7, <1>9 DEF FinalizeTradedSecond, TypeOK
<1>10. CASE FinalizeEmptySecond(key)
  <2>1. lastClose[key[1]] \in Nat
    BY <1>6, <1>10 DEF FinalizeEmptySecond, Key, Price, TypeOK
  <2>2. EmptyState(key[2], lastClose[key[1]]) \in State
    BY <1>6, <2>1, EmptyStateType DEF Key
  <2> QED BY <1>3, <1>5, <1>6, <1>7, <1>10, <2>2 DEF FinalizeEmptySecond
<1> QED BY <1>4, <1>8, <1>9, <1>10

(* A feed that is down finalizes nothing. *)
LEMMA DownStep ==
    ASSUME FeedTypeOK, DownIsIdle, [FeedNext]_feedVars
    PROVE  DownIsIdle'
<1> SUFFICES ASSUME phase' = "down"
             PROVE  ~ connected' /\ (pass' # None => pass'.streams = {} /\ pass'.stream = None)
  BY DEF DownIsIdle
<1>1. CASE FeedTick
  BY <1>1 DEF FeedTick, Tick, collector, DownIsIdle
<1>2. CASE Connect \/ Subscribe
  BY <1>2 DEF Connect, Subscribe
<1>3. CASE SubscribeFails \/ Disconnect
  BY <1>3 DEF SubscribeFails, Disconnect, LoopIsFree, vars
<1>4. ASSUME NEW s \in Streams, AcceptTopic(s) \/ RejectTopic(s) \/ MarkStream(s)
      PROVE  ~ connected' /\ (pass' # None => pass'.streams = {} /\ pass'.stream = None)
  BY <1>4, MarkStreamEffect
     DEF AcceptTopic, RejectTopic, MarkStream, vars, collector, DownIsIdle
<1>5. ASSUME NEW trade \in Trades, Receive(trade)
      PROVE  ~ connected' /\ (pass' # None => pass'.streams = {} /\ pass'.stream = None)
  BY <1>5 DEF Receive, vars, collector, DownIsIdle
<1>6. CASE Consume
  <2>1. pass' = pass
    BY <1>6 DEF Consume, AddTrade, AddDuplicateTrade, ReviseCachedSecond,
                RecoverUncachedSecond, AccumulateOpenSecond, DeliverFresh, Deliver
  <2> QED BY <1>6, <2>1 DEF Consume, collector, DownIsIdle
<1>7. CASE FinalizeActive
  <2>1. ~ connected /\ connected' = connected
    BY <1>7 DEF FinalizeActive, collector, DownIsIdle
  <2>2. pass' = [streams |-> {}, stream |-> None, at |-> 0]
    BY <1>7, <2>1 DEF FinalizeActive, FinalizeDue, ActiveStreams
  <2> QED BY <2>1, <2>2
<1>8. CASE ContinuePass
  <2>1. ~ connected' /\ (pass # None => pass.streams = {} /\ pass.stream = None)
    BY <1>8 DEF ContinuePass, collector, DownIsIdle
  <2>2. ASSUME NEW s \in Streams, BeginStream(s) \/ PassOverStream(s) PROVE FALSE
    BY <2>1, <2>2 DEF BeginStream, PassOverStream
  <2>3. ASSUME FinalizeSecond(<<pass.stream, pass.at>>) PROVE FALSE
    BY <2>1, <2>3 DEF FinalizeSecond, FinalizeGapSecond, SkipSecond, FinalizeTradedSecond,
                      FinalizeEmptySecond, IterateOn
  <2>4. ~ EndStream
    BY <2>1 DEF EndStream
  <2>5. EndPass
    BY <1>8, <2>2, <2>3, <2>4 DEF ContinuePass, PassStep
  <2> QED BY <2>1, <2>5 DEF EndPass
<1>9. CASE UNCHANGED feedVars
  BY <1>9 DEF feedVars, vars, collector, DownIsIdle
<1> QED BY <1>1, <1>2, <1>3, <1>4, <1>5, <1>6, <1>7, <1>8, <1>9 DEF FeedNext, CollectorStep

(***************************************************************************)
(* The steps of the feed that leave the gaps, the clock, the time of the   *)
(* disconnect and the marking of gaps as they are.                         *)
(***************************************************************************)
QuietStep ==
    /\ UNCHANGED <<gaps, now, disconnectedSince, marking, offline, outages>>
    /\ subscribeFailures' = subscribeFailures \/ subscribeFailures' > 0
    /\ phase' = "down" => phase = "down" \/ subscribeFailures' > 0

(* Every step but these four is a quiet one. *)
LEMMA FeedStepKinds ==
    ASSUME FeedTypeOK, [FeedNext]_feedVars
    PROVE  \/ FeedTick \/ Connect \/ Disconnect \/ QuietStep
           \/ \E s \in Streams : MarkStream(s)
<1>1. CASE Subscribe
  BY <1>1, OthersKeepGaps DEF Subscribe, bounds, QuietStep
<1>2. CASE SubscribeFails
  <2>1. subscribeFailures' > 0
    BY <1>2 DEF SubscribeFails, FeedTypeOK
  <2> QED BY <1>2, <2>1, OthersKeepGaps DEF SubscribeFails, QuietStep
<1>3. ASSUME NEW s \in Streams, AcceptTopic(s) \/ RejectTopic(s) PROVE QuietStep
  BY <1>3, OthersKeepGaps DEF AcceptTopic, RejectTopic, bounds, QuietStep
<1>4. ASSUME NEW trade \in Trades, Receive(trade) PROVE QuietStep
  BY <1>4, OthersKeepGaps DEF Receive, bounds, collector, QuietStep
<1>5. CASE Consume
  <2>1. Head(tradeQueue) \in Trades /\ AddTrade(Head(tradeQueue))
    BY <1>5 DEF Consume, FeedTypeOK
  <2> QED BY <1>5, <2>1, OthersKeepGaps DEF Consume, bounds, collector, QuietStep
<1>6. CASE FinalizeActive
  <2>1. ActiveStreams \in SUBSET Streams /\ FinalizeDue(ActiveStreams)
    BY <1>6 DEF FinalizeActive, ActiveStreams, FeedTypeOK
  <2> QED BY <1>6, <2>1, OthersKeepGaps DEF FinalizeActive, bounds, collector, QuietStep
<1>7. CASE ContinuePass
  BY <1>7, OthersKeepGaps DEF ContinuePass, bounds, collector, QuietStep
<1>8. CASE UNCHANGED feedVars
  BY <1>8, OthersKeepGaps DEF feedVars, bounds, collector, QuietStep
<1> QED BY <1>1, <1>2, <1>3, <1>4, <1>5, <1>6, <1>7, <1>8 DEF FeedNext, CollectorStep

(* Every step marks as gaps only what the feed was down in. *)
LEMMA GapsAreOutagesStep ==
    ASSUME FeedTypeOK, MarkingInv, GapsAreOutages, [FeedNext]_feedVars
    PROVE  GapsAreOutages'
<1>0. now \in Nat
  BY DEF FeedTypeOK, TypeOK
<1>1. CASE FeedTick
  <2>1. /\ now' = now + 1 /\ gaps' = gaps /\ marking' = None
        /\ disconnectedSince' = disconnectedSince
        /\ offline \subseteq offline' /\ (phase = "down" => now \in offline')
    BY <1>1, OthersKeepGaps DEF FeedTick, LoopIsFree, Tick
  <2>2. ASSUME disconnectedSince # None, NEW t \in disconnectedSince..now
        PROVE  t \in offline'
    <3>1. /\ disconnectedSince \in Nat /\ now \in offline'
          /\ disconnectedSince..(now - 1) \subseteq offline
      BY <2>1, <2>2 DEF FeedTypeOK, MarkingInv, GapsAreOutages
    <3>2. t = now \/ t \in disconnectedSince..(now - 1)
      BY <1>0, <2>2, <3>1
    <3> QED BY <2>1, <3>1, <3>2
  <2>3. \A s \in Streams : \A i \in DOMAIN gaps'[s] :
            /\ gaps'[s][i][1] < gaps'[s][i][2]
            /\ gaps'[s][i][1]..(gaps'[s][i][2] - 1) \subseteq offline'
    BY <2>1 DEF GapsAreOutages
  <2>4. disconnectedSince' # None => disconnectedSince'..(now' - 1) \subseteq offline'
    <3>1. now' = now + 1 /\ disconnectedSince' = disconnectedSince
      BY <2>1, Zenon
    <3>2. now' - 1 = now
      BY <1>0, <3>1
    <3> QED BY <2>2, <3>1, <3>2, Zenon
  <2> QED BY <2>1, <2>3, <2>4 DEF GapsAreOutages
<1>2. CASE Connect
  <2>1. /\ now' = now /\ gaps' = gaps /\ offline' = offline /\ disconnectedSince' = None
        /\ marking' = None \/ /\ disconnectedSince # None
                              /\ marking'.start = disconnectedSince
    BY <1>2, OthersKeepGaps DEF Connect
  <2> QED BY <2>1 DEF GapsAreOutages
<1>3. CASE Disconnect
  <2>1. /\ now' = now /\ gaps' = gaps /\ offline' = offline /\ marking' = marking
        /\ disconnectedSince' = now \/ disconnectedSince' = disconnectedSince
    BY <1>3, OthersKeepGaps DEF Disconnect
  <2>2. now..(now - 1) = {}
    BY <1>0
  <2> QED BY <2>1, <2>2 DEF GapsAreOutages
<1>4. ASSUME NEW s \in Streams, MarkStream(s) PROVE GapsAreOutages'
  <2>1. /\ now' = now /\ offline' = offline /\ disconnectedSince' = disconnectedSince
        /\ marking # None /\ marking.start \in Nat
        /\ marking' = None \/ marking'.start = marking.start
        /\ RecordGap(s, marking.start) \/ UNCHANGED vars
    BY <1>4, MarkStreamEffect DEF MarkStream
  <2>2. /\ marking.start..(now - 1) \subseteq offline
        /\ \A r \in Streams : \A i \in DOMAIN gaps[r] :
               /\ gaps[r][i][1] < gaps[r][i][2]
               /\ gaps[r][i][1]..(gaps[r][i][2] - 1) \subseteq offline
    BY <2>1 DEF GapsAreOutages
  <2>3. \A r \in Streams : \A i \in DOMAIN gaps'[r] :
            /\ gaps'[r][i][1] < gaps'[r][i][2]
            /\ gaps'[r][i][1]..(gaps'[r][i][2] - 1) \subseteq offline
    <3>1. CASE UNCHANGED vars
      BY <2>2, <3>1, OthersKeepGaps
    <3>2. CASE RecordGap(s, marking.start)
      <4>1. \A r \in Streams \ {s} : gaps'[r] = gaps[r]
        BY <2>1, <3>2, GapRecorded DEF FeedTypeOK
      <4>2. ASSUME NEW i \in DOMAIN gaps'[s]
            PROVE  /\ gaps'[s][i][1] < gaps'[s][i][2]
                   /\ gaps'[s][i][1]..(gaps'[s][i][2] - 1) \subseteq offline
        <5>1. \/ gaps'[s][i] = <<marking.start, now>>
              \/ \E j \in DOMAIN gaps[s] : gaps'[s][i] = gaps[s][j]
          BY <2>1, <3>2, GapRecorded DEF FeedTypeOK
        <5>2. CASE gaps'[s][i] = <<marking.start, now>>
          <6>1. gaps'[s][i][1] = marking.start /\ gaps'[s][i][2] = now /\ marking.start < now
            BY <3>2, <5>2 DEF RecordGap
          <6> QED BY <2>2, <6>1
        <5>3. CASE \E j \in DOMAIN gaps[s] : gaps'[s][i] = gaps[s][j]
          BY <2>2, <5>3
        <5> QED BY <5>1, <5>2, <5>3
      <4> QED BY <2>2, <4>1, <4>2
    <3> QED BY <2>1, <3>1, <3>2
  <2>4. marking' # None => marking'.start..(now' - 1) \subseteq offline'
    BY <2>1, <2>2
  <2>5. disconnectedSince' # None => disconnectedSince'..(now' - 1) \subseteq offline'
    BY <2>1 DEF GapsAreOutages
  <2> QED BY <2>1, <2>3, <2>4, <2>5 DEF GapsAreOutages
<1>5. CASE QuietStep
  BY <1>5 DEF QuietStep, GapsAreOutages
<1> QED BY <1>1, <1>2, <1>3, <1>4, <1>5, FeedStepKinds

(* The feed may be down in more and more ticks, *)
LEMMA OfflineGrows ==
    ASSUME [FeedNext]_feedVars
    PROVE  /\ offline \subseteq offline'
           /\ \A t \in offline' : t \in offline \/ (t = now /\ pass = None /\ now' = now + 1)
<1>1. CASE FeedTick
  BY <1>1 DEF FeedTick, LoopIsFree, Tick
<1>2. CASE ~ FeedTick
  BY <1>2 DEF FeedNext, CollectorStep, Connect, Subscribe, SubscribeFails, AcceptTopic,
              RejectTopic, Disconnect, Receive, MarkStream, Consume, FinalizeActive,
              ContinuePass, feedVars
<1> QED BY <1>1, <1>2

(* and a second that is published as incomplete has one of them. *)
LEMMA OnlyOutagesStep ==
    ASSUME FeedTypeOK, MarkingInv, GapsAreOutages, OnlyOutagesAreIncomplete,
           [FeedNext]_feedVars
    PROVE  OnlyOutagesAreIncomplete'
<1> SUFFICES ASSUME NEW k \in DOMAIN candles', PublishedAs(k, "incomplete")'
             PROVE  TicksOf(k) \cap offline' # {}
  BY DEF OnlyOutagesAreIncomplete, TicksOf
<1>1. offline \subseteq offline'
  BY OfflineGrows
<1>2. CASE PublishedAs(k, "incomplete")
  <2>1. k \in DOMAIN candles
    BY <1>2 DEF PublishedAs, Published
  <2>2. TicksOf(k) \cap offline # {}
    BY <1>2, <2>1 DEF OnlyOutagesAreIncomplete
  <2> QED BY <1>1, <2>2
<1>3. CASE ~ PublishedAs(k, "incomplete")
  <2>1. k \in Key /\ HasGap(k)
    BY <1>3, FeedStepIsStep, NewlyPublished DEF FeedTypeOK
  <2>2. PICK i \in DOMAIN gaps[k[1]] : /\ gaps[k[1]][i][1] < k[2] + SecondMs
                                       /\ gaps[k[1]][i][2] > k[2]
    BY <2>1 DEF HasGap
  <2>3. k[1] \in Streams /\ k[2] \in Int /\ gaps[k[1]][i] \in Int \X Int
    BY <2>1 DEF Key, FeedTypeOK, TypeOK
  <2>4. PICK a \in Int, b \in Int : gaps[k[1]][i] = <<a, b>>
    BY <2>3
  <2>5. a < k[2] + SecondMs /\ b > k[2]
    BY <2>2, <2>4
  <2>6. a..(b - 1) \subseteq offline /\ a < b
    <3>1. gaps[k[1]][i][1] = a /\ gaps[k[1]][i][2] = b
      BY <2>4
    <3>2. /\ gaps[k[1]][i][1]..(gaps[k[1]][i][2] - 1) \subseteq offline
          /\ gaps[k[1]][i][1] < gaps[k[1]][i][2]
      BY <2>3 DEF GapsAreOutages
    <3> QED BY <3>1, <3>2
  <2>7. PICK t \in Int : t = IF a > k[2] THEN a ELSE k[2]
    BY <2>3
  <2>8. t \in k[2]..(k[2] + SecondMs - 1) /\ t \in a..(b - 1)
    BY <2>3, <2>5, <2>6, <2>7, SecondMsAssumption
  <2> QED BY <1>1, <2>6, <2>8 DEF TicksOf
<1> QED BY <1>2, <1>3

(* A stream that has a gap to be marked is one of the gap's streams. *)
LEMMA MarkingIsSomething ==
    ASSUME NEW m \in [streams: SUBSET Streams, start: Nat] PROVE m # None
BY FeedAssumption

(* Each outage adds one gap at most. *)
LEMMA GapsAreCountedStep ==
    ASSUME FeedTypeOK, MarkingInv, GapsAreCounted, [FeedNext]_feedVars
    PROVE  GapsAreCounted'
<1>0. /\ \A s \in Streams : Len(gaps[s]) \in Nat
      /\ outages \in Nat
  BY DEF FeedTypeOK, TypeOK
<1>1. CASE FeedTick
  BY <1>1, OthersKeepGaps DEF FeedTick, LoopIsFree, bounds, GapsAreCounted, Unmarked
<1>2. CASE Connect
  <2>1. /\ gaps' = gaps /\ outages' = outages
        /\ \A s : Unmarked(s)' => Unmarked(s)
    BY <1>2, OthersKeepGaps DEF Connect, bounds, Unmarked
  <2> QED BY <1>0, <2>1 DEF GapsAreCounted
<1>3. CASE Disconnect
  <2>1. gaps' = gaps /\ outages' = outages + 1
    BY <1>3, OthersKeepGaps DEF Disconnect
  <2> QED BY <1>0, <2>1 DEF GapsAreCounted
<1>4. ASSUME NEW s \in Streams, MarkStream(s) PROVE GapsAreCounted'
  <2>1. /\ outages' = outages /\ disconnectedSince' = disconnectedSince
        /\ disconnectedSince = None /\ Unmarked(s) /\ marking.start \in Nat
        /\ marking' = None \/ marking'.streams = marking.streams \ {s}
        /\ RecordGap(s, marking.start) \/ UNCHANGED vars
    BY <1>4, MarkStreamEffect DEF MarkStream, bounds, Unmarked, MarkingInv
  <2>2. ~ Unmarked(s)' /\ \A r : Unmarked(r)' => Unmarked(r)
    BY <1>4, <2>1, MarkStreamEffect DEF Unmarked
  <2>3. /\ \A r \in Streams \ {s} : gaps'[r] = gaps[r]
        /\ Len(gaps'[s]) <= Len(gaps[s]) + 1
    <3>1. CASE RecordGap(s, marking.start)
      BY <2>1, <3>1, GapRecorded DEF FeedTypeOK
    <3>2. CASE UNCHANGED vars
      BY <1>0, <3>2, OthersKeepGaps
    <3> QED BY <2>1, <3>1, <3>2
  <2>4. Len(gaps[s]) + 1 <= outages
    BY <2>1 DEF GapsAreCounted
  <2>5. Len(gaps'[s]) <= outages
    <3>1. Len(gaps'[s]) \in Nat
      <4>1. TypeOK'
        BY FeedStepIsStep, NextType DEF FeedTypeOK
      <4> QED BY <4>1 DEF TypeOK
    <3> QED BY <1>0, <2>3, <2>4, <3>1
  <2> QED BY <1>0, <2>1, <2>2, <2>3, <2>5 DEF GapsAreCounted
<1>5. CASE QuietStep
  BY <1>5 DEF QuietStep, GapsAreCounted, Unmarked
<1> QED BY <1>1, <1>2, <1>3, <1>4, <1>5, FeedStepKinds

(***************************************************************************)
(* Every outage is marked, or about to be: its start is kept until the     *)
(* reconnect, and the list of gaps has room for it.                        *)
(***************************************************************************)
LEMMA OutagesAreMarkedStep ==
    ASSUME FeedTypeOK, FeedTypeOK', MarkingInv, GapsAreCounted, OutagesAreMarked,
           [FeedNext]_feedVars
    PROVE  OutagesAreMarked'
<1>0. now \in Nat /\ outages \in Nat /\ outages' \in Nat /\ subscribeFailures \in Nat
      /\ MaxGaps \in Nat /\ offline \subseteq Nat
  BY ParameterAssumption DEF FeedTypeOK, TypeOK
<1>1. CASE FeedTick
  <2>1. /\ now' = now + 1 /\ gaps' = gaps /\ marking' = None /\ marking = None
        /\ disconnectedSince' = disconnectedSince /\ phase' = phase
        /\ outages' = outages /\ subscribeFailures' = subscribeFailures
        /\ offline' = IF phase = "down" THEN offline \cup {now} ELSE offline
    BY <1>1, OthersKeepGaps DEF FeedTick, LoopIsFree, Tick, bounds, collector
  <2>2. \A t \in offline' : t < now + 1
    BY <1>0, <2>1 DEF OutagesAreMarked
  <2>3. ASSUME subscribeFailures = 0, outages <= MaxGaps
        PROVE  /\ phase = "down" => disconnectedSince # None
               /\ \A t \in offline', s \in Streams :
                      Marked(s, t) \/ (disconnectedSince # None /\ disconnectedSince <= t)
    <3>1. /\ phase = "down" => disconnectedSince # None
          /\ \A t \in offline, s \in Streams :
                 Marked(s, t) \/ (disconnectedSince # None /\ disconnectedSince <= t)
      BY <2>1, <2>3 DEF OutagesAreMarked
    <3>2. disconnectedSince # None => disconnectedSince <= now
      BY DEF MarkingInv
    <3> QED BY <2>1, <3>1, <3>2
  <2>4. \A s, t : Marked(s, t) =>
            \E i \in DOMAIN gaps'[s] : gaps'[s][i][1] <= t /\ t < gaps'[s][i][2]
    BY <2>1 DEF Marked
  <2> QED BY <2>1, <2>2, <2>3, <2>4 DEF OutagesAreMarked, Marked
<1>2. CASE Connect
  <2>1. /\ now' = now /\ gaps' = gaps /\ offline' = offline /\ phase' # "down"
        /\ outages' = outages /\ subscribeFailures' = subscribeFailures /\ marking = None
        /\ disconnectedSince # None =>
               marking' = [streams |-> Streams, start |-> disconnectedSince]
    BY <1>2, OthersKeepGaps DEF Connect, LoopIsFree, bounds
  <2>2. disconnectedSince # None =>
            marking' # None /\ marking'.streams = Streams /\ marking'.start = disconnectedSince
    BY <2>1, MarkingIsSomething DEF FeedTypeOK
  <2> QED BY <2>1, <2>2 DEF OutagesAreMarked, Marked
<1>3. CASE Disconnect
  <2>1. /\ now' = now /\ gaps' = gaps /\ offline' = offline /\ marking' = marking
        /\ outages' = outages + 1 /\ subscribeFailures' = subscribeFailures
        /\ disconnectedSince' = IF disconnectedSince = None THEN now ELSE disconnectedSince
    BY <1>3, OthersKeepGaps DEF Disconnect
  <2>2. /\ disconnectedSince' # None
        /\ disconnectedSince # None => disconnectedSince' = disconnectedSince
    BY <1>0, <2>1, NoneAssumption
  <2>3. outages' <= MaxGaps => outages <= MaxGaps
    BY <1>0, <2>1
  <2> QED BY <2>1, <2>2, <2>3 DEF OutagesAreMarked, Marked
<1>4. ASSUME NEW s \in Streams, MarkStream(s) PROVE OutagesAreMarked'
  <2>1. /\ now' = now /\ offline' = offline /\ phase' = phase
        /\ outages' = outages /\ subscribeFailures' = subscribeFailures
        /\ disconnectedSince' = disconnectedSince /\ disconnectedSince = None
        /\ marking # None /\ s \in marking.streams /\ marking.start \in Nat
        /\ RecordGap(s, marking.start) \/ (marking.start >= now /\ UNCHANGED vars)
    BY <1>4, MarkStreamEffect DEF MarkStream, bounds, collector, MarkingInv
  <2>2. \A r \in marking.streams \ {s} :
            marking' # None /\ r \in marking'.streams /\ marking'.start = marking.start
    <3>1. CASE marking.streams = {s}
      BY <3>1
    <3>2. CASE marking.streams # {s}
      <4>1. marking' = [marking EXCEPT !.streams = @ \ {s}]
            /\ marking \in [streams: (SUBSET Streams) \ {{}}, start: Nat]
        BY <1>4, <2>1, <3>2 DEF MarkStream, FeedTypeOK
      <4>2. marking' \in [streams: SUBSET Streams, start: Nat]
            /\ marking'.streams = marking.streams \ {s} /\ marking'.start = marking.start
        BY <4>1
      <4> QED BY <4>2, MarkingIsSomething
    <3> QED BY <3>1, <3>2
  <2>3. \A t \in offline : t < now
    BY DEF OutagesAreMarked
  <2>4. ASSUME subscribeFailures = 0, outages <= MaxGaps,
               NEW t \in offline, NEW r \in Streams
        PROVE  \/ \E i \in DOMAIN gaps'[r] : gaps'[r][i][1] <= t /\ t < gaps'[r][i][2]
               \/ marking' # None /\ r \in marking'.streams /\ marking'.start <= t
    <3>1. \/ Marked(r, t)
          \/ r \in marking.streams /\ marking.start <= t
      BY <2>1, <2>4 DEF OutagesAreMarked
    <3>2. t < now /\ t \in Nat
      BY <1>0, <2>3
    <3>3. CASE RecordGap(s, marking.start)
      <4>1. Len(gaps[s]) + 1 <= MaxGaps
        <5>1. Len(gaps[s]) + 1 <= outages /\ Len(gaps[s]) \in Nat
          BY <2>1 DEF GapsAreCounted, Unmarked, FeedTypeOK, TypeOK
        <5> QED BY <1>0, <2>4, <5>1
      <4>2. /\ \A q \in Streams \ {s} : gaps'[q] = gaps[q]
            /\ gaps'[s] = Append(gaps[s], <<marking.start, now>>)
        BY <2>1, <3>3, <4>1, GapRecorded DEF FeedTypeOK
      <4>3. /\ \A i \in DOMAIN gaps[s] : i \in DOMAIN gaps'[s] /\ gaps'[s][i] = gaps[s][i]
            /\ Len(gaps[s]) + 1 \in DOMAIN gaps'[s]
            /\ gaps'[s][Len(gaps[s]) + 1] = <<marking.start, now>>
        <5>1. PICK old \in Seq(Int \X Int) : old = gaps[s]
          BY DEF FeedTypeOK, TypeOK
        <5>2. PICK gap : gap = <<marking.start, now>>
          OBVIOUS
        <5>3. /\ \A i \in DOMAIN old : i \in DOMAIN Append(old, gap) /\ Append(old, gap)[i] = old[i]
              /\ Len(old) + 1 \in DOMAIN Append(old, gap)
              /\ Append(old, gap)[Len(old) + 1] = gap
          OBVIOUS
        <5> QED BY <4>2, <5>1, <5>2, <5>3, Zenon
      <4>4. CASE Marked(r, t)
        BY <4>2, <4>3, <4>4 DEF Marked
      <4>5. CASE r \in marking.streams /\ marking.start <= t /\ r # s
        BY <2>2, <4>5
      <4>6. CASE marking.start <= t /\ r = s
        <5>1. /\ gaps'[s][Len(gaps[s]) + 1][1] = marking.start
              /\ gaps'[s][Len(gaps[s]) + 1][2] = now
          BY <4>3
        <5> QED BY <3>2, <4>3, <4>6, <5>1
      <4> QED BY <3>1, <4>4, <4>5, <4>6
    <3>4. CASE marking.start >= now /\ UNCHANGED vars
      <4>1. ~ (marking.start <= t)
        BY <1>0, <2>1, <3>2, <3>4
      <4>2. gaps' = gaps
        BY <3>4, OthersKeepGaps
      <4> QED BY <3>1, <4>1, <4>2 DEF Marked
    <3> QED BY <2>1, <3>3, <3>4
  <2>5. subscribeFailures = 0 /\ outages <= MaxGaps => (phase = "down" => FALSE)
    BY <2>1 DEF OutagesAreMarked
  <2> QED BY <2>1, <2>3, <2>4, <2>5 DEF OutagesAreMarked, Marked
<1>5. CASE QuietStep
  <2>1. subscribeFailures' = 0 => subscribeFailures = 0 /\ (phase' = "down" => phase = "down")
    BY <1>5 DEF QuietStep
  <2> QED BY <1>5, <2>1 DEF QuietStep, OutagesAreMarked, Marked
<1> QED BY <1>1, <1>2, <1>3, <1>4, <1>5, FeedStepKinds

(***************************************************************************)
(* A second that was closed is over: an outage that begins later does not  *)
(* touch it, if the allowed lateness covers a second.                      *)
(***************************************************************************)
LEMMA PublishedIsOver ==
    ASSUME TypeOK, FrontierSeparates, FrontierIsBehindWatermark,
           SecondMs <= AllowedLatenessMs + 1, NEW key \in DOMAIN candles
    PROVE  now \notin TicksOf(key)
<1>1. /\ key \in Key /\ key[1] \in Streams /\ key[2] \in Int /\ now \in Nat
      /\ lastFinalizedOpen[key[1]] \in Int \cup {None}
  BY DEF TypeOK, Key
<1>2. lastFinalizedOpen[key[1]] # None /\ key[2] <= lastFinalizedOpen[key[1]]
  BY DEF FrontierSeparates, IsClosed
<1>3. lastFinalizedOpen[key[1]] + AllowedLatenessMs < now
  BY <1>1, <1>2 DEF FrontierIsBehindWatermark
<1>4. key[2] + SecondMs - 1 < now
  BY <1>1, <1>2, <1>3, ParameterAssumption, SecondMsAssumption
<1> QED BY <1>1, <1>4, SecondMsAssumption DEF TicksOf

(* No step publishes a second of an outage as complete. *)
LEMMA OutagesStep ==
    ASSUME FeedTypeOK, MarkingInv, DownIsIdle, OutagesAreMarked, OutagesAreIncomplete,
           FrontierSeparates, FrontierIsBehindWatermark,
           SecondMs <= AllowedLatenessMs + 1, [FeedNext]_feedVars
    PROVE  OutagesAreIncomplete'
<1>1. subscribeFailures' = 0 /\ outages' <= MaxGaps => subscribeFailures = 0 /\ outages <= MaxGaps
  <2>1. subscribeFailures' = 0 => subscribeFailures = 0
    BY DEF FeedTypeOK, FeedNext, CollectorStep, FeedTick, Connect, Subscribe, SubscribeFails,
           AcceptTopic, RejectTopic, Disconnect, Receive, MarkStream, Consume, FinalizeActive,
           ContinuePass, feedVars, bounds
  <2>2. outages' = outages \/ outages' = outages + 1
    BY DEF FeedNext, CollectorStep, FeedTick, Connect, Subscribe, SubscribeFails,
           AcceptTopic, RejectTopic, Disconnect, Receive, MarkStream, Consume, FinalizeActive,
           ContinuePass, feedVars, bounds
  <2> QED BY <2>1, <2>2, ParameterAssumption DEF FeedTypeOK
<1> SUFFICES ASSUME subscribeFailures = 0, outages <= MaxGaps,
                    NEW key \in DOMAIN candles', NEW t \in TicksOf(key), t \in offline',
                    NEW status \in {"complete", "complete_empty"},
                    PublishedAs(key, status)'
             PROVE  FALSE
  BY <1>1 DEF OutagesAreIncomplete, TicksOf
<1>2. t \in offline \/ (t = now /\ pass = None)
  BY OfflineGrows
<1>3. CASE PublishedAs(key, status)
  <2>1. key \in DOMAIN candles
    BY <1>3 DEF PublishedAs, Published
  <2>2. t \in offline
    BY <1>2, <2>1, PublishedIsOver DEF FeedTypeOK
  <2> QED BY <1>3, <2>1, <2>2 DEF OutagesAreIncomplete
<1>4. CASE ~ PublishedAs(key, status)
  <2>1. /\ pass # None /\ pass.stream # None
        /\ key \in Key /\ key[1] = pass.stream
        /\ ~ HasGap(key)
    BY <1>4, FeedStepIsStep, NewlyPublished DEF FeedTypeOK
  <2>2. t \in offline /\ key[1] \in Streams
    BY <1>2, <2>1 DEF Key
  <2>3. disconnectedSince = None /\ marking = None
    BY <2>1 DEF DownIsIdle, MarkingInv
  <2>4. Marked(key[1], t)
    BY <2>2, <2>3 DEF OutagesAreMarked
  <2>5. PICK i \in DOMAIN gaps[key[1]] : gaps[key[1]][i][1] <= t /\ t < gaps[key[1]][i][2]
    BY <2>4 DEF Marked
  <2>6. gaps[key[1]][i][1] \in Int /\ gaps[key[1]][i][2] \in Int /\ key[2] \in Int
    BY <2>1, <2>2 DEF FeedTypeOK, TypeOK, Key
  <2>7. gaps[key[1]][i][1] < key[2] + SecondMs /\ gaps[key[1]][i][2] > key[2]
    BY <2>5, <2>6, SecondMsAssumption DEF TicksOf
  <2> QED BY <2>1, <2>7 DEF HasGap
<1> QED BY <1>3, <1>4

-----------------------------------------------------------------------------

(***************************************************************************)
(* The inductive invariant of the feed.  What is published as incomplete   *)
(* depends on the gaps that the aggregator has been given, those depend on *)
(* the disconnect time that the service keeps, and that on the phase of    *)
(* the collector.                                                          *)
(***************************************************************************)
LEMMA FeedInvariant == FeedSpec => []FeedInv
<1>1. FeedInit => GapsAreOutages /\ OnlyOutagesAreIncomplete /\ DownIsIdle
                  /\ GapsAreCounted /\ OutagesAreMarked
  <2> SUFFICES ASSUME FeedInit
               PROVE  /\ GapsAreOutages /\ OnlyOutagesAreIncomplete /\ DownIsIdle
                      /\ GapsAreCounted /\ OutagesAreMarked
    OBVIOUS
  <2>1. /\ phase = "new" /\ marking = None /\ disconnectedSince = None
        /\ offline = {} /\ outages = 0
    BY DEF FeedInit
  <2>2. /\ \A s \in Streams : gaps[s] = <<>>
        /\ DOMAIN candles = {}
    BY DEF FeedInit, Init
  <2> QED BY <2>1, <2>2 DEF GapsAreOutages, OnlyOutagesAreIncomplete, DownIsIdle,
                            GapsAreCounted, OutagesAreMarked, Unmarked
<1>2. /\ FeedTypeOK /\ FeedTypeOK' /\ MarkingInv
      /\ GapsAreOutages /\ OnlyOutagesAreIncomplete /\ DownIsIdle
      /\ GapsAreCounted /\ OutagesAreMarked /\ [FeedNext]_feedVars
      => (/\ GapsAreOutages /\ OnlyOutagesAreIncomplete /\ DownIsIdle
          /\ GapsAreCounted /\ OutagesAreMarked)'
  BY GapsAreOutagesStep, OnlyOutagesStep, DownStep, GapsAreCountedStep, OutagesAreMarkedStep
<1>3. FeedSpec => [](/\ GapsAreOutages /\ OnlyOutagesAreIncomplete /\ DownIsIdle
                     /\ GapsAreCounted /\ OutagesAreMarked)
  BY <1>1, <1>2, FeedBasics, PTL DEF FeedSpec
<1>4. /\ FeedTypeOK /\ MarkingInv
      /\ GapsAreOutages /\ OnlyOutagesAreIncomplete /\ DownIsIdle
      /\ GapsAreCounted /\ OutagesAreMarked
      => FeedInv
  BY DEF FeedInv
<1> QED BY <1>3, <1>4, FeedBasics, PTL

(***************************************************************************)
(* finalize_due publishes as incomplete only seconds the feed was down in, *)
(* whatever was late, queued or reconnected in between.                    *)
(***************************************************************************)
THEOREM OnlyOutagesAreEverIncomplete == FeedSpec => []OnlyOutagesAreIncomplete
<1>1. FeedInv => OnlyOutagesAreIncomplete
  BY DEF FeedInv
<1> QED BY <1>1, FeedInvariant, PTL

(***************************************************************************)
(* If the allowed lateness covers a second (it is 2000 ms), no second that *)
(* the feed was down in is ever published as a complete one, as long as    *)
(* every connection subscribes and there are no more outages than gaps the *)
(* aggregator remembers.  With less lateness a second is closed before it  *)
(* is over, and an outage at its end comes too late.                       *)
(***************************************************************************)
THEOREM OutagesAreAlwaysIncomplete ==
    SecondMs <= AllowedLatenessMs + 1 => (FeedSpec => []OutagesAreIncomplete)
<1> SUFFICES ASSUME SecondMs <= AllowedLatenessMs + 1
             PROVE  FeedSpec => []OutagesAreIncomplete
  OBVIOUS
<1>1. FeedInit => OutagesAreIncomplete
  BY DEF FeedInit, OutagesAreIncomplete
<1>2. /\ FeedInv /\ FrontierSeparates /\ FrontierIsBehindWatermark /\ OutagesAreIncomplete
      /\ [FeedNext]_feedVars
      => OutagesAreIncomplete'
  BY OutagesStep DEF FeedInv
<1>3. FeedSpec => []FrontierSeparates /\ []FrontierIsBehindWatermark
  <2>1. FeedSpec => Spec
    BY FeedImplementsAggregator DEF ImplementsAggregator
  <2> QED BY <2>1, FrontierSeparatesAlways, BehindWatermark, PTL
<1> QED BY <1>1, <1>2, <1>3, FeedInvariant, PTL DEF FeedSpec
=============================================================================
