-------------------------- MODULE BackfillPrograms --------------------------
(***************************************************************************)
(* The three programs that backfill historical_candles: the recovery task  *)
(* of the server (service.py), the parallel loader scripts/history.py and  *)
(* the serial one, scripts/backfill_candles.py.  A behaviour is a series   *)
(* of runs over one table; any of them may be killed at any moment, and    *)
(* the next starts over from the rows the killed one left.                 *)
(*                                                                         *)
(* `claimed` is what the runs have told their users is in the table: the   *)
(* recovery by leaving a step out of failedMarkets, with no lastError; the *)
(* parallel loader by exit status 0 without --allow-failures; the serial   *)
(* loader by its line "done".                                              *)
(***************************************************************************)
EXTENDS BackfillMarket, Sequences

CONSTANTS
    Instruments,    \* config.instruments, in their order
    ExchangeOrder,  \* config.exchanges, in their order
    Lookbacks,      \* how far the recovery may be set to go back, by timeframe
    StableDelay,    \* stable_chart_delay_ms
    Days,           \* --days of the loaders
    Untils,         \* what --until-ms may be set to, in the past or the future
    Concurrency,    \* parallel markets of the loader, by exchange
    Listings,       \* what the exchanges may have to offer
    StartTimes,     \* the clock at the beginning of a behaviour
    MaxTime,        \* bound: the clock stops here
    MaxRuns         \* bound: runs of programs in a behaviour

Import(exchange, instrument, timeframe) ==
    [kind |-> "backfill",
     job |-> [exchange |-> exchange, instrument |-> instrument, timeframe |-> timeframe]]
Repair(exchange, instrument) ==
    [kind |-> "repair",
     job |-> [exchange |-> exchange, instrument |-> instrument, timeframe |-> "1s"]]
Steps == [kind : {"backfill", "repair"}, job : Jobs]

\* The steps of one market of a recovery, each in its own try block.
RecoverySteps(exchange, instrument) ==
    (IF exchange = "binance" THEN <<Import(exchange, instrument, "1s")>> ELSE <<>>)
    \o <<Repair(exchange, instrument), Import(exchange, instrument, "1m")>>

\* The markets of the exchanges `chosen`, in the order of the nested loops.
Markets(chosen) ==
    LET n == Len(Instruments)
        All == [k \in 1 .. Len(ExchangeOrder) * n |->
                   <<ExchangeOrder[((k - 1) \div n) + 1], Instruments[((k - 1) % n) + 1]>>]
        IsChosen(market) == market[1] \in chosen /\ market[1] \in Symbols[market[2]]
    IN  SelectSeq(All, IsChosen)

RecoveryPlan(chosen) ==
    LET markets == Markets(chosen)
        Plan[k \in 0 .. Len(markets)] ==
            IF k = 0 THEN <<>>
            ELSE Plan[k - 1] \o RecoverySteps(markets[k][1], markets[k][2])
    IN  Plan[Len(markets)]

CommandPlan(chosen, timeframe) ==
    LET ImportOf(market) == Import(market[1], market[2], timeframe)
        IsSupported(market) == supports_rest_timeframe(market[1], timeframe)
        markets == SelectSeq(Markets(chosen), IsSupported)
    IN  [k \in 1 .. Len(markets) |-> ImportOf(markets[k])]

\* A plan has steps of known markets, and each of them once.
IsPlan(plan) ==
    /\ plan \in Seq(Steps)
    /\ \A i, k \in 1 .. Len(plan) : plan[i] = plan[k] => i = k

ASSUME ProgramsAssumption ==
    /\ Lookbacks \subseteq [Timeframes -> Nat]
    /\ StableDelay \in Nat /\ Days \in Int /\ Untils \subseteq Int
    /\ MaxTime \in Nat /\ StartTimes \subseteq 0 .. MaxTime /\ MaxRuns \in Nat
    /\ \A chosen \in SUBSET Exchanges :
          /\ IsPlan(RecoveryPlan(chosen))
          /\ \A timeframe \in Timeframes : IsPlan(CommandPlan(chosen, timeframe))
    /\ \A listing \in Listings :
          /\ listing \in [Jobs -> SUBSET Nat]
          /\ \A j \in Jobs : \A open \in listing[j] : open \in OpenTimes(j.timeframe)

VARIABLES
    program,    \* the program that runs, or "none"
    plan,       \* the steps of a serial program, in their order
    at,         \* the position of the step it is at
    selected,   \* the jobs of the parallel loader
    failures,   \* failed_markets of the recovery; failures of the loader
    started,    \* the clock at the start of the run
    claimed,    \* job, interval and start of what is reported to be stored
    ahead,      \* timeframe, end and start of the loads with an end in the future
    runs        \* how many runs have been started

programVars == <<plan, at, selected, started>>
vars == <<now, listed, rows, window, phase, cursor, pending, tries,
          program, plan, at, selected, started, failures, claimed, ahead, runs>>

NoWindow == [timeframe \in Timeframes |-> [from |-> 0, to |-> 0]]

Init ==
    /\ now \in StartTimes
    /\ listed \in Listings
    /\ rows = {} /\ window = NoWindow /\ NoMarkets
    /\ program = "none" /\ plan = <<>> /\ at = 1 /\ selected = {} /\ started = 0
    /\ failures = {} /\ claimed = {} /\ ahead = {} /\ runs = 0

Tick ==
    /\ now < MaxTime
    /\ now' = now + 1
    /\ UNCHANGED <<listed, rows, window, marketVars, program, programVars, failures, claimed, ahead, runs>>

Latest(a, b) == IF a > b THEN a ELSE b

StartRun(name) ==
    /\ program = "none" /\ runs < MaxRuns
    /\ program' = name /\ runs' = runs + 1 /\ started' = now
    /\ UNCHANGED <<now, listed, rows, marketVars, at, failures, claimed>>

\* Everything a run knows is gone with it; the rows stay.
EndRun(claims) ==
    /\ program' = "none" /\ plan' = <<>> /\ at' = 1 /\ selected' = {} /\ started' = 0
    /\ failures' = {} /\ window' = NoWindow
    /\ phase' = [j \in Jobs |-> "idle"]
    /\ cursor' = [j \in Jobs |-> 0]
    /\ pending' = [j \in Jobs |-> {}]
    /\ tries' = [j \in Jobs |-> NoTries]
    /\ claimed' = claimed \cup
           {[job |-> j, from |-> start_ms(j), to |-> end_ms(j), started |-> started] : j \in claims}
    /\ UNCHANGED <<now, listed, rows, ahead, runs>>

\* The program is killed, the server stops and cancels its recovery, or the
\* connection pool cannot be opened: nothing is reported as stored.
Abandon == program # "none" /\ EndRun({})
-----------------------------------------------------------------------------
\* The step a serial program is at, and the market it is about.
HasStep == program \in {"recovery", "command"} /\ at <= Len(plan)
step == plan[at]

\* Seconds are imported and repaired only if their window is not empty.
IsSkipped ==
    /\ program = "recovery" /\ step.job.timeframe = "1s"
    /\ end_ms(step.job) <= start_ms(step.job)

SerialBegin ==
    /\ HasStep /\ step.kind = "backfill" /\ ~IsSkipped
    /\ BeginMarket(step.job)
    /\ UNCHANGED <<program, programVars, failures, claimed, ahead, runs>>

SerialWork ==
    /\ HasStep /\ step.kind = "backfill"
    /\ Page(step.job) \/ AskAgain(step.job) \/ Flush(step.job)
    /\ UNCHANGED <<program, programVars, failures, claimed, ahead, runs>>

SerialReturn ==
    /\ HasStep /\ step.kind = "backfill" /\ phase[step.job] = "done"
    /\ at' = at + 1
    /\ UNCHANGED <<now, listed, rows, window, marketVars, program, plan, selected,
                   started, failures, claimed, ahead, runs>>
-----------------------------------------------------------------------------
\* At startup for every exchange, after a reconnect for the one that came
\* back.  While a recovery runs, a reconnect starts nothing.
RecoveryWindow(lookback) ==
    [timeframe \in Timeframes |->
        LET end == align_closed_end_ms(
                       IF timeframe = "1s" THEN Latest(0, now - StableDelay) ELSE now, timeframe)
        IN  [from |-> Latest(0, end - lookback[timeframe]), to |-> end]]

StartRecovery ==
    \E chosen \in {Exchanges} \cup {{e} : e \in Exchanges} :
        /\ StartRun("recovery")
        /\ \E lookback \in Lookbacks : window' = RecoveryWindow(lookback)
        /\ plan' = RecoveryPlan(chosen)
        /\ UNCHANGED <<selected, ahead>>

SkipEmptySeconds ==
    /\ HasStep /\ IsSkipped
    /\ at' = at + 1
    /\ UNCHANGED <<now, listed, rows, window, marketVars, program, plan, selected,
                   started, failures, claimed, ahead, runs>>

\* The rewrite of the stored seconds from raw trades is the writer's
\* (DatabaseWriter!Repair); here it returns or raises.
RepairSeconds ==
    /\ program = "recovery" /\ HasStep
    /\ step.kind = "repair" /\ ~IsSkipped
    /\ at' = at + 1
    /\ \/ UNCHANGED failures
       \/ failures' = failures \cup {step}
    /\ UNCHANGED <<now, listed, rows, window, marketVars, program, plan, selected,
                   started, claimed, ahead, runs>>

\* The error of one step is kept, and the next step goes on.
RecoveryStepFails ==
    /\ program = "recovery" /\ HasStep /\ step.kind = "backfill"
    /\ Raise(step.job)
    /\ failures' = failures \cup {step}
    /\ at' = at + 1
    /\ UNCHANGED <<program, plan, selected, started, claimed, ahead, runs>>

\* What recovery_status says is imported: the markets of the run that are not
\* among failedMarkets.
RecoveryClaims ==
    {plan[i].job : i \in {k \in 1 .. Len(plan) : plan[k].kind = "backfill" /\ plan[k] \notin failures}}

FinishRecovery ==
    /\ program = "recovery" /\ at > Len(plan)
    /\ EndRun(RecoveryClaims)
-----------------------------------------------------------------------------
\* The interval of both loaders, for the timeframe asked for: Days back from
\* the present time, or from --until-ms, which may lie in the future.
ScriptWindow(timeframe, until) ==
    LET end == align_closed_end_ms(until, timeframe)
    IN  [NoWindow EXCEPT ![timeframe] = [from |-> end - Days, to |-> end]]

StartScript(name, timeframe) ==
    /\ StartRun(name)
    /\ \E until \in {now} \cup Untils :
          /\ window' = ScriptWindow(timeframe, until)
          /\ ahead' = IF until <= now THEN ahead
                      ELSE ahead \cup {[timeframe |-> timeframe, started |-> now,
                                       to |-> align_closed_end_ms(until, timeframe)]}

StartCommand ==
    \E chosen \in {Exchanges} \cup {{e} : e \in Exchanges}, timeframe \in Timeframes :
        /\ StartScript("command", timeframe)
        /\ plan' = CommandPlan(chosen, timeframe)
        /\ UNCHANGED selected

\* No handler: the first error ends the serial loader.
CommandFails ==
    /\ program = "command" /\ HasStep
    /\ step.kind = "backfill" /\ CanRaise(step.job)
    /\ EndRun({})

FinishCommand ==
    /\ program = "command" /\ at > Len(plan)
    /\ EndRun({plan[i].job : i \in 1 .. Len(plan)})
-----------------------------------------------------------------------------
\* main of the parallel loader: one task per market, gathered.
StartLoader ==
    \E chosen \in {Exchanges} \cup {{e} : e \in Exchanges}, timeframe \in Timeframes :
        /\ StartScript("loader", timeframe)
        /\ selected' = {j \in Jobs : /\ j.exchange \in chosen /\ j.timeframe = timeframe
                                     /\ supports_rest_timeframe(j.exchange, timeframe)}
        /\ UNCHANGED plan

\* A task waits for its exchange's semaphore.
HasPermit(job) ==
    Cardinality({j \in selected : j.exchange = job.exchange /\ phase[j] \in Active})
        < Concurrency[job.exchange]

LoaderBegin(job) ==
    /\ program = "loader" /\ HasPermit(job)
    /\ BeginMarket(job)
    /\ UNCHANGED <<program, programVars, failures, claimed, ahead, runs>>

LoaderPage(job) ==
    /\ program = "loader"
    /\ Page(job)
    /\ UNCHANGED <<program, programVars, failures, claimed, ahead, runs>>

LoaderAskAgain(job) ==
    /\ program = "loader"
    /\ AskAgain(job)
    /\ UNCHANGED <<program, programVars, failures, claimed, ahead, runs>>

LoaderFlush(job) ==
    /\ program = "loader"
    /\ Flush(job)
    /\ UNCHANGED <<program, programVars, failures, claimed, ahead, runs>>

\* run_one catches the error of its market.
LoaderMarketFails(job) ==
    /\ program = "loader"
    /\ Raise(job)
    /\ failures' = failures \cup {[kind |-> "backfill", job |-> job]}
    /\ UNCHANGED <<program, programVars, claimed, ahead, runs>>

\* gather returns when every task has; a failure makes the exit status 1.
FinishLoader ==
    /\ program = "loader"
    /\ \A j \in selected : phase[j] \in {"done", "failed"}
    /\ EndRun(IF failures = {} THEN selected ELSE {})
-----------------------------------------------------------------------------
Loader ==
    \E j \in selected :
        \/ LoaderBegin(j) \/ LoaderPage(j) \/ LoaderAskAgain(j) \/ LoaderFlush(j)
        \/ LoaderMarketFails(j)

\* The steps of a program that has been started.
Work ==
    \/ SerialBegin \/ SerialWork \/ SerialReturn
    \/ SkipEmptySeconds \/ RepairSeconds \/ RecoveryStepFails \/ FinishRecovery
    \/ CommandFails \/ FinishCommand
    \/ Loader \/ FinishLoader

Next == Tick \/ StartRecovery \/ StartCommand \/ StartLoader \/ Abandon \/ Work

\* A program that runs goes on: its requests have a timeout, and asyncio
\* resumes the tasks that are ready.
Spec == Init /\ [][Next]_vars /\ WF_vars(Work)
-----------------------------------------------------------------------------
\* Type invariant.
TypeOK ==
    /\ now \in 0 .. MaxTime
    /\ listed \in Listings
    /\ rows \subseteq Candles
    /\ window \in [Timeframes -> [from : Int, to : Int]]
    /\ phase \in [Jobs -> Phases]
    /\ cursor \in [Jobs -> Int]
    /\ pending \in [Jobs -> SUBSET Candles]
    /\ tries \in [Jobs -> [url : Nat, attempt : 0 .. MaxRetries]]
    /\ program \in {"none", "recovery", "command", "loader"}
    /\ IsPlan(plan)
    /\ at \in 1 .. Len(plan) + 1
    /\ selected \subseteq Jobs
    /\ started \in 0 .. now
    /\ failures \subseteq Steps
    /\ claimed \subseteq [job : Jobs, from : Int, to : Int, started : 0 .. now]
    /\ ahead \subseteq [timeframe : Timeframes, started : 0 .. now, to : Int]
    /\ runs \in 0 .. MaxRuns

\* The candles the exchange has for an interval that were over when the run
\* began: all of a window that ends at a closed interval.
Offered(job, from, to, start) ==
    {open \in listed[job] : from <= open /\ open < to /\ open + interval(job) <= start}

\* What a run has reported as imported is in the table, in its final form:
\* every candle of the interval that was over when the run began, whatever
\* pages were empty or short, whatever requests were repeated or sent
\* elsewhere, wherever the batches were cut, whichever other markets and earlier
\* runs failed, and whatever an earlier run had stored of it (backfill_market,
\* its three callers and what each tells the user).
ClaimedIsStored ==
    \A c \in claimed : \A open \in Offered(c.job, c.from, c.to, c.started) :
        /\ FinalCandle(c.job, open) \in rows
        /\ \A row \in rows : row.job = c.job /\ row.open = open => row.final

\* The only candle the table may hold while the exchange still changes it is one
\* that a loader was sent for before it was over, with an end in the future: no
\* recovery and no load up to the present or a past time stores it
\* (align_closed_end_ms).  And a market has one row per open time.
FormingWasAskedFor ==
    /\ \A row \in rows :
          \/ row.final
          \/ \E load \in ahead : /\ load.timeframe = row.job.timeframe
                                 /\ load.started < row.open + interval(row.job)
                                 /\ row.open < load.to
    /\ \A a, b \in rows : a.job = b.job /\ a.open = b.open => a = b

\* A run that is not killed ends, however its requests and batches fail
\* (the bounded retries of http_json, and a cursor that always advances).
ProgramsEnd == program # "none" ~> program = "none"
=============================================================================
