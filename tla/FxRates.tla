------------------------------ MODULE FxRates ------------------------------
(***************************************************************************)
(* Exchange rates and the revaluation job.  FxRateRepository.create()      *)
(* closes the open rate of a pair and inserts the new one in two           *)
(* statements without a transaction; FxRevaluationService.runRevaluation() *)
(* reads rates one by one, position after position, and posts one journal  *)
(* for the run.  Rates, runs and the clock interleave freely, and a call   *)
(* may die between any two statements.                                     *)
(*                                                                         *)
(* Data.  All rates are quoted against INR and counted in half-units, so   *)
(* that a product with an odd value is rounded; INR amounts are in whole   *)
(* units of 0.0001.  Instants are ticks of a coarse clock.                 *)
(***************************************************************************)
EXTENDS Integers, FiniteSets, FiniteSetsExt, Functions

CONSTANTS
  Currency,      \* foreign currencies
  Ingest,        \* calls of FxRateRepository.create()
  Dto,           \* their arguments, see DtoType
  OpeningRates,  \* the rows of exchange_rate_snapshots at the start
  Run,           \* calls of runRevaluation()
  Position,      \* ASSET accounts with a balance in a foreign currency,
                 \* numbered in the order the query returns them
  Holding,       \* position -> its currency, balance and first entry's date
  Lag,           \* how far before the present the asOfDate of a run may lie
  Day,           \* 24 hours, in ticks
  MaxAge,        \* FX_RATE_MAX_AGE_MINUTES, in ticks
  MaxTime        \* bound on the clock

Open == -1000    \* a NULL valid_until

Instant     == {t \in Int : t > Open}
DtoType     == [currency : Currency, rate : Nat \ {0},
                validFrom : Instant, validUntil : Instant \cup {Open}]
RowType     == [id : Ingest \cup {"OPENING"}, currency : Currency, rate : Nat \ {0},
                validFrom : Instant, validUntil : Instant \cup {Open}, capturedAt : Instant]
HoldingType == [currency : Currency, balance : Int \ {0}, since : Instant]

ASSUME FxAssumption ==
  /\ Dto \in [Ingest -> DtoType]
  /\ OpeningRates \subseteq RowType /\ IsFiniteSet(OpeningRates)
  /\ \A x, y \in OpeningRates : x.currency = y.currency => x = y
  /\ \A x \in OpeningRates : x.validUntil = Open
  /\ Position \subseteq Nat /\ Holding \in [Position -> HoldingType]
  /\ Lag \subseteq Nat
  /\ Day \in Nat \ {0} /\ MaxAge \in Nat /\ MaxTime \in Nat

Suspense == "1043"   \* FX revaluation suspense
Gain     == "4004"   \* unrealised FX gain
Loss     == "5004"   \* unrealised FX loss
BookAccount == {Suspense, Gain, Loss}

-----------------------------------------------------------------------------
VARIABLES
  now,       \* the clock
  rates,     \* exchange_rate_snapshots
  ipc,       \* the next statement of each ingestion, or its outcome
  captured,  \* `now` as read at the start of each ingestion
  late,      \* history: ingestions that ran a statement at or after validFrom
  overlap,   \* history: currencies whose ingestions overlapped
  rpc,       \* the next step of each revaluation run, or its outcome
  asOf,      \* asOfDate of each run
  todo,      \* the positions each run has still to value
  basis,     \* the position in hand and its cost-basis rate
  lines,     \* the result lines of each run
  journal,   \* the runs whose journal is posted
  books      \* debits minus credits on the three accounts

rateVars == <<rates, ipc, captured, late, overlap>>
runVars  == <<rpc, asOf, todo, basis, lines, journal, books>>
vars     == <<now, rateVars, runVars>>

\* An ingestion goes from "close" to "insert" to "done" or "lost"; a run from
\* "idle" through "prior", "fallback" and "closing" for each position to
\* "post" and to "done" or "failed".
NoBasis == <<>>

Init ==
  /\ now = 0
  /\ rates = OpeningRates
  /\ ipc = [i \in Ingest |-> "close"]
  /\ captured = [i \in Ingest |-> 0]
  /\ late = {}
  /\ overlap = {}
  /\ rpc = [r \in Run |-> "idle"]
  /\ asOf = [r \in Run |-> 0]
  /\ todo = [r \in Run |-> {}]
  /\ basis = [r \in Run |-> NoBasis]
  /\ lines = [r \in Run |-> {}]
  /\ journal = {}
  /\ books = [a \in BookAccount |-> 0]

-----------------------------------------------------------------------------
(* FxRateRepository.                                                       *)

OpenRows(c) == {x \in rates : x.currency = c /\ x.validUntil = Open}

\* The trigger on exchange_rate_snapshots: an update may only close a rate.
prevent_exchange_rate_mutation(old, new) ==
  /\ old.validUntil = Open /\ new.validUntil # Open
  /\ old.rate = new.rate /\ old.currency = new.currency

\* UPDATE ... SET valid_until = end on the given rows, unless the trigger raises.
Ended(x, end) == [x EXCEPT !.validUntil = end]
CloseRates(rows, end) ==
  /\ \A x \in rows : prevent_exchange_rate_mutation(x, Ended(x, end))
  /\ rates' = (rates \ rows) \cup {Ended(x, end) : x \in rows}

NoteLate(i) == late' = IF Dto[i].validFrom <= now THEN late \cup {i} ELSE late

NoteOverlap(i) ==
  overlap' = IF \E j \in Ingest : ipc[j] = "insert" /\ Dto[j].currency = Dto[i].currency
             THEN overlap \cup {Dto[i].currency} ELSE overlap

BeginCreate(i) ==
  /\ ipc[i] = "close"
  /\ ipc' = [ipc EXCEPT ![i] = "insert"]
  /\ captured' = [captured EXCEPT ![i] = now]
  /\ NoteLate(i) /\ NoteOverlap(i)
  /\ UNCHANGED <<now, runVars>>

\* Mutant: the open rate is closed at once, not when the new one starts.
ClosePreviousNow(i) ==
  /\ BeginCreate(i)
  /\ CloseRates(OpenRows(Dto[i].currency), now)

\* Mutant: a rate that starts later closes nothing yet.
ClosePreviousWhenDue(i) ==
  /\ BeginCreate(i)
  /\ CloseRates(IF Dto[i].validFrom > now THEN {} ELSE OpenRows(Dto[i].currency),
                Dto[i].validFrom)

\* create(), first statement: the open rates of the pair end at validFrom.
ClosePrevious(i) ==
  /\ BeginCreate(i)
  /\ CloseRates(OpenRows(Dto[i].currency), Dto[i].validFrom)

\* Mutant: a rate is valid from the moment it was captured.
NewRateAtOnce(i) ==
  [id |-> i, currency |-> Dto[i].currency, rate |-> Dto[i].rate,
   validFrom |-> captured[i], validUntil |-> Dto[i].validUntil,
   capturedAt |-> captured[i]]

NewRate(i) ==
  [id |-> i, currency |-> Dto[i].currency, rate |-> Dto[i].rate,
   validFrom |-> Dto[i].validFrom, validUntil |-> Dto[i].validUntil,
   capturedAt |-> captured[i]]

\* create(), second statement.
InsertRate(i) ==
  /\ ipc[i] = "insert"
  /\ ipc' = [ipc EXCEPT ![i] = "done"]
  /\ rates' = rates \cup {NewRate(i)}
  /\ captured' = [captured EXCEPT ![i] = 0]
  /\ NoteLate(i)
  /\ UNCHANGED <<now, overlap, runVars>>

\* The second statement fails, or the server dies before it.  (A call that
\* fails before its first statement takes no step.)
IngestFail(i) ==
  /\ ipc[i] = "insert"
  /\ ipc' = [ipc EXCEPT ![i] = "lost"]
  /\ captured' = [captured EXCEPT ![i] = 0]
  /\ UNCHANGED <<now, rates, late, overlap, runVars>>

ValidAt(c, t) ==
  {x \in rates : /\ x.currency = c /\ x.validFrom <= t
                 /\ x.validUntil = Open \/ x.validUntil > t}

\* orderBy validFrom desc, first: any of the latest when there are several.
Latest(rows) == {x \in rows : \A y \in rows : y.validFrom <= x.validFrom}

\* Mutant: the rate captured by then, valid or not.
findCapturedBy(c, t) == Latest({x \in rates : x.currency = c /\ x.capturedAt <= t})

findAtTime(c, t) == Latest(ValidAt(c, t))
findCurrent(c)   == Latest(ValidAt(c, now))

\* assertNotStale()
Fresh(x) == now - x.capturedAt <= MaxAge

-----------------------------------------------------------------------------
(* FxRevaluationService.runRevaluation().                                  *)

\* toDecimalPlaces(4, ROUND_HALF_UP), from half-units: half away from zero.
Round(h) == IF h >= 0 THEN (h + 1) \div 2 ELSE -((1 - h) \div 2)

Value(p, rate) == Round(Holding[p].balance * rate)

CurrencyOf(r) == Holding[basis[r][1]].currency

Goto(r, s) == rpc' = [rpc EXCEPT ![r] = s]

\* The run ends in an exception and its results are gone.
Throw(r) ==
  /\ Goto(r, "failed")
  /\ asOf' = [asOf EXCEPT ![r] = 0]
  /\ todo' = [todo EXCEPT ![r] = {}]
  /\ basis' = [basis EXCEPT ![r] = NoBasis]
  /\ lines' = [lines EXCEPT ![r] = {}]

\* The nightly script passes the present; a caller of the API may pass a date
\* that lies back.
asOfDates == {now - d : d \in Lag}

\* The positions with a balance on the run's date; without any it is over.
Start(r) ==
  /\ rpc[r] = "idle"
  /\ \E d \in asOfDates :
       LET held == {p \in Position : Holding[p].since <= d}
       IN  /\ asOf' = [asOf EXCEPT ![r] = d]
           /\ todo' = [todo EXCEPT ![r] = held]
           /\ Goto(r, IF held = {} THEN "done" ELSE "prior")
  /\ UNCHANGED <<now, rateVars, basis, lines, journal, books>>

\* "yesterday's closing rate"
PriorInstant(r) == asOf[r] - Day

\* getRateAtTime() of the next position, in the order the query returned them.
\* The catch is for a missing rate and takes any failure of the query as one.
ReadPriorRate(r) ==
  /\ rpc[r] = "prior"
  /\ \E p \in todo[r] :
       /\ \A q \in todo[r] : p <= q
       /\ LET found == findAtTime(Holding[p].currency, PriorInstant(r))
          IN  /\ todo' = [todo EXCEPT ![r] = @ \ {p}]
              /\ \/ \E x \in found :
                      /\ basis' = [basis EXCEPT ![r] =
                                     <<p, [rate |-> x.rate, instant |-> PriorInstant(r)]>>]
                      /\ Goto(r, "closing")
                 \/ /\ basis' = [basis EXCEPT ![r] = <<p>>]
                    /\ Goto(r, "fallback")
  /\ UNCHANGED <<now, rateVars, asOf, lines, journal, books>>

\* No rate a day before: getCurrentRate(), whose exceptions (none found, a
\* stale one, a failed query) nobody catches.
ReadFallbackRate(r) ==
  /\ rpc[r] = "fallback"
  /\ LET found == findCurrent(CurrencyOf(r))
     IN  \/ \E x \in found :
              /\ Fresh(x)
              /\ basis' = [basis EXCEPT ![r] =
                             <<@[1], [rate |-> x.rate, instant |-> now]>>]
              /\ Goto(r, "closing")
              /\ UNCHANGED <<asOf, todo, lines>>
         \/ Throw(r)
  /\ UNCHANGED <<now, rateVars, journal, books>>

NextPosition(r) ==
  /\ basis' = [basis EXCEPT ![r] = NoBasis]
  /\ Goto(r, IF todo[r] = {} THEN "post" ELSE "prior")
  /\ UNCHANGED <<now, rateVars, asOf, todo, journal, books>>

\* The line of the position in hand, with its closing rate.
LineOf(r, x) ==
  [position |-> basis[r][1], cost |-> basis[r][2],
   closing |-> [rate |-> x.rate, instant |-> now]]

\* getCurrentRate() again; without a fresh rate, or when the query fails, the
\* position is skipped.
ReadClosingRate(r) ==
  /\ rpc[r] = "closing"
  /\ LET found == findCurrent(CurrencyOf(r))
     IN  \/ \E x \in found :
              /\ Fresh(x)
              /\ lines' = [lines EXCEPT ![r] = @ \cup {LineOf(r, x)}]
         \/ UNCHANGED lines
  /\ NextPosition(r)

Unrealised(l) == Value(l.position, l.closing.rate) - Value(l.position, l.cost.rate)

Gains(r)  == {l \in lines[r] : Unrealised(l) > 0}
Losses(r) == {l \in lines[r] : Unrealised(l) < 0}
totalGain(r) == SumFunctionOnSet([l \in Gains(r) |-> Unrealised(l)], Gains(r))
totalLoss(r) == SumFunctionOnSet([l \in Losses(r) |-> -Unrealised(l)], Losses(r))
netImpact(r) == totalGain(r) - totalLoss(r)

\* Mutant: a loss raises the suspense account as a gain does.
JournalLossAsGain(r) ==
  /\ journal' = journal \cup {r}
  /\ books' = [books EXCEPT ![Suspense] = @ + totalGain(r) + totalLoss(r),
                            ![Gain] = @ - totalGain(r), ![Loss] = @ + totalLoss(r)]

\* DEBIT suspense / CREDIT 4004 the gain, DEBIT 5004 / CREDIT suspense the loss.
Journal(r) ==
  /\ journal' = journal \cup {r}
  /\ books' = [books EXCEPT ![Suspense] = @ + totalGain(r) - totalLoss(r),
                            ![Gain] = @ - totalGain(r), ![Loss] = @ + totalLoss(r)]

\* Mutant: a run with a loss and no gain posts nothing.
PostGainsOnly(r) ==
  /\ rpc[r] = "post"
  /\ \/ totalGain(r) # 0 /\ Journal(r)
     \/ totalGain(r) = 0 /\ UNCHANGED <<journal, books>>
  /\ Goto(r, "done")
  /\ UNCHANGED <<now, rateVars, asOf, todo, basis, lines>>

\* One consolidated journal, unless gains and losses cancel.
Post(r) ==
  /\ rpc[r] = "post"
  /\ \/ netImpact(r) # 0 /\ Journal(r)
     \/ netImpact(r) = 0 /\ UNCHANGED <<journal, books>>
  /\ Goto(r, "done")
  /\ UNCHANGED <<now, rateVars, asOf, todo, basis, lines>>

\* The journal is committed and the run still ends in an error.
PostUnacknowledged(r) ==
  /\ rpc[r] = "post"
  /\ netImpact(r) # 0
  /\ Journal(r)
  /\ Goto(r, "failed")
  /\ UNCHANGED <<now, rateVars, asOf, todo, basis, lines>>

\* Posting the journal fails.  (A server that dies earlier takes no step.)
RunFail(r) ==
  /\ rpc[r] = "post"
  /\ Throw(r)
  /\ UNCHANGED <<now, rateVars, journal, books>>

Tick ==
  /\ now < MaxTime
  /\ now' = now + 1
  /\ UNCHANGED <<rateVars, runVars>>

Next ==
  \/ \E i \in Ingest : ClosePrevious(i) \/ InsertRate(i) \/ IngestFail(i)
  \/ \E r \in Run :
       \/ Start(r) \/ ReadPriorRate(r) \/ ReadFallbackRate(r)
       \/ ReadClosingRate(r) \/ Post(r) \/ PostUnacknowledged(r) \/ RunFail(r)
  \/ Tick

Spec == Init /\ [][Next]_vars

-----------------------------------------------------------------------------
(* FxExposureService.generate(): balances per currency, valued at a date.  *)

\* Mutant: the oldest valid rate is taken.
exposureRateOldest(c, t) ==
  LET found == {x \in ValidAt(c, t) : \A y \in ValidAt(c, t) : x.validFrom <= y.validFrom}
  IN  {x.rate : x \in found}

\* The rates the report may use; a currency without one is valued at 1.
exposureRate(c, t) ==
  LET found == Latest(ValidAt(c, t))
  IN  IF found = {} THEN {2} ELSE {x.rate : x \in found}

Held(c, t) == {p \in Position : Holding[p].currency = c /\ Holding[p].since <= t}
ExposureBalance(c, t) ==
  SumFunctionOnSet([p \in Held(c, t) |-> Holding[p].balance], Held(c, t))

\* The possible INR totals of one currency in the report.
Exposure(c, t) == {Round(ExposureBalance(c, t) * rate) : rate \in exposureRate(c, t)}

-----------------------------------------------------------------------------
(* Properties.                                                             *)

\* A currency that has had a rate never loses it, although create() closes
\* the old rate first, unless an ingestion is between its two statements or
\* died there, or the end a rate was ingested with has passed.
RateGapOnlyBetweenStatements ==
  \A c \in Currency :
    (\E x \in rates : x.currency = c /\ x.validFrom <= now) /\ findCurrent(c) = {} =>
      \E i \in Ingest :
        /\ Dto[i].currency = c
        /\ \/ ipc[i] \in {"insert", "lost"}
           \/ ipc[i] = "done" /\ Dto[i].validUntil \in Open + 1 .. now

\* Two rates of a currency are open at once only if their ingestions
\* overlapped: each closed what the other had not yet inserted.
OneOpenRate ==
  \A c \in Currency \ overlap : Cardinality(OpenRows(c)) <= 1

Ids(rows) == {x.id : x \in rows}

\* "reconstruct historical FX conversions": an ingestion changes the rate of
\* no instant before its validFrom, and nothing else changes any.
HistoryFixedBeforeValidFrom ==
  [][ \A c \in Currency, t \in -Day .. MaxTime :
        Ids(findAtTime(c, t))' # Ids(findAtTime(c, t)) =>
          \E i \in Ingest :
            /\ ipc'[i] # ipc[i]
            /\ Dto[i].currency = c /\ Dto[i].validFrom <= t ]_vars

\* The instant's rate is settled: no ingestion reached back to it, and no two
\* rates start together.
Settled(c, t) ==
  /\ \A i \in late : Dto[i].currency # c \/ Dto[i].validFrom > t
  /\ Cardinality(findAtTime(c, t)) <= 1

Readings(r) ==
  UNION {{[currency |-> Holding[l.position].currency, reading |-> l.cost],
          [currency |-> Holding[l.position].currency, reading |-> l.closing]} : l \in lines[r]}

\* All runs see one rate for an instant: the closing rate of a run is the cost
\* basis of the run a day later, and two runs for one date measure from the
\* same rate (so the second books the same change again).
InstantHasOneRate ==
  \A x, y \in UNION {Readings(r) : r \in Run} :
    (/\ x.currency = y.currency /\ x.reading.instant = y.reading.instant
     /\ Settled(x.currency, x.reading.instant)) => x.reading.rate = y.reading.rate

\* Every run that ended normally is in the books exactly once unless it nets
\* to nothing, and the three accounts hold the sums of the posted runs.
RunsAreBooked ==
  /\ \A r \in Run : rpc[r] = "done" => (r \in journal <=> netImpact(r) # 0)
  /\ books[Gain] = -SumFunctionOnSet([r \in journal |-> totalGain(r)], journal)
  /\ books[Loss] = SumFunctionOnSet([r \in journal |-> totalLoss(r)], journal)
  /\ books[Suspense] = SumFunctionOnSet([r \in journal |-> netImpact(r)], journal)

\* Every run so far valued every position at its own date against a rate of a
\* day before, and the runs are one day apart.
Nightly ==
  LET ran == {r \in Run : rpc[r] # "idle"}
  IN  /\ ran # {}
      /\ \A r \in ran :
           /\ rpc[r] = "done"
           /\ {l.position : l \in lines[r]} = Position
           /\ \A l \in lines[r] :
                /\ l.closing.instant = asOf[r] /\ l.cost.instant = asOf[r] - Day
                /\ Settled(Holding[l.position].currency, l.closing.instant)
                /\ Settled(Holding[l.position].currency, l.cost.instant)
      /\ \A r, s \in ran : asOf[r] = asOf[s] => r = s
      /\ \A r, s \in ran : asOf[r] < asOf[s] => \E q \in ran : asOf[q] = asOf[r] + Day

ClosingValue(L) ==
  SumFunctionOnSet([l \in L |-> Value(l.position, l.closing.rate)], L)

\* Run once a night, the job does not count a gain twice: what all runs have
\* booked is the value at the last closing less the value before the first.
NightlyRunsTelescope ==
  Nightly =>
    LET ran     == {r \in Run : rpc[r] # "idle"}
        first   == CHOOSE r \in ran : \A s \in ran : asOf[r] <= asOf[s]
        last    == CHOOSE r \in ran : \A s \in ran : asOf[s] <= asOf[r]
        Opening == SumFunctionOnSet([l \in lines[first] |-> Value(l.position, l.cost.rate)],
                                    lines[first])
    IN  books[Suspense] = ClosingValue(lines[last]) - Opening

\* The exposure report for the date of a run values each currency as the run
\* did, up to half a unit for each rounding (one per position and its own).
ExposureMatchesRevaluation ==
  \A r \in Run : \A c \in Currency :
    LET held   == Held(c, asOf[r])
        valued == {l \in lines[r] : l.position \in held /\ l.closing.instant = asOf[r]}
        total  == ClosingValue(valued)
    IN  held # {} /\ {l.position : l \in valued} = held /\ Settled(c, asOf[r]) =>
          \A e \in Exposure(c, asOf[r]) :
            2 * (total - e) \in -(Cardinality(held) + 1) .. Cardinality(held) + 1
=============================================================================
