--------------------------- MODULE FxRatesProofs ---------------------------
(***************************************************************************)
(* Proofs about exchange rates and the revaluation job, for any number of  *)
(* currencies, ingestions, positions and runs, and any clock.              *)
(*                                                                         *)
(* The table: an ingestion touches only instants from its validFrom on     *)
(* (RowsFrom), so the gap it opens between its statements lies there too   *)
(* (NoGap); and it leaves no open rate behind for another to add to unless *)
(* the two overlap (Exclusive).  The runs: a rate that was read for an     *)
(* instant is still the rate of the instant, unless a later ingestion      *)
(* reached back to it (Standing).                                          *)
(***************************************************************************)
EXTENDS FxRates, SumTheorems

-----------------------------------------------------------------------------
(* The table of rates.                                                     *)

TableType ==
  /\ now \in Nat
  /\ rates \subseteq RowType /\ IsFiniteSet(rates)
  /\ ipc \in [Ingest -> {"close", "insert", "done", "lost"}]
  /\ captured \in [Ingest -> Nat]
  /\ late \subseteq Ingest

Inserting(i, c) == ipc[i] = "insert" /\ Dto[i].currency = c

\* Without an overlap one ingestion at a time is between its statements, and
\* while one is there no rate is open.
Exclusive ==
  \A c \in Currency : c \notin overlap =>
    /\ \A i, j \in Ingest : Inserting(i, c) /\ Inserting(j, c) => i = j
    /\ (\E i \in Ingest : Inserting(i, c)) => OpenRows(c) = {}
    /\ \A x, y \in OpenRows(c) : x = y

\* An ingestion that accounts for the missing rate of an instant: it has closed
\* the rate and not inserted its own, or its own has ended.
Excuses(i, c, t) ==
  /\ Dto[i].currency = c
  /\ \/ ipc[i] \in {"insert", "lost"} /\ Dto[i].validFrom <= t
     \/ ipc[i] = "done" /\ Dto[i].validUntil \in Open + 1 .. t

NoGap ==
  \A c \in Currency, t \in Int :
    \/ \A x \in rates : x.currency = c => x.validFrom > t
    \/ \E x \in rates : x \in ValidAt(c, t)
    \/ \E i \in Ingest : Excuses(i, c, t)

TableInv == TableType /\ Exclusive /\ NoGap

\* The arguments of an ingestion.
LEMMA DtoFacts ==
  ASSUME NEW i \in Ingest
  PROVE  /\ Dto[i].currency \in Currency /\ Dto[i].rate \in Nat \ {0}
         /\ Dto[i].validFrom \in Int /\ Dto[i].validFrom > Open /\ Dto[i].validFrom # Open
         /\ Dto[i].validUntil \in Int /\ (Dto[i].validUntil = Open \/ Dto[i].validUntil > Open)
         /\ Dto[i].validFrom \in Instant /\ Dto[i].validUntil \in Instant \cup {Open}
         /\ Open \in Int
  <1>1. Dto[i] \in DtoType
    BY FxAssumption
  <1>2. /\ Dto[i].currency \in Currency /\ Dto[i].rate \in Nat \ {0}
        /\ Dto[i].validFrom \in Instant /\ Dto[i].validUntil \in Instant \cup {Open}
    BY <1>1 DEF DtoType
  <1>3. Open \in Int
    BY DEF Open
  <1>4. \A t \in Instant : t \in Int /\ t > Open /\ t # Open
    BY <1>3 DEF Instant
  <1>5. QED
    BY <1>2, <1>3, <1>4

\* The columns of a row.
LEMMA RowFacts ==
  ASSUME NEW x \in RowType
  PROVE  /\ x.currency \in Currency /\ x.rate \in Nat \ {0}
         /\ x.validFrom \in Int /\ x.validUntil \in Int
  <1>1. x.validFrom \in Instant /\ x.validUntil \in Instant \cup {Open}
        /\ x.currency \in Currency /\ x.rate \in Nat \ {0}
    BY DEF RowType
  <1>2. \A t \in Instant \cup {Open} : t \in Int
    BY DEF Instant, Open
  <1>3. QED
    BY <1>1, <1>2

\* What create()'s first statement makes of a row.
Closed(x, c, end) == IF x.currency = c /\ x.validUntil = Open THEN Ended(x, end) ELSE x

\* Closing a rate sets its end and leaves the other columns alone.
LEMMA ClosedFacts ==
  ASSUME NEW x \in RowType, NEW c, NEW end \in Instant
  PROVE  /\ Closed(x, c, end) \in RowType
         /\ Closed(x, c, end).id = x.id /\ Closed(x, c, end).currency = x.currency
         /\ Closed(x, c, end).rate = x.rate /\ Closed(x, c, end).validFrom = x.validFrom
         /\ Closed(x, c, end).validUntil =
              IF x.currency = c /\ x.validUntil = Open THEN end ELSE x.validUntil
  <1>1. /\ Ended(x, end) \in RowType
        /\ Ended(x, end).id = x.id /\ Ended(x, end).currency = x.currency
        /\ Ended(x, end).rate = x.rate /\ Ended(x, end).validFrom = x.validFrom
        /\ Ended(x, end).validUntil = end
    BY DEF Ended, RowType
  <1>2. QED
    BY <1>1 DEF Closed

\* The UPDATE of create() closes the open rates of the currency, all of them.
LEMMA ClosedRows ==
  ASSUME TableType, NEW c, NEW end, CloseRates(OpenRows(c), end)
  PROVE  rates' = {Closed(x, c, end) : x \in rates}
  BY DEF CloseRates, OpenRows, Closed

\* What InsertRate() adds.
LEMMA NewRateFacts ==
  ASSUME TableType, NEW i \in Ingest
  PROVE  /\ NewRate(i) \in RowType
         /\ NewRate(i).currency = Dto[i].currency /\ NewRate(i).validFrom = Dto[i].validFrom
         /\ NewRate(i).validUntil = Dto[i].validUntil
  <1>1. captured[i] \in Instant
    BY DEF TableType, Instant, Open
  <1>2. QED
    BY <1>1, DtoFacts DEF NewRate, RowType

\* The steps of an ingestion, by what they do to the table.
ClosingStep(i) ==
  /\ ipc[i] = "close" /\ ipc' = [ipc EXCEPT ![i] = "insert"]
  /\ captured' = [captured EXCEPT ![i] = now]
  /\ rates' = {Closed(x, Dto[i].currency, Dto[i].validFrom) : x \in rates}
  /\ NoteLate(i) /\ NoteOverlap(i)
  /\ UNCHANGED <<now, runVars>>

\* The first statement of an ingestion has the shape the proofs work with.
LEMMA CloseShape ==
  ASSUME TableType, NEW i \in Ingest, ClosePrevious(i)
  PROVE  ClosingStep(i)
  BY ClosedRows DEF ClosePrevious, BeginCreate, ClosingStep

\* At the start every rate is open.
LEMMA TableInit == Init => TableInv
  <1> SUFFICES ASSUME Init PROVE TableInv
    OBVIOUS
  <1>1. TableType
    BY FxAssumption DEF Init, TableType
  <1>2. Exclusive
    BY FxAssumption DEF Init, Exclusive, Inserting, OpenRows
  <1>3. NoGap
    <2> SUFFICES ASSUME NEW c \in Currency, NEW t \in Int, NEW x \in rates,
                        x.currency = c, ~(x.validFrom > t)
                 PROVE  x \in ValidAt(c, t)
      BY DEF NoGap
    <2>1. x.validFrom \in Int /\ x.validUntil = Open
      BY FxAssumption, RowFacts DEF Init
    <2>2. QED
      BY <2>1 DEF ValidAt
  <1>4. QED
    BY <1>1, <1>2, <1>3 DEF TableInv

\* Closing the open rates keeps the table's invariant: the rates of earlier
\* instants stay, and the ingestion excuses the later ones.
LEMMA ClosingKeeps ==
  ASSUME TableInv, NEW i \in Ingest, ClosingStep(i)
  PROVE  TableInv'
  <1> DEFINE c0 == Dto[i].currency
             e == Dto[i].validFrom
             C(x) == Closed(x, c0, e)
  <1>0. TableType /\ Exclusive /\ NoGap
    BY DEF TableInv
  <1>1. /\ ipc[i] = "close" /\ ipc' = [ipc EXCEPT ![i] = "insert"]
        /\ rates' = {C(x) : x \in rates} /\ now' = now
    BY DEF ClosingStep
  <1>2. c0 \in Currency /\ e \in Int /\ e > Open /\ e # Open /\ e \in Instant
    BY DtoFacts
  <1>3. \A x \in rates : /\ x \in RowType /\ C(x) \in RowType /\ C(x) \in rates'
                         /\ C(x).currency = x.currency /\ C(x).validFrom = x.validFrom
                         /\ C(x).validUntil = IF x.currency = c0 /\ x.validUntil = Open
                                              THEN e ELSE x.validUntil
                         /\ x.validFrom \in Int /\ x.validUntil \in Int
    BY <1>0, <1>1, <1>2, ClosedFacts, RowFacts DEF TableType
  <1>4. \A y \in rates' : \E x \in rates : y = C(x)
    BY <1>1
  <1>f. IsFiniteSet(rates')
    <2> DEFINE f == [x \in rates |-> C(x)]
    <2>1. f \in Surjection(rates, rates')
      BY <1>1 DEF Surjection
    <2>2. QED
      BY <1>0, <2>1, FS_Surjection DEF TableType
  <1> HIDE DEF C
  <1>5. TableType'
    <2>1. rates' \subseteq RowType
      BY <1>3, <1>4
    <2>2. ipc' \in [Ingest -> {"close", "insert", "done", "lost"}]
      BY <1>0, <1>1 DEF TableType
    <2>3. captured' \in [Ingest -> Nat] /\ late' \subseteq Ingest
      BY <1>0 DEF TableType, ClosingStep, NoteLate
    <2>4. QED
      BY <1>0, <1>1, <1>f, <2>1, <2>2, <2>3 DEF TableType
  <1>6. Exclusive'
    <2> SUFFICES ASSUME NEW c \in Currency, c \notin overlap'
                 PROVE  /\ \A k, j \in Ingest : Inserting(k, c)' /\ Inserting(j, c)' => k = j
                        /\ (\E k \in Ingest : Inserting(k, c)') => OpenRows(c)' = {}
                        /\ \A x, y \in OpenRows(c)' : x = y
      BY DEF Exclusive
    <2>1. c \notin overlap
      BY DEF ClosingStep, NoteOverlap
    <2>2. CASE c = c0
      <3>1. \A j \in Ingest : ~Inserting(j, c)
        BY <2>2 DEF ClosingStep, NoteOverlap, Inserting
      <3>2. \A j \in Ingest : Inserting(j, c)' => j = i
        BY <1>0, <1>1, <3>1 DEF Inserting, TableType
      <3>3. OpenRows(c)' = {}
        BY <1>2, <1>3, <1>4, <2>2 DEF OpenRows
      <3>4. QED
        BY <3>2, <3>3
    <2>3. CASE c # c0
      <3>1. \A j \in Ingest : Inserting(j, c)' <=> Inserting(j, c)
        BY <1>0, <1>1, <2>3 DEF Inserting, TableType
      <3>2. \A x \in rates : x.currency = c => C(x) = x
        BY <2>3 DEF C, Closed
      <3>3. OpenRows(c)' \subseteq OpenRows(c)
        BY <1>3, <1>4, <3>2 DEF OpenRows
      <3>4. QED
        BY <1>0, <2>1, <3>1, <3>3 DEF Exclusive
    <2>4. QED
      BY <2>2, <2>3
  <1>7. NoGap'
    <2> SUFFICES ASSUME NEW c \in Currency, NEW t \in Int,
                        ~(\A x \in rates' : x.currency = c => x.validFrom > t)
                 PROVE  \/ \E x \in rates' : x \in ValidAt(c, t)'
                        \/ \E j \in Ingest : Excuses(j, c, t)'
      BY DEF NoGap
    <2>1. ~(\A x \in rates : x.currency = c => x.validFrom > t)
      BY <1>3, <1>4
    <2>2. CASE \E j \in Ingest : Excuses(j, c, t)
      <3>1. PICK j \in Ingest : Excuses(j, c, t)
        BY <2>2
      <3>2. j # i
        BY <1>1, <3>1 DEF Excuses
      <3>3. ipc'[j] = ipc[j]
        BY <1>0, <1>1, <3>2 DEF TableType
      <3>4. QED
        BY <3>1, <3>3 DEF Excuses
    <2>3. CASE \E x \in rates : x \in ValidAt(c, t)
      <3>1. PICK x \in rates : x \in ValidAt(c, t)
        BY <2>3
      <3>2. CASE x.currency = c0 /\ e <= t
        <4>1. ipc'[i] = "insert" /\ c = c0
          BY <1>0, <1>1, <3>1, <3>2 DEF TableType, ValidAt
        <4>2. QED
          BY <3>2, <4>1 DEF Excuses
      <3>3. CASE ~(x.currency = c0 /\ e <= t)
        <4>1. C(x).validUntil = Open \/ C(x).validUntil > t
          BY <1>2, <1>3, <3>1, <3>3 DEF ValidAt
        <4>2. C(x) \in ValidAt(c, t)'
          BY <1>3, <3>1, <4>1 DEF ValidAt
        <4>3. QED
          BY <1>3, <4>2
      <3>4. QED
        BY <3>2, <3>3
    <2>4. QED
      BY <1>0, <2>1, <2>2, <2>3 DEF NoGap
  <1>8. QED
    BY <1>5, <1>6, <1>7 DEF TableInv

\* Inserting the new rate keeps it: the rate covers what the ingestion excused,
\* up to its own end.
LEMMA InsertKeeps ==
  ASSUME TableInv, NEW i \in Ingest, InsertRate(i)
  PROVE  TableInv'
  <1> DEFINE n == NewRate(i)
  <1>0. TableType /\ Exclusive /\ NoGap
    BY DEF TableInv
  <1>1. /\ ipc[i] = "insert" /\ ipc' = [ipc EXCEPT ![i] = "done"]
        /\ rates' = rates \cup {n} /\ now' = now /\ overlap' = overlap
        /\ captured' = [captured EXCEPT ![i] = 0] /\ NoteLate(i)
    BY DEF InsertRate
  <1>2. /\ n \in RowType /\ n.currency = Dto[i].currency /\ n.validFrom = Dto[i].validFrom
        /\ n.validUntil = Dto[i].validUntil
    BY <1>0, NewRateFacts
  <1> HIDE DEF n
  <1>3. TableType'
    <2>1. rates' \subseteq RowType /\ IsFiniteSet(rates')
      BY <1>0, <1>1, <1>2, FS_AddElement DEF TableType
    <2>2. ipc' \in [Ingest -> {"close", "insert", "done", "lost"}]
      BY <1>0, <1>1 DEF TableType
    <2>3. captured' \in [Ingest -> Nat] /\ late' \subseteq Ingest
      BY <1>0, <1>1 DEF TableType, NoteLate
    <2>4. QED
      BY <1>0, <1>1, <2>1, <2>2, <2>3 DEF TableType
  <1>4. Exclusive'
    <2> SUFFICES ASSUME NEW c \in Currency, c \notin overlap'
                 PROVE  /\ \A k, j \in Ingest : Inserting(k, c)' /\ Inserting(j, c)' => k = j
                        /\ (\E k \in Ingest : Inserting(k, c)') => OpenRows(c)' = {}
                        /\ \A x, y \in OpenRows(c)' : x = y
      BY DEF Exclusive
    <2>1. /\ \A k, j \in Ingest : Inserting(k, c) /\ Inserting(j, c) => k = j
          /\ (\E k \in Ingest : Inserting(k, c)) => OpenRows(c) = {}
          /\ \A x, y \in OpenRows(c) : x = y
      BY <1>0, <1>1 DEF Exclusive
    <2>2. \A j \in Ingest : Inserting(j, c)' => Inserting(j, c) /\ j # i
      BY <1>0, <1>1 DEF Inserting, TableType
    <2>3. CASE c = Dto[i].currency
      <3>1. Inserting(i, c)
        BY <1>1, <2>3 DEF Inserting
      <3>2. OpenRows(c) = {} /\ \A j \in Ingest : ~Inserting(j, c)'
        BY <2>1, <2>2, <3>1
      <3>3. OpenRows(c)' \subseteq {n}
        BY <1>1, <3>2 DEF OpenRows
      <3>4. QED
        BY <3>2, <3>3
    <2>4. CASE c # Dto[i].currency
      <3>1. OpenRows(c)' = OpenRows(c)
        BY <1>1, <1>2, <2>4 DEF OpenRows
      <3>2. QED
        BY <2>1, <2>2, <3>1
    <2>5. QED
      BY <2>3, <2>4
  <1>5. NoGap'
    <2> SUFFICES ASSUME NEW c \in Currency, NEW t \in Int,
                        ~(\A x \in rates' : x.currency = c => x.validFrom > t)
                 PROVE  \/ \E x \in rates' : x \in ValidAt(c, t)'
                        \/ \E j \in Ingest : Excuses(j, c, t)'
      BY DEF NoGap
    <2>1. CASE c = Dto[i].currency /\ Dto[i].validFrom <= t
      <3>1. n.validUntil = Open \/ n.validUntil > t \/ Dto[i].validUntil \in Open + 1 .. t
        BY <1>2, DtoFacts
      <3>2. n.validUntil = Open \/ n.validUntil > t => n \in ValidAt(c, t)'
        BY <1>1, <1>2, <2>1 DEF ValidAt
      <3>3. ipc'[i] = "done"
        BY <1>0, <1>1 DEF TableType
      <3>4. Dto[i].validUntil \in Open + 1 .. t => Excuses(i, c, t)'
        BY <2>1, <3>3 DEF Excuses
      <3>5. QED
        BY <1>1, <3>1, <3>2, <3>4
    <2>2. CASE ~(c = Dto[i].currency /\ Dto[i].validFrom <= t)
      <3>1. ~(\A x \in rates : x.currency = c => x.validFrom > t)
        BY <1>1, <1>2, <2>2, DtoFacts
      <3>2. CASE \E x \in rates : x \in ValidAt(c, t)
        BY <1>1, <3>2 DEF ValidAt
      <3>3. CASE \E j \in Ingest : Excuses(j, c, t)
        <4>1. PICK j \in Ingest : Excuses(j, c, t)
          BY <3>3
        <4>2. j # i
          BY <1>1, <2>2, <4>1 DEF Excuses
        <4>3. ipc'[j] = ipc[j]
          BY <1>0, <1>1, <4>2 DEF TableType
        <4>4. QED
          BY <4>1, <4>3 DEF Excuses
      <3>4. QED
        BY <1>0, <3>1, <3>2, <3>3 DEF NoGap
    <2>3. QED
      BY <2>1, <2>2
  <1>6. QED
    BY <1>3, <1>4, <1>5 DEF TableInv

\* An ingestion that dies excuses what it excused before.
LEMMA LostKeeps ==
  ASSUME TableInv, NEW i \in Ingest, IngestFail(i)
  PROVE  TableInv'
  <1>0. TableType /\ Exclusive /\ NoGap
    BY DEF TableInv
  <1>1. /\ ipc[i] = "insert" /\ ipc' = [ipc EXCEPT ![i] = "lost"]
        /\ captured' = [captured EXCEPT ![i] = 0]
        /\ UNCHANGED <<now, rates, late, overlap>>
    BY DEF IngestFail
  <1>2. TableType'
    BY <1>0, <1>1 DEF TableType
  <1>3. \A j \in Ingest : \A c : Inserting(j, c)' => Inserting(j, c)
    BY <1>0, <1>1 DEF TableType, Inserting
  <1>4. Exclusive'
    BY <1>0, <1>1, <1>3 DEF Exclusive, OpenRows
  <1>5. \A j \in Ingest : \A c, t : Excuses(j, c, t) => Excuses(j, c, t)'
    BY <1>0, <1>1 DEF TableType, Excuses
  <1>6. NoGap'
    BY <1>0, <1>1, <1>5 DEF NoGap, ValidAt
  <1>7. QED
    BY <1>2, <1>4, <1>6 DEF TableInv

\* The table does not depend on the runs, and the clock only moves on.
LEMMA OthersKeepTable ==
  ASSUME TableInv, UNCHANGED rateVars, now' \in Nat
  PROVE  TableInv'
  <1>0. TableType /\ Exclusive /\ NoGap
    BY DEF TableInv
  <1>1. UNCHANGED <<rates, ipc, captured, late, overlap>>
    BY DEF rateVars
  <1>2. TableType'
    BY <1>0, <1>1 DEF TableType
  <1>3. Exclusive'
    BY <1>0, <1>1 DEF Exclusive, Inserting, OpenRows
  <1>4. NoGap'
    BY <1>0, <1>1 DEF NoGap, Excuses, ValidAt
  <1>5. QED
    BY <1>2, <1>3, <1>4 DEF TableInv

RunStep(r) ==
  \/ Start(r) \/ ReadPriorRate(r) \/ ReadFallbackRate(r)
  \/ ReadClosingRate(r) \/ Post(r) \/ PostUnacknowledged(r) \/ RunFail(r)

\* A run reads the table and the clock, and changes neither.
LEMMA RunShape ==
  ASSUME NEW r \in Run, RunStep(r)
  PROVE  UNCHANGED <<now, rateVars>>
  BY DEF RunStep, Start, ReadPriorRate, ReadFallbackRate, ReadClosingRate, NextPosition,
         Post, PostUnacknowledged, RunFail

\* Every step keeps the table's invariant.
LEMMA TableNext == TableInv /\ [Next]_vars => TableInv'
  <1> SUFFICES ASSUME TableInv, [Next]_vars PROVE TableInv'
    OBVIOUS
  <1>0. TableType
    BY DEF TableInv
  <1>1. ASSUME NEW i \in Ingest, ClosePrevious(i) PROVE TableInv'
    BY <1>0, <1>1, CloseShape, ClosingKeeps
  <1>2. ASSUME NEW i \in Ingest, InsertRate(i) PROVE TableInv'
    BY <1>2, InsertKeeps
  <1>3. ASSUME NEW i \in Ingest, IngestFail(i) PROVE TableInv'
    BY <1>3, LostKeeps
  <1>4. ASSUME NEW r \in Run, RunStep(r) PROVE TableInv'
    BY <1>0, <1>4, RunShape, OthersKeepTable DEF TableType
  <1>5. CASE Tick
    BY <1>0, <1>5, OthersKeepTable DEF Tick, TableType
  <1>6. CASE UNCHANGED vars
    BY <1>0, <1>6, OthersKeepTable DEF vars, TableType
  <1>7. QED
    BY <1>1, <1>2, <1>3, <1>4, <1>5, <1>6 DEF Next, RunStep

\* The table's invariant holds in every reachable state.
LEMMA TableAlways == Spec => []TableInv
  <1>1. QED
    BY TableInit, TableNext, PTL DEF Spec

-----------------------------------------------------------------------------
\* Two rates of a currency are open at once only when two ingestions of it
\* overlapped between create()'s statements.
THEOREM OpenRatesAreSingle == Spec => []OneOpenRate
  <1>1. ASSUME TableInv PROVE OneOpenRate
    <2> SUFFICES ASSUME NEW c \in Currency, c \notin overlap PROVE Cardinality(OpenRows(c)) <= 1
      BY DEF OneOpenRate
    <2>1. \A x, y \in OpenRows(c) : x = y
      BY <1>1 DEF TableInv, Exclusive
    <2>2. CASE OpenRows(c) = {}
      BY <2>2, FS_EmptySet
    <2>3. CASE OpenRows(c) # {}
      <3>1. PICK x : x \in OpenRows(c)
        BY <2>3
      <3>2. OpenRows(c) = {x}
        BY <2>1, <3>1
      <3>3. QED
        BY <3>2, FS_Singleton
    <2>4. QED
      BY <2>2, <2>3
  <1>2. QED
    BY <1>1, TableAlways, PTL

\* Among the rates valid at an instant one is the latest.
LEMMA LatestExists ==
  ASSUME TableType, NEW R, R \subseteq rates, R # {}
  PROVE  Latest(R) # {}
  <1> DEFINE S == {x.validFrom : x \in R}
             f == [x \in R |-> x.validFrom]
  <1>1. IsFiniteSet(R) /\ \A x \in R : x.validFrom \in Int
    BY FS_Subset, RowFacts DEF TableType
  <1>2. f \in Surjection(R, S)
    BY DEF Surjection
  <1>3. IsFiniteSet(S) /\ S # {} /\ S \subseteq Int
    BY <1>1, <1>2, FS_Surjection
  <1>4. PICK m \in S : \A y \in S : y <= m
    BY <1>3, FiniteMax
  <1>5. PICK x \in R : x.validFrom = m
    BY <1>4
  <1>6. x \in Latest(R)
    BY <1>4, <1>5 DEF Latest
  <1>7. QED
    BY <1>6

\* getCurrentRate() finds a rate of a currency that has had one, unless an
\* ingestion is, or died, between its statements, or a rate ended on its own.
THEOREM GapsHaveACause == Spec => []RateGapOnlyBetweenStatements
  <1>1. ASSUME TableInv PROVE RateGapOnlyBetweenStatements
    <2> SUFFICES ASSUME NEW c \in Currency, NEW x \in rates,
                        x.currency = c, x.validFrom <= now, findCurrent(c) = {}
                 PROVE  \E i \in Ingest :
                          /\ Dto[i].currency = c
                          /\ \/ ipc[i] \in {"insert", "lost"}
                             \/ ipc[i] = "done" /\ Dto[i].validUntil \in Open + 1 .. now
      BY DEF RateGapOnlyBetweenStatements
    <2>1. TableType /\ now \in Int /\ x.validFrom \in Int
      BY <1>1, RowFacts DEF TableInv, TableType
    <2>2. ValidAt(c, now) \subseteq rates
      BY DEF ValidAt
    <2>3. ValidAt(c, now) = {}
      BY <2>1, <2>2, LatestExists DEF findCurrent
    <2>4. PICK i \in Ingest : Excuses(i, c, now)
      BY <1>1, <2>1, <2>3 DEF TableInv, NoGap
    <2>5. QED
      BY <2>4 DEF Excuses
  <1>2. QED
    BY <1>1, TableAlways, PTL

-----------------------------------------------------------------------------
(* What an ingestion does to the rates of an instant.                      *)

\* Two states have the same rates for an instant, up to their ends.
SameRates(R, Q) ==
  /\ \A x \in R : \E y \in Q : y.id = x.id /\ y.rate = x.rate
  /\ \A y \in Q : \E x \in R : y.id = x.id /\ y.rate = x.rate

\* An ingestion leaves the rates of other currencies, and of the instants
\* before its validFrom, as they are.
LEMMA RowsFrom ==
  ASSUME TableType, NEW i \in Ingest, ClosingStep(i) \/ InsertRate(i),
         NEW c \in Currency, NEW t \in Int, ~(Dto[i].currency = c /\ Dto[i].validFrom <= t)
  PROVE  SameRates(findAtTime(c, t), findAtTime(c, t)')
  <1>1. CASE InsertRate(i)
    <2>1. rates' = rates \cup {NewRate(i)}
      BY <1>1 DEF InsertRate
    <2>2. ValidAt(c, t)' = ValidAt(c, t)
      BY <2>1, NewRateFacts, DtoFacts DEF ValidAt
    <2>3. findAtTime(c, t)' = findAtTime(c, t)
      BY <2>2 DEF findAtTime, Latest
    <2>4. QED
      BY <2>3 DEF SameRates
  <1>2. CASE ClosingStep(i)
    <2> DEFINE c0 == Dto[i].currency
               e == Dto[i].validFrom
               C(x) == Closed(x, c0, e)
    <2>1. rates' = {C(x) : x \in rates}
      BY <1>2 DEF ClosingStep
    <2>2. \A x \in rates : /\ C(x) \in rates' /\ C(x).id = x.id /\ C(x).currency = x.currency
                           /\ C(x).rate = x.rate /\ C(x).validFrom = x.validFrom
                           /\ C(x).validUntil = IF x.currency = c0 /\ x.validUntil = Open
                                                THEN e ELSE x.validUntil
                           /\ x.validFrom \in Int /\ x.validUntil \in Int
      BY <2>1, DtoFacts, ClosedFacts, RowFacts DEF TableType
    <2>3. \A y \in rates' : \E x \in rates : y = C(x)
      BY <2>1
    <2>4. e \in Int /\ e # Open
      BY DtoFacts
    <2> HIDE DEF C, e, c0
    <2>5. \A x \in rates : x \in ValidAt(c, t) <=> C(x) \in ValidAt(c, t)'
      <3>1. ~(c0 = c /\ e <= t)
        BY DEF c0, e
      <3>2. QED
        BY <2>2, <2>4, <3>1 DEF ValidAt
    <2>6. ValidAt(c, t) \subseteq rates /\ ValidAt(c, t)' \subseteq rates'
      BY DEF ValidAt
    <2>7. \A x \in rates : x \in findAtTime(c, t) <=> C(x) \in findAtTime(c, t)'
      <3> SUFFICES ASSUME NEW x \in rates
                   PROVE  x \in findAtTime(c, t) <=> C(x) \in findAtTime(c, t)'
        OBVIOUS
      <3>1. ASSUME x \in findAtTime(c, t) PROVE C(x) \in findAtTime(c, t)'
        <4>1. x \in ValidAt(c, t) /\ \A y \in ValidAt(c, t) : y.validFrom <= x.validFrom
          BY <3>1 DEF findAtTime, Latest
        <4>2. \A y \in ValidAt(c, t)' : y.validFrom <= C(x).validFrom
          BY <2>2, <2>3, <2>5, <2>6, <4>1
        <4>3. QED
          BY <2>5, <4>1, <4>2 DEF findAtTime, Latest
      <3>2. ASSUME C(x) \in findAtTime(c, t)' PROVE x \in findAtTime(c, t)
        <4>1. C(x) \in ValidAt(c, t)' /\ \A y \in ValidAt(c, t)' : y.validFrom <= C(x).validFrom
          BY <3>2 DEF findAtTime, Latest
        <4>2. \A y \in ValidAt(c, t) : y.validFrom <= x.validFrom
          BY <2>2, <2>5, <2>6, <4>1
        <4>3. QED
          BY <2>5, <4>1, <4>2 DEF findAtTime, Latest
      <3>3. QED
        BY <3>1, <3>2
    <2>8. findAtTime(c, t) \subseteq rates /\ findAtTime(c, t)' \subseteq rates'
      BY <2>6 DEF findAtTime, Latest
    <2>9. QED
      BY <2>2, <2>3, <2>7, <2>8 DEF SameRates
  <1>3. QED
    BY <1>1, <1>2

\* An ingestion changes the rate of no instant before its validFrom, and
\* nothing else changes the rate of any instant.
THEOREM HistoryIsFixed == Spec => HistoryFixedBeforeValidFrom
  <1> DEFINE Caused(c, t) == \E i \in Ingest : /\ ipc'[i] # ipc[i]
                                               /\ Dto[i].currency = c /\ Dto[i].validFrom <= t
             A == \A c \in Currency, t \in -Day .. MaxTime :
                    Ids(findAtTime(c, t))' # Ids(findAtTime(c, t)) => Caused(c, t)
  <1>1. ASSUME TableInv, [Next]_vars PROVE [A]_vars
    <2>0. TableType
      BY <1>1 DEF TableInv
    <2>1. ASSUME NEW i \in Ingest, ClosePrevious(i) \/ InsertRate(i) PROVE A
      <3> SUFFICES ASSUME NEW c \in Currency, NEW t \in -Day .. MaxTime, ~Caused(c, t)
                   PROVE  Ids(findAtTime(c, t))' = Ids(findAtTime(c, t))
        OBVIOUS
      <3>1. ClosingStep(i) \/ InsertRate(i)
        BY <2>0, <2>1, CloseShape
      <3>2. ipc'[i] # ipc[i]
        BY <2>0, <3>1 DEF TableType, ClosingStep, InsertRate
      <3>3. t \in Int
        BY FxAssumption
      <3>4. ~(Dto[i].currency = c /\ Dto[i].validFrom <= t)
        BY <3>2
      <3>5. SameRates(findAtTime(c, t), findAtTime(c, t)')
        BY <2>0, <3>1, <3>3, <3>4, RowsFrom
      <3>6. QED
        BY <3>5 DEF SameRates, Ids
    <2>2. ASSUME UNCHANGED rates PROVE A
      BY <2>2 DEF findAtTime, Latest, ValidAt, Ids
    <2>3. ASSUME NEW i \in Ingest, IngestFail(i) PROVE UNCHANGED rates
      BY <2>3 DEF IngestFail
    <2>4. ASSUME NEW r \in Run, RunStep(r) PROVE UNCHANGED rates
      BY <2>4, RunShape DEF rateVars
    <2>5. Tick => UNCHANGED rates
      BY DEF Tick, rateVars
    <2> HIDE DEF A
    <2>6. QED
      BY <1>1, <2>1, <2>2, <2>3, <2>4, <2>5 DEF Next, RunStep
  <1>2. QED
    BY <1>1, TableAlways, PTL DEF Spec, HistoryFixedBeforeValidFrom

-----------------------------------------------------------------------------
(* What a run has read.                                                    *)

Reading == [rate : Nat \ {0}, instant : Int]

\* No ingestion reached back to the instant.
Unreached(c, t) == \A i \in late : Dto[i].currency # c \/ Dto[i].validFrom > t

\* A reading is of the past, and is the rate of its instant unless an ingestion
\* reached back to it.
Standing(c, k) ==
  /\ k \in Reading /\ k.instant <= now
  /\ Unreached(c, k.instant) => \E x \in findAtTime(c, k.instant) : x.rate = k.rate

RunStates == {"idle", "prior", "fallback", "closing", "post", "done", "failed"}

RunType ==
  /\ rpc \in [Run -> RunStates]
  /\ asOf \in [Run -> Int] /\ \A r \in Run : asOf[r] <= now
  /\ todo \in [Run -> SUBSET Position]
  /\ basis = [r \in Run |-> basis[r]]
  /\ lines = [r \in Run |-> lines[r]]

Line == [position : Position, cost : Reading, closing : Reading]

GoodLine(l) ==
  /\ l \in Line
  /\ Standing(Holding[l.position].currency, l.cost)
  /\ Standing(Holding[l.position].currency, l.closing)

\* The position in hand, and what was read for it.
HandOK(s, b) ==
  /\ s = "fallback" => \E p \in Position : b = <<p>>
  /\ s = "closing" =>
       \E p \in Position, k \in Reading : b = <<p, k>> /\ Standing(Holding[p].currency, k)
InHand(r) == HandOK(rpc[r], basis[r])

\* A run has at most one line for a position, and none for those to come.
LinesOK(s, T, b, L) ==
  /\ IsFiniteSet(L)
  /\ s = "idle" => L = {}
  /\ \A l, m \in L : l.position = m.position => l = m
  /\ \A l \in L : l.position \notin T
  /\ s \in {"fallback", "closing"} =>
       b[1] \notin T /\ \A l \in L : l.position # b[1]
Once(r) == LinesOK(rpc[r], todo[r], basis[r], lines[r])

ReadInv ==
  /\ RunType
  /\ \A r \in Run : (\A l \in lines[r] : GoodLine(l)) /\ InHand(r) /\ Once(r)

\* No run has read anything at the start.
LEMMA ReadInit == Init => ReadInv
  <1> SUFFICES ASSUME Init PROVE ReadInv
    OBVIOUS
  <1>1. RunType
    BY DEF Init, RunType, RunStates
  <1>2. ASSUME NEW r \in Run PROVE (\A l \in lines[r] : GoodLine(l)) /\ InHand(r) /\ Once(r)
    <2>1. lines[r] = {} /\ rpc[r] = "idle" /\ todo[r] = {}
      BY DEF Init
    <2>2. QED
      BY <2>1, FS_EmptySet DEF InHand, Once, HandOK, LinesOK
  <1>3. QED
    BY <1>1, <1>2 DEF ReadInv

\* A reading stands, whatever is ingested and however time passes.
LEMMA StandingKept ==
  ASSUME TableType, NEW c \in Currency, NEW k, Standing(c, k),
         \/ \E i \in Ingest : ClosePrevious(i) \/ InsertRate(i) \/ IngestFail(i)
         \/ UNCHANGED rateVars /\ now' \in Nat /\ now <= now'
  PROVE  Standing(c, k)'
  <1>0. k \in Reading /\ k.instant \in Int /\ k.instant <= now /\ now \in Nat
    BY DEF Standing, Reading, TableType
  <1>1. ASSUME NEW i \in Ingest, ClosePrevious(i) \/ InsertRate(i) PROVE Standing(c, k)'
    <2>1. ClosingStep(i) \/ InsertRate(i)
      BY <1>1, CloseShape
    <2>2. now' = now /\ NoteLate(i)
      BY <2>1 DEF ClosingStep, InsertRate
    <2>3. late \subseteq late'
      BY <2>2 DEF NoteLate
    <2>4. CASE Dto[i].currency = c /\ Dto[i].validFrom <= k.instant
      <3>1. i \in late'
        BY <1>0, <2>2, <2>4, DtoFacts DEF NoteLate
      <3>2. ~Unreached(c, k.instant)'
        BY <1>0, <2>4, <3>1, DtoFacts DEF Unreached
      <3>3. QED
        BY <1>0, <2>2, <3>2 DEF Standing
    <2>5. CASE ~(Dto[i].currency = c /\ Dto[i].validFrom <= k.instant)
      <3>1. SameRates(findAtTime(c, k.instant), findAtTime(c, k.instant)')
        BY <1>0, <2>1, <2>5, RowsFrom
      <3>2. Unreached(c, k.instant)' => Unreached(c, k.instant)
        BY <2>3 DEF Unreached
      <3>3. QED
        BY <1>0, <2>2, <3>1, <3>2 DEF Standing, SameRates
    <2>6. QED
      BY <2>4, <2>5
  <1>2. ASSUME UNCHANGED <<rates, late>>, now' \in Nat, now <= now' PROVE Standing(c, k)'
    <2>1. k.instant <= now'
      BY <1>0, <1>2
    <2>2. findAtTime(c, k.instant)' = findAtTime(c, k.instant)
      BY <1>2 DEF findAtTime, Latest, ValidAt
    <2>3. Unreached(c, k.instant)' <=> Unreached(c, k.instant)
      BY <1>2 DEF Unreached
    <2>4. QED
      BY <1>0, <2>1, <2>2, <2>3 DEF Standing
  <1>3. ASSUME NEW i \in Ingest, IngestFail(i) PROVE Standing(c, k)'
    <2>1. UNCHANGED <<rates, late>> /\ now' = now
      BY <1>3 DEF IngestFail
    <2>2. QED
      BY <1>0, <1>2, <2>1
  <1>4. QED
    BY <1>1, <1>2, <1>3 DEF rateVars

\* The line of a position is of its currency.
LEMMA HoldingFacts ==
  ASSUME NEW p \in Position
  PROVE  /\ Holding[p].currency \in Currency /\ Holding[p].balance \in Int
         /\ Holding[p].since \in Int /\ p \in Nat
  <1>1. Holding[p] \in HoldingType /\ p \in Nat
    BY FxAssumption
  <1>2. Holding[p].currency \in Currency /\ Holding[p].balance \in Int /\ Holding[p].since \in Instant
    BY <1>1 DEF HoldingType
  <1>3. QED
    BY <1>1, <1>2 DEF Instant

\* Ingestions and the clock leave what the runs have read standing.
LEMMA OthersKeepReadings ==
  ASSUME TableType, ReadInv, UNCHANGED runVars, now' \in Nat, now <= now',
         \/ \E i \in Ingest : ClosePrevious(i) \/ InsertRate(i) \/ IngestFail(i)
         \/ UNCHANGED rateVars
  PROVE  ReadInv'
  <1>1. UNCHANGED <<rpc, asOf, todo, basis, lines, journal, books>>
    BY DEF runVars
  <1>2. \A c \in Currency : \A k : Standing(c, k) => Standing(c, k)'
    BY StandingKept
  <1>3. RunType'
    <2>1. \A r \in Run : asOf[r] \in Int /\ asOf[r] <= now
      BY DEF ReadInv, RunType
    <2>2. \A r \in Run : asOf'[r] <= now'
      BY <1>1, <2>1 DEF TableType
    <2>3. QED
      BY <1>1, <2>2 DEF ReadInv, RunType
  <1>4. ASSUME NEW r \in Run, NEW l \in lines'[r] PROVE GoodLine(l)'
    <2>1. GoodLine(l)
      BY <1>1, <1>4 DEF ReadInv
    <2>2. Holding[l.position].currency \in Currency
      BY <2>1, HoldingFacts DEF GoodLine, Line
    <2>3. QED
      BY <1>2, <2>1, <2>2 DEF GoodLine
  <1>5. ASSUME NEW r \in Run PROVE InHand(r)' /\ Once(r)'
    <2>1. InHand(r) /\ Once(r)
      BY DEF ReadInv
    <2>2. InHand(r)'
      BY <1>1, <1>2, <2>1, HoldingFacts DEF InHand, HandOK
    <2>3. Once(r)'
      BY <1>1, <2>1 DEF Once, LinesOK
    <2>4. QED
      BY <2>2, <2>3
  <1>6. QED
    BY <1>3, <1>4, <1>5 DEF ReadInv

\* A step of a run that leaves good local variables behind.
LEMMA LocalStep ==
  ASSUME ReadInv, NEW r \in Run, UNCHANGED <<now, rateVars>>,
         NEW s \in RunStates, NEW d \in Int, d <= now, NEW T \in SUBSET Position, NEW b, NEW L,
         rpc' = [rpc EXCEPT ![r] = s], asOf' = [asOf EXCEPT ![r] = d],
         todo' = [todo EXCEPT ![r] = T], basis' = [basis EXCEPT ![r] = b],
         lines' = [lines EXCEPT ![r] = L],
         \A l \in L : GoodLine(l), HandOK(s, b), LinesOK(s, T, b, L)
  PROVE  ReadInv'
  <1>0. RunType /\ UNCHANGED <<now, rates, late>>
    BY DEF ReadInv, rateVars
  <1>1. RunType'
    <2>1. rpc' \in [Run -> RunStates] /\ asOf' \in [Run -> Int] /\ todo' \in [Run -> SUBSET Position]
      BY <1>0 DEF RunType
    <2>2. \A q \in Run : asOf'[q] <= now'
      BY <1>0 DEF RunType
    <2>3. basis' = [q \in Run |-> basis'[q]] /\ lines' = [q \in Run |-> lines'[q]]
      BY <1>0 DEF RunType
    <2>4. QED
      BY <2>1, <2>2, <2>3 DEF RunType
  <1>2. \A c, k : Standing(c, k)' <=> Standing(c, k)
    BY <1>0 DEF Standing, Unreached, findAtTime, Latest, ValidAt
  <1>3. \A l : GoodLine(l)' <=> GoodLine(l)
    BY <1>2 DEF GoodLine
  <1>4. \A z, a : HandOK(z, a)' <=> HandOK(z, a)
    BY <1>2 DEF HandOK
  <1>5. ASSUME NEW q \in Run PROVE ((\A l \in lines[q] : GoodLine(l)) /\ InHand(q) /\ Once(q))'
    <2>0. (\A l \in lines[q] : GoodLine(l)) /\ InHand(q) /\ Once(q)
      BY DEF ReadInv
    <2>1. CASE q = r
      <3>1. rpc'[r] = s /\ todo'[r] = T /\ basis'[r] = b /\ lines'[r] = L
        BY <1>0 DEF RunType
      <3>2. InHand(r)' /\ Once(r)'
        BY <1>4, <3>1 DEF InHand, Once, LinesOK
      <3>3. \A l \in lines'[r] : GoodLine(l)'
        BY <1>3, <3>1
      <3>4. QED
        BY <2>1, <3>2, <3>3
    <2>2. CASE q # r
      <3>1. rpc'[q] = rpc[q] /\ todo'[q] = todo[q] /\ basis'[q] = basis[q] /\ lines'[q] = lines[q]
        BY <1>0, <2>2 DEF RunType
      <3>2. InHand(q)' /\ Once(q)'
        BY <1>4, <2>0, <3>1 DEF InHand, Once, LinesOK
      <3>3. \A l \in lines'[q] : GoodLine(l)'
        BY <1>3, <2>0, <3>1
      <3>4. QED
        BY <3>2, <3>3
    <2>3. QED
      BY <2>1, <2>2
  <1>6. QED
    BY <1>1, <1>5 DEF ReadInv

\* A run that throws has nothing left.
LEMMA ThrowKeeps ==
  ASSUME TableType, ReadInv, NEW r \in Run, Throw(r), UNCHANGED <<now, rateVars>>
  PROVE  ReadInv'
  <1>1. HandOK("failed", NoBasis) /\ LinesOK("failed", {}, NoBasis, {}) /\ "failed" \in RunStates
    BY FS_EmptySet DEF HandOK, LinesOK, RunStates
  <1>2. /\ rpc' = [rpc EXCEPT ![r] = "failed"] /\ asOf' = [asOf EXCEPT ![r] = 0]
        /\ todo' = [todo EXCEPT ![r] = {}] /\ basis' = [basis EXCEPT ![r] = NoBasis]
        /\ lines' = [lines EXCEPT ![r] = {}]
    BY DEF Throw, Goto
  <1>3. 0 <= now /\ 0 \in Int /\ {} \in SUBSET Position
    BY DEF TableType
  <1>4. QED
    BY <1>1, <1>2, <1>3, LocalStep

\* The current rate of a currency stands for the present instant.
LEMMA CurrentStands ==
  ASSUME TableType, NEW c \in Currency, NEW x \in findCurrent(c)
  PROVE  Standing(c, [rate |-> x.rate, instant |-> now])
  <1>1. x \in rates /\ x \in findAtTime(c, now)
    BY DEF findCurrent, findAtTime, Latest, ValidAt
  <1>2. x.rate \in Nat \ {0} /\ now \in Nat
    BY <1>1, RowFacts DEF TableType
  <1>3. QED
    BY <1>1, <1>2 DEF Standing, Reading

\* Every step of a run leaves what it has read standing.
LEMMA RunKeepsReadings ==
  ASSUME TableType, ReadInv, NEW r \in Run, RunStep(r)
  PROVE  ReadInv'
  <1>0. /\ RunType /\ UNCHANGED <<now, rateVars>> /\ now \in Nat
        /\ asOf[r] \in Int /\ asOf[r] <= now /\ todo[r] \in SUBSET Position
        /\ \A l \in lines[r] : GoodLine(l)
        /\ HandOK(rpc[r], basis[r]) /\ LinesOK(rpc[r], todo[r], basis[r], lines[r])
    BY RunShape DEF ReadInv, RunType, TableType, InHand, Once
  <1>k. /\ asOf = [asOf EXCEPT ![r] = asOf[r]] /\ todo = [todo EXCEPT ![r] = todo[r]]
        /\ basis = [basis EXCEPT ![r] = basis[r]] /\ lines = [lines EXCEPT ![r] = lines[r]]
    BY <1>0 DEF RunType
  <1>1. CASE Start(r)
    <2>1. PICK d \in asOfDates :
            /\ asOf' = [asOf EXCEPT ![r] = d]
            /\ todo' = [todo EXCEPT ![r] = {p \in Position : Holding[p].since <= d}]
            /\ Goto(r, IF {p \in Position : Holding[p].since <= d} = {} THEN "done" ELSE "prior")
      BY <1>1 DEF Start
    <2> DEFINE T == {p \in Position : Holding[p].since <= d}
    <2>2. d \in Int /\ d <= now
      BY <1>0, FxAssumption DEF asOfDates
    <2>3. PICK s \in {"done", "prior"} : rpc' = [rpc EXCEPT ![r] = s]
      BY <2>1 DEF Goto
    <2>4. UNCHANGED <<basis, lines>> /\ rpc[r] = "idle"
      BY <1>1 DEF Start
    <2>5. T \in SUBSET Position /\ s \in RunStates
      BY DEF RunStates
    <2>6. HandOK(s, basis[r]) /\ LinesOK(s, T, basis[r], lines[r])
      BY <1>0, <2>4, FS_EmptySet DEF HandOK, LinesOK
    <2>7. basis' = [basis EXCEPT ![r] = basis[r]] /\ lines' = [lines EXCEPT ![r] = lines[r]]
      BY <1>k, <2>4
    <2> HIDE DEF T
    <2>8. todo' = [todo EXCEPT ![r] = T]
      BY <2>1 DEF T
    <2>9. QED
      BY <1>0, <2>1, <2>2, <2>3, <2>5, <2>6, <2>7, <2>8, LocalStep
  <1>2. CASE ReadPriorRate(r)
    <2>1. PICK p \in todo[r] :
            /\ todo' = [todo EXCEPT ![r] = todo[r] \ {p}]
            /\ \/ \E x \in findAtTime(Holding[p].currency, PriorInstant(r)) :
                    /\ basis' = [basis EXCEPT ![r] =
                                   <<p, [rate |-> x.rate, instant |-> PriorInstant(r)]>>]
                    /\ Goto(r, "closing")
               \/ basis' = [basis EXCEPT ![r] = <<p>>] /\ Goto(r, "fallback")
      BY <1>2 DEF ReadPriorRate
    <2>2. UNCHANGED <<asOf, lines>> /\ rpc[r] = "prior" /\ p \in Position
      BY <1>0, <1>2 DEF ReadPriorRate
    <2>3. /\ asOf' = [asOf EXCEPT ![r] = asOf[r]] /\ lines' = [lines EXCEPT ![r] = lines[r]]
          /\ todo[r] \ {p} \in SUBSET Position
      BY <1>0, <1>k, <2>2
    <2>4. ASSUME NEW s \in {"fallback", "closing"}, NEW b, b[1] = p
          PROVE  LinesOK(s, todo[r] \ {p}, b, lines[r])
      <3>1. \A l \in lines[r] : l.position \notin todo[r]
        BY <1>0 DEF LinesOK
      <3>2. QED
        BY <1>0, <2>1, <2>4, <3>1 DEF LinesOK
    <2>5. CASE basis' = [basis EXCEPT ![r] = <<p>>] /\ Goto(r, "fallback")
      <3>1. HandOK("fallback", <<p>>) /\ LinesOK("fallback", todo[r] \ {p}, <<p>>, lines[r])
        BY <2>2, <2>4 DEF HandOK
      <3>2. "fallback" \in RunStates /\ rpc' = [rpc EXCEPT ![r] = "fallback"]
        BY <2>5 DEF RunStates, Goto
      <3>3. QED
        BY <1>0, <2>1, <2>3, <2>5, <3>1, <3>2, LocalStep
    <2>6. ASSUME NEW x \in findAtTime(Holding[p].currency, PriorInstant(r)),
                 basis' = [basis EXCEPT ![r] = <<p, [rate |-> x.rate, instant |-> PriorInstant(r)]>>],
                 Goto(r, "closing")
          PROVE  ReadInv'
      <3> DEFINE k == [rate |-> x.rate, instant |-> PriorInstant(r)]
      <3>1. PriorInstant(r) \in Int /\ PriorInstant(r) <= now
        BY <1>0, FxAssumption DEF PriorInstant
      <3>2. x.rate \in Nat \ {0}
        BY RowFacts DEF findAtTime, Latest, ValidAt, TableType
      <3>3. k \in Reading /\ Standing(Holding[p].currency, k)
        BY <3>1, <3>2 DEF Reading, Standing
      <3> HIDE DEF k
      <3>4. HandOK("closing", <<p, k>>) /\ LinesOK("closing", todo[r] \ {p}, <<p, k>>, lines[r])
        BY <2>2, <2>4, <3>3 DEF HandOK
      <3>5. "closing" \in RunStates /\ rpc' = [rpc EXCEPT ![r] = "closing"]
            /\ basis' = [basis EXCEPT ![r] = <<p, k>>]
        BY <2>6 DEF RunStates, Goto, k
      <3>6. QED
        BY <1>0, <2>1, <2>3, <3>4, <3>5, LocalStep
    <2>7. QED
      BY <2>1, <2>5, <2>6
  <1>3. CASE ReadFallbackRate(r)
    <2>1. CASE Throw(r)
      BY <1>0, <2>1, ThrowKeeps
    <2>2. ASSUME NEW x \in findCurrent(CurrencyOf(r)), Goto(r, "closing"), UNCHANGED <<asOf, todo, lines>>,
                 basis' = [basis EXCEPT ![r] = <<basis[r][1], [rate |-> x.rate, instant |-> now]>>]
          PROVE  ReadInv'
      <3> DEFINE k == [rate |-> x.rate, instant |-> now]
      <3>1. PICK p \in Position : basis[r] = <<p>>
        BY <1>0, <1>3 DEF ReadFallbackRate, HandOK
      <3>2. CurrencyOf(r) = Holding[p].currency /\ basis[r][1] = p /\ Holding[p].currency \in Currency
        BY <3>1, HoldingFacts DEF CurrencyOf
      <3>3. Standing(Holding[p].currency, k)
        BY <2>2, <3>2, CurrentStands
      <3> HIDE DEF k
      <3>4. HandOK("closing", <<p, k>>)
        BY <3>3 DEF HandOK, Standing
      <3>5. LinesOK("closing", todo[r], <<p, k>>, lines[r])
        BY <1>0, <1>3, <3>2 DEF LinesOK, ReadFallbackRate
      <3>6. /\ "closing" \in RunStates /\ rpc' = [rpc EXCEPT ![r] = "closing"]
            /\ basis' = [basis EXCEPT ![r] = <<p, k>>]
            /\ asOf' = [asOf EXCEPT ![r] = asOf[r]] /\ lines' = [lines EXCEPT ![r] = lines[r]]
            /\ todo' = [todo EXCEPT ![r] = todo[r]]
        BY <1>k, <2>2, <3>2 DEF RunStates, Goto, k
      <3>7. QED
        BY <1>0, <3>4, <3>5, <3>6, LocalStep
    <2>3. QED
      BY <1>3, <2>1, <2>2 DEF ReadFallbackRate
  <1>4. CASE ReadClosingRate(r)
    <2>1. PICK p \in Position, k \in Reading :
            basis[r] = <<p, k>> /\ Standing(Holding[p].currency, k)
      BY <1>0, <1>4 DEF ReadClosingRate, HandOK
    <2>2. /\ CurrencyOf(r) = Holding[p].currency /\ basis[r][1] = p /\ basis[r][2] = k
          /\ Holding[p].currency \in Currency
      BY <2>1, HoldingFacts DEF CurrencyOf
    <2>3. PICK s \in {"post", "prior"} : rpc' = [rpc EXCEPT ![r] = s]
      BY <1>4 DEF ReadClosingRate, NextPosition, Goto
    <2>4. /\ basis' = [basis EXCEPT ![r] = NoBasis] /\ s \in RunStates
          /\ asOf' = [asOf EXCEPT ![r] = asOf[r]] /\ todo' = [todo EXCEPT ![r] = todo[r]]
      BY <1>k, <1>4 DEF ReadClosingRate, NextPosition, RunStates
    <2>5. HandOK(s, NoBasis)
      BY DEF HandOK
    <2>6. p \notin todo[r] /\ \A l \in lines[r] : l.position # p
      BY <1>0, <1>4, <2>2 DEF LinesOK, ReadClosingRate
    <2>7. CASE UNCHANGED lines
      <3>1. LinesOK(s, todo[r], NoBasis, lines[r])
        BY <1>0 DEF LinesOK
      <3>2. lines' = [lines EXCEPT ![r] = lines[r]]
        BY <1>k, <2>7
      <3>3. QED
        BY <1>0, <2>3, <2>4, <2>5, <3>1, <3>2, LocalStep
    <2>8. ASSUME NEW x \in findCurrent(CurrencyOf(r)),
                 lines' = [lines EXCEPT ![r] = lines[r] \cup {LineOf(r, x)}]
          PROVE  ReadInv'
      <3> DEFINE n == LineOf(r, x)
                 m == [rate |-> x.rate, instant |-> now]
      <3>1. Standing(Holding[p].currency, m)
        BY <2>2, <2>8, CurrentStands
      <3> HIDE DEF m
      <3>2. n = [position |-> p, cost |-> k, closing |-> m]
        BY <2>2 DEF LineOf, m
      <3>3. n \in Line /\ n.position = p /\ n.cost = k /\ n.closing = m
        BY <3>1, <3>2 DEF Line, Standing
      <3>4. GoodLine(n)
        BY <2>1, <3>1, <3>3 DEF GoodLine
      <3> HIDE DEF n
      <3>5. IsFiniteSet(lines[r] \cup {n})
        BY <1>0, FS_AddElement DEF LinesOK
      <3>6. LinesOK(s, todo[r], NoBasis, lines[r] \cup {n})
        BY <1>0, <2>6, <3>3, <3>5 DEF LinesOK
      <3>7. \A l \in lines[r] \cup {n} : GoodLine(l)
        BY <1>0, <3>4
      <3>8. lines' = [lines EXCEPT ![r] = lines[r] \cup {n}]
        BY <2>8 DEF n
      <3>9. QED
        BY <1>0, <2>3, <2>4, <2>5, <3>6, <3>7, <3>8, LocalStep
    <2>9. QED
      BY <1>4, <2>7, <2>8 DEF ReadClosingRate
  <1>5. CASE Post(r) \/ PostUnacknowledged(r)
    <2>1. PICK s \in {"done", "failed"} : rpc' = [rpc EXCEPT ![r] = s]
      BY <1>5 DEF Post, PostUnacknowledged, Goto
    <2>2. UNCHANGED <<asOf, todo, basis, lines>>
      BY <1>5 DEF Post, PostUnacknowledged
    <2>3. s \in RunStates /\ HandOK(s, basis[r]) /\ LinesOK(s, todo[r], basis[r], lines[r])
      BY <1>0 DEF RunStates, HandOK, LinesOK
    <2>4. /\ asOf' = [asOf EXCEPT ![r] = asOf[r]] /\ todo' = [todo EXCEPT ![r] = todo[r]]
          /\ basis' = [basis EXCEPT ![r] = basis[r]] /\ lines' = [lines EXCEPT ![r] = lines[r]]
      BY <1>k, <2>2
    <2>5. QED
      BY <1>0, <2>1, <2>3, <2>4, LocalStep
  <1>6. CASE RunFail(r)
    BY <1>0, <1>6, ThrowKeeps DEF RunFail
  <1>7. QED
    BY <1>1, <1>2, <1>3, <1>4, <1>5, <1>6 DEF RunStep

\* Every step keeps both invariants.
LEMMA ReadNext == TableInv /\ ReadInv /\ [Next]_vars => ReadInv'
  <1> SUFFICES ASSUME TableInv, ReadInv, [Next]_vars PROVE ReadInv'
    OBVIOUS
  <1>0. TableType /\ now \in Nat
    BY DEF TableInv, TableType
  <1>1. ASSUME NEW i \in Ingest, ClosePrevious(i) \/ InsertRate(i) \/ IngestFail(i) PROVE ReadInv'
    <2>1. UNCHANGED <<now, runVars>>
      BY <1>1 DEF ClosePrevious, BeginCreate, InsertRate, IngestFail
    <2>2. QED
      BY <1>0, <1>1, <2>1, OthersKeepReadings
  <1>2. ASSUME NEW r \in Run, RunStep(r) PROVE ReadInv'
    BY <1>0, <1>2, RunKeepsReadings
  <1>3. CASE Tick
    <2>1. now' \in Nat /\ now <= now' /\ UNCHANGED rateVars /\ UNCHANGED runVars
      BY <1>0, <1>3 DEF Tick
    <2>2. QED
      BY <1>0, <2>1, OthersKeepReadings
  <1>4. CASE UNCHANGED vars
    <2>1. now' \in Nat /\ now <= now' /\ UNCHANGED rateVars /\ UNCHANGED runVars
      BY <1>0, <1>4 DEF vars
    <2>2. QED
      BY <1>0, <2>1, OthersKeepReadings
  <1>5. QED
    BY <1>1, <1>2, <1>3, <1>4 DEF Next, RunStep

\* Both invariants hold in every reachable state.
LEMMA ReadAlways == Spec => [](TableInv /\ ReadInv)
  <1>1. QED
    BY TableInit, TableNext, ReadInit, ReadNext, PTL DEF Spec

\* Where an instant has one rate, every reading of it that stands has that rate.
LEMMA ReadingsAgree ==
  ASSUME TableType, NEW c \in Currency, NEW t \in Int, Settled(c, t)
  PROVE  /\ \A x, y \in findAtTime(c, t) : x = y
         /\ \A k : Standing(c, k) /\ k.instant = t => \E x \in findAtTime(c, t) : x.rate = k.rate
  <1>1. findAtTime(c, t) \subseteq rates
    BY DEF findAtTime, Latest, ValidAt
  <1>2. IsFiniteSet(findAtTime(c, t)) /\ Cardinality(findAtTime(c, t)) <= 1
    BY <1>1, FS_Subset DEF TableType, Settled
  <1>3. \A x, y \in findAtTime(c, t) : x = y
    <2> SUFFICES ASSUME NEW x \in findAtTime(c, t), NEW y \in findAtTime(c, t), x # y PROVE FALSE
      OBVIOUS
    <2>1. {x, y} \subseteq findAtTime(c, t)
      OBVIOUS
    <2>2. Cardinality({x, y}) <= Cardinality(findAtTime(c, t)) /\ Cardinality({x, y}) = 2
      <3>1. IsFiniteSet({x}) /\ Cardinality({x}) = 1
        BY FS_Singleton
      <3>2. IsFiniteSet({x} \cup {y}) /\ Cardinality({x} \cup {y}) = 2
        BY <3>1, FS_AddElement
      <3>3. {x} \cup {y} = {x, y}
        OBVIOUS
      <3>4. QED
        BY <1>2, <2>1, <3>2, <3>3, FS_Subset
    <2>3. Cardinality(findAtTime(c, t)) \in Nat
      BY <1>2, FS_CardinalityType
    <2>4. QED
      BY <1>2, <2>2, <2>3
  <1>4. Unreached(c, t)
    BY DEF Settled, Unreached
  <1>5. QED
    BY <1>3, <1>4 DEF Standing

\* All runs see one rate for a settled instant: the closing rate of one night
\* is the cost basis of the next.
THEOREM InstantsHaveOneRate == Spec => []InstantHasOneRate
  <1>1. ASSUME TableInv, ReadInv PROVE InstantHasOneRate
    <2> DEFINE All == UNION {Readings(r) : r \in Run}
    <2> SUFFICES ASSUME NEW x \in All, NEW y \in All,
                        x.currency = y.currency, x.reading.instant = y.reading.instant,
                        Settled(x.currency, x.reading.instant)
                 PROVE  x.reading.rate = y.reading.rate
      BY DEF InstantHasOneRate
    <2>1. ASSUME NEW z \in All
          PROVE  z.currency \in Currency /\ z.reading \in Reading /\ Standing(z.currency, z.reading)
      <3>1. PICK r \in Run : z \in Readings(r)
        BY <2>1
      <3>2. PICK l \in lines[r] :
              \/ z = [currency |-> Holding[l.position].currency, reading |-> l.cost]
              \/ z = [currency |-> Holding[l.position].currency, reading |-> l.closing]
        BY <3>1 DEF Readings
      <3>3. GoodLine(l)
        BY <1>1, <3>2 DEF ReadInv
      <3>4. /\ Holding[l.position].currency \in Currency /\ l.cost \in Reading /\ l.closing \in Reading
            /\ Standing(Holding[l.position].currency, l.cost)
            /\ Standing(Holding[l.position].currency, l.closing)
        BY <3>3, HoldingFacts DEF GoodLine, Line
      <3>5. QED
        BY <3>2, <3>4
    <2> HIDE DEF All
    <2>2. TableType /\ x.reading.instant \in Int
      BY <1>1, <2>1 DEF TableInv, Reading
    <2>3. PICK a \in findAtTime(x.currency, x.reading.instant) : a.rate = x.reading.rate
      BY <2>1, <2>2, ReadingsAgree
    <2>4. PICK b \in findAtTime(x.currency, x.reading.instant) : b.rate = y.reading.rate
      BY <2>1, <2>2, ReadingsAgree
    <2>5. a = b
      BY <2>1, <2>2, ReadingsAgree
    <2>6. QED
      BY <2>3, <2>4, <2>5
  <1>2. QED
    BY <1>1, ReadAlways, PTL

-----------------------------------------------------------------------------
(* The journals of the runs.                                               *)

\* Rounding returns whole units.
LEMMA ValueType ==
  ASSUME NEW p \in Position, NEW n \in Nat
  PROVE  Value(p, n) \in Int
  <1>1. Holding[p].balance * n \in Int
    BY HoldingFacts
  <1>2. \A h \in Int : Round(h) \in Int
    BY DEF Round
  <1>3. QED
    BY <1>1, <1>2 DEF Value

\* The gain or loss of a line is a whole number of units.
LEMMA UnrealisedType ==
  ASSUME NEW l \in Line
  PROVE  /\ Unrealised(l) \in Int
         /\ Value(l.position, l.closing.rate) \in Int /\ Value(l.position, l.cost.rate) \in Int
  <1>1. l.position \in Position /\ l.closing.rate \in Nat /\ l.cost.rate \in Nat
    BY DEF Line, Reading
  <1>2. QED
    BY <1>1, ValueType DEF Unrealised

\* The totals of a run are numbers.
LEMMA TotalsType ==
  ASSUME ReadInv, NEW r \in Run
  PROVE  totalGain(r) \in Int /\ totalLoss(r) \in Int /\ netImpact(r) \in Int
  <1>1. IsFiniteSet(lines[r]) /\ \A l \in lines[r] : l \in Line
    BY DEF ReadInv, GoodLine, Once, LinesOK
  <1>2. \A l \in lines[r] : Unrealised(l) \in Int
    BY <1>1, UnrealisedType
  <1>3. Gains(r) \subseteq lines[r] /\ Losses(r) \subseteq lines[r]
    BY DEF Gains, Losses
  <1>4. IsFiniteSet(Gains(r)) /\ IsFiniteSet(Losses(r))
    BY <1>1, <1>3, FS_Subset
  <1>5. totalGain(r) \in Int
    <2> DEFINE w == [l \in Gains(r) |-> Unrealised(l)]
    <2>1. \A l \in Gains(r) : w[l] \in Int
      BY <1>2, <1>3
    <2> HIDE DEF w
    <2>2. SumFunctionOnSet(w, Gains(r)) \in Int
      BY <1>4, <2>1, SumType
    <2>3. QED
      BY <2>2 DEF totalGain, w
  <1>6. totalLoss(r) \in Int
    <2> DEFINE w == [l \in Losses(r) |-> -Unrealised(l)]
    <2>1. \A l \in Losses(r) : w[l] \in Int
      BY <1>2, <1>3
    <2> HIDE DEF w
    <2>2. SumFunctionOnSet(w, Losses(r)) \in Int
      BY <1>4, <2>1, SumType
    <2>3. QED
      BY <2>2 DEF totalLoss, w
  <1>7. QED
    BY <1>5, <1>6 DEF netImpact

\* A run without lines books nothing.
LEMMA NoLinesNoImpact ==
  ASSUME NEW r, lines[r] = {}
  PROVE  netImpact(r) = 0
  <1>1. Gains(r) = {} /\ Losses(r) = {}
    BY DEF Gains, Losses
  <1>2. totalGain(r) = 0 /\ totalLoss(r) = 0
    BY <1>1, SumEmpty DEF totalGain, totalLoss
  <1>3. QED
    BY <1>2 DEF netImpact

GainOf == [r \in journal |-> totalGain(r)]
LossOf == [r \in journal |-> totalLoss(r)]
NetOf  == [r \in journal |-> netImpact(r)]

\* The three accounts hold the sums of the posted runs, and only runs that are
\* over have posted.
BookInv ==
  /\ IsFiniteSet(journal) /\ journal \subseteq Run
  /\ books \in [BookAccount -> Int]
  /\ \A r \in journal : rpc[r] \in {"done", "failed"}
  /\ \A r \in Run : rpc[r] = "done" => (r \in journal <=> netImpact(r) # 0)
  /\ books[Gain] = -SumFunctionOnSet(GainOf, journal)
  /\ books[Loss] = SumFunctionOnSet(LossOf, journal)
  /\ books[Suspense] = SumFunctionOnSet(NetOf, journal)

\* No run is in the books at the start.
LEMMA BookInit == Init => BookInv
  <1> SUFFICES ASSUME Init PROVE BookInv
    OBVIOUS
  <1>1. journal = {} /\ books \in [BookAccount -> Int] /\ \A a \in BookAccount : books[a] = 0
    BY DEF Init
  <1>2. \A r \in Run : rpc[r] = "idle"
    BY DEF Init
  <1>3. SumFunctionOnSet(GainOf, {}) = 0 /\ SumFunctionOnSet(LossOf, {}) = 0
        /\ SumFunctionOnSet(NetOf, {}) = 0
    BY SumEmpty
  <1>4. Gain \in BookAccount /\ Loss \in BookAccount /\ Suspense \in BookAccount
    BY DEF BookAccount
  <1>5. QED
    BY <1>1, <1>2, <1>3, <1>4, FS_EmptySet DEF BookInv

\* The totals of a run depend on its lines only.
LEMMA TotalsKept ==
  ASSUME NEW r, lines'[r] = lines[r]
  PROVE  totalGain(r)' = totalGain(r) /\ totalLoss(r)' = totalLoss(r) /\ netImpact(r)' = netImpact(r)
  <1>1. Gains(r)' = Gains(r) /\ Losses(r)' = Losses(r)
    BY DEF Gains, Losses, Unrealised, Value, Round
  <1>2. totalGain(r)' = totalGain(r) /\ totalLoss(r)' = totalLoss(r)
    BY <1>1 DEF totalGain, totalLoss, Unrealised, Value, Round
  <1>3. QED
    BY <1>2 DEF netImpact

\* A step that posts nothing and leaves the finished runs alone.
LEMMA UnbookedStep ==
  ASSUME BookInv, UNCHANGED <<journal, books>>,
         \A r \in Run : rpc[r] \in {"done", "failed"} => rpc'[r] = rpc[r] /\ lines'[r] = lines[r],
         \A r \in Run : rpc'[r] = "done" /\ rpc[r] # "done" => r \notin journal /\ netImpact(r)' = 0
  PROVE  BookInv'
  <1>1. \A r \in journal : r \in Run /\ rpc'[r] = rpc[r] /\ lines'[r] = lines[r]
    BY DEF BookInv
  <1>2. \A r \in journal : /\ totalGain(r)' = totalGain(r) /\ totalLoss(r)' = totalLoss(r)
                           /\ netImpact(r)' = netImpact(r)
    BY <1>1, TotalsKept
  <1>3. GainOf' = GainOf /\ LossOf' = LossOf /\ NetOf' = NetOf
    BY <1>2 DEF GainOf, LossOf, NetOf
  <1>4. ASSUME NEW r \in Run, rpc'[r] = "done" PROVE r \in journal' <=> netImpact(r)' # 0
    <2>1. CASE rpc[r] = "done"
      <3>1. netImpact(r)' = netImpact(r)
        BY <2>1, TotalsKept
      <3>2. QED
        BY <2>1, <3>1 DEF BookInv
    <2>2. CASE rpc[r] # "done"
      BY <1>4, <2>2
    <2>3. QED
      BY <2>1, <2>2
  <1>5. QED
    BY <1>1, <1>3, <1>4 DEF BookInv

\* Posting the journal of r adds its totals to the three accounts.
LEMMA JournalStep ==
  ASSUME ReadInv, BookInv, NEW r \in Run, rpc[r] = "post", Journal(r), netImpact(r) # 0,
         NEW s \in {"done", "failed"}, Goto(r, s), UNCHANGED lines
  PROVE  BookInv'
  <1>0. rpc \in [Run -> RunStates]
    BY DEF ReadInv, RunType
  <1>1. /\ journal' = journal \cup {r}
        /\ books' = [books EXCEPT ![Suspense] = books[Suspense] + totalGain(r) - totalLoss(r),
                                  ![Gain] = books[Gain] - totalGain(r),
                                  ![Loss] = books[Loss] + totalLoss(r)]
    BY DEF Journal, Suspense, Gain, Loss
  <1>2. r \notin journal /\ IsFiniteSet(journal) /\ journal \subseteq Run
    BY DEF BookInv
  <1>3. \A q \in Run : totalGain(q)' = totalGain(q) /\ totalLoss(q)' = totalLoss(q)
                       /\ netImpact(q)' = netImpact(q)
    BY TotalsKept
  <1>4. \A q \in Run : totalGain(q) \in Int /\ totalLoss(q) \in Int /\ netImpact(q) \in Int
    BY TotalsType
  <1>5. /\ \A q \in journal \cup {r} : GainOf'[q] = totalGain(q) /\ LossOf'[q] = totalLoss(q)
                                       /\ NetOf'[q] = netImpact(q)
        /\ \A q \in journal : GainOf[q] = totalGain(q) /\ LossOf[q] = totalLoss(q)
                              /\ NetOf[q] = netImpact(q)
    BY <1>1, <1>2, <1>3 DEF GainOf, LossOf, NetOf
  <1>6. ASSUME NEW w, NEW v, \A q \in journal \cup {r} : v[q] \in Int, \A q \in journal : v[q] = w[q]
        PROVE  SumFunctionOnSet(v, journal \cup {r}) = v[r] + SumFunctionOnSet(w, journal)
    <2>1. SumFunctionOnSet(v, journal \cup {r}) = v[r] + SumFunctionOnSet(v, journal)
      BY <1>2, <1>6, SumAdd
    <2>2. SumFunctionOnSet(v, journal) = SumFunctionOnSet(w, journal)
      BY <1>2, <1>6, SumEqual
    <2>3. QED
      BY <2>1, <2>2
  <1>7. \A q \in journal \cup {r} : q \in Run
    BY <1>2
  <1>8. SumFunctionOnSet(GainOf', journal') = totalGain(r) + SumFunctionOnSet(GainOf, journal)
    BY <1>1, <1>4, <1>5, <1>6, <1>7
  <1>9. SumFunctionOnSet(LossOf', journal') = totalLoss(r) + SumFunctionOnSet(LossOf, journal)
    BY <1>1, <1>4, <1>5, <1>6, <1>7
  <1>10. SumFunctionOnSet(NetOf', journal') = netImpact(r) + SumFunctionOnSet(NetOf, journal)
    BY <1>1, <1>4, <1>5, <1>6, <1>7
  <1>11. /\ SumFunctionOnSet(GainOf, journal) \in Int /\ SumFunctionOnSet(LossOf, journal) \in Int
         /\ SumFunctionOnSet(NetOf, journal) \in Int
    BY <1>2, <1>4, <1>5, SumType
  <1>12. Gain \in BookAccount /\ Loss \in BookAccount /\ Suspense \in BookAccount
         /\ Gain # Loss /\ Gain # Suspense /\ Loss # Suspense
    BY DEF BookAccount, Gain, Loss, Suspense
  <1>13. books \in [BookAccount -> Int]
    BY DEF BookInv
  <1>14. /\ books'[Gain] = books[Gain] - totalGain(r) /\ books'[Loss] = books[Loss] + totalLoss(r)
         /\ books'[Suspense] = books[Suspense] + totalGain(r) - totalLoss(r)
         /\ books' \in [BookAccount -> Int]
    BY <1>1, <1>4, <1>12, <1>13
  <1>15. /\ books'[Gain] = -SumFunctionOnSet(GainOf', journal')
         /\ books'[Loss] = SumFunctionOnSet(LossOf', journal')
    BY <1>4, <1>8, <1>9, <1>11, <1>14 DEF BookInv
  <1>16. books'[Suspense] = SumFunctionOnSet(NetOf', journal')
    BY <1>4, <1>10, <1>11, <1>14 DEF BookInv, netImpact
  <1>17. IsFiniteSet(journal') /\ journal' \subseteq Run
    BY <1>1, <1>2, FS_AddElement
  <1>18. rpc' = [rpc EXCEPT ![r] = s]
    BY DEF Goto
  <1>19. \A q \in journal' : rpc'[q] \in {"done", "failed"}
    BY <1>0, <1>1, <1>18 DEF BookInv
  <1>20. \A q \in Run : rpc'[q] = "done" => (q \in journal' <=> netImpact(q)' # 0)
    BY <1>0, <1>1, <1>3, <1>18 DEF BookInv
  <1>21. QED
    BY <1>14, <1>15, <1>16, <1>17, <1>19, <1>20 DEF BookInv

\* Every step keeps the books.
LEMMA BookNext == ReadInv /\ BookInv /\ [Next]_vars => BookInv'
  <1> SUFFICES ASSUME ReadInv, BookInv, [Next]_vars PROVE BookInv'
    OBVIOUS
  <1>0. rpc \in [Run -> RunStates] /\ lines = [q \in Run |-> lines[q]]
    BY DEF ReadInv, RunType
  <1>1. ASSUME UNCHANGED runVars PROVE BookInv'
    BY <1>1, UnbookedStep DEF runVars
  <1>2. ASSUME NEW i \in Ingest, ClosePrevious(i) \/ InsertRate(i) \/ IngestFail(i)
        PROVE  UNCHANGED runVars
    BY <1>2 DEF ClosePrevious, BeginCreate, InsertRate, IngestFail
  <1>3. ASSUME NEW r \in Run, RunStep(r) PROVE BookInv'
    <2>j. rpc[r] \notin {"done", "failed"} => r \notin journal
      BY DEF BookInv
    <2>l. ASSUME NEW s, rpc' = [rpc EXCEPT ![r] = s], rpc[r] \notin {"done", "failed"},
                 \A q \in Run : q # r => lines'[q] = lines[q],
                 UNCHANGED <<journal, books>>, s = "done" => netImpact(r)' = 0
          PROVE  BookInv'
      <3>1. \A q \in Run : q # r => rpc'[q] = rpc[q]
        BY <1>0, <2>l
      <3>2. rpc'[r] = s
        BY <1>0, <2>l
      <3>3. \A q \in Run : rpc[q] \in {"done", "failed"} => rpc'[q] = rpc[q] /\ lines'[q] = lines[q]
        BY <2>l, <3>1
      <3>4. \A q \in Run : rpc'[q] = "done" /\ rpc[q] # "done" => q \notin journal /\ netImpact(q)' = 0
        BY <2>j, <2>l, <3>1, <3>2
      <3>5. QED
        BY <2>l, <3>3, <3>4, UnbookedStep
    <2>1. CASE Start(r)
      <3>1. PICK s \in {"done", "prior"} : rpc' = [rpc EXCEPT ![r] = s]
        BY <2>1 DEF Start, Goto
      <3>2. UNCHANGED <<lines, journal, books>> /\ rpc[r] = "idle"
        BY <2>1 DEF Start
      <3>3. lines'[r] = {}
        BY <3>2 DEF ReadInv, Once, LinesOK
      <3>4. netImpact(r)' = 0
        <4>1. netImpact(r) = 0
          BY <3>2, <3>3, NoLinesNoImpact
        <4>2. QED
          BY <3>2, <4>1, TotalsKept
      <3>5. QED
        BY <2>l, <3>1, <3>2, <3>4
    <2>2. CASE ReadPriorRate(r)
      <3>1. PICK s \in {"closing", "fallback"} : rpc' = [rpc EXCEPT ![r] = s]
        BY <2>2 DEF ReadPriorRate, Goto
      <3>2. UNCHANGED <<lines, journal, books>> /\ rpc[r] = "prior"
        BY <2>2 DEF ReadPriorRate
      <3>3. QED
        BY <2>l, <3>1, <3>2
    <2>3. CASE ReadFallbackRate(r) \/ RunFail(r)
      <3>1. PICK s \in {"closing", "failed"} : rpc' = [rpc EXCEPT ![r] = s]
        BY <2>3 DEF ReadFallbackRate, RunFail, Throw, Goto
      <3>2. lines' = lines \/ lines' = [lines EXCEPT ![r] = {}]
        BY <2>3 DEF ReadFallbackRate, RunFail, Throw
      <3>3. UNCHANGED <<journal, books>> /\ rpc[r] \in {"fallback", "post"}
        BY <2>3 DEF ReadFallbackRate, RunFail
      <3>4. \A q \in Run : q # r => lines'[q] = lines[q]
        BY <1>0, <3>2
      <3>5. QED
        BY <2>l, <3>1, <3>3, <3>4
    <2>4. CASE ReadClosingRate(r)
      <3>1. PICK s \in {"post", "prior"} : rpc' = [rpc EXCEPT ![r] = s]
        BY <2>4 DEF ReadClosingRate, NextPosition, Goto
      <3>2. UNCHANGED <<journal, books>> /\ rpc[r] = "closing"
        BY <2>4 DEF ReadClosingRate, NextPosition
      <3>3. \A q \in Run : q # r => lines'[q] = lines[q]
        BY <1>0, <2>4 DEF ReadClosingRate
      <3>4. QED
        BY <2>l, <3>1, <3>2, <3>3
    <2>5. CASE Post(r)
      <3>1. rpc[r] = "post" /\ Goto(r, "done") /\ UNCHANGED lines
        BY <2>5 DEF Post
      <3>2. CASE netImpact(r) # 0 /\ Journal(r)
        BY <3>1, <3>2, JournalStep
      <3>3. CASE netImpact(r) = 0 /\ UNCHANGED <<journal, books>>
        <4>1. netImpact(r)' = 0
          BY <3>1, <3>3, TotalsKept
        <4>2. QED
          BY <2>l, <3>1, <3>3, <4>1 DEF Goto
      <3>4. QED
        BY <2>5, <3>2, <3>3 DEF Post
    <2>6. CASE PostUnacknowledged(r)
      BY <2>6, JournalStep DEF PostUnacknowledged
    <2>7. QED
      BY <1>3, <2>1, <2>2, <2>3, <2>4, <2>5, <2>6 DEF RunStep
  <1>4. Tick => UNCHANGED runVars
    BY DEF Tick
  <1>5. UNCHANGED vars => UNCHANGED runVars
    BY DEF vars
  <1>6. QED
    BY <1>1, <1>2, <1>3, <1>4, <1>5 DEF Next, RunStep

\* The three invariants hold in every reachable state.
LEMMA BookAlways == Spec => [](TableInv /\ ReadInv /\ BookInv)
  <1>1. QED
    BY TableInit, TableNext, ReadInit, ReadNext, BookInit, BookNext, PTL DEF Spec

\* A run that ended normally is booked exactly once unless it nets to nothing,
\* and the suspense, gain and loss accounts hold the sums of the posted runs.
THEOREM RunsBookedOnce == Spec => []RunsAreBooked
  <1>1. BookInv => RunsAreBooked
    BY DEF BookInv, RunsAreBooked, GainOf, LossOf, NetOf
  <1>2. QED
    BY <1>1, BookAlways, PTL

-----------------------------------------------------------------------------
(* The exposure report and the nightly runs.                               *)

\* Rounding moves an amount by at most half a unit.
LEMMA RoundBounds ==
  ASSUME NEW h \in Int
  PROVE  Round(h) \in Int /\ h - 1 <= 2 * Round(h) /\ 2 * Round(h) <= h + 1
  BY DEF Round

\* Valuing the positions one by one and valuing their total differ by half a
\* unit for each position and half a unit for the total.
LEMMA RoundingDrift ==
  ASSUME NEW S, IsFiniteSet(S), NEW w, \A p \in S : w[p] \in Int, NEW k \in Int,
         NEW v, \A p \in S : v[p] = Round(w[p] * k)
  PROVE  2 * (SumFunctionOnSet(v, S) - Round(SumFunctionOnSet(w, S) * k))
           \in -(Cardinality(S) + 1) .. Cardinality(S) + 1
  <1> DEFINE h == [p \in S |-> w[p] * k]
             one == [p \in S |-> 1]
             up == [p \in S |-> h[p] + 1]
             vv == [p \in S |-> v[p] + v[p]]
             hv == [p \in S |-> vv[p] + 1]
             n == Cardinality(S)
             W == SumFunctionOnSet(w, S)
             V == SumFunctionOnSet(v, S)
  <1>1. \A a, b \in Int : a * b \in Int
    OBVIOUS
  <1>2. \A p \in S : h[p] = w[p] * k /\ h[p] \in Int
    BY <1>1
  <1>3. \A p \in S : v[p] \in Int /\ h[p] - 1 <= 2 * v[p] /\ 2 * v[p] <= h[p] + 1
    BY <1>2, RoundBounds
  <1>4. /\ \A p \in S : one[p] = 1
        /\ \A p \in S : up[p] = h[p] + one[p] /\ up[p] \in Int
        /\ \A p \in S : vv[p] = v[p] + v[p] /\ vv[p] \in Int
        /\ \A p \in S : hv[p] = vv[p] + one[p] /\ hv[p] \in Int
        /\ \A p \in S : vv[p] <= up[p] /\ h[p] <= hv[p]
    BY <1>2, <1>3
  <1> HIDE DEF h, one, up, vv, hv
  <1>5. SumFunctionOnSet(h, S) = W * k
    BY <1>2, SumScale
  <1>6. SumFunctionOnSet(one, S) = n
    BY <1>4, SumOnes
  <1>7. /\ W \in Int /\ V \in Int /\ SumFunctionOnSet(h, S) \in Int
        /\ SumFunctionOnSet(vv, S) \in Int /\ n \in Nat
    BY <1>2, <1>3, <1>4, SumType, FS_CardinalityType
  <1>8. SumFunctionOnSet(up, S) = SumFunctionOnSet(h, S) + n
    <2>1. \A p \in S : h[p] \in Int /\ one[p] \in Int /\ up[p] = h[p] + one[p]
      BY <1>2, <1>4
    <2>2. QED
      BY <1>6, <2>1, SumPlus
  <1>9. SumFunctionOnSet(vv, S) = V + V
    BY <1>3, <1>4, SumPlus
  <1>10. SumFunctionOnSet(hv, S) = SumFunctionOnSet(vv, S) + n
    <2>1. \A p \in S : vv[p] \in Int /\ one[p] \in Int /\ hv[p] = vv[p] + one[p]
      BY <1>4
    <2>2. QED
      BY <1>6, <2>1, SumPlus
  <1>11. SumFunctionOnSet(vv, S) <= SumFunctionOnSet(up, S)
    BY <1>4, SumLeq
  <1>12. SumFunctionOnSet(h, S) <= SumFunctionOnSet(hv, S)
    BY <1>2, <1>4, SumLeq
  <1>13. /\ Round(W * k) \in Int /\ W * k - 1 <= 2 * Round(W * k) /\ 2 * Round(W * k) <= W * k + 1
         /\ W * k \in Int
    BY <1>1, <1>7, RoundBounds
  <1> HIDE DEF W, V, n
  <1>14. 2 * (V - Round(W * k)) \in -(n + 1) .. n + 1
    <2> DEFINE R == Round(W * k)
               H == W * k
    <2>1. /\ R \in Int /\ H \in Int /\ H - 1 <= 2 * R /\ 2 * R <= H + 1
          /\ V + V <= H + n /\ H <= V + V + n
      BY <1>5, <1>7, <1>8, <1>9, <1>10, <1>11, <1>12, <1>13
    <2> HIDE DEF R, H
    <2>2. 2 * (V - R) \in -(n + 1) .. n + 1
      BY <1>7, <2>1
    <2>3. QED
      BY <2>2 DEF R
  <1>15. QED
    BY <1>14 DEF W, V, n

\* The exposure report values a currency as a run of the same date did, up to
\* half a unit for each rounding.
THEOREM ExposureTiesToRuns == Spec => []ExposureMatchesRevaluation
  <1>1. ASSUME TableInv, ReadInv PROVE ExposureMatchesRevaluation
    <2> SUFFICES ASSUME NEW r \in Run, NEW c \in Currency,
                        Held(c, asOf[r]) # {}, Settled(c, asOf[r]),
                        {l.position : l \in {m \in lines[r] : /\ m.position \in Held(c, asOf[r])
                                                              /\ m.closing.instant = asOf[r]}}
                          = Held(c, asOf[r]),
                        NEW e \in Exposure(c, asOf[r])
                 PROVE  2 * (ClosingValue({m \in lines[r] : /\ m.position \in Held(c, asOf[r])
                                                            /\ m.closing.instant = asOf[r]}) - e)
                          \in -(Cardinality(Held(c, asOf[r])) + 1) .. Cardinality(Held(c, asOf[r])) + 1
      BY DEF ExposureMatchesRevaluation
    <2> DEFINE t == asOf[r]
               held == Held(c, t)
               valued == {m \in lines[r] : m.position \in held /\ m.closing.instant = t}
    <2>0. TableType /\ t \in Int /\ valued \subseteq lines[r] /\ {l.position : l \in valued} = held
      BY <1>1 DEF TableInv, ReadInv, RunType
    <2>1. held \subseteq Position /\ \A p \in held : Holding[p].currency = c /\ Holding[p].balance \in Int
      BY HoldingFacts DEF Held
    <2>2. /\ IsFiniteSet(valued) /\ \A l \in valued : GoodLine(l) /\ l \in Line
          /\ \A l, m \in valued : l.position = m.position => l = m
          /\ \A l \in valued : l.position \in held /\ l.closing.instant = t
      <3>1. IsFiniteSet(lines[r]) /\ \A l, m \in lines[r] : l.position = m.position => l = m
        BY <1>1 DEF ReadInv, Once, LinesOK
      <3>2. IsFiniteSet(valued)
        BY <2>0, <3>1, FS_Subset
      <3>3. \A l \in lines[r] : GoodLine(l) /\ l \in Line
        BY <1>1 DEF ReadInv, GoodLine
      <3>4. QED
        BY <2>0, <3>1, <3>2, <3>3
    <2>3. PICK l0 : l0 \in valued
      BY <2>0
    <2>4. Settled(c, t) /\ e \in Exposure(c, t) /\ held # {}
      OBVIOUS
    <2>v. ClosingValue({m \in lines[r] : m.position \in Held(c, asOf[r]) /\ m.closing.instant = asOf[r]})
            = ClosingValue(valued)
      OBVIOUS
    <2> HIDE DEF valued, held, t
    <2>5. ASSUME NEW l \in valued PROVE \E x \in findAtTime(c, t) : x.rate = l.closing.rate
      <3>1. Standing(c, l.closing) /\ l.closing.instant = t
        BY <2>1, <2>2 DEF GoodLine
      <3>2. QED
        BY <2>0, <2>4, <3>1, ReadingsAgree
    <2>6. PICK x0 \in findAtTime(c, t) : x0.rate = l0.closing.rate
      BY <2>3, <2>5
    <2>7. \A x \in findAtTime(c, t) : x = x0
      BY <2>0, <2>4, <2>6, ReadingsAgree
    <2>8. x0.rate \in Int
      <3>1. x0 \in rates
        BY DEF findAtTime, Latest, ValidAt
      <3>2. QED
        BY <2>0, <3>1, RowFacts DEF TableType
    <2> DEFINE k == x0.rate
               w == [p \in held |-> Holding[p].balance]
               v == [p \in held |-> Value(p, k)]
               u == [l \in valued |-> Value(l.position, l.closing.rate)]
               h == [l \in valued |-> l.position]
    <2>9. e = Round(SumFunctionOnSet(w, held) * k)
      <3>1. findAtTime(c, t) = {x0}
        BY <2>6, <2>7
      <3>2. exposureRate(c, t) = {k}
        BY <3>1 DEF exposureRate, findAtTime
      <3>3. Exposure(c, t) = {Round(ExposureBalance(c, t) * k)}
        BY <3>2 DEF Exposure
      <3>4. ExposureBalance(c, t) = SumFunctionOnSet(w, held)
        BY DEF ExposureBalance, held
      <3>5. QED
        BY <2>4, <3>3, <3>4
    <2>10. \A l \in valued : l.closing.rate = k
      BY <2>5, <2>7
    <2>11. {h[l] : l \in valued} = held
      BY <2>0
    <2>12. \A l, m \in valued : h[l] = h[m] => l = m
      BY <2>2
    <2>13. \A l \in valued : u[l] \in Int /\ v[h[l]] = u[l]
      BY <2>2, <2>10, UnrealisedType
    <2>14. IsFiniteSet(held)
      <3>1. h \in Surjection(valued, held)
        BY <2>0, <2>2 DEF Surjection
      <3>2. QED
        BY <2>2, <3>1, FS_Surjection
    <2>15. \A p \in held : w[p] \in Int /\ v[p] = Round(w[p] * k)
      BY <2>1 DEF Value
    <2>16. ClosingValue(valued) = SumFunctionOnSet(u, valued)
      BY DEF ClosingValue
    <2> HIDE DEF w, v, u, h, k
    <2>17. SumFunctionOnSet(v, {h[l] : l \in valued}) = SumFunctionOnSet(u, valued)
      <3>1. IsFiniteSet(valued)
        BY <2>2
      <3>2. QED
        BY ONLY <2>12, <2>13, <3>1, SumImage
    <2>18. 2 * (SumFunctionOnSet(v, held) - Round(SumFunctionOnSet(w, held) * k))
             \in -(Cardinality(held) + 1) .. Cardinality(held) + 1
      BY <2>8, <2>14, <2>15, RoundingDrift DEF k
    <2>19. 2 * (ClosingValue(valued) - e) \in -(Cardinality(held) + 1) .. Cardinality(held) + 1
      BY <2>9, <2>11, <2>16, <2>17, <2>18
    <2>20. QED
      BY <2>v, <2>19 DEF held, t
  <1>2. QED
    BY <1>1, ReadAlways, PTL

CostValue(L) == SumFunctionOnSet([l \in L |-> Value(l.position, l.cost.rate)], L)

\* What a run books is the value of its positions at the closing rates less
\* their value at the cost-basis rates.
LEMMA NetIsValueChange ==
  ASSUME ReadInv, NEW r \in Run
  PROVE  /\ netImpact(r) = ClosingValue(lines[r]) - CostValue(lines[r])
         /\ ClosingValue(lines[r]) \in Int /\ CostValue(lines[r]) \in Int
  <1> DEFINE L == lines[r]
             G == Gains(r)
             D == Losses(r)
             U == [l \in L |-> Unrealised(l)]
             C == [l \in L |-> Value(l.position, l.closing.rate)]
             B == [l \in L |-> Value(l.position, l.cost.rate)]
             ug == [l \in G |-> Unrealised(l)]
             ud == [l \in D |-> -Unrealised(l)]
  <1>1. IsFiniteSet(L) /\ \A l \in L : l \in Line
    BY DEF ReadInv, GoodLine, Once, LinesOK
  <1>2. \A l \in L : U[l] \in Int /\ C[l] \in Int /\ B[l] \in Int /\ C[l] = U[l] + B[l]
    BY <1>1, UnrealisedType DEF Unrealised
  <1>3. G \subseteq L /\ D \subseteq L \ G /\ \A l \in (L \ G) \ D : U[l] = 0
    <2>1. \A l \in L : Unrealised(l) \in Int /\ U[l] = Unrealised(l)
      BY <1>1, UnrealisedType
    <2>2. \A l : (l \in G <=> l \in L /\ Unrealised(l) > 0) /\ (l \in D <=> l \in L /\ Unrealised(l) < 0)
      BY DEF Gains, Losses
    <2> HIDE DEF G, D, L, U
    <2>3. G \subseteq L /\ D \subseteq L \ G
      BY <2>1, <2>2
    <2>4. \A l \in (L \ G) \ D : U[l] = 0
      BY <2>1, <2>2
    <2>5. QED
      BY <2>3, <2>4
  <1>4. /\ \A l \in G : ug[l] = U[l]
        /\ \A l \in D : U[l] \in Int /\ ud[l] = -U[l]
    BY <1>2, <1>3
  <1>5. IsFiniteSet(G) /\ IsFiniteSet(L \ G) /\ IsFiniteSet(D) /\ IsFiniteSet((L \ G) \ D)
    BY <1>1, <1>3, FS_Subset
  <1>6. totalGain(r) = SumFunctionOnSet(ug, G) /\ totalLoss(r) = SumFunctionOnSet(ud, D)
    BY DEF totalGain, totalLoss
  <1>7. ClosingValue(L) = SumFunctionOnSet(C, L) /\ CostValue(L) = SumFunctionOnSet(B, L)
    BY DEF ClosingValue, CostValue
  <1> HIDE DEF L, G, D, U, C, B, ug, ud
  <1>8. SumFunctionOnSet(U, L) = SumFunctionOnSet(U, G) + SumFunctionOnSet(U, L \ G)
    BY <1>1, <1>2, <1>3, SumSplit
  <1>9. SumFunctionOnSet(U, L \ G) = SumFunctionOnSet(U, D) + SumFunctionOnSet(U, (L \ G) \ D)
    <2>1. \A l \in L \ G : U[l] \in Int
      BY <1>2
    <2>2. QED
      BY <1>3, <1>5, <2>1, SumSplit
  <1>10. SumFunctionOnSet(U, (L \ G) \ D) = 0
    BY <1>3, <1>5, SumZero
  <1>11. SumFunctionOnSet(ug, G) = SumFunctionOnSet(U, G)
    BY <1>4, <1>5, SumEqual
  <1>12. SumFunctionOnSet(ud, D) = -SumFunctionOnSet(U, D)
    BY <1>4, <1>5, SumNegate
  <1>13. SumFunctionOnSet(C, L) = SumFunctionOnSet(U, L) + SumFunctionOnSet(B, L)
    BY <1>1, <1>2, SumPlus
  <1>14. /\ SumFunctionOnSet(U, L) \in Int /\ SumFunctionOnSet(B, L) \in Int
         /\ SumFunctionOnSet(C, L) \in Int
    BY <1>1, <1>2, SumType
  <1>15. SumFunctionOnSet(U, G) \in Int
    <2>1. \A l \in G : U[l] \in Int
      BY <1>2, <1>3
    <2>2. QED
      BY <1>5, <2>1, SumType
  <1>16. SumFunctionOnSet(U, D) \in Int
    BY <1>4, <1>5, SumType
  <1>17. netImpact(r) = SumFunctionOnSet(U, L)
    BY <1>6, <1>8, <1>9, <1>10, <1>11, <1>12, <1>15, <1>16 DEF netImpact
  <1>18. QED
    BY <1>7, <1>13, <1>14, <1>17 DEF L

\* The closing rates of a night are the cost basis of the next.
LEMMA NightsMeet ==
  ASSUME TableType, ReadInv, Nightly, NEW r \in Run, NEW q \in Run,
         rpc[r] # "idle", rpc[q] # "idle", asOf[q] = asOf[r] + Day
  PROVE  CostValue(lines[q]) = ClosingValue(lines[r])
  <1> DEFINE t == asOf[r]
             C == [l \in lines[r] |-> Value(l.position, l.closing.rate)]
             B == [m \in lines[q] |-> Value(m.position, m.cost.rate)]
             Same(l, m) == m \in lines[q] /\ m.position = l.position
             g == [l \in lines[r] |-> CHOOSE m : Same(l, m)]
  <1>1. t \in Int /\ asOf[q] - Day = t
    BY FxAssumption DEF ReadInv, RunType
  <1>2. /\ {l.position : l \in lines[r]} = Position /\ {m.position : m \in lines[q]} = Position
        /\ \A l \in lines[r] : l.closing.instant = t /\ Settled(Holding[l.position].currency, t)
        /\ \A m \in lines[q] : m.cost.instant = t
    BY <1>1 DEF Nightly
  <1>3. /\ IsFiniteSet(lines[r])
        /\ \A l, m \in lines[r] : l.position = m.position => l = m
        /\ \A l, m \in lines[q] : l.position = m.position => l = m
    BY DEF ReadInv, Once, LinesOK
  <1>4. \A l \in lines[r] : GoodLine(l) /\ l \in Line
    BY DEF ReadInv, GoodLine
  <1>5. \A m \in lines[q] : GoodLine(m) /\ m \in Line
    BY DEF ReadInv, GoodLine
  <1>6. ASSUME NEW l \in lines[r] PROVE g[l] \in lines[q] /\ g[l].position = l.position
    <2>1. l.position \in {m.position : m \in lines[q]}
      BY <1>2
    <2>2. \E m : Same(l, m)
      BY <2>1
    <2>3. Same(l, CHOOSE m : Same(l, m))
      BY <2>2
    <2>4. QED
      BY <2>3
  <1> HIDE DEF g
  <1>7. \A l, m \in lines[r] : g[l] = g[m] => l = m
    BY <1>3, <1>6
  <1>8. {g[l] : l \in lines[r]} = lines[q]
    <2>1. ASSUME NEW m \in lines[q] PROVE \E l \in lines[r] : g[l] = m
      <3>1. m.position \in {l.position : l \in lines[r]}
        BY <1>2
      <3>2. PICK l \in lines[r] : l.position = m.position
        BY <3>1
      <3>3. g[l] = m
        BY <1>3, <1>6, <3>2
      <3>4. QED
        BY <3>3
    <2>2. QED
      BY <1>6, <2>1
  <1>9. ASSUME NEW l \in lines[r] PROVE C[l] \in Int /\ B[g[l]] = C[l]
    <2> DEFINE m == g[l]
               c == Holding[l.position].currency
    <2>1. m \in lines[q] /\ m.position = l.position /\ l \in Line /\ m \in Line
      BY <1>4, <1>5, <1>6
    <2>2. c \in Currency
      BY <2>1, HoldingFacts DEF Line
    <2>3. Standing(c, l.closing) /\ Standing(c, m.cost) /\ Settled(c, t)
          /\ l.closing.instant = t /\ m.cost.instant = t
      BY <1>2, <1>4, <1>5, <2>1 DEF GoodLine
    <2> HIDE DEF m, c, t
    <2>4. l.closing.rate = m.cost.rate
      BY <1>1, <2>2, <2>3, ReadingsAgree
    <2>5. C[l] = Value(l.position, l.closing.rate) /\ B[m] = Value(m.position, m.cost.rate)
      BY <2>1
    <2>6. C[l] \in Int
      BY <2>1, <2>5, UnrealisedType
    <2>7. QED
      BY <2>1, <2>4, <2>5, <2>6 DEF m
  <1>10. CostValue(lines[q]) = SumFunctionOnSet(B, lines[q])
         /\ ClosingValue(lines[r]) = SumFunctionOnSet(C, lines[r])
    BY DEF CostValue, ClosingValue
  <1> HIDE DEF B, C
  <1>11. SumFunctionOnSet(B, {g[l] : l \in lines[r]}) = SumFunctionOnSet(C, lines[r])
    <2>1. IsFiniteSet(lines[r]) /\ \A l \in lines[r] : C[l] \in Int /\ B[g[l]] = C[l]
      BY <1>3, <1>9
    <2>2. QED
      BY ONLY <1>7, <2>1, SumImage
  <1>12. QED
    BY <1>8, <1>10, <1>11

Started == {r \in Run : rpc[r] # "idle"}

\* Finitely many runs have started.
LEMMA StartedFinite == Spec => []IsFiniteSet(Started)
  <1>1. Init => IsFiniteSet(Started)
    <2>1. Init => Started = {}
      BY DEF Init, Started
    <2>2. QED
      BY <2>1, FS_EmptySet
  <1>2. ReadInv /\ IsFiniteSet(Started) /\ [Next]_vars => IsFiniteSet(Started)'
    <2> SUFFICES ASSUME ReadInv, IsFiniteSet(Started), [Next]_vars PROVE IsFiniteSet(Started')
      OBVIOUS
    <2>0. rpc \in [Run -> RunStates]
      BY DEF ReadInv, RunType
    <2>1. ASSUME NEW r \in Run, RunStep(r) PROVE Started' \subseteq Started \cup {r}
      <3>1. \E s : rpc' = [rpc EXCEPT ![r] = s]
        BY <2>1 DEF RunStep, Start, ReadPriorRate, ReadFallbackRate, ReadClosingRate, NextPosition,
                    Post, PostUnacknowledged, RunFail, Throw, Goto
      <3>2. QED
        BY <2>0, <3>1 DEF Started
    <2>2. ASSUME NEW i \in Ingest, ClosePrevious(i) \/ InsertRate(i) \/ IngestFail(i)
          PROVE  Started' \subseteq Started
      BY <2>2 DEF ClosePrevious, BeginCreate, InsertRate, IngestFail, runVars, Started
    <2>3. Tick \/ UNCHANGED vars => Started' \subseteq Started
      BY DEF Tick, vars, runVars, Started
    <2>4. \A r : IsFiniteSet(Started \cup {r})
      BY FS_AddElement
    <2>5. QED
      BY <2>1, <2>2, <2>3, <2>4, FS_Subset DEF Next, RunStep
  <1>3. QED
    BY <1>1, <1>2, ReadAlways, PTL DEF Spec

\* The first and the last night of a finite set of runs.
LEMMA FirstLastNight ==
  ASSUME ReadInv, NEW S, S \subseteq Run, IsFiniteSet(S), S # {}
  PROVE  /\ \E r \in S : \A s \in S : asOf[r] <= asOf[s]
         /\ \E r \in S : \A s \in S : asOf[s] <= asOf[r]
  <1> DEFINE T == {asOf[r] : r \in S}
             N == {-asOf[r] : r \in S}
             f == [r \in S |-> asOf[r]]
             g == [r \in S |-> -asOf[r]]
  <1>0. \A r \in S : asOf[r] \in Int
    BY DEF ReadInv, RunType
  <1>1. f \in Surjection(S, T) /\ g \in Surjection(S, N)
    BY DEF Surjection
  <1>2. IsFiniteSet(T) /\ IsFiniteSet(N)
    BY <1>1, FS_Surjection
  <1>3. T \subseteq Int /\ N \subseteq Int /\ T # {} /\ N # {}
    BY <1>0
  <1>4. \E m \in T : \A x \in T : x <= m
    BY <1>2, <1>3, FiniteMax
  <1>5. \E m \in N : \A x \in N : x <= m
    BY <1>2, <1>3, FiniteMax
  <1>6. \E r \in S : \A s \in S : asOf[s] <= asOf[r]
    BY <1>4
  <1>7. \E r \in S : \A s \in S : asOf[r] <= asOf[s]
    <2>1. PICK r \in S : \A s \in S : -asOf[s] <= -asOf[r]
      BY <1>5
    <2>2. QED
      BY <1>0, <2>1
  <1>8. QED
    BY <1>6, <1>7

\* Run once a night, what all runs have booked is the value at the last closing
\* less the value before the first: the inner nights cancel.
THEOREM NightsTelescope == Spec => []NightlyRunsTelescope
  <1>1. ASSUME TableInv, ReadInv, BookInv, IsFiniteSet(Started) PROVE NightlyRunsTelescope
    <2> DEFINE first == CHOOSE r \in Started : \A s \in Started : asOf[r] <= asOf[s]
               last == CHOOSE r \in Started : \A s \in Started : asOf[s] <= asOf[r]
    <2> SUFFICES ASSUME Nightly
                 PROVE  books[Suspense] = ClosingValue(lines[last]) - CostValue(lines[first])
      BY DEF NightlyRunsTelescope, Started, CostValue
    <2>0. TableType /\ Started \subseteq Run /\ asOf \in [Run -> Int] /\ Day \in Nat \ {0}
      BY <1>1, FxAssumption DEF TableInv, Started, ReadInv, RunType
    <2>1. /\ Started # {}
          /\ \A r \in Started : rpc[r] = "done"
          /\ \A r, s \in Started : asOf[r] = asOf[s] => r = s
          /\ \A r, s \in Started : asOf[r] < asOf[s] => \E q \in Started : asOf[q] = asOf[r] + Day
      BY DEF Nightly, Started
    <2>2. /\ first \in Started /\ \A s \in Started : asOf[first] <= asOf[s]
          /\ last \in Started /\ \A s \in Started : asOf[s] <= asOf[last]
      <3>1. /\ \E r \in Started : \A s \in Started : asOf[r] <= asOf[s]
            /\ \E r \in Started : \A s \in Started : asOf[s] <= asOf[r]
        BY <1>1, <2>0, <2>1, FirstLastNight
      <3>2. QED
        BY <3>1
    <2> HIDE DEF first, last
    <2> DEFINE net == [r \in Started |-> netImpact(r)]
               clo == [r \in Started |-> ClosingValue(lines[r])]
               cst == [r \in Started |-> CostValue(lines[r])]
               neg == [r \in Started |-> -CostValue(lines[r])]
               Follows(r, q) == q \in Started /\ asOf[q] = asOf[r] + Day
               nxt == [r \in Started \ {last} |-> CHOOSE q : Follows(r, q)]
               A == Started \ {last}
               B == Started \ {first}
    <2>3. \A r \in Started : /\ net[r] \in Int /\ clo[r] \in Int /\ cst[r] \in Int /\ neg[r] = -cst[r]
                             /\ neg[r] \in Int /\ net[r] = clo[r] + neg[r]
      <3>1. \A r \in Run : /\ netImpact(r) = ClosingValue(lines[r]) - CostValue(lines[r])
                           /\ ClosingValue(lines[r]) \in Int /\ CostValue(lines[r]) \in Int
        BY <1>1, NetIsValueChange
      <3>2. QED
        BY <2>0, <3>1
    <2>4. \A r \in A : nxt[r] \in B /\ asOf[nxt[r]] = asOf[r] + Day
      <3> SUFFICES ASSUME NEW r \in A PROVE nxt[r] \in B /\ asOf[nxt[r]] = asOf[r] + Day
        OBVIOUS
      <3>1. asOf[r] < asOf[last]
        BY <2>0, <2>1, <2>2
      <3>2. \E q : Follows(r, q)
        BY <2>1, <2>2, <3>1
      <3>3. Follows(r, CHOOSE q : Follows(r, q))
        BY <3>2
      <3>4. nxt[r] \in Started /\ asOf[nxt[r]] = asOf[r] + Day
        BY <3>3
      <3>5. nxt[r] # first
        BY <2>0, <2>2, <3>4
      <3>6. QED
        BY <3>4, <3>5
    <2>5. nxt = [r \in A |-> nxt[r]]
      OBVIOUS
    <2> HIDE DEF nxt, net, clo, cst, neg
    <2>6. \A r, s \in A : nxt[r] = nxt[s] => r = s
      BY <2>0, <2>1, <2>4
    <2>7. IsFiniteSet(A) /\ IsFiniteSet(B) /\ Cardinality(A) = Cardinality(B)
      BY <1>1, <2>2, FS_RemoveElement
    <2> HIDE DEF A, B
    <2>8. nxt \in Surjection(A, B)
      <3>1. nxt \in [A -> B]
        BY <2>4, <2>5
      <3>2. nxt \in Injection(A, B)
        BY <2>6, <3>1 DEF Injection, IsInjective
      <3>3. QED
        BY <2>7, <3>2, FS_Injection
    <2>9. {nxt[r] : r \in A} = B
      BY <2>8 DEF Surjection
    <2>10. \A r \in A : clo[r] \in Int /\ cst[nxt[r]] = clo[r]
      <3> SUFFICES ASSUME NEW r \in A PROVE clo[r] \in Int /\ cst[nxt[r]] = clo[r]
        OBVIOUS
      <3>1. r \in Started /\ nxt[r] \in Started /\ asOf[nxt[r]] = asOf[r] + Day
        BY <2>4 DEF A, B
      <3>2. r \in Run /\ nxt[r] \in Run /\ rpc[r] # "idle" /\ rpc[nxt[r]] # "idle"
        BY <3>1 DEF Started
      <3>3. CostValue(lines[nxt[r]]) = ClosingValue(lines[r])
        BY <1>1, <2>0, <3>1, <3>2, NightsMeet
      <3>4. cst[nxt[r]] = CostValue(lines[nxt[r]]) /\ clo[r] = ClosingValue(lines[r])
        BY <3>1 DEF cst, clo
      <3>5. QED
        BY <2>3, <3>1, <3>3, <3>4
    <2>11. SumFunctionOnSet(cst, {nxt[r] : r \in A}) = SumFunctionOnSet(clo, A)
      BY <2>6, <2>7, <2>10, SumImage
    <2>12. SumFunctionOnSet(clo, Started) = clo[last] + SumFunctionOnSet(clo, A)
      <3>1. \A r \in Started : clo[r] \in Int
        BY <2>3
      <3>2. QED
        BY <1>1, <2>2, <3>1, SumRemove DEF A
    <2>13. SumFunctionOnSet(cst, Started) = cst[first] + SumFunctionOnSet(cst, B)
      <3>1. \A r \in Started : cst[r] \in Int
        BY <2>3
      <3>2. QED
        BY <1>1, <2>2, <3>1, SumRemove DEF B
    <2>14. SumFunctionOnSet(net, Started) = SumFunctionOnSet(clo, Started) - SumFunctionOnSet(cst, Started)
      <3>1. SumFunctionOnSet(neg, Started) = -SumFunctionOnSet(cst, Started)
        BY <1>1, <2>3, SumNegate
      <3>2. SumFunctionOnSet(net, Started) = SumFunctionOnSet(clo, Started) + SumFunctionOnSet(neg, Started)
        BY <1>1, <2>3, SumPlus
      <3>3. SumFunctionOnSet(clo, Started) \in Int /\ SumFunctionOnSet(cst, Started) \in Int
        BY <1>1, <2>3, SumType
      <3>4. QED
        BY <3>1, <3>2, <3>3
    <2>15. SumFunctionOnSet(clo, A) \in Int /\ clo[last] \in Int /\ cst[first] \in Int
      BY <2>2, <2>3, <2>7, <2>10, SumType
    <2>16. SumFunctionOnSet(net, Started) = clo[last] - cst[first]
      <3>1. SumFunctionOnSet(cst, B) = SumFunctionOnSet(clo, A)
        BY ONLY <2>9, <2>11
      <3>2. QED
        BY ONLY <2>12, <2>13, <2>14, <2>15, <3>1
    <2>17. SumFunctionOnSet(NetOf, journal) = SumFunctionOnSet(net, Started)
      <3>1. journal \subseteq Started /\ IsFiniteSet(journal)
        BY <1>1 DEF BookInv, Started
      <3>2. SumFunctionOnSet(net, Started) = SumFunctionOnSet(net, journal) + SumFunctionOnSet(net, Started \ journal)
        BY <1>1, <2>3, <3>1, SumSplit
      <3>3. \A r \in Started \ journal : net[r] = 0
        BY <1>1, <2>0, <2>1 DEF BookInv, net
      <3>4. IsFiniteSet(Started \ journal)
        BY <1>1, FS_Subset
      <3>5. SumFunctionOnSet(net, Started \ journal) = 0
        BY <3>3, <3>4, SumZero
      <3>6. \A r \in journal : NetOf[r] = net[r] /\ net[r] \in Int
        BY <2>3, <3>1 DEF NetOf, net
      <3>7. SumFunctionOnSet(NetOf, journal) = SumFunctionOnSet(net, journal)
            /\ SumFunctionOnSet(net, journal) \in Int
        BY <3>1, <3>6, SumEqual, SumType
      <3>8. QED
        BY <3>2, <3>5, <3>7
    <2>18. clo[last] = ClosingValue(lines[last]) /\ cst[first] = CostValue(lines[first])
      BY <2>2 DEF clo, cst
    <2>19. QED
      BY <1>1, <2>16, <2>17, <2>18 DEF BookInv
  <1>2. QED
    BY <1>1, BookAlways, StartedFinite, PTL
=============================================================================
