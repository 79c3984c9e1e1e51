---------------------------- MODULE MonitorProofs ----------------------------
(***************************************************************************)
(* What holds of Monitor for all instances, any number of sessions, any    *)
(* range of the energy counter and any order in which repetitions come.    *)
(*                                                                         *)
(* The inductive invariant has four parts: the types, where the header of  *)
(* the file can be, whose reading g_energy_start is, and, in RowsAddUp,    *)
(* that the rows written, those that failed to be written and those still  *)
(* to come are the rows owed.                                              *)
(***************************************************************************)
EXTENDS Monitor, FiniteSetTheorems, SequenceTheorems, TLAPS

Line == {Header} \cup Row

\* TypeOK, with the functions' domains.
Types ==
  /\ pc \in {"down", "running", "called", "reporting"}
  /\ session \in 0 .. MaxSessions
  /\ energy \in Nat /\ g_energy_start \in Nat
  /\ flags \in [repetitions : Nat \ {0}, aggregates_only : BOOLEAN]
  /\ current \in Instances \cup {NoInstance}
  /\ runs \in [Instances -> Seq(BOOLEAN)]
  /\ \A b \in Instances : Len(runs[b]) <= flags.repetitions
  /\ to_report \in Seq(BOOLEAN)
  /\ results \in [exists : BOOLEAN, lines : Seq(Line)]
  /\ measured \in Measured
  /\ file_ \in BOOLEAN /\ header_written_ \in BOOLEAN
  /\ last_call \in [Instances -> Nat] /\ lost \in [Instances -> Nat]
  /\ start_failed \in BOOLEAN /\ headerless \in BOOLEAN

\* A file that is empty has been left without a header, unless its writer found no file
\* and is still to write one.
HeaderPlace ==
  /\ ~results.exists => results.lines = << >> /\ ~headerless
  /\ file_ => results.exists
  /\ file_ /\ ~header_written_ => results.lines = << >> /\ ~headerless
  /\ results.exists /\ results.lines = << >> => headerless \/ (file_ /\ ~header_written_)
  /\ HeaderFirst

\* From the call of a benchmark to its report the global holds that call's reading.
ReadingOfCurrent ==
  /\ pc \in {"called", "reporting"} => current \in Instances
  /\ pc = "called" => Len(runs[current]) < flags.repetitions
  /\ \A b \in Instances : last_call[b] <= energy
  /\ ~start_failed /\ pc \in {"called", "reporting"} =>
       g_energy_start = last_call[current] % CounterRange

\* The rows this session has written of an instance.
RowsOf(b) == {k \in Rows : /\ results.lines[k].session = session
                          /\ results.lines[k].instance = b}

\* The rows of an instance that are still to come in the report that is going on.
Outstanding(b) ==
  IF pc = "reporting" /\ current = b THEN Cardinality(Kept(to_report)) ELSE 0

\* What is owed of an instance: nothing before its last repetition is done.
Owed(b) ==
  IF Len(runs[b]) = flags.repetitions THEN Cardinality(Kept(Reports(runs[b]))) ELSE 0

\* Rows are of this session or an earlier one; written, lost and outstanding rows make
\* up what is owed.
RowsAddUp ==
  /\ \A k \in Rows : results.lines[k].session <= session
  /\ file_ =>
       \A b \in Instances : Cardinality(RowsOf(b)) + lost[b] + Outstanding(b) = Owed(b)

\* While the program is not running there is no repetition done and no file open.
NothingRun == pc = "down" => ~file_ /\ \A b \in Instances : runs[b] = << >> /\ lost[b] = 0

MonitorInv ==
  Types /\ HeaderPlace /\ ReadingOfCurrent /\ EnergySinceLastCall /\ NothingRun

-----------------------------------------------------------------------------
\* Quotient and remainder.
LEMMA Division ==
  ASSUME NEW m \in Nat, NEW n \in Nat, n > 0
  PROVE  /\ m = n * (m \div n) + (m % n)
         /\ n * (m \div n) \in Int
         /\ m % n \in 0 .. n - 1
         /\ m < n => m % n = m
<1>1. m = n * (m \div n) + (m % n) /\ n * (m \div n) \in Int
  BY SMT
<1>2. m % n \in 0 .. n - 1 /\ (m < n => m % n = m)
  BY SMT
<1> QED
  BY <1>1, <1>2

\* The counter starts again no less often the longer one waits.
LEMMA RestartsAreNumbers ==
  ASSUME NEW start \in Nat, NEW end \in Nat, start <= end
  PROVE  end \div CounterRange - start \div CounterRange \in Nat
<1> DEFINE before == start \div CounterRange
           after == end \div CounterRange
<1>1. CounterRange \in Nat /\ CounterRange > 0
  BY MonitorAssumption
<1>2. /\ start = CounterRange * before + (start % CounterRange)
      /\ end = CounterRange * after + (end % CounterRange)
      /\ start % CounterRange \in 0 .. CounterRange - 1
      /\ end % CounterRange \in 0 .. CounterRange - 1
      /\ before \in Int /\ after \in Int
  BY <1>1, Division
<1> HIDE DEF before, after
<1>3. CASE after < before
  <2>1. before - after - 1 \in Nat
    BY <1>2, <1>3
  <2>2. CounterRange * (before - after - 1) >= 0
    BY <1>1, <2>1
  <2>3. CounterRange * (before - after - 1)
          = CounterRange * before - CounterRange * after - CounterRange
    BY <1>1, <1>2
  <2>4. CounterRange * before \in Int /\ CounterRange * after \in Int
    BY <1>1, <1>2
  <2> QED
    BY <1>1, <1>2, <2>2, <2>3, <2>4
<1>4. CASE after >= before
  BY <1>2, <1>4 DEF before, after
<1> QED
  BY <1>2, <1>3, <1>4

\* Readings differ by the energy spent, less the range of the counter for each time it
\* started again; taking the difference of unsigned words does not change it where the
\* counter did not start again.
LEMMA DifferenceOfReadings ==
  ASSUME NEW start \in Nat, NEW end \in Nat, start <= end, NEW restarts \in Int,
         restarts = end \div CounterRange - start \div CounterRange
  PROVE  Difference(end % CounterRange, start % CounterRange)
           = IF restarts = 0 THEN end - start
             ELSE ((end - start) - restarts * CounterRange) % Word
<1> DEFINE before == start \div CounterRange
           after == end \div CounterRange
           first == start % CounterRange
           last == end % CounterRange
<1>1. CounterRange \in Nat /\ CounterRange > 0 /\ Word \in Nat /\ CounterRange <= Word
  BY MonitorAssumption
<1>2. /\ start = CounterRange * before + first /\ end = CounterRange * after + last
      /\ first \in 0 .. CounterRange - 1 /\ last \in 0 .. CounterRange - 1
      /\ before \in Int /\ after \in Int
      /\ restarts = after - before
  BY <1>1, Division
<1> HIDE DEF before, after, first, last
<1>3. restarts * CounterRange = CounterRange * after - CounterRange * before
  BY <1>1, <1>2
<1>4. CounterRange * after \in Int /\ CounterRange * before \in Int
  BY <1>1, <1>2
<1>5. last - first = (end - start) - restarts * CounterRange
  BY <1>1, <1>2, <1>3, <1>4
<1>6. ASSUME restarts = 0
      PROVE  (last - first) % Word = end - start
  <2>1. last - first = end - start
    BY <1>1, <1>2, <1>6
  <2>2. end - start \in Nat /\ end - start < Word /\ Word > 0
    BY <1>1, <1>2, <2>1
  <2>3. (end - start) % Word = end - start
    BY <1>1, <2>2, Division
  <2> QED
    BY <2>1, <2>3
<1>7. Difference(last, first) = (last - first) % Word
  BY Zenon DEF Difference
<1>8. CASE restarts = 0
  BY <1>6, <1>7, <1>8, Zenon DEF first, last
<1>9. CASE restarts # 0
  BY <1>5, <1>7, <1>9, Zenon DEF first, last
<1> QED
  BY <1>8, <1>9

\* What goes into a row is well formed and, if no reading failed, right.
LEMMA MeasuredRight ==
  ASSUME Types, ReadingOfCurrent, pc = "reporting", NEW failed \in BOOLEAN,
         measured' = MeasuredOf(current, failed)
  PROVE  measured' \in Measured /\ EnergySinceLastCall'
<1> DEFINE start == last_call[current]
           end == readRAPLEnergy(failed)
           spent == energy - start
           restarts == energy \div CounterRange - start \div CounterRange
           energy_uj == Difference(end, g_energy_start)
<1>1. CounterRange \in Nat /\ CounterRange > 0 /\ Word \in Nat /\ Word > 0
  BY MonitorAssumption
<1>2. /\ current \in Instances /\ energy \in Nat /\ g_energy_start \in Nat
      /\ start \in Nat /\ start <= energy /\ start_failed \in BOOLEAN
  BY DEF Types, ReadingOfCurrent
<1>3. end \in Nat
  BY <1>1, <1>2, Division DEF readRAPLEnergy
<1>4. energy_uj \in Nat
  <2>1. \A d \in Int : d % Word \in Nat
    BY <1>1
  <2>2. end - g_energy_start \in Int
    BY <1>2, <1>3
  <2> QED
    BY <2>1, <2>2 DEF Difference
<1>5. spent \in Nat /\ restarts \in Nat /\ (failed \/ start_failed) \in BOOLEAN
  BY <1>2, RestartsAreNumbers
<1>6. measured' = [energy_uj |-> energy_uj, spent |-> spent, restarts |-> restarts,
                   failed |-> failed \/ start_failed]
  BY Zenon DEF MeasuredOf
<1>7. ASSUME ~(failed \/ start_failed)
      PROVE  energy_uj = IF restarts = 0 THEN spent
                         ELSE (spent - restarts * CounterRange) % Word
  <2>1. end = energy % CounterRange /\ g_energy_start = start % CounterRange
    BY <1>7 DEF readRAPLEnergy, ReadingOfCurrent
  <2>2. restarts \in Int
    BY <1>5
  <2>3. Difference(energy % CounterRange, start % CounterRange)
          = IF restarts = 0 THEN energy - start
            ELSE ((energy - start) - restarts * CounterRange) % Word
    BY <1>2, <2>2, DifferenceOfReadings
  <2> QED
    BY <2>1, <2>3, Zenon
<1> HIDE DEF start, end, spent, restarts, energy_uj
<1>8. measured' \in Measured
  BY <1>4, <1>5, <1>6 DEF Measured
<1>9. /\ measured'.energy_uj = energy_uj /\ measured'.spent = spent
      /\ measured'.restarts = restarts /\ measured'.failed = (failed \/ start_failed)
  BY <1>6
<1>10. EnergySinceLastCall'
  BY <1>7, <1>9, Zenon DEF EnergySinceLastCall
<1> QED
  BY <1>8, <1>10

\* Nothing measured is right about nothing spent.
LEMMA NothingMeasuredRight ==
  ASSUME measured' = NothingMeasured
  PROVE  measured' \in Measured /\ EnergySinceLastCall'
  BY DEF NothingMeasured, Measured, EnergySinceLastCall

-----------------------------------------------------------------------------
\* No session, no file.
THEOREM MonitorInitial == Init => MonitorInv
<1> SUFFICES ASSUME Init
             PROVE  MonitorInv
  OBVIOUS
<1>1. CounterRange \in Nat /\ MaxSessions \in Nat
  BY MonitorAssumption
<1>2. /\ results.lines = << >> /\ results = [exists |-> FALSE, lines |-> << >>]
      /\ measured = NothingMeasured
  BY DEF Init
<1>3. Types
  <2>1. /\ runs \in [Instances -> Seq(BOOLEAN)] /\ to_report \in Seq(BOOLEAN)
        /\ last_call \in [Instances -> Nat] /\ lost \in [Instances -> Nat]
        /\ \A b \in Instances : Len(runs[b]) <= flags.repetitions
        /\ g_energy_start \in Nat
        /\ flags \in [repetitions : Nat \ {0}, aggregates_only : BOOLEAN]
    BY <1>1 DEF Init, NoFlags
  <2>2. results \in [exists : BOOLEAN, lines : Seq(Line)]
    BY <1>2
  <2>3. session \in 0 .. MaxSessions /\ energy \in Nat /\ measured \in Measured
    BY <1>1, <1>2 DEF Init, NothingMeasured, Measured
  <2> QED
    BY <2>1, <2>2, <2>3, Zenon DEF Init, Types
<1>4. HeaderPlace
  BY <1>2 DEF Init, HeaderPlace, HeaderFirst
<1>5. ReadingOfCurrent
  BY <1>1 DEF Init, ReadingOfCurrent
<1>6. EnergySinceLastCall
  BY <1>2 DEF EnergySinceLastCall, NothingMeasured
<1>7. NothingRun
  BY DEF Init, NothingRun
<1> QED
  BY <1>3, <1>4, <1>5, <1>6, <1>7 DEF MonitorInv

\* A step that leaves the file and its writer alone keeps what is said of the lines.
LEMMA FileLeftAlone ==
  ASSUME HeaderPlace, UNCHANGED <<results, file_, header_written_, headerless>>
  PROVE  HeaderPlace'
  BY Zenon DEF HeaderPlace, HeaderFirst

\* A step that writes no row leaves what was measured for the last one.
LEMMA MeasuredLeftAlone ==
  ASSUME EnergySinceLastCall, measured' = measured
  PROVE  EnergySinceLastCall'
  BY Zenon DEF EnergySinceLastCall

\* A line is added to the lines as they are, behind all others.
LEMMA AppendedLine ==
  ASSUME Types, NEW line \in Line, results' = Appended(line)
  PROVE  /\ results' \in [exists : BOOLEAN, lines : Seq(Line)]
         /\ results'.exists = results.exists
         /\ DOMAIN results'.lines = DOMAIN results.lines \cup {Len(results.lines) + 1}
         /\ \A k \in DOMAIN results.lines : results'.lines[k] = results.lines[k]
         /\ results'.lines[Len(results.lines) + 1] = line
         /\ results'.lines # << >>
<1>1. results.lines \in Seq(Line) /\ results.exists \in BOOLEAN
  BY DEF Types
<1>2. results' = [exists |-> results.exists, lines |-> Append(results.lines, line)]
  BY DEF Types, Appended
<1>3. Append(results.lines, line) \in Seq(Line)
  BY <1>1
<1> QED
  BY <1>1, <1>2, <1>3

\* Energy is spent: calls only become longer ago.
LEMMA SpendKeeps ==
  ASSUME MonitorInv, Spend
  PROVE  MonitorInv'
<1>1. HeaderPlace' /\ EnergySinceLastCall'
  BY FileLeftAlone, MeasuredLeftAlone DEF MonitorInv, Spend, process, history
<1>2. Types'
  BY DEF MonitorInv, Types, Spend, process, history
<1>3. ReadingOfCurrent'
  BY DEF MonitorInv, Types, ReadingOfCurrent, Spend, process, history
<1>4. NothingRun'
  BY DEF MonitorInv, NothingRun, Spend, process, history
<1> QED
  BY <1>1, <1>2, <1>3, <1>4 DEF MonitorInv

\* A new session knows the header if there is a file, and otherwise makes an empty one.
LEMMA StartSessionKeeps ==
  ASSUME MonitorInv, StartSession
  PROVE  MonitorInv'
<1>0. UNCHANGED <<energy, g_energy_start, current, runs, to_report, measured, last_call,
                  start_failed, lost, headerless>>
  BY DEF StartSession, history
<1>1. MaxSessions \in Nat
  BY MonitorAssumption
<1>2. results \in [exists : BOOLEAN, lines : Seq(Line)]
  BY DEF MonitorInv, Types
<1>3. /\ results' \in [exists : BOOLEAN, lines : Seq(Line)]
      /\ results'.lines = results.lines
      /\ file_' => results'.exists
      /\ ~file_' => results' = results
      /\ results.exists => results'.exists
      /\ header_written_' = results.exists
      /\ header_written_' \in BOOLEAN /\ file_' \in BOOLEAN
  BY <1>2 DEF StartSession, HeaderKnown
<1>4. Types'
  <2>1. session' \in 0 .. MaxSessions
    BY <1>1 DEF StartSession, MonitorInv, Types
  <2>2. flags' \in [repetitions : Nat \ {0}, aggregates_only : BOOLEAN]
    BY MonitorAssumption DEF StartSession
  <2>3. \A b \in Instances : Len(runs'[b]) <= flags'.repetitions
    BY <1>0, <2>2 DEF StartSession, MonitorInv, NothingRun
  <2> QED
    BY <1>0, <1>3, <2>1, <2>2, <2>3, Zenon DEF StartSession, MonitorInv, Types
<1>5. HeaderPlace'
  <2>1. ~results.exists => results.lines = << >> /\ ~headerless
    BY DEF MonitorInv, HeaderPlace
  <2>2. results.exists /\ results.lines = << >> => headerless
    BY DEF MonitorInv, NothingRun, StartSession, HeaderPlace
  <2>3. HeaderFirst'
    BY <1>0, <1>3, Zenon DEF MonitorInv, HeaderPlace, HeaderFirst
  <2> QED
    BY <1>0, <1>3, <2>1, <2>2, <2>3 DEF HeaderPlace
<1>6. ReadingOfCurrent'
  BY <1>0 DEF MonitorInv, ReadingOfCurrent, StartSession
<1>7. EnergySinceLastCall'
  BY <1>0, MeasuredLeftAlone DEF MonitorInv
<1>8. NothingRun'
  BY DEF NothingRun, StartSession
<1> QED
  BY <1>4, <1>5, <1>6, <1>7, <1>8 DEF MonitorInv

\* A call takes a reading of its own: whatever the global held before is forgotten.
LEMMA CallBenchmarkKeeps ==
  ASSUME MonitorInv, NEW b \in Instances, CallBenchmark(b)
  PROVE  MonitorInv'
<1>1. CounterRange \in Nat /\ CounterRange > 0
  BY MonitorAssumption
<1>2. HeaderPlace' /\ EnergySinceLastCall'
  BY FileLeftAlone, MeasuredLeftAlone DEF MonitorInv, CallBenchmark
<1>3. energy \in Nat /\ last_call \in [Instances -> Nat] /\ start_failed' \in BOOLEAN
  BY DEF MonitorInv, Types, CallBenchmark
<1>4. g_energy_start' \in Nat /\ last_call' \in [Instances -> Nat]
  BY <1>1, <1>3, Division DEF CallBenchmark, StartReading, readRAPLEnergy
<1>5. Types'
  BY <1>3, <1>4 DEF MonitorInv, Types, CallBenchmark
<1>6. ReadingOfCurrent'
  BY <1>3 DEF MonitorInv, ReadingOfCurrent, CallBenchmark, StartReading, readRAPLEnergy
<1>7. NothingRun'
  BY DEF NothingRun, CallBenchmark
<1> QED
  BY <1>2, <1>5, <1>6, <1>7 DEF MonitorInv

\* Reports are a list of flags, aggregates included.
LEMMA ReportsType ==
  ASSUME NEW done \in Seq(BOOLEAN)
  PROVE  Reports(done) \in Seq(BOOLEAN)
<1> DEFINE n == IF Cardinality(Kept(done)) >= 2 THEN NumStatistics ELSE 0
           statistics == [k \in 1 .. n |-> FALSE]
<1>1. n \in Nat
  BY MonitorAssumption
<1>2. statistics \in Seq(BOOLEAN)
  <2> HIDE DEF n
  <2>1. statistics \in [1 .. n -> BOOLEAN]
    OBVIOUS
  <2> QED
    BY <1>1, <2>1, SeqDef
<1>3. statistics = Aggregates(done)
  BY Zenon DEF Aggregates
<1> HIDE DEF statistics
<1>4. Aggregates(done) \in Seq(BOOLEAN) /\ done \o Aggregates(done) \in Seq(BOOLEAN)
  BY <1>2, <1>3
<1> QED
  BY <1>4, Zenon DEF Reports

\* The end of a repetition: the reading is still that of the call before it.
LEMMA FinishRepetitionKeeps ==
  ASSUME MonitorInv, FinishRepetition
  PROVE  MonitorInv'
<1>1. HeaderPlace' /\ EnergySinceLastCall'
  BY FileLeftAlone, MeasuredLeftAlone DEF MonitorInv, FinishRepetition, history
<1> PICK skipped \in BOOLEAN :
      LET done == Append(runs[current], skipped)
          complete == Len(done) = flags.repetitions
      IN  /\ runs' = [runs EXCEPT ![current] = done]
          /\ pc' = IF complete THEN "reporting" ELSE "running"
          /\ to_report' = IF complete THEN Reports(done) ELSE << >>
          /\ current' = IF complete THEN current ELSE NoInstance
  BY DEF FinishRepetition
<1> DEFINE done == Append(runs[current], skipped)
<1>2. /\ current \in Instances /\ Len(runs[current]) < flags.repetitions
      /\ runs \in [Instances -> Seq(BOOLEAN)] /\ flags.repetitions \in Nat
      /\ \A b \in Instances : Len(runs[b]) <= flags.repetitions
  BY DEF MonitorInv, Types, ReadingOfCurrent, FinishRepetition
<1>3. done \in Seq(BOOLEAN) /\ Len(done) <= flags.repetitions
  <2>1. runs[current] \in Seq(BOOLEAN)
    BY <1>2
  <2> QED
    BY <1>2, <2>1
<1>4. /\ runs' \in [Instances -> Seq(BOOLEAN)]
      /\ \A b \in Instances : Len(runs'[b]) <= flags.repetitions
  BY <1>2, <1>3
<1>5. to_report' \in Seq(BOOLEAN)
  <2>1. Reports(done) \in Seq(BOOLEAN)
    <3> HIDE DEF done
    <3> QED
      BY <1>3, ReportsType, Zenon
  <2>2. to_report' \in {Reports(done), << >>}
    BY Zenon
  <2>3. << >> \in Seq(BOOLEAN)
    OBVIOUS
  <2> QED
    BY <2>1, <2>2, <2>3, Zenon
<1>6. /\ pc' \in {"running", "reporting"} /\ current' \in Instances \cup {NoInstance}
      /\ pc' = "reporting" => current' = current
  BY <1>2
<1>7. Types'
  BY <1>4, <1>5, <1>6 DEF MonitorInv, Types, FinishRepetition, history
<1>8. ReadingOfCurrent'
  BY <1>2, <1>6 DEF MonitorInv, ReadingOfCurrent, FinishRepetition, history
<1>9. NothingRun'
  BY <1>6 DEF NothingRun
<1> QED
  BY <1>1, <1>7, <1>8, <1>9 DEF MonitorInv

\* A skipped run or a row: the reporter goes on to the next run.
LEMMA NextReport ==
  ASSUME NEW reports \in Seq(BOOLEAN), reports # << >>
  PROVE  Tail(reports) \in Seq(BOOLEAN)
  OBVIOUS

\* Whatever is written, the reading stays that of the instance being reported.
LEMMA ReportingKeepsReading ==
  ASSUME MonitorInv, pc = "reporting",
         UNCHANGED <<pc, energy, flags, g_energy_start, last_call, start_failed, current>>
  PROVE  ReadingOfCurrent' /\ NothingRun'
  BY DEF MonitorInv, ReadingOfCurrent, NothingRun

\* A report is of an instance, in a session.
LEMMA WhileReporting ==
  ASSUME MonitorInv, pc = "reporting"
  PROVE  session \in Nat /\ current \in Instances
<1>1. session \in 0 .. MaxSessions /\ current \in Instances
  BY DEF MonitorInv, Types, ReadingOfCurrent
<1> QED
  BY <1>1, MonitorAssumption

\* The first header, or the failure to write it.
LEMMA WriteHeaderKeeps ==
  ASSUME MonitorInv, WriteHeader
  PROVE  MonitorInv'
<1>1. Header \in Line /\ Types
  BY DEF Line, MonitorInv
<1>2. ReadingOfCurrent' /\ NothingRun'
  BY ReportingKeepsReading DEF WriteHeader
<1>3. EnergySinceLastCall'
  BY MeasuredLeftAlone DEF MonitorInv, WriteHeader
<1>4. results.exists /\ results.lines = << >> /\ ~headerless
  BY DEF MonitorInv, HeaderPlace, WriteHeader
<1>5. CASE results' = Appended(Header) /\ UNCHANGED headerless
  <2>1. /\ results' \in [exists : BOOLEAN, lines : Seq(Line)]
        /\ results'.exists = results.exists
        /\ DOMAIN results'.lines = {1} /\ results'.lines[1] = Header
        /\ results'.lines # << >>
    <3>1. DOMAIN results.lines = {} /\ Len(results.lines) + 1 = 1
      BY <1>4
    <3> QED
      BY <1>1, <1>5, <3>1, AppendedLine
  <2>2. Types'
    BY <1>5, <2>1 DEF MonitorInv, Types, WriteHeader
  <2>3. HeaderFirst'
    BY <1>4, <1>5, <2>1 DEF HeaderFirst
  <2>4. HeaderPlace'
    <3>1. results'.exists /\ header_written_' /\ results'.lines # << >>
      BY <1>4, <2>1 DEF WriteHeader
    <3> QED
      BY <2>3, <3>1 DEF HeaderPlace
  <2> QED
    BY <1>2, <1>3, <2>2, <2>4 DEF MonitorInv
<1>6. CASE headerless' = TRUE /\ UNCHANGED results
  <2>1. Types'
    BY <1>6 DEF MonitorInv, Types, WriteHeader
  <2>2. HeaderPlace'
    <3>1. results'.exists /\ results'.lines = << >>
      BY <1>4, <1>6, Zenon
    <3>2. header_written_' /\ headerless'
      BY <1>6, Zenon DEF WriteHeader
    <3>3. HeaderFirst'
      BY <3>1 DEF HeaderFirst
    <3> QED
      BY <3>1, <3>2, <3>3, Zenon DEF HeaderPlace
  <2> QED
    BY <1>2, <1>3, <2>1, <2>2 DEF MonitorInv
<1> QED
  BY <1>5, <1>6 DEF WriteHeader

\* A row more, under a header that is there already or came with the file.
LEMMA RowAppendedKeeps ==
  ASSUME MonitorInv, WriteResult, results' = Appended(RowOf(current)),
         NEW failed \in BOOLEAN, measured' = MeasuredOf(current, failed), file_,
         UNCHANGED lost
  PROVE  MonitorInv'
<1> DEFINE last == Len(results.lines) + 1
           row == RowOf(current)
<1>1. row \in Row /\ row \in Line /\ row # Header
  <2>1. session \in Nat /\ current \in Instances
    BY WhileReporting DEF WriteResult
  <2>2. row \in Row
    BY <2>1 DEF RowOf, Row
  <2>3. row # Header
    BY DEF RowOf, Header
  <2> QED
    BY <2>2, <2>3 DEF Line
<1> HIDE DEF row
<1>2. /\ results' \in [exists : BOOLEAN, lines : Seq(Line)]
      /\ results'.exists = results.exists
      /\ DOMAIN results'.lines = DOMAIN results.lines \cup {last}
      /\ \A k \in DOMAIN results.lines : results'.lines[k] = results.lines[k]
      /\ results'.lines[last] = row
      /\ results'.lines # << >>
  BY <1>1, AppendedLine DEF MonitorInv, row
<1>3. to_report' \in Seq(BOOLEAN)
  BY NextReport DEF MonitorInv, Types, WriteResult
<1>4. measured' \in Measured /\ EnergySinceLastCall'
  BY MeasuredRight DEF MonitorInv, WriteResult
<1>5. Types'
  BY <1>2, <1>3, <1>4 DEF MonitorInv, Types, WriteResult
<1>6. HeaderPlace'
  <2>1. results.exists /\ header_written_ /\ results.lines \in Seq(Line)
    BY DEF MonitorInv, Types, HeaderPlace, WriteResult
  <2>2. \A k \in DOMAIN results'.lines : results'.lines[k] = Header => k = 1
    BY <1>1, <1>2 DEF MonitorInv, HeaderPlace, HeaderFirst
  <2>3. results'.lines[1] = Header <=> ~headerless
    <3>1. CASE results.lines = << >>
      <4>1. headerless
        BY <2>1, <3>1 DEF MonitorInv, HeaderPlace
      <4>2. last = 1
        BY <3>1
      <4> QED
        BY <1>1, <1>2, <4>1, <4>2
    <3>2. CASE results.lines # << >>
      <4>1. 1 \in DOMAIN results.lines
        BY <2>1, <3>2
      <4> QED
        BY <1>2, <3>2, <4>1 DEF MonitorInv, HeaderPlace, HeaderFirst
    <3> QED
      BY <3>1, <3>2
  <2>4. UNCHANGED <<file_, header_written_, headerless>>
    BY DEF WriteResult
  <2> QED
    BY <1>2, <2>1, <2>2, <2>3, <2>4 DEF HeaderPlace, HeaderFirst
<1>7. ReadingOfCurrent' /\ NothingRun'
  BY ReportingKeepsReading DEF WriteResult
<1> QED
  BY <1>4, <1>5, <1>6, <1>7 DEF MonitorInv

\* Nothing is written where the write fails or the file could not be opened.
LEMMA RowLostKeeps ==
  ASSUME MonitorInv, WriteResult, UNCHANGED <<results, measured>>,
         lost' \in [Instances -> Nat]
  PROVE  MonitorInv'
<1>1. HeaderPlace' /\ EnergySinceLastCall'
  BY FileLeftAlone, MeasuredLeftAlone DEF MonitorInv, WriteResult
<1>2. to_report' \in Seq(BOOLEAN)
  BY NextReport DEF MonitorInv, Types, WriteResult
<1>3. Types'
  BY <1>2 DEF MonitorInv, Types, WriteResult
<1>4. ReadingOfCurrent' /\ NothingRun'
  BY ReportingKeepsReading DEF WriteResult
<1> QED
  BY <1>1, <1>3, <1>4 DEF MonitorInv

\* A run that was not skipped, whatever becomes of its row.
LEMMA WriteResultKeeps ==
  ASSUME MonitorInv, WriteResult
  PROVE  MonitorInv'
<1>1. CASE file_ /\ results' = Appended(RowOf(current)) /\ UNCHANGED lost
           /\ \E failed \in BOOLEAN : measured' = MeasuredOf(current, failed)
  BY <1>1, RowAppendedKeeps
<1>2. CASE /\ lost' = [lost EXCEPT ![current] = @ + 1]
           /\ UNCHANGED <<results, measured>>
  <2>1. current \in Instances /\ lost \in [Instances -> Nat]
    BY DEF MonitorInv, Types, ReadingOfCurrent, WriteResult
  <2> QED
    BY <1>2, <2>1, RowLostKeeps
<1>3. CASE UNCHANGED <<results, measured, lost>>
  BY <1>3, RowLostKeeps DEF MonitorInv, Types
<1> QED
  BY <1>1, <1>2, <1>3 DEF WriteResult

\* The steps that only move the program on.
LEMMA MovesOnKeeps ==
  ASSUME MonitorInv, CallAgain \/ FinishReport
  PROVE  MonitorInv'
<1>1. HeaderPlace' /\ EnergySinceLastCall'
  BY FileLeftAlone, MeasuredLeftAlone
     DEF MonitorInv, CallAgain, FinishReport, process, history
<1>2. Types'
  BY DEF MonitorInv, Types, CallAgain, FinishReport, process, history
<1>3. ReadingOfCurrent' /\ NothingRun'
  BY DEF MonitorInv, ReadingOfCurrent, NothingRun, CallAgain, FinishReport, process,
         history
<1> QED
  BY <1>1, <1>2, <1>3 DEF MonitorInv

\* The program ends or is killed; a file without a line is left without a header.
LEMMA ExitKeeps ==
  ASSUME MonitorInv, Exit
  PROVE  MonitorInv'
<1>1. /\ runs' \in [Instances -> Seq(BOOLEAN)] /\ to_report' \in Seq(BOOLEAN)
      /\ last_call' \in [Instances -> Nat] /\ lost' \in [Instances -> Nat]
      /\ \A b \in Instances : Len(runs'[b]) <= flags'.repetitions
      /\ flags' \in [repetitions : Nat \ {0}, aggregates_only : BOOLEAN]
  BY DEF Exit, NoFlags
<1>2. measured' \in Measured /\ EnergySinceLastCall'
  BY NothingMeasuredRight DEF Exit
<1>3. headerless' \in BOOLEAN
  BY DEF MonitorInv, Types, Exit
<1>4. Types'
  <2>1. g_energy_start' \in Nat
    BY DEF Exit
  <2> QED
    BY <1>1, <1>2, <1>3, <2>1, Zenon DEF MonitorInv, Types, Exit
<1>5. HeaderPlace'
  <2>1. results' = results /\ ~file_' /\ ~header_written_'
    BY DEF Exit
  <2>2. headerless' <=> headerless \/ (file_ /\ results.lines = << >>)
    BY DEF Exit
  <2>3. HeaderFirst'
    BY <2>1, <2>2 DEF MonitorInv, HeaderPlace, HeaderFirst
  <2> QED
    BY <2>1, <2>2, <2>3 DEF MonitorInv, HeaderPlace
<1>6. ReadingOfCurrent' /\ NothingRun'
  BY DEF MonitorInv, Types, ReadingOfCurrent, NothingRun, Exit
<1> QED
  BY <1>2, <1>4, <1>5, <1>6 DEF MonitorInv

\* A skipped run is passed over.
LEMMA SkipRunKeeps ==
  ASSUME MonitorInv, SkipRun
  PROVE  MonitorInv'
<1>1. HeaderPlace' /\ EnergySinceLastCall'
  BY FileLeftAlone, MeasuredLeftAlone DEF MonitorInv, SkipRun, history
<1>2. to_report' \in Seq(BOOLEAN)
  BY NextReport DEF MonitorInv, Types, SkipRun, AfterSkipped
<1>3. Types'
  BY <1>2 DEF MonitorInv, Types, SkipRun, history
<1>4. ReadingOfCurrent' /\ NothingRun'
  BY ReportingKeepsReading DEF SkipRun, history
<1> QED
  BY <1>1, <1>3, <1>4 DEF MonitorInv

\* Every step keeps the invariant.
THEOREM MonitorInductive == MonitorInv /\ [Next]_vars => MonitorInv'
<1> SUFFICES ASSUME MonitorInv, [Next]_vars
             PROVE  MonitorInv'
  OBVIOUS
<1>1. CASE Spend
  BY <1>1, SpendKeeps
<1>2. CASE StartSession
  BY <1>2, StartSessionKeeps
<1>3. ASSUME NEW b \in Instances, CallBenchmark(b)
      PROVE  MonitorInv'
  BY <1>3, CallBenchmarkKeeps
<1>4. CASE FinishRepetition
  BY <1>4, FinishRepetitionKeeps
<1>5. CASE WriteHeader
  BY <1>5, WriteHeaderKeeps
<1>6. CASE WriteResult
  BY <1>6, WriteResultKeeps
<1>7. CASE CallAgain \/ FinishReport
  BY <1>7, MovesOnKeeps
<1>8. CASE SkipRun
  BY <1>8, SkipRunKeeps
<1>9. CASE EndSession \/ Crash
  BY <1>9, ExitKeeps DEF EndSession, Crash
<1>10. CASE UNCHANGED vars
  <2>1. HeaderPlace' /\ EnergySinceLastCall'
    BY <1>10, FileLeftAlone, MeasuredLeftAlone DEF MonitorInv, vars, process, history
  <2>2. Types' /\ ReadingOfCurrent' /\ NothingRun'
    BY <1>10 DEF MonitorInv, Types, ReadingOfCurrent, NothingRun, vars, process, history
  <2> QED
    BY <2>1, <2>2 DEF MonitorInv
<1> QED
  BY <1>1, <1>2, <1>3, <1>4, <1>5, <1>6, <1>7, <1>8, <1>9, <1>10 DEF Next

\* The invariant says what the properties say.
LEMMA MonitorImplies ==
  ASSUME MonitorInv
  PROVE  TypeOK /\ HeaderFirst /\ EnergySinceLastCall
<1>1. TypeOK
  <2>1. \A k \in DOMAIN results.lines :
          results.lines[k] = Header \/ results.lines[k] \in Row
    BY DEF MonitorInv, Types, Line
  <2> QED
    BY <2>1 DEF MonitorInv, Types, TypeOK
<1> QED
  BY <1>1 DEF MonitorInv, HeaderPlace

\* The invariant, of the behaviours.
LEMMA MonitorInvariant == Spec => []MonitorInv
  BY MonitorInitial, MonitorInductive, PTL DEF Spec

\* Type correctness, for every set of instances, energy range and number of sessions.
THEOREM MonitorTypeCorrect == Spec => []TypeOK
  BY MonitorInvariant, MonitorImplies, PTL

\* The names of the columns are the first line of the results file and no other, unless
\* the session that made the file left it without them, however often the program is
\* started or killed.
THEOREM HeaderFirstCorrect == Spec => []HeaderFirst
  BY MonitorInvariant, MonitorImplies, PTL

\* A row's energy is that of the reported instance's last call, in any order of the
\* repetitions, if neither of its two readings failed, less the counter's range for each
\* time it started again.
THEOREM EnergyCorrect == Spec => []EnergySinceLastCall
  BY MonitorInvariant, MonitorImplies, PTL

-----------------------------------------------------------------------------
(* The rows of a session. Here the invariant is RowsAddUp, on top of the rest. *)

\* A list of reports has finitely many that are kept.
LEMMA KeptFinite ==
  ASSUME NEW reports \in Seq(BOOLEAN)
  PROVE  IsFiniteSet(Kept(reports)) /\ Cardinality(Kept(reports)) \in Nat
<1>1. Kept(reports) \subseteq 1 .. Len(reports) /\ Len(reports) \in Nat
  BY DEF Kept
<1>2. IsFiniteSet(1 .. Len(reports))
  BY <1>1, FS_Interval
<1> QED
  BY <1>1, <1>2, FS_Subset, FS_CardinalityType

\* Coming to the next report leaves one kept report less, or as many after a skipped one.
LEMMA KeptOfTail ==
  ASSUME NEW reports \in Seq(BOOLEAN), reports # << >>
  PROVE  /\ Head(reports) =>
              Cardinality(Kept(reports)) = Cardinality(Kept(Tail(reports)))
         /\ ~Head(reports) =>
              Cardinality(Kept(reports)) = Cardinality(Kept(Tail(reports))) + 1
<1> DEFINE rest == Kept(Tail(reports))
           later == Kept(reports) \ {1}
           f == [k \in rest |-> k + 1]
<1>1. /\ Tail(reports) \in Seq(BOOLEAN) /\ Len(reports) \in Nat /\ Len(reports) > 0
      /\ DOMAIN Tail(reports) = 1 .. Len(reports) - 1
      /\ \A k \in 1 .. Len(reports) - 1 : Tail(reports)[k] = reports[k + 1]
      /\ Head(reports) = reports[1]
  OBVIOUS
<1>2. /\ rest = {k \in 1 .. Len(reports) - 1 : ~reports[k + 1]}
      /\ later = {k \in 2 .. Len(reports) : ~reports[k]}
  BY <1>1 DEF Kept
<1>3. 1 \in Kept(reports) <=> ~Head(reports)
  <2>1. Head(reports) <=> reports[1]
    BY <1>1
  <2>2. 1 \in DOMAIN reports
    BY <1>1
  <2> QED
    BY <2>1, <2>2, Zenon DEF Kept
<1>4. Cardinality(later) = Cardinality(rest)
  <2>1. IsFiniteSet(rest)
    BY <1>1, KeptFinite
  <2> HIDE DEF rest, later
  <2>2. \A k \in rest : f[k] \in later
    BY <1>1, <1>2
  <2>3. \A j, k \in rest : f[j] = f[k] => j = k
    BY <1>1, <1>2
  <2>4. \A k \in later : k - 1 \in rest /\ f[k - 1] = k
    BY <1>1, <1>2
  <2>5. f \in [rest -> later]
    BY <2>2
  <2> HIDE DEF f
  <2>6. f \in Bijection(rest, later)
    BY <2>3, <2>4, <2>5 DEF Bijection, Injection, Surjection, IsInjective
  <2> QED
    BY <2>1, <2>6, FS_Bijection DEF ExistsBijection
<1>5. /\ IsFiniteSet(Kept(reports)) /\ Cardinality(Kept(reports)) \in Nat
      /\ Cardinality(later) = IF 1 \in Kept(reports) THEN Cardinality(Kept(reports)) - 1
                              ELSE Cardinality(Kept(reports))
  BY KeptFinite, FS_RemoveElement
<1>6. CASE Head(reports)
  <2>1. 1 \notin Kept(reports)
    BY <1>3, <1>6, Zenon
  <2>2. Cardinality(later) = Cardinality(Kept(reports))
    BY <1>5, <2>1, Zenon
  <2> QED
    BY <1>4, <1>6, <2>2, Zenon
<1>7. CASE ~Head(reports)
  <2>1. 1 \in Kept(reports)
    BY <1>3, <1>7, Zenon
  <2>2. Cardinality(later) = Cardinality(Kept(reports)) - 1
    BY <1>5, <2>1, Zenon
  <2>3. Cardinality(Kept(reports)) = Cardinality(rest) + 1
    <3> HIDE DEF rest, later
    <3> QED
      BY <1>4, <1>5, <2>2
  <2> QED
    BY <1>7, <2>3, Zenon
<1> QED
  BY <1>6, <1>7

\* The file has finitely many rows.
LEMMA RowsFinite ==
  ASSUME MonitorInv, NEW b
  PROVE  IsFiniteSet(RowsOf(b)) /\ Cardinality(RowsOf(b)) \in Nat
<1>1. results.lines \in Seq(Line)
  BY DEF MonitorInv, Types
<1>2. RowsOf(b) \subseteq 1 .. Len(results.lines) /\ Len(results.lines) \in Nat
  BY <1>1 DEF RowsOf, Rows
<1>3. IsFiniteSet(1 .. Len(results.lines))
  BY <1>2, FS_Interval
<1> QED
  BY <1>2, <1>3, FS_Subset, FS_CardinalityType

\* What is owed of an instance depends on its runs and the command line only.
LEMMA SameOwed ==
  ASSUME NEW b, runs'[b] = runs[b], flags' = flags
  PROVE  Owed(b)' = Owed(b)
  BY DEF Owed, Reports

\* No kept report is left in an empty list.
LEMMA NothingKept == Kept(<< >>) = {} /\ Cardinality(Kept(<< >>)) = 0
  BY FS_EmptySet DEF Kept

\* Steps that leave the file alone.
LEMMA SameRows ==
  ASSUME results' = results, session' = session
  PROVE  Rows' = Rows /\ \A b \in Instances : RowsOf(b)' = RowsOf(b)
  BY DEF Rows, RowsOf

RowInv == MonitorInv /\ RowsAddUp

\* Before the first session there are no rows and no open file.
LEMMA RowsInitial == Init => RowInv
<1> SUFFICES ASSUME Init
             PROVE  RowInv
  OBVIOUS
<1>1. MonitorInv
  BY MonitorInitial
<1>2. Rows = {} /\ ~file_
  BY DEF Init, Rows
<1> QED
  BY <1>1, <1>2 DEF RowInv, RowsAddUp

\* Nothing happens to the file, the runs or the report: what is owed stays owed.
LEMMA RowsLeftAlone ==
  ASSUME RowInv, results' = results, session' = session, runs' = runs,
         flags' = flags, lost' = lost, file_' => file_,
         \A b \in Instances : file_' => Outstanding(b)' = Outstanding(b)
  PROVE  RowsAddUp'
<1>1. /\ Rows' = Rows
      /\ \A b \in Instances : RowsOf(b)' = RowsOf(b) /\ Owed(b)' = Owed(b)
  BY SameRows, SameOwed
<1>2. \A k \in Rows' : results'.lines[k].session <= session'
  BY <1>1, Zenon DEF RowInv, RowsAddUp
<1>3. ASSUME file_', NEW b \in Instances
      PROVE  Cardinality(RowsOf(b)') + lost'[b] + Outstanding(b)' = Owed(b)'
  BY <1>1, <1>3 DEF RowInv, RowsAddUp
<1> QED
  BY <1>2, <1>3 DEF RowsAddUp

\* A session's rows start from none, with no repetition done.
LEMMA StartSessionAddsUp ==
  ASSUME RowInv, StartSession
  PROVE  RowsAddUp'
<1>1. /\ session \in Nat /\ session' = session + 1
      /\ results'.lines = results.lines
      /\ pc' = "running"
      /\ flags'.repetitions \in Nat /\ flags'.repetitions > 0
      /\ \A b \in Instances : runs'[b] = << >> /\ lost'[b] = 0
  <2>1. results \in [exists : BOOLEAN, lines : Seq(Line)] /\ MaxSessions \in Nat
    BY MonitorAssumption DEF RowInv, MonitorInv, Types
  <2>2. results'.lines = results.lines
    BY <2>1 DEF StartSession
  <2>3. flags'.repetitions \in Nat /\ flags'.repetitions > 0
    BY MonitorAssumption DEF StartSession
  <2>4. session \in Nat
    BY <2>1 DEF RowInv, MonitorInv, Types
  <2>5. \A b \in Instances : runs'[b] = << >> /\ lost'[b] = 0
    BY DEF RowInv, MonitorInv, NothingRun, StartSession, history
  <2> QED
    BY <2>2, <2>3, <2>4, <2>5 DEF StartSession
<1>2. Rows' = Rows
  BY <1>1 DEF Rows
<1>3. \A k \in Rows : results'.lines[k].session \in Nat /\ results'.lines[k].session <= session
  <2>1. \A k \in Rows : results.lines[k] \in Row
    BY DEF RowInv, MonitorInv, Types, Line, Rows, Header
  <2> QED
    BY <1>1, <2>1 DEF RowInv, RowsAddUp, Row
<1>4. \A b \in Instances : RowsOf(b)' = {}
  BY <1>1, <1>2, <1>3 DEF RowsOf
<1>5. \A b \in Instances : Outstanding(b)' = 0 /\ Owed(b)' = 0
  BY <1>1 DEF Outstanding, Owed
<1>6. ASSUME NEW b \in Instances
      PROVE  Cardinality(RowsOf(b)') + lost'[b] + Outstanding(b)' = Owed(b)'
  <2>1. Cardinality(RowsOf(b)') = 0
    BY <1>4, FS_EmptySet
  <2>2. lost'[b] = 0 /\ Outstanding(b)' = 0 /\ Owed(b)' = 0
    BY <1>1, <1>5
  <2> QED
    BY <2>1, <2>2
<1>7. \A k \in Rows' : results'.lines[k].session <= session'
  BY <1>1, <1>2, <1>3
<1> QED
  BY <1>6, <1>7 DEF RowsAddUp

\* The last repetition of an instance makes all its reports owed and outstanding.
LEMMA FinishRepetitionAddsUp ==
  ASSUME RowInv, FinishRepetition
  PROVE  RowsAddUp'
<1> PICK skipped \in BOOLEAN :
      LET done == Append(runs[current], skipped)
          complete == Len(done) = flags.repetitions
      IN  /\ runs' = [runs EXCEPT ![current] = done]
          /\ pc' = IF complete THEN "reporting" ELSE "running"
          /\ to_report' = IF complete THEN Reports(done) ELSE << >>
          /\ current' = IF complete THEN current ELSE NoInstance
  BY DEF FinishRepetition
<1> DEFINE done == Append(runs[current], skipped)
<1>1. /\ current \in Instances /\ Len(runs[current]) < flags.repetitions
      /\ runs \in [Instances -> Seq(BOOLEAN)] /\ lost \in [Instances -> Nat]
      /\ flags.repetitions \in Nat
  BY DEF RowInv, MonitorInv, Types, ReadingOfCurrent, FinishRepetition
<1>2. UNCHANGED <<session, results, file_, flags, lost>> /\ pc = "called"
  BY DEF FinishRepetition, history
<1>3. Rows' = Rows /\ \A b \in Instances : RowsOf(b)' = RowsOf(b)
  BY <1>2, SameRows
<1>4. NoInstance \notin Instances
  BY MonitorAssumption
<1>5. ASSUME file_, NEW b \in Instances
      PROVE  Cardinality(RowsOf(b)') + lost'[b] + Outstanding(b)' = Owed(b)'
  <2>1. Cardinality(RowsOf(b)) + lost[b] + Outstanding(b) = Owed(b) /\ Outstanding(b) = 0
    BY <1>2, <1>5 DEF RowInv, RowsAddUp, Outstanding
  <2>2. CASE b # current
    <3>1. runs'[b] = runs[b]
      BY <1>1, <2>2
    <3>2. Owed(b)' = Owed(b)
      BY <1>2, <3>1, SameOwed
    <3>3. current' # b
      BY <1>4, <2>2
    <3>4. Outstanding(b)' = 0
      BY <3>3 DEF Outstanding
    <3> QED
      BY <1>2, <1>3, <2>1, <3>2, <3>4
  <2>3. CASE b = current
    <3> HIDE DEF done
    <3>1. /\ runs'[b] = done
          /\ Len(done) = flags.repetitions =>
               pc' = "reporting" /\ current' = b /\ to_report' = Reports(done)
          /\ Len(done) # flags.repetitions => pc' # "reporting"
      BY <1>1, <2>3 DEF done
    <3>2. Owed(b) = 0
      BY <1>1, <2>3 DEF Owed
    <3>3. Outstanding(b)' = Owed(b)'
      BY <1>2, <3>1 DEF Outstanding, Owed, Reports
    <3>4. Cardinality(RowsOf(b)) = 0 /\ lost[b] = 0
      BY <1>1, <2>1, <3>2, RowsFinite DEF RowInv
    <3>5. Owed(b)' \in Nat
      <4>1. runs'[b] \in Seq(BOOLEAN)
        BY <1>1, <2>3
      <4>2. Reports(runs'[b]) \in Seq(BOOLEAN)
        BY <4>1, ReportsType
      <4>3. Cardinality(Kept(Reports(runs'[b]))) \in Nat
        BY <4>2, KeptFinite
      <4> QED
        BY <1>2, <4>3 DEF Owed, Reports
    <3> QED
      BY <1>2, <1>3, <3>3, <3>4, <3>5
  <2> QED
    BY <2>2, <2>3
<1>6. \A k \in Rows' : results'.lines[k].session <= session'
  BY <1>2, <1>3, Zenon DEF RowInv, RowsAddUp
<1> QED
  BY <1>2, <1>5, <1>6 DEF RowsAddUp

\* A skipped run was not outstanding.
LEMMA SkipRunAddsUp ==
  ASSUME RowInv, SkipRun
  PROVE  RowsAddUp'
<1>1. to_report \in Seq(BOOLEAN) /\ to_report # << >> /\ Head(to_report)
  BY DEF RowInv, MonitorInv, Types, SkipRun
<1>2. Cardinality(Kept(to_report)) = Cardinality(Kept(Tail(to_report)))
  BY <1>1, KeptOfTail, Zenon
<1>3. \A b \in Instances : Outstanding(b)' = Outstanding(b)
  BY <1>2 DEF SkipRun, AfterSkipped, Outstanding
<1> QED
  BY <1>3, RowsLeftAlone DEF SkipRun, history

\* The header is no row.
LEMMA WriteHeaderAddsUp ==
  ASSUME RowInv, WriteHeader
  PROVE  RowsAddUp'
<1> DEFINE last == Len(results.lines) + 1
<1>1. Header \in Line /\ Types
  BY DEF Line, RowInv, MonitorInv
<1>2. Rows' = Rows /\ \A k \in Rows : results'.lines[k] = results.lines[k]
  <2>1. CASE results' = Appended(Header)
    <3>1. /\ DOMAIN results'.lines = DOMAIN results.lines \cup {last}
          /\ \A k \in DOMAIN results.lines : results'.lines[k] = results.lines[k]
          /\ results'.lines[last] = Header
      BY <1>1, <2>1, AppendedLine
    <3>2. last \notin DOMAIN results.lines
      BY <1>1 DEF Types
    <3> QED
      BY <3>1, <3>2 DEF Rows, Header
  <2>2. CASE UNCHANGED results
    BY <2>2 DEF Rows
  <2> QED
    BY <2>1, <2>2 DEF WriteHeader
<1>3. UNCHANGED <<pc, session, flags, current, runs, to_report, file_, lost>>
  BY DEF WriteHeader
<1>4. \A b \in Instances : RowsOf(b)' = RowsOf(b)
  BY <1>2, <1>3 DEF RowsOf
<1>5. \A b \in Instances : Outstanding(b)' = Outstanding(b) /\ Owed(b)' = Owed(b)
  BY <1>3, SameOwed DEF Outstanding
<1> QED
  BY <1>2, <1>3, <1>4, <1>5 DEF RowInv, RowsAddUp

\* Coming to the next report after one that was kept leaves one outstanding less.
LEMMA OneOutstandingLess ==
  ASSUME RowInv, WriteResult, NEW b \in Instances
  PROVE  /\ b = current => /\ Outstanding(b)' \in Nat
                           /\ Outstanding(b) = Outstanding(b)' + 1
         /\ b # current => Outstanding(b)' = Outstanding(b)
<1>1. to_report \in Seq(BOOLEAN) /\ to_report # << >> /\ ~Head(to_report)
  BY DEF RowInv, MonitorInv, Types, WriteResult
<1>2. Cardinality(Kept(Tail(to_report))) \in Nat
  BY <1>1, NextReport, KeptFinite
<1>3. Cardinality(Kept(to_report)) = Cardinality(Kept(Tail(to_report))) + 1
  BY <1>1, KeptOfTail
<1> QED
  BY <1>2, <1>3 DEF Outstanding, WriteResult

\* A row written is one outstanding less.
LEMMA RowAppendedAddsUp ==
  ASSUME RowInv, WriteResult, results' = Appended(RowOf(current)), UNCHANGED lost, file_
  PROVE  RowsAddUp'
<1> DEFINE last == Len(results.lines) + 1
           row == RowOf(current)
<1>1. /\ Types /\ row \in Line
      /\ row.kind = "row" /\ row.session = session /\ row.instance = current
  <2>1. Types /\ session \in Nat /\ current \in Instances
    BY WhileReporting DEF RowInv, MonitorInv, WriteResult
  <2>2. row \in Row
    BY <2>1 DEF RowOf, Row
  <2> QED
    BY <2>1, <2>2 DEF Line, RowOf
<1> HIDE DEF row
<1>2. /\ DOMAIN results'.lines = DOMAIN results.lines \cup {last}
      /\ \A k \in DOMAIN results.lines : results'.lines[k] = results.lines[k]
      /\ results'.lines[last] = row
  BY <1>1, AppendedLine DEF row
<1>3. last \notin DOMAIN results.lines
  BY <1>1 DEF Types
<1>4. UNCHANGED <<pc, session, flags, current, runs, file_>>
  BY DEF WriteResult
<1>5. Rows' = Rows \cup {last}
  BY <1>1, <1>2, <1>3 DEF Rows
<1>6. \A k \in Rows : results'.lines[k] = results.lines[k]
  BY <1>2 DEF Rows
<1>7. \A b \in Instances : RowsOf(b)' = IF b = current THEN RowsOf(b) \cup {last}
                                        ELSE RowsOf(b)
  BY <1>1, <1>2, <1>4, <1>5, <1>6 DEF RowsOf
<1>8. \A b \in Instances : IsFiniteSet(RowsOf(b)) /\ last \notin RowsOf(b)
  BY <1>3, RowsFinite DEF RowInv, RowsOf, Rows
<1>9. ASSUME NEW b \in Instances
      PROVE  Cardinality(RowsOf(b)') + lost'[b] + Outstanding(b)' = Owed(b)'
  <2>1. Cardinality(RowsOf(b)) + lost[b] + Outstanding(b) = Owed(b) /\ lost[b] \in Nat
    BY DEF RowInv, RowsAddUp, MonitorInv, Types
  <2>2. Owed(b)' = Owed(b)
    BY <1>4, SameOwed
  <2>3. CASE b # current
    BY <1>7, <2>1, <2>2, <2>3, OneOutstandingLess
  <2>4. CASE b = current
    <3>1. Outstanding(b) = Outstanding(b)' + 1 /\ Outstanding(b)' \in Nat
      BY <2>4, OneOutstandingLess
    <3>2. /\ Cardinality(RowsOf(b)') = Cardinality(RowsOf(b)) + 1
          /\ Cardinality(RowsOf(b)) \in Nat
      <4>1. /\ IsFiniteSet(RowsOf(b)) /\ last \notin RowsOf(b)
            /\ RowsOf(b)' = RowsOf(b) \cup {last}
        BY <1>7, <1>8, <2>4
      <4> QED
        BY <4>1, FS_AddElement, FS_CardinalityType, Zenon
    <3> QED
      BY <2>1, <2>2, <3>1, <3>2
  <2> QED
    BY <2>3, <2>4
<1>10. \A k \in Rows' : results'.lines[k].session <= session'
  <2>1. session \in Nat
    BY <1>1, MonitorAssumption DEF Types
  <2> QED
    BY <1>1, <1>2, <1>4, <1>5, <1>6, <2>1 DEF RowInv, RowsAddUp
<1> QED
  BY <1>9, <1>10 DEF RowsAddUp

\* A write that fails is one outstanding less, too.
LEMMA RowLostAddsUp ==
  ASSUME RowInv, WriteResult, lost' = [lost EXCEPT ![current] = @ + 1], UNCHANGED results
  PROVE  RowsAddUp'
<1>1. UNCHANGED <<session, flags, runs, file_>>
  BY DEF WriteResult
<1>2. /\ Rows' = Rows
      /\ \A b \in Instances : RowsOf(b)' = RowsOf(b) /\ Owed(b)' = Owed(b)
  BY <1>1, SameRows, SameOwed
<1>3. \A k \in Rows' : results'.lines[k].session <= session'
  BY <1>1, <1>2, Zenon DEF RowInv, RowsAddUp
<1>4. ASSUME file_, NEW b \in Instances
      PROVE  Cardinality(RowsOf(b)') + lost'[b] + Outstanding(b)' = Owed(b)'
  <2>1. /\ Cardinality(RowsOf(b)) + lost[b] + Outstanding(b) = Owed(b)
        /\ Cardinality(RowsOf(b)) \in Nat /\ lost[b] \in Nat
        /\ lost'[b] = IF b = current THEN lost[b] + 1 ELSE lost[b]
    BY <1>4, RowsFinite DEF RowInv, RowsAddUp, MonitorInv, Types
  <2> QED
    BY <1>2, <2>1, OneOutstandingLess
<1> QED
  BY <1>1, <1>3, <1>4 DEF RowsAddUp

\* The steps that neither write nor finish a repetition.
LEMMA OthersAddUp ==
  ASSUME RowInv,
         \/ Spend \/ (\E b \in Instances : CallBenchmark(b)) \/ CallAgain
         \/ FinishReport \/ UNCHANGED vars
  PROVE  RowsAddUp'
<1>1. UNCHANGED <<results, session, runs, flags, lost, file_>>
  BY DEF Spend, CallBenchmark, CallAgain, FinishReport, vars, process, history
<1>2. ASSUME NEW b \in Instances
      PROVE  Outstanding(b)' = Outstanding(b)
  <2>1. CASE Spend \/ UNCHANGED vars
    BY <2>1 DEF Spend, Outstanding, vars, process
  <2>2. CASE (\E c \in Instances : CallBenchmark(c)) \/ CallAgain
    BY <2>2 DEF CallBenchmark, CallAgain, Outstanding, process
  <2>3. CASE FinishReport
    BY <2>3, NothingKept DEF FinishReport, Outstanding
  <2> QED
    BY <2>1, <2>2, <2>3
<1> QED
  BY <1>1, <1>2, RowsLeftAlone

\* When the program has ended no file is open.
LEMMA ExitAddsUp ==
  ASSUME RowInv, Exit
  PROVE  RowsAddUp'
<1>1. ~file_' /\ results' = results /\ session' = session
  BY DEF Exit
<1> QED
  BY <1>1 DEF RowInv, RowsAddUp, Rows

\* Every step keeps written, lost and outstanding rows equal to what is owed.
THEOREM RowsInductive == RowInv /\ [Next]_vars => RowInv'
<1> SUFFICES ASSUME RowInv, [Next]_vars
             PROVE  RowsAddUp'
  BY MonitorInductive DEF RowInv
<1>1. CASE \/ Spend \/ (\E b \in Instances : CallBenchmark(b)) \/ CallAgain
           \/ FinishReport \/ UNCHANGED vars
  BY <1>1, OthersAddUp
<1>2. CASE StartSession
  BY <1>2, StartSessionAddsUp
<1>3. CASE FinishRepetition
  BY <1>3, FinishRepetitionAddsUp
<1>4. CASE SkipRun
  BY <1>4, SkipRunAddsUp
<1>5. CASE WriteHeader
  BY <1>5, WriteHeaderAddsUp
<1>6. CASE WriteResult
  <2>1. CASE results' = Appended(RowOf(current)) /\ UNCHANGED lost /\ file_
    BY <1>6, <2>1, RowAppendedAddsUp
  <2>2. CASE lost' = [lost EXCEPT ![current] = @ + 1] /\ UNCHANGED results
    BY <1>6, <2>2, RowLostAddsUp
  <2>3. CASE ~file_ /\ UNCHANGED <<results, lost>>
    <3>1. UNCHANGED <<session, runs, file_, flags>>
      BY <1>6 DEF WriteResult
    <3> QED
      BY <2>3, <3>1, RowsLeftAlone
  <2> QED
    BY <1>6, <2>1, <2>2, <2>3 DEF WriteResult
<1>7. CASE EndSession \/ Crash
  BY <1>7, ExitAddsUp DEF EndSession, Crash
<1> QED
  BY <1>1, <1>2, <1>3, <1>4, <1>5, <1>6, <1>7 DEF Next

\* At the end of a session nothing is outstanding.
LEMMA RowInvImplies ==
  ASSUME RowInv
  PROVE  EveryRunOnce
<1> SUFFICES ASSUME AllReported, file_, NEW b \in Instances
             PROVE  Cardinality(RowsOf(b)) + lost[b] = Cardinality(Kept(Reports(runs[b])))
  BY Zenon DEF EveryRunOnce, RowsOf
<1>1. Cardinality(RowsOf(b)) + lost[b] + Outstanding(b) = Owed(b)
  BY DEF RowInv, RowsAddUp
<1>2. Outstanding(b) = 0
  BY DEF AllReported, Outstanding
<1>3. Owed(b) = Cardinality(Kept(Reports(runs[b])))
  BY DEF AllReported, Owed
<1>4. Cardinality(RowsOf(b)) \in Nat /\ lost[b] \in Nat
  BY RowsFinite DEF RowInv, MonitorInv, Types
<1> QED
  BY <1>1, <1>2, <1>3, <1>4

\* A session that comes to its end has written a row, or failed to, for each run that was
\* not skipped and each aggregate, also those behind a skipped one, with aggregates only if
\* these were asked for, and no row twice.
THEOREM EveryRunOnceCorrect == Spec => []EveryRunOnce
  BY RowsInitial, RowsInductive, RowInvImplies, PTL DEF Spec
=============================================================================
