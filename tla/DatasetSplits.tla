----------------------------- MODULE DatasetSplits -----------------------------
(***************************************************************************)
(* How a dataset of n records in the order of time is cut into records to  *)
(* train on, to validate on and to test on: of the tabular learners        *)
(* (server/portTrainingDataset.ts), of the business learners, by record    *)
(* (server/portBusinessDataset.ts), and of the core learners, by month     *)
(* (server/coreOperationsGroupedDataset.ts).  The records are the indexes  *)
(* 0 .. n-1.  Shares are exact here; in floating point 0.7 n falls just    *)
(* below some multiples of ten (90, 170, 180, 330, ...) and the train      *)
(* segment has one record less.                                            *)
(***************************************************************************)
EXTENDS Integers

AtLeast(a, b) == IF a >= b THEN a ELSE b
AtMost(a, b) == IF a <= b THEN a ELSE b

----------------------------------------------------------------------------
\* The tabular learners.  Of the validation records, splitValidationRecords
\* (rlTrainingEngine.ts) keeps the first part to compare candidates of one learner on.
Acceptable(n) == n >= 20
TrainEnd(n) == AtLeast(8, (7 * n) \div 10)
ValidationEnd(n) == AtMost(n - 4, AtLeast(TrainEnd(n) + 4, (85 * n) \div 100))
TuningEnd(n) ==
    LET v == ValidationEnd(n) - TrainEnd(n)
    IN  TrainEnd(n) + AtMost(v - 2, AtLeast(2, (6 * v) \div 10))

\* Mutation: the slice ends one record late.
TrainOneMore(n) == 0 .. TrainEnd(n)

TrainRecords(n) == 0 .. TrainEnd(n) - 1
ValidationRecords(n) == TrainEnd(n) .. ValidationEnd(n) - 1

TuningRecords(n) == TrainEnd(n) .. TuningEnd(n) - 1
SelectionRecords(n) == TuningEnd(n) .. ValidationEnd(n) - 1
TestRecords(n) == ValidationEnd(n) .. n - 1

----------------------------------------------------------------------------
\* The business learners: splitIndexes and the three slices of assembleDataset.  A file of
\* records has at least 120 of them; the public months, four records each, have no
\* minimum but the 20 months of the loader they come from.
BusinessAcceptable(n) == n >= 120
BusinessTrainEnd(n) == AtLeast(80, (7 * n) \div 10)
BusinessValidationEnd(n) ==
    AtMost(n - 20, AtLeast(BusinessTrainEnd(n) + 20, (85 * n) \div 100))

BusinessTrain(n) == 0 .. AtMost(n, BusinessTrainEnd(n)) - 1
BusinessValidation(n) == BusinessTrainEnd(n) .. BusinessValidationEnd(n) - 1
BusinessTest(n) == BusinessValidationEnd(n) .. n - 1

----------------------------------------------------------------------------
\* The core learners: the four records of a month stay in one segment.
RecordsPerMonth == 4
MonthOf(i) == i \div RecordsPerMonth

GroupTrainEnd(count) == (7 * count) \div 10
GroupValidationEnd(count) == (85 * count) \div 100
RecordsOf(count, first, end) ==
    {i \in 0 .. RecordsPerMonth * count - 1 : MonthOf(i) \in first .. end - 1}

GroupTrain(count) == RecordsOf(count, 0, GroupTrainEnd(count))
GroupValidation(count) == RecordsOf(count, GroupTrainEnd(count), GroupValidationEnd(count))
GroupTest(count) == RecordsOf(count, GroupValidationEnd(count), count)

\* The records whose arrivals calibrate the capacity of every record of the public months
\* (buildDefaultRecords), grouped or not.
Calibrating(count) == BusinessTrain(RecordsPerMonth * count)
=============================================================================
