------------------------------ MODULE TrainingData ------------------------------
(***************************************************************************)
(* How training jobs get their dataset (server/rlDatasetResolver.ts,       *)
(* portOperationalManifest.ts, portTrainingDataset.ts): read the manifest, *)
(* read the file it names, check every record, write the adapted records   *)
(* into a file named after what was read, read that file back, and make a  *)
(* dataset of it.  Loads overlap, in one process or in several, and the    *)
(* operator replaces manifest and file meanwhile.                          *)
(*                                                                         *)
(* A record has the fields the checks and claims tell apart; at is the     *)
(* rank of its timestamp's text, by which the code sorts: with one time    *)
(* zone per file, as docs/DATASET_CONTRACT.md asks, that is its time.      *)
(***************************************************************************)
EXTENDS DatasetSplits, Sequences, FiniteSets, Functions

CONSTANTS
    Loader,          \* calls of loadResolvedRlTrainingDataset
    Field,           \* fields of terminal-operations.v2
    Required,        \* those requiredForTraining
    Manifests,       \* manifests the operator may put in place, and NoManifest
    NoManifest,      \* PORT_OPERATIONAL_MANIFEST_PATH is not set
    Sources,         \* sequence of the contents the data file may have
    NoPort,          \* no port is asked for
    MonthCounts,     \* months the public file may have
    PublicMonths,    \* months the public file has
    FullCoverage,    \* the coverage of all records, in the units it is rounded to: 1000 tenths
                     \* of a per cent
    MaxRevisions     \* bound on what the operator replaces

\* A record of the data file: complete if every field that terminal-operations.v2 requires
\* is there and in range.
SourceRecord ==
    [port : STRING, at : Nat, arrivals : Nat, capacity : Nat, weather : BOOLEAN,
     safety : BOOLEAN, complete : BOOLEAN]

ManifestRecord ==
    [port : STRING, authorized : BOOLEAN, available : SUBSET Field, mapped : SUBSET Field]

ASSUME DataAssumption ==
    /\ MaxRevisions \in Nat /\ PublicMonths \in Nat /\ FullCoverage \in Nat \ {0}
    /\ MonthCounts \subseteq Nat
    /\ Required \subseteq Field
    /\ Manifests \ {NoManifest} \subseteq ManifestRecord
    /\ \A s \in DOMAIN Sources : Sources[s] \in Seq(SourceRecord)

VARIABLES
    manifest,  \* the manifest in place
    source,    \* the content of the data file: an index of Sources
    adapted,   \* the adapted files: by name, what they were made of, or Partial
    truncatedBy,    \* by name, the load that truncated it last
    loading,   \* how far each load has come
    readOf,     \* what each load has read: a manifest and a source
    got,       \* what the adapted file it read back was made of
    months,    \* months of the public file behind the business dataset, 0 before
    revisions

dataVars == <<manifest, source, adapted, truncatedBy, loading, readOf, got, months, revisions>>

----------------------------------------------------------------------------
\* validateOperationalRecords: no record lacks a required field or has it out of range.
CompleteRecords(rows) == Len(rows) >= 20 /\ \A i \in DOMAIN rows : rows[i].complete

\* parsePortOperationalManifest: every field that is available is mapped to a column.
Parses(m) == m.available \subseteq m.mapped

\* assessPortOperationalReadiness: every required field is available.
TrainingReady(m) == Required \subseteq m.available

MayAdapt(m, rows) == Parses(m) /\ TrainingReady(m) /\ CompleteRecords(rows)

\* adaptOperationalRecords: a complete record has its weather and its incidents.
Adapt(rows) == [i \in DOMAIN rows |-> [rows[i] EXCEPT !.weather = TRUE, !.safety = TRUE]]

\* Array.prototype.sort: the position n before the first that is later by its key.
Inserted(order, n, key) ==
    LET end == Len(order) + 1
        later == {j \in 1 .. Len(order) : key[order[j]] > key[n]}
        place == CHOOSE j \in later \cup {end} : \A k \in later \cup {end} : j <= k
    IN  [j \in 1 .. end |-> IF j < place THEN order[j] ELSE IF j = place THEN n ELSE order[j - 1]]

\* The chosen positions of a sequence of keys, in the order of the keys.
InOrder(chosen, key) ==
    LET order[n \in 0 .. Len(key)] ==
            IF n = 0 THEN << >>
            ELSE IF n \in chosen THEN Inserted(order[n - 1], n, key) ELSE order[n - 1]
    IN  order[Len(key)]

\* normalizeRecords: the records with a demand, of the port asked for or the only one.
Valid(rows) == {i \in DOMAIN rows : rows[i].arrivals > 0}
PortsOf(rows) == {rows[i].port : i \in Valid(rows)}
PortAsked(rows, wanted) ==
    IF wanted # NoPort THEN wanted
    ELSE IF Cardinality(PortsOf(rows)) = 1 THEN CHOOSE p \in PortsOf(rows) : TRUE
    ELSE NoPort

Ordered(rows, wanted) ==
    LET order == InOrder({i \in Valid(rows) : rows[i].port = wanted},
                         [i \in DOMAIN rows |-> rows[i].at])
    IN  [j \in DOMAIN order |-> rows[order[j]]]

Usable(rows, wanted) ==
    LET of == Ordered(rows, PortAsked(rows, wanted))
    IN  /\ PortAsked(rows, wanted) # NoPort
        /\ Acceptable(Len(of))
        /\ \A i \in 2 .. Len(of) : of[i].at # of[i - 1].at

\* percentile, at 0.9, of the arrivals of some records.
Percentile90(rows) ==
    LET arrivals == [i \in DOMAIN rows |-> rows[i].arrivals]
    IN  arrivals[InOrder(DOMAIN rows, arrivals)[1 + (9 * (Len(rows) - 1)) \div 10]]

\* Mutation: the capacity is inferred from all records.
InferredFromAll(of) == Percentile90(of)

\* The capacity of a record that has none is inferred from the train segment.
InferredCapacity(of) == Percentile90(SubSeq(of, 1, TrainEnd(Len(of))))

\* Coverage, rounded to the nearest unit as toFixed(1) does to a tenth of a per cent.
Coverage(n, k) == (2 * FullCoverage * k + n) \div (2 * n)
FullyCovered(of, having) == Coverage(Len(of), Cardinality(having)) = FullCoverage
Measured(of) == \A i \in DOMAIN of : of[i].capacity > 0

\* loadPortTrainingDataset: the records in order with their capacities, and the claim, which
\* the drift of the arrivals that the dataset shows beside it has no part in.
Dataset(rows, wanted) ==
    LET of == Ordered(rows, PortAsked(rows, wanted))
    IN  [records |-> [i \in DOMAIN of |->
                         [of[i] EXCEPT !.capacity = IF @ > 0 THEN @ ELSE InferredCapacity(of)]],
         claim |-> Measured(of) /\ FullyCovered(of, {i \in DOMAIN of : of[i].weather})
                   /\ FullyCovered(of, {i \in DOMAIN of : of[i].safety})]

\* Mutation: the claim of the records is enough.
RecordsClaim(m, claim) == claim

\* loadResolvedRlTrainingDataset: with a manifest, only data an operator authorised.
Claim(m, claim) == IF m = NoManifest THEN claim ELSE m.authorized /\ TrainingReady(m) /\ claim

PortOf(m) == IF m = NoManifest THEN NoPort ELSE m.port
RowsFor(m, s) == IF m = NoManifest THEN Sources[s] ELSE Adapt(Sources[s])

Contents == DOMAIN Sources
Pair == Manifests \X Contents
Loadable == {p \in Pair : Usable(RowsFor(p[1], p[2]), PortOf(p[1]))}

----------------------------------------------------------------------------
Nothing == << >>
Partial == <<"partial">>

\* Mutation: one file for all that is adapted.
OneFile(m, s) == "operational-adapter"

\* The name of the adapted file is the digest of the manifest and the source.
AdaptedPath(m, s) == <<m, s>>
Paths == {AdaptedPath(p[1], p[2]) : p \in Pair}

DataInit ==
    /\ manifest \in Manifests /\ source \in Contents
    /\ adapted = << >> /\ truncatedBy = << >>
    /\ loading = [l \in Loader |-> "idle"]
    /\ readOf = [l \in Loader |-> Nothing] /\ got = [l \in Loader |-> Nothing]
    /\ months = 0 /\ revisions = 0

\* The operator replaces the manifest or the file, each at once.
Replace ==
    /\ revisions < MaxRevisions /\ revisions' = revisions + 1
    /\ \/ manifest' \in Manifests \ {manifest, NoManifest} /\ manifest # NoManifest
          /\ UNCHANGED source
       \/ source' \in Contents \ {source} /\ UNCHANGED manifest
    /\ UNCHANGED <<adapted, truncatedBy, loading, readOf, got, months>>

Goes(l, step) == loading' = [loading EXCEPT ![l] = step]

\* loadPortOperationalManifest: without one the training file is read as it is, and a
\* manifest that maps too little or lacks required fields ends the load.
ReadManifest(l) ==
    /\ loading[l] = "idle"
    /\ readOf' = [readOf EXCEPT ![l] = <<manifest>>]
    /\ Goes(l, IF manifest = NoManifest \/ (Parses(manifest) /\ TrainingReady(manifest)) THEN "source" ELSE "failed")
    /\ UNCHANGED <<manifest, source, adapted, truncatedBy, got, months, revisions>>

\* Without a manifest the file is read and made a dataset in one step.
ReadPlain(l) ==
    /\ loading[l] = "source" /\ readOf[l] = <<NoManifest>>
    /\ readOf' = [readOf EXCEPT ![l] = <<NoManifest, source>>]
    /\ got' = [got EXCEPT ![l] = IF <<NoManifest, source>> \in Loadable THEN <<NoManifest, source>> ELSE @]
    /\ Goes(l, IF <<NoManifest, source>> \in Loadable THEN "loaded" ELSE "failed")
    /\ UNCHANGED <<manifest, source, adapted, truncatedBy, months, revisions>>

ReadSource(l) ==
    /\ loading[l] = "source" /\ readOf[l] # <<NoManifest>>
    /\ readOf' = [readOf EXCEPT ![l] = <<@[1], source>>]
    /\ Goes(l, IF MayAdapt(readOf[l][1], Sources[source]) THEN "open" ELSE "failed")
    /\ UNCHANGED <<manifest, source, adapted, truncatedBy, got, months, revisions>>

PathOf(l) == AdaptedPath(readOf[l][1], readOf[l][2])

\* The files with one of them made or replaced.
WithFile(files, path, content) ==
    [name \in DOMAIN files \cup {path} |-> IF name = path THEN content ELSE files[name]]

\* writeFile truncates the file and then writes it.
OpenAdapted(l) ==
    /\ loading[l] = "open"
    /\ adapted' = WithFile(adapted, PathOf(l), Partial)
    /\ truncatedBy' = WithFile(truncatedBy, PathOf(l), l)
    /\ Goes(l, "write")
    /\ UNCHANGED <<manifest, source, readOf, got, months, revisions>>

\* The file is whole when the load that truncated it last has written it; what another
\* one wrote may have been cut before.
WriteAdapted(l) ==
    /\ loading[l] = "write"
    /\ \/ adapted' = [adapted EXCEPT ![PathOf(l)] = readOf[l]]
       \/ truncatedBy[PathOf(l)] # l /\ UNCHANGED adapted
    /\ Goes(l, "read")
    /\ UNCHANGED <<manifest, source, truncatedBy, readOf, got, months, revisions>>

\* loadPortTrainingDataset of the adapted file: a file that is cut does not parse.
ReadAdapted(l) ==
    LET content == adapted[PathOf(l)]
        whole == content \in Loadable
    IN  /\ loading[l] = "read"
        /\ got' = [got EXCEPT ![l] = IF whole THEN content ELSE @]
        /\ Goes(l, IF whole THEN "loaded" ELSE "failed")
        /\ UNCHANGED <<manifest, source, adapted, truncatedBy, readOf, months, revisions>>

\* The records made of the public months (buildDefaultRecords) are disturbed by their
\* index: a closed channel, a closed tide window, a maintenance, dangerous goods.
Disturbance == {"channel", "tide", "maintenance", "hazmat"}
Disturbed(d, i) ==
    \/ d = "channel" /\ i % 197 = 0
    \/ d = "tide" /\ (i + (i % RecordsPerMonth)) % 5 = 0
    \/ d = "maintenance" /\ (i % 53 = 0 \/ i % 89 = 0)
    \/ d = "hazmat" /\ i % 47 = 0

\* The business dataset of the public months, and its grouping by month.
LoadMonths(n) ==
    /\ months = 0 /\ Acceptable(n)
    /\ months' = n
    /\ UNCHANGED <<manifest, source, adapted, truncatedBy, loading, readOf, got, revisions>>

DataNext ==
    \/ Replace
    \/ \E l \in Loader :
        \/ ReadManifest(l) \/ ReadPlain(l) \/ ReadSource(l)
        \/ OpenAdapted(l) \/ WriteAdapted(l) \/ ReadAdapted(l)
    \/ \E n \in MonthCounts : LoadMonths(n)

DataSpec == DataInit /\ [][DataNext]_dataVars
----------------------------------------------------------------------------
ReadSoFar == {Nothing} \cup {<<m>> : m \in Manifests} \cup Pair

DataTypeOK ==
    /\ manifest \in Manifests /\ source \in Contents
    /\ DOMAIN adapted \subseteq Paths /\ Range(adapted) \subseteq Pair \cup {Partial}
    /\ DOMAIN truncatedBy = DOMAIN adapted /\ Range(truncatedBy) \subseteq Loader
    /\ \A l \in Loader :
        /\ loading[l] \in {"idle", "source", "open", "write", "read", "loaded", "failed"}
        /\ readOf[l] \in ReadSoFar /\ got[l] \in {Nothing} \cup Pair
    /\ months \in {0} \cup MonthCounts /\ revisions \in 0 .. MaxRevisions

\* A load hands over the records of the manifest and the file it read itself, whatever
\* other loads write and the operator replaces meanwhile (rlDatasetResolver.ts:160).
HandsOverItsOwn == \A l \in Loader : loading[l] = "loaded" => got[l] = readOf[l]

\* On records that can be used a load fails only where another load of the same was
\* rewriting the file it came to read back.
FailsForAReason ==
    \A l \in Loader :
        loading[l] = "failed" /\ readOf[l] \in Loadable =>
            \/ ~MayAdapt(readOf[l][1], Sources[readOf[l][2]])
            \/ \E k \in Loader \ {l} : readOf[k] = readOf[l]

\* The records of a dataset are the valid ones of its port, once each, in order.
RecordsAreTheRows(of, rows, named) ==
    LET wanted == {i \in DOMAIN rows : rows[i].arrivals > 0 /\ rows[i].port = named}
        Key(r) == <<r.at, r.arrivals>>
    IN  /\ Len(of) = Cardinality(wanted) /\ Len(of) >= 20
        /\ {Key(of[i]) : i \in DOMAIN of} = {Key(rows[i]) : i \in wanted}
        /\ \A i, j \in DOMAIN of : i < j => of[i].at < of[j].at

\* A capacity that was not measured is a demand of the train segment that nine tenths of
\* the segment do not exceed and one tenth reaches: nothing of the later records is in it
\* (portTrainingDataset.ts:227).
CapacityIsOfThePast(of, rows) ==
    LET train == 1 .. TrainEnd(Len(of))
        measured == {<<r.at, r.capacity>> : r \in {q \in Range(rows) : q.capacity > 0}}
        UpTo(c) == Cardinality({i \in train : of[i].arrivals <= c})
        Under(c) == Cardinality({i \in train : of[i].arrivals < c})
    IN  \A i \in DOMAIN of :
            \/ <<of[i].at, of[i].capacity>> \in measured
            \/ /\ \E j \in train : of[j].arrivals = of[i].capacity
               /\ 10 * UpTo(of[i].capacity) >= 9 * (Cardinality(train) - 1)
               /\ 10 * Under(of[i].capacity) <= 9 * (Cardinality(train) - 1)

\* Operational claims are open only to records whose capacity is measured in each, which, if a
\* manifest names them, an operator has authorised, and of which at most one in 2000 (twice
\* FullCoverage) lacks its weather and at most one in 2000 its incidents: the rounding of the
\* coverage hides no more (portTrainingDataset.ts:269).
ClaimIsBacked(m, s, data) ==
    LET rows == RowsFor(m, s)
        mine == {i \in DOMAIN rows : rows[i].arrivals > 0 /\ rows[i].port = data.records[1].port}
        Few(lacking) == 2 * FullCoverage * Cardinality(lacking) <= Cardinality(mine)
    IN  Claim(m, data.claim) =>
            /\ m = NoManifest \/ m.authorized
            /\ \A i \in mine : Sources[s][i].capacity > 0
            /\ Few({i \in mine : ~rows[i].weather})
            /\ Few({i \in mine : ~rows[i].safety})

SoundlyLoadable ==
    {p \in Loadable :
        LET data == Dataset(RowsFor(p[1], p[2]), PortOf(p[1]))
            rows == Sources[p[2]]
        IN  /\ RecordsAreTheRows(data.records, rows, data.records[1].port)
            /\ CapacityIsOfThePast(data.records, rows)
            /\ ClaimIsBacked(p[1], p[2], data)}

DatasetsAreSound == \A l \in Loader : loading[l] = "loaded" => got[l] \in SoundlyLoadable

\* The segments of the public months.  By month they follow one another without a gap, no
\* month on both sides of a border, and what a learner is judged on it was not trained on.  By
\* record so they do from 26 months on and no earlier, though the loader takes 20: with fewer
\* nothing is left to validate on, and with fewer than 25 what the business learners are tested
\* on they were trained on (splitIndexes; leakageChecks says chronologicalSplit all the same).
\* As many records of an operator's own file, of which there must be 120, always do.
Before(a, b) == \E border \in b : (\A j \in b : border <= j) /\ \A i \in a : i < border
InTurn(n, a, b, c) ==
    a \cup b \cup c = 0 .. n - 1 /\ {} \notin {a, b, c} /\ Before(a, b) /\ Before(b, c)
MonthsIn(some) == {MonthOf(i) : i \in some}

KeepApart(n) ==
    LET all == RecordsPerMonth * n
    IN  /\ InTurn(all, BusinessTrain(all), BusinessValidation(all), BusinessTest(all)) <=> n >= 26
        /\ BusinessValidation(all) # {} <=> n >= 26
        /\ BusinessTrain(all) \cap BusinessTest(all) = {} <=> n >= 25
        /\ BusinessAcceptable(n) => InTurn(n, BusinessTrain(n), BusinessValidation(n), BusinessTest(n))
        /\ InTurn(all, GroupTrain(n), GroupValidation(n), GroupTest(n))
        /\ MonthsIn(GroupTrain(n)) \cap MonthsIn(GroupValidation(n)) = {}
        /\ MonthsIn(GroupValidation(n)) \cap MonthsIn(GroupTest(n)) = {}

\* Every disturbance the records are made with is learnt from, chosen on and judged on.
SeeEverything(n) ==
    \A d \in Disturbance, segment \in {GroupTrain(n), GroupValidation(n), GroupTest(n)} :
        \E i \in segment : Disturbed(d, i)

SoundMonths ==
    {n \in MonthCounts : Acceptable(n) => KeepApart(n) /\ (n = PublicMonths => SeeEverything(n))}

SegmentsAreSound == months # 0 => months \in SoundMonths

\* What a training job learns from is what it was given: the records of its own load, in order
\* and once each, with no capacity inferred from what it will be judged on, claimed to be
\* operational only on full coverage up to the rounding, and cut as far apart as their number
\* allows.
DataIsEarned ==
    DataTypeOK /\ HandsOverItsOwn /\ FailsForAReason /\ DatasetsAreSound /\ SegmentsAreSound

\* The capacities of the public months are calibrated on the train segment only
\* (portBusinessDataset.ts:377).
CalibratedOnTrain == months > 0 => Calibrating(months) \subseteq GroupTrain(months)
=============================================================================
