---------------------------- MODULE MCTrainingData ----------------------------
(***************************************************************************)
(* Files and manifests for TrainingData.                                   *)
(***************************************************************************)
EXTENDS TrainingData

\* One record of a file of terminal operations.
Row(i) == [port |-> "p", at |-> i, arrivals |-> 10 + ((i * 7) % 5), capacity |-> 12,
           weather |-> TRUE, safety |-> TRUE, complete |-> TRUE]
Rows(n) == [i \in 1 .. n |-> Row(i)]
\* Files of records, by what is wrong with them.
MCSources ==
    <<\* one record of 24 without its incidents, which the rounding just hides
      [Rows(24) EXCEPT ![5].safety = FALSE],
      \* later demands far above the train segment's, and no capacity in two records
      [i \in 1 .. 24 |-> [Row(25 - i) EXCEPT !.arrivals = IF i <= 7 THEN 90 ELSE @,
                                             !.capacity = IF i \in {3, 20} THEN 0 ELSE @]],
      \* a record without demand too many, another port between, weather not known
      [i \in 1 .. 20 |-> [Row(i) EXCEPT !.arrivals = IF i = 4 THEN 0 ELSE @]],
      [i \in 1 .. 42 |-> [Row((i + 1) \div 2) EXCEPT !.port = IF i % 2 = 0 THEN "q" ELSE @,
                                                     !.weather = i # 5]],
      \* a timestamp twice; an incomplete record, and two without weather; too few
      [i \in 1 .. 24 |-> IF i = 9 THEN [Row(9) EXCEPT !.at = 8] ELSE Row(i)],
      [i \in 1 .. 24 |->
         [Row(i) EXCEPT !.complete = i # 9, !.weather = i \notin {9, 10}]],
      Rows(19)>>

\* Manifests by port, authority and what they leave out.
MCManifests ==
    {NoManifest} \cup
    {[port |-> "p", authorized |-> a, available |-> {"tide", "truck"}, mapped |-> {"tide", "truck"}] :
        a \in BOOLEAN} \cup
    {[port |-> "q", authorized |-> TRUE, available |-> f, mapped |-> {"truck", "tide"} \ f] :
        f \in {{"tide"}, {"tide", "truck"}}}
=============================================================================
