------------------------- MODULE RlTrainingJobs_proofs -------------------------
(***************************************************************************)
(* Theorems about the training queue (RlTrainingJobs), for every set of    *)
(* jobs, every number of slots and places in the queue, and any number of  *)
(* restarts, and about the data its jobs train on (TrainingData), for      *)
(* every set of loads, manifests and data files.                           *)
(*                                                                         *)
(* A slot is taken from the moment pumpTrainingQueue shifts a job until    *)
(* the job's end gives it back, so the counter counts the scheduled and    *)
(* the running jobs together; that they never overlap, and that a shifted  *)
(* job is never shifted again, rests on what the queue holds: jobs that    *)
(* have not begun, each once.                                              *)
(*                                                                         *)
(* A load reads the manifest, the file and, where it adapts, its own       *)
(* adaption back: the name of the adaption says of what it is made, so     *)
(* what is found under a name is that or a part of it, whoever wrote it.   *)
(*                                                                         *)
(* A dataset is sorted: the records chosen so far stand in the order of    *)
(* their keys, each once, and the next one is put in its place.            *)
(***************************************************************************)
EXTENDS RlTrainingJobs, TrainingData, FiniteSetTheorems, TLAPS

Distinct(queue) == \A m, n \in 1..Len(queue) : queue[m] = queue[n] => m = n

\* The queue holds each job once, and none that a slot was taken for.
QueuedAreUntouched ==
    /\ Distinct(pendingJobs)
    /\ \A j \in ToSet(pendingJobs) : j \notin scheduled /\ status[j] \in {"queued", "cancelled"}

ScheduledHaveNotBegun == \A j \in scheduled : status[j] \in {"queued", "cancelled"}

RunningHavePhases == \A j \in Job : status[j] = "running" <=> phase[j] # "none"

SlotsAreCounted == IsFiniteSet(scheduled) /\ IsFiniteSet(Active) /\ SlotsAreExact

\* A checkpoint belongs to a job that completed, or is about to.
CheckpointsTell ==
    /\ CompletedIsDurable
    /\ \A j \in Job : phase[j] = "renamed" => j \in checkpoint
    /\ \A j \in checkpoint : status[j] = "completed" \/ phase[j] = "renamed"

JobsInv ==
    /\ JobsTypeOK /\ QueuedAreUntouched /\ ScheduledHaveNotBegun /\ RunningHavePhases
    /\ SlotsAreCounted /\ NoIdleSlotWhileWaiting /\ CheckpointsTell
    /\ Cardinality(Waiting(status, pendingJobs)) <= MaxQueuedJobs

----------------------------------------------------------------------------
\* The least-number principle, for a set.
LEMMA Least ==
    ASSUME NEW T \in SUBSET Nat, T # {}
    PROVE  \E x \in T : \A y \in T : x <= y
<1> DEFINE R == OpToRel(<, Nat)
<1>1. \A x, y \in Nat : <<x, y>> \in R <=> x < y
  BY DEF OpToRel
<1>2. IsWellFoundedOn(R, Nat)
  BY NatLessThanWellFounded
<1> HIDE DEF R
<1>3. PICK x \in T : \A y \in T : ~ (<<y, x>> \in R)
  BY <1>2, WFMin
<1>4. \A y \in T : ~ (y < x)
  BY <1>1, <1>3
<1> QED
  BY <1>4

LEMMA QueueIsFinite ==
    ASSUME NEW queue \in Seq(Job)
    PROVE  /\ ToSet(queue) \in SUBSET Job /\ IsFiniteSet(ToSet(queue))
           /\ Cardinality(ToSet(queue)) <= Len(queue)
           /\ Distinct(queue) => Cardinality(ToSet(queue)) = Len(queue)
<1>1. queue \in Surjection(1..Len(queue), ToSet(queue))
  BY DEF Surjection, ToSet
<1>2. ToSet(queue) \in SUBSET Job
  BY DEF ToSet
<1>3. IsFiniteSet(1..Len(queue)) /\ Cardinality(1..Len(queue)) = Len(queue)
  <2> DEFINE n == Len(queue)
  <2>1. n \in Nat
    OBVIOUS
  <2> HIDE DEF n
  <2>2. IsFiniteSet(1..n) /\ Cardinality(1..n) = IF 1 > n THEN 0 ELSE n - 1 + 1
    BY <2>1, FS_Interval
  <2>3. IsFiniteSet(1..n) /\ Cardinality(1..n) = n
    BY <2>1, <2>2
  <2> QED
    BY <2>3 DEF n
<1>4. Distinct(queue) => queue \in Injection(1..Len(queue), ToSet(queue))
  <2>1. queue \in [1..Len(queue) -> ToSet(queue)]
    BY <1>1 DEF Surjection
  <2>2. DOMAIN queue = 1..Len(queue)
    BY <2>1
  <2> QED
    BY <2>1, <2>2 DEF Distinct, Injection, IsInjective
<1>5. /\ IsFiniteSet(ToSet(queue)) /\ Cardinality(ToSet(queue)) <= Cardinality(1..Len(queue))
      /\ queue \in Injection(1..Len(queue), ToSet(queue)) =>
             Cardinality(ToSet(queue)) = Cardinality(1..Len(queue))
  BY <1>1, <1>3, FS_Surjection
<1> QED
  BY <1>2, <1>3, <1>4, <1>5

\* What pumpTrainingQueue stops at.
Enough(queue, free, n) ==
    \/ n = Len(queue)
    \/ Cardinality(Waiting(status', SubSeq(queue, 1, n))) >= free

LEMMA ShiftedIsLeast ==
    ASSUME NEW queue \in Seq(Job), NEW free \in Nat
    PROVE  /\ Shifted(queue, free) \in 0..Len(queue)
           /\ Enough(queue, free, Shifted(queue, free))
           /\ \A m \in 0..(Shifted(queue, free) - 1) : ~Enough(queue, free, m)
<1> DEFINE T == {n \in 0..Len(queue) : Enough(queue, free, n)}
<1>1. T \in SUBSET Nat /\ Len(queue) \in T
  BY DEF Enough
<1>2. PICK x \in T : \A y \in T : x <= y
  BY <1>1, Least
<1>3. x \in 0..Len(queue) /\ Enough(queue, free, x) /\ \A m \in 0..(x - 1) : ~Enough(queue, free, m)
  BY <1>2
<1>4. Shifted(queue, free) = CHOOSE n \in 0..Len(queue) :
          Enough(queue, free, n) /\ \A m \in 0..(n - 1) : ~Enough(queue, free, m)
  BY DEF Shifted, Enough
<1> HIDE DEF Enough
<1> QED
  BY <1>3, <1>4

\* The jobs that pumpTrainingQueue starts are waiting ones and fit into the free slots; the
\* rest of the queue stays as it was, and none of it waits beside a free slot.
LEMMA PumpKeeps ==
    ASSUME NEW queue \in Seq(Job), Distinct(queue), NEW count \in 0..MaxConcurrentJobs,
           Pump(queue, count)
    PROVE  /\ pendingJobs' \in Seq(Job) /\ Distinct(pendingJobs)'
           /\ ToSet(pendingJobs)' \subseteq ToSet(queue)
           /\ \E started \in SUBSET Waiting(status', queue) :
                 /\ IsFiniteSet(started) /\ started \cap ToSet(pendingJobs)' = {}
                 /\ scheduled' = scheduled \cup started
                 /\ runningJobCount' = count + Cardinality(started)
                 /\ runningJobCount' <= MaxConcurrentJobs
           /\ Waiting(status, pendingJobs)' # {} => runningJobCount' = MaxConcurrentJobs
<1> DEFINE free == MaxConcurrentJobs - count
           n == Shifted(queue, free)
           prefix == SubSeq(queue, 1, n)
           started == Waiting(status', prefix)
<1>1. MaxConcurrentJobs \in Nat /\ free \in Nat /\ count \in Nat
  BY JobsAssumption
<1>2. /\ n \in 0..Len(queue) /\ Enough(queue, free, n)
      /\ \A m \in 0..(n - 1) : ~Enough(queue, free, m)
  BY <1>1, ShiftedIsLeast
<1>3. /\ pendingJobs' = SubSeq(queue, n + 1, Len(queue))
      /\ runningJobCount' = count + Cardinality(started)
      /\ scheduled' = scheduled \cup started
  BY DEF Pump
<1> HIDE DEF n, free
<1>4. /\ pendingJobs' \in Seq(Job) /\ Len(pendingJobs') = Len(queue) - n
      /\ \A i \in 1..Len(pendingJobs') : pendingJobs'[i] = queue[n + i]
  BY <1>2, <1>3
<1>5. /\ prefix \in Seq(Job) /\ Len(prefix) = n /\ \A i \in 1..n : prefix[i] = queue[i]
  BY <1>2
<1>6. Distinct(pendingJobs)'
  <2> SUFFICES ASSUME NEW i \in 1..Len(pendingJobs'), NEW k \in 1..Len(pendingJobs'),
                      pendingJobs'[i] = pendingJobs'[k]
               PROVE  i = k
    BY DEF Distinct
  <2>1. n + i \in 1..Len(queue) /\ n + k \in 1..Len(queue)
    BY <1>2, <1>4
  <2>2. n + i = n + k
    BY <1>4, <2>1 DEF Distinct
  <2> QED
    BY <1>2, <2>2
<1>a. \A j \in ToSet(pendingJobs)' : \E i \in 1..(Len(queue) - n) : j = queue[n + i]
  <2>1. DOMAIN pendingJobs' = 1..(Len(queue) - n)
    BY <1>4
  <2> QED
    BY <1>4, <2>1 DEF ToSet
<1>7. ToSet(pendingJobs)' \subseteq ToSet(queue)
  <2> SUFFICES ASSUME NEW i \in 1..(Len(queue) - n) PROVE queue[n + i] \in ToSet(queue)
    BY <1>a
  <2>1. n + i \in DOMAIN queue
    BY <1>2
  <2> QED
    BY <2>1 DEF ToSet
<1>8. started \in SUBSET Waiting(status', queue) /\ IsFiniteSet(started)
  <2>1. ToSet(prefix) \subseteq ToSet(queue)
    BY <1>2, <1>5 DEF ToSet
  <2>2. started \in SUBSET Waiting(status', queue)
    BY <2>1 DEF Waiting
  <2>3. IsFiniteSet(ToSet(prefix)) /\ started \in SUBSET ToSet(prefix)
    BY <1>5, QueueIsFinite DEF Waiting
  <2> QED
    BY <2>2, <2>3, FS_Subset
<1>9. started \cap ToSet(pendingJobs)' = {}
  <2> SUFFICES ASSUME NEW j \in ToSet(prefix), j \in ToSet(pendingJobs)' PROVE FALSE
    BY DEF Waiting
  <2>1. PICK i \in 1..n : queue[i] = j
    BY <1>5 DEF ToSet
  <2>2. PICK k \in 1..(Len(queue) - n) : j = queue[n + k]
    BY <1>a
  <2>3. i \in 1..Len(queue) /\ n + k \in 1..Len(queue) /\ i < n + k
    BY <1>2, <1>4
  <2> QED
    BY <2>1, <2>2, <2>3 DEF Distinct
<1>10. Cardinality(started) \in Nat /\ Cardinality(started) <= free
  <2>1. CASE n = 0
    <3>1. started = {}
      BY <1>5, <2>1 DEF Waiting, ToSet
    <3>2. Cardinality(started) = 0
      BY <3>1, FS_EmptySet
    <3> QED
      BY <1>1, <3>2
  <2>2. CASE n # 0
    <3> DEFINE before == SubSeq(queue, 1, n - 1)
               earlier == Waiting(status', before)
    <3>1. /\ n - 1 \in 0..(n - 1) /\ n - 1 # Len(queue) /\ n \in 1..Len(queue)
      BY <1>2, <2>2
    <3>2. before \in Seq(Job) /\ Len(before) = n - 1 /\ \A i \in 1..(n - 1) : before[i] = queue[i]
      BY <3>1
    <3>3. IsFiniteSet(earlier)
      <4>1. IsFiniteSet(ToSet(before)) /\ earlier \in SUBSET ToSet(before)
        BY <3>2, QueueIsFinite DEF Waiting
      <4> QED
        BY <4>1, FS_Subset
    <3>4. started \subseteq earlier \cup {queue[n]}
      BY <1>5, <3>1, <3>2 DEF Waiting, ToSet
    <3>5. ~(Cardinality(earlier) >= free)
      BY <1>2, <3>1 DEF Enough
    <3> HIDE DEF earlier, started
    <3>6. Cardinality(earlier) \in Nat /\ Cardinality(started) \in Nat
      BY <1>8, <3>3, FS_CardinalityType
    <3>7. /\ IsFiniteSet(earlier \cup {queue[n]})
          /\ Cardinality(earlier \cup {queue[n]}) <= Cardinality(earlier) + 1
      <4>1. Cardinality(earlier \cup {queue[n]}) =
               IF queue[n] \in earlier THEN Cardinality(earlier) ELSE Cardinality(earlier) + 1
        BY <3>3, FS_AddElement
      <4>2. IsFiniteSet(earlier \cup {queue[n]})
        BY <3>3, FS_AddElement
      <4> QED
        BY <3>6, <4>1, <4>2
    <3>8. Cardinality(started) <= Cardinality(earlier \cup {queue[n]})
      BY <3>4, <3>7, FS_Subset
    <3>9. Cardinality(earlier \cup {queue[n]}) \in Nat
      BY <3>7, FS_CardinalityType
    <3> QED
      BY <1>1, <3>5, <3>6, <3>7, <3>8, <3>9
  <2> QED
    BY <2>1, <2>2
<1>11. runningJobCount' <= MaxConcurrentJobs
  BY <1>1, <1>3, <1>10 DEF free
<1>12. ASSUME Waiting(status, pendingJobs)' # {}
       PROVE  runningJobCount' = MaxConcurrentJobs
  <2>1. Len(pendingJobs') # 0
    BY <1>12, <1>4 DEF Waiting, ToSet
  <2>2. n # Len(queue)
    BY <1>2, <1>4, <2>1
  <2>3. Cardinality(started) >= free
    BY <1>2, <2>2 DEF Enough
  <2> QED
    BY <1>1, <1>3, <1>10, <2>3 DEF free
<1> HIDE DEF started
<1> QED
  BY <1>3, <1>4, <1>6, <1>7, <1>8, <1>9, <1>11, <1>12

\* What holds of queue and slots after pumpTrainingQueue, whatever changed before it.
LEMMA PumpedInv ==
    ASSUME NEW queue \in Seq(Job), Distinct(queue), NEW count \in 0..MaxConcurrentJobs,
           Pump(queue, count),
           scheduled \in SUBSET Job, IsFiniteSet(scheduled), IsFiniteSet(Active'),
           scheduled \cap Active' = {}, count = Cardinality(scheduled \cup Active'),
           \A j \in ToSet(queue) : /\ j \notin scheduled \cup Active'
                                   /\ status'[j] \in {"queued", "cancelled"},
           \A j \in scheduled : status'[j] \in {"queued", "cancelled"}
    PROVE  /\ pendingJobs' \in Seq(Job) /\ runningJobCount' \in Nat /\ scheduled' \in SUBSET Job
           /\ QueuedAreUntouched' /\ ScheduledHaveNotBegun' /\ SlotsAreCounted'
           /\ NoIdleSlotWhileWaiting'
           /\ Waiting(status, pendingJobs)' \subseteq Waiting(status', queue)
<1>1. PICK started \in SUBSET Waiting(status', queue) :
         /\ IsFiniteSet(started) /\ started \cap ToSet(pendingJobs)' = {}
         /\ scheduled' = scheduled \cup started
         /\ runningJobCount' = count + Cardinality(started)
         /\ runningJobCount' <= MaxConcurrentJobs
  BY PumpKeeps
<1>2. /\ pendingJobs' \in Seq(Job) /\ Distinct(pendingJobs)'
      /\ ToSet(pendingJobs)' \subseteq ToSet(queue)
      /\ Waiting(status, pendingJobs)' # {} => runningJobCount' = MaxConcurrentJobs
  BY PumpKeeps
<1>3. started \in SUBSET ToSet(queue) /\ ToSet(queue) \in SUBSET Job
  BY QueueIsFinite DEF Waiting
<1>4. QueuedAreUntouched'
  BY <1>1, <1>2 DEF QueuedAreUntouched
<1>5. ScheduledHaveNotBegun'
  BY <1>1, <1>3 DEF ScheduledHaveNotBegun
<1>6. IsFiniteSet(scheduled') /\ IsFiniteSet(scheduled \cup Active')
  BY <1>1, FS_Union
<1>7. scheduled' \cap Active' = {}
  BY <1>1, <1>3
<1>8. runningJobCount' = Cardinality(scheduled' \cup Active')
  <2>1. (scheduled \cup Active') \cap started = {}
    BY <1>3
  <2>2. Cardinality((scheduled \cup Active') \cup started) =
           Cardinality(scheduled \cup Active') + Cardinality(started)
             - Cardinality((scheduled \cup Active') \cap started)
    BY <1>1, <1>6, FS_Union
  <2>3. Cardinality((scheduled \cup Active') \cap started) = 0
    BY <2>1, FS_EmptySet
  <2>4. Cardinality(started) \in Nat /\ Cardinality(scheduled \cup Active') \in Nat
    BY <1>1, <1>6, FS_CardinalityType
  <2>5. scheduled' \cup Active' = (scheduled \cup Active') \cup started
    BY <1>1
  <2>6. Cardinality(scheduled' \cup Active') = Cardinality((scheduled \cup Active') \cup started)
    BY <2>5
  <2>7. runningJobCount' = count + Cardinality(started) /\ count \in Nat
    BY <1>1, JobsAssumption
  <2> QED
    BY <2>2, <2>3, <2>4, <2>6, <2>7
<1>9. SlotsAreCounted'
  BY <1>1, <1>6, <1>7, <1>8 DEF SlotsAreCounted, SlotsAreExact
<1>10. runningJobCount' \in Nat
  BY <1>1, FS_CardinalityType
<1> QED
  BY <1>1, <1>2, <1>3, <1>4, <1>5, <1>9, <1>10 DEF NoIdleSlotWhileWaiting, Waiting

----------------------------------------------------------------------------
LEMMA JobsInitInv == JobsInit => JobsInv
<1> SUFFICES ASSUME JobsInit PROVE JobsInv
  OBVIOUS
<1>1. Active = {} /\ ToSet(pendingJobs) = {} /\ Waiting(status, pendingJobs) = {}
  BY DEF JobsInit, Active, ToSet, Waiting
<1>2. pendingJobs \in Seq(Job)
  BY DEF JobsInit
<1>3. SlotsAreCounted /\ Cardinality(Waiting(status, pendingJobs)) <= MaxQueuedJobs
  <2>1. scheduled = {} /\ scheduled \cup Active = {} /\ runningJobCount = 0
    BY <1>1 DEF JobsInit
  <2>2. Cardinality(scheduled \cup Active) = 0 /\ Cardinality(Waiting(status, pendingJobs)) = 0
    BY <1>1, <2>1, FS_EmptySet
  <2>3. IsFiniteSet(scheduled) /\ IsFiniteSet(Active)
    BY <1>1, <2>1, FS_EmptySet
  <2> QED
    BY <1>1, <2>1, <2>2, <2>3, JobsAssumption DEF SlotsAreCounted, SlotsAreExact
<1> QED
  BY <1>1, <1>2, <1>3, JobsAssumption
  DEF JobsInit, JobsInv, JobsTypeOK, JobStatus, JobPhase, QueuedAreUntouched, Distinct,
      ScheduledHaveNotBegun, RunningHavePhases, NoIdleSlotWhileWaiting, CheckpointsTell,
      CompletedIsDurable

\* The queue, and what waits in it, is finite.
LEMMA WaitingIsFinite ==
    ASSUME JobsTypeOK
    PROVE  /\ IsFiniteSet(Waiting(status, pendingJobs))
           /\ Cardinality(Waiting(status, pendingJobs)) \in Nat
<1>1. IsFiniteSet(ToSet(pendingJobs))
  BY QueueIsFinite DEF JobsTypeOK
<1>2. Waiting(status, pendingJobs) \in SUBSET ToSet(pendingJobs)
  BY DEF Waiting
<1> QED
  BY <1>1, <1>2, FS_Subset, FS_CardinalityType

LEMMA CreateJobInv ==
    ASSUME JobsInv, NEW j \in Job, Create(j)
    PROVE  JobsInv'
<1> DEFINE queue == Append(pendingJobs, j)
<1>1. /\ status[j] = "absent" /\ status' = [status EXCEPT ![j] = "queued"]
      /\ Cardinality(Waiting(status, pendingJobs)) < MaxQueuedJobs
      /\ Pump(queue, runningJobCount)
      /\ UNCHANGED <<phase, cancelRequested, expired, timedOut, checkpoint, restarts>>
  BY DEF Create
<1>2. /\ pendingJobs \in Seq(Job) /\ Distinct(pendingJobs) /\ j \notin ToSet(pendingJobs)
      /\ j \notin scheduled /\ phase[j] = "none" /\ j \notin checkpoint
      /\ status \in [Job -> JobStatus]
  BY <1>1
  DEF JobsInv, JobsTypeOK, QueuedAreUntouched, ScheduledHaveNotBegun, RunningHavePhases,
      CheckpointsTell, JobStatus
<1>3. /\ queue \in Seq(Job) /\ Len(queue) = Len(pendingJobs) + 1 /\ queue[Len(queue)] = j
      /\ \A i \in 1..Len(pendingJobs) : queue[i] = pendingJobs[i]
  BY <1>2
<1> HIDE DEF queue
<1>4. ToSet(queue) = ToSet(pendingJobs) \cup {j}
  <2>1. DOMAIN queue = 1..(Len(pendingJobs) + 1) /\ DOMAIN pendingJobs = 1..Len(pendingJobs)
    BY <1>2, <1>3
  <2> QED
    BY <1>2, <1>3, <2>1 DEF ToSet
<1>5. Distinct(queue)
  <2>1. \A i \in 1..Len(pendingJobs) : pendingJobs[i] # j
    BY <1>2 DEF ToSet
  <2> SUFFICES ASSUME NEW m \in 1..Len(queue), NEW n \in 1..Len(queue), queue[m] = queue[n]
               PROVE  m = n
    BY DEF Distinct
  <2>2. CASE m = Len(queue) \/ n = Len(queue)
    BY <1>2, <1>3, <2>1, <2>2
  <2>3. CASE m \in 1..Len(pendingJobs) /\ n \in 1..Len(pendingJobs)
    BY <1>2, <1>3, <2>3 DEF Distinct
  <2>4. Len(pendingJobs) \in Nat /\ Len(queue) = Len(pendingJobs) + 1
    BY <1>2, <1>3
  <2>5. \A i \in 1..Len(queue) : i = Len(queue) \/ i \in 1..Len(pendingJobs)
    BY <2>4
  <2> QED
    BY <2>2, <2>3, <2>5
<1>6. /\ Active' = Active /\ IsFiniteSet(scheduled) /\ IsFiniteSet(Active)
      /\ scheduled \cap Active = {} /\ scheduled \in SUBSET Job
      /\ runningJobCount = Cardinality(scheduled \cup Active)
      /\ runningJobCount \in 0..MaxConcurrentJobs
  BY <1>1, JobsAssumption
  DEF JobsInv, JobsTypeOK, SlotsAreCounted, SlotsAreExact, Active
<1>7. \A i \in ToSet(queue) : /\ i \notin scheduled \cup Active'
                              /\ status'[i] \in {"queued", "cancelled"}
  BY <1>1, <1>2, <1>4, <1>6
  DEF JobsInv, QueuedAreUntouched, RunningHavePhases, Active
<1>8. \A i \in scheduled : status'[i] \in {"queued", "cancelled"}
  <2> SUFFICES ASSUME NEW i \in scheduled PROVE status'[i] \in {"queued", "cancelled"}
    OBVIOUS
  <2>1. i \in Job /\ i # j /\ status[i] \in {"queued", "cancelled"}
    BY <1>2, <1>6 DEF JobsInv, ScheduledHaveNotBegun
  <2> QED
    BY <1>1, <1>2, <2>1
<1>9. /\ pendingJobs' \in Seq(Job) /\ runningJobCount' \in Nat /\ scheduled' \in SUBSET Job
      /\ QueuedAreUntouched' /\ ScheduledHaveNotBegun' /\ SlotsAreCounted'
      /\ NoIdleSlotWhileWaiting'
      /\ Waiting(status, pendingJobs)' \subseteq Waiting(status', queue)
  BY <1>1, <1>3, <1>5, <1>6, <1>7, <1>8, PumpedInv
<1>10. Cardinality(Waiting(status, pendingJobs)') <= MaxQueuedJobs
  <2> DEFINE W == Waiting(status, pendingJobs)
  <2>1. Waiting(status', queue) \subseteq W \cup {j}
    BY <1>1, <1>2, <1>4 DEF Waiting, ToSet
  <2>2. IsFiniteSet(W) /\ Cardinality(W) \in Nat
    BY WaitingIsFinite DEF JobsInv
  <2>3. IsFiniteSet(W \cup {j}) /\ Cardinality(W \cup {j}) <= Cardinality(W) + 1
    <3> HIDE DEF W
    <3>1. /\ IsFiniteSet(W \cup {j})
          /\ Cardinality(W \cup {j}) = IF j \in W THEN Cardinality(W) ELSE Cardinality(W) + 1
      BY <2>2, FS_AddElement
    <3> QED
      BY <2>2, <3>1
  <2>4. /\ Waiting(status, pendingJobs)' \in SUBSET (W \cup {j})
        /\ Cardinality(W) < MaxQueuedJobs
    BY <1>1, <1>9, <2>1
  <2>5. /\ IsFiniteSet(Waiting(status, pendingJobs)')
        /\ Cardinality(Waiting(status, pendingJobs)') <= Cardinality(W \cup {j})
    BY <2>3, <2>4, FS_Subset
  <2>6. /\ Cardinality(Waiting(status, pendingJobs)') \in Nat
        /\ Cardinality(W \cup {j}) \in Nat
    BY <2>3, <2>5, FS_CardinalityType
  <2> HIDE DEF W
  <2> QED
    BY <2>2, <2>3, <2>4, <2>5, <2>6, JobsAssumption
<1>11. JobsTypeOK'
  BY <1>1, <1>2, <1>9 DEF JobsInv, JobsTypeOK, JobStatus
<1>12. RunningHavePhases'
  BY <1>1, <1>2 DEF JobsInv, RunningHavePhases
<1>13. CheckpointsTell'
  BY <1>1, <1>2 DEF JobsInv, JobsTypeOK, CheckpointsTell, CompletedIsDurable
<1> QED
  BY <1>9, <1>10, <1>11, <1>12, <1>13 DEF JobsInv

\* Queue and slots say the same of a step that leaves what waits, or some of it, and the set
\* of jobs with a slot.
LEMMA SlotsKept ==
    ASSUME JobsInv, UNCHANGED <<pendingJobs, runningJobCount>>,
           scheduled' \subseteq scheduled, IsFiniteSet(Active'), scheduled' \cap Active' = {},
           scheduled' \cup Active' = scheduled \cup Active,
           Waiting(status, pendingJobs)' \subseteq Waiting(status, pendingJobs)
    PROVE  /\ SlotsAreCounted' /\ NoIdleSlotWhileWaiting'
           /\ Cardinality(Waiting(status, pendingJobs)') <= MaxQueuedJobs
<1>1. IsFiniteSet(scheduled')
  BY FS_Subset DEF JobsInv, SlotsAreCounted
<1>2. SlotsAreCounted'
  BY <1>1 DEF JobsInv, SlotsAreCounted, SlotsAreExact
<1>3. NoIdleSlotWhileWaiting'
  BY DEF JobsInv, NoIdleSlotWhileWaiting
<1>4. Cardinality(Waiting(status, pendingJobs)') <= MaxQueuedJobs
  <2> DEFINE before == Waiting(status, pendingJobs)
             after == Waiting(status, pendingJobs)'
  <2>1. IsFiniteSet(before) /\ Cardinality(before) \in Nat /\ after \in SUBSET before
    BY WaitingIsFinite DEF JobsInv
  <2>2. Cardinality(before) <= MaxQueuedJobs
    BY DEF JobsInv
  <2> HIDE DEF before, after
  <2>3. IsFiniteSet(after) /\ Cardinality(after) <= Cardinality(before)
    BY <2>1, FS_Subset
  <2>4. Cardinality(after) \in Nat
    BY <2>3, FS_CardinalityType
  <2>5. Cardinality(after) <= MaxQueuedJobs
    BY <2>1, <2>2, <2>3, <2>4, JobsAssumption
  <2> QED
    BY <2>5 DEF after
<1> QED
  BY <1>2, <1>3, <1>4

LEMMA CancelInv ==
    ASSUME JobsInv, NEW j \in Job, Cancel(j)
    PROVE  JobsInv'
<1>1. /\ status' = [status EXCEPT ![j] = IF @ = "queued" THEN "cancelled" ELSE @]
      /\ cancelRequested' = cancelRequested \cup {j}
      /\ UNCHANGED <<pendingJobs, runningJobCount, scheduled, phase, expired, timedOut,
                     checkpoint, restarts>>
      /\ status[j] \in {"queued", "running"} /\ status \in [Job -> JobStatus]
      /\ ToSet(pendingJobs) \in SUBSET Job
  BY QueueIsFinite DEF Cancel, JobsInv, JobsTypeOK
<1>2. \A i \in Job : \/ status'[i] = status[i]
                     \/ status[i] = "queued" /\ status'[i] = "cancelled"
  BY <1>1
<1>3. Active' = Active
  BY <1>1 DEF Active
<1>4. SlotsAreCounted' /\ NoIdleSlotWhileWaiting'
      /\ Cardinality(Waiting(status, pendingJobs)') <= MaxQueuedJobs
  <2>1. Waiting(status, pendingJobs)' \subseteq Waiting(status, pendingJobs)
    BY <1>1, <1>2 DEF Waiting
  <2> QED
    BY <1>1, <1>3, <2>1, SlotsKept DEF JobsInv, SlotsAreCounted, SlotsAreExact
<1>5. JobsTypeOK'
  BY <1>1, <1>2 DEF JobsInv, JobsTypeOK, JobStatus
<1>6. QueuedAreUntouched' /\ ScheduledHaveNotBegun'
  <2>1. scheduled \in SUBSET Job
    BY DEF JobsInv, JobsTypeOK
  <2> QED
    BY <1>1, <1>2, <2>1 DEF JobsInv, QueuedAreUntouched, ScheduledHaveNotBegun, Distinct
<1>7. RunningHavePhases'
  BY <1>1, <1>2 DEF JobsInv, RunningHavePhases
<1>8. CheckpointsTell'
  BY <1>1, <1>2 DEF JobsInv, JobsTypeOK, CheckpointsTell, CompletedIsDurable
<1> QED
  BY <1>4, <1>5, <1>6, <1>7, <1>8 DEF JobsInv

LEMMA StartInv ==
    ASSUME JobsInv, NEW j \in Job, StartJob(j)
    PROVE  JobsInv'
<1>1. /\ j \in scheduled /\ scheduled' = scheduled \ {j}
      /\ status' = [status EXCEPT ![j] = "running"]
      /\ phase' = [phase EXCEPT ![j] = "loading-dataset"]
      /\ UNCHANGED <<pendingJobs, runningJobCount, cancelRequested, expired, timedOut,
                     checkpoint, restarts>>
  BY DEF StartJob
<1>2. /\ status \in [Job -> JobStatus] /\ phase \in [Job -> JobPhase]
      /\ ToSet(pendingJobs) \in SUBSET Job /\ scheduled \in SUBSET Job
      /\ status[j] \in {"queued", "cancelled"} /\ phase[j] = "none" /\ j \notin checkpoint
      /\ j \notin ToSet(pendingJobs)
  BY <1>1, QueueIsFinite
  DEF JobsInv, JobsTypeOK, ScheduledHaveNotBegun, RunningHavePhases, QueuedAreUntouched,
      CheckpointsTell
<1>3. Active' = Active \cup {j}
  BY <1>1, <1>2 DEF Active
<1>4. SlotsAreCounted' /\ NoIdleSlotWhileWaiting'
      /\ Cardinality(Waiting(status, pendingJobs)') <= MaxQueuedJobs
  <2>1. Waiting(status, pendingJobs)' \subseteq Waiting(status, pendingJobs)
    BY <1>1, <1>2 DEF Waiting
  <2>2. IsFiniteSet(Active')
    BY <1>3, FS_AddElement DEF JobsInv, SlotsAreCounted
  <2>3. scheduled' \cap Active' = {} /\ scheduled' \cup Active' = scheduled \cup Active
    BY <1>1, <1>3 DEF JobsInv, SlotsAreCounted, SlotsAreExact
  <2> QED
    BY <1>1, <2>1, <2>2, <2>3, SlotsKept
<1>5. JobsTypeOK'
  BY <1>1, <1>2 DEF JobsInv, JobsTypeOK, JobStatus, JobPhase
<1>6. QueuedAreUntouched' /\ ScheduledHaveNotBegun'
  BY <1>1, <1>2 DEF JobsInv, QueuedAreUntouched, ScheduledHaveNotBegun, Distinct
<1>7. RunningHavePhases'
  BY <1>1, <1>2 DEF JobsInv, RunningHavePhases
<1>8. CheckpointsTell'
  BY <1>1, <1>2 DEF JobsInv, JobsTypeOK, CheckpointsTell, CompletedIsDurable
<1> QED
  BY <1>4, <1>5, <1>6, <1>7, <1>8 DEF JobsInv

\* A job that ends gives back the slot it had, and only one whose checkpoint stands completes.
LEMMA SettleInv ==
    ASSUME JobsInv, NEW j \in Job, NEW outcome \in {"completed", "failed", "cancelled"},
           phase[j] # "none", outcome = "completed" <=> phase[j] = "renamed",
           timedOut' \in SUBSET Job, Settle(j, outcome)
    PROVE  JobsInv'
<1>1. /\ status' = [status EXCEPT ![j] = outcome] /\ phase' = [phase EXCEPT ![j] = "none"]
      /\ Pump(pendingJobs, runningJobCount - 1)
      /\ UNCHANGED <<cancelRequested, expired, checkpoint, restarts>>
  BY DEF Settle
<1>2. /\ status \in [Job -> JobStatus] /\ phase \in [Job -> JobPhase]
      /\ pendingJobs \in Seq(Job) /\ Distinct(pendingJobs)
      /\ ToSet(pendingJobs) \in SUBSET Job /\ scheduled \in SUBSET Job
      /\ status[j] = "running" /\ j \notin scheduled /\ j \notin ToSet(pendingJobs)
  BY QueueIsFinite
  DEF JobsInv, JobsTypeOK, ScheduledHaveNotBegun, RunningHavePhases, QueuedAreUntouched
<1>3. Active' = Active \ {j} /\ j \in Active
  BY <1>1, <1>2 DEF Active
<1>4. /\ IsFiniteSet(scheduled) /\ IsFiniteSet(Active) /\ IsFiniteSet(scheduled \cup Active)
      /\ scheduled \cap Active = {} /\ runningJobCount = Cardinality(scheduled \cup Active)
      /\ runningJobCount <= MaxConcurrentJobs /\ runningJobCount \in Nat
  BY FS_Union DEF JobsInv, JobsTypeOK, SlotsAreCounted, SlotsAreExact
<1>5. IsFiniteSet(Active') /\ scheduled \cap Active' = {}
  BY <1>3, <1>4, FS_RemoveElement
<1>6. /\ runningJobCount - 1 = Cardinality(scheduled \cup Active')
      /\ runningJobCount - 1 \in 0..MaxConcurrentJobs
  <2>1. (scheduled \cup Active) \ {j} = scheduled \cup Active'
    BY <1>2, <1>3
  <2>2. /\ IsFiniteSet((scheduled \cup Active) \ {j})
        /\ Cardinality((scheduled \cup Active) \ {j}) =
              IF j \in scheduled \cup Active THEN Cardinality(scheduled \cup Active) - 1
              ELSE Cardinality(scheduled \cup Active)
    BY <1>4, FS_RemoveElement
  <2>3. Cardinality((scheduled \cup Active) \ {j}) = runningJobCount - 1
    BY <1>3, <1>4, <2>2
  <2>4. Cardinality((scheduled \cup Active) \ {j}) \in Nat
    BY <2>2, FS_CardinalityType
  <2>5. Cardinality(scheduled \cup Active') = Cardinality((scheduled \cup Active) \ {j})
    BY <2>1
  <2> QED
    BY <1>4, <2>3, <2>4, <2>5, JobsAssumption
<1>7. \A i \in ToSet(pendingJobs) : /\ i \notin scheduled \cup Active'
                                    /\ status'[i] \in {"queued", "cancelled"}
  BY <1>1, <1>2, <1>3 DEF JobsInv, QueuedAreUntouched, RunningHavePhases, Active
<1>8. \A i \in scheduled : status'[i] \in {"queued", "cancelled"}
  BY <1>1, <1>2 DEF JobsInv, ScheduledHaveNotBegun
<1>9. /\ pendingJobs' \in Seq(Job) /\ runningJobCount' \in Nat /\ scheduled' \in SUBSET Job
      /\ QueuedAreUntouched' /\ ScheduledHaveNotBegun' /\ SlotsAreCounted'
      /\ NoIdleSlotWhileWaiting'
      /\ Waiting(status, pendingJobs)' \subseteq Waiting(status', pendingJobs)
  BY <1>1, <1>2, <1>4, <1>5, <1>6, <1>7, <1>8, PumpedInv
<1>10. Cardinality(Waiting(status, pendingJobs)') <= MaxQueuedJobs
  <2> DEFINE before == Waiting(status, pendingJobs)
             after == Waiting(status, pendingJobs)'
  <2>1. Waiting(status', pendingJobs) \subseteq before
    BY <1>1, <1>2 DEF Waiting
  <2>2. IsFiniteSet(before) /\ Cardinality(before) \in Nat /\ Cardinality(before) <= MaxQueuedJobs
    BY WaitingIsFinite DEF JobsInv
  <2>3. after \in SUBSET before
    BY <1>9, <2>1
  <2> HIDE DEF before, after
  <2>4. IsFiniteSet(after) /\ Cardinality(after) <= Cardinality(before)
    BY <2>2, <2>3, FS_Subset
  <2>5. Cardinality(after) \in Nat
    BY <2>4, FS_CardinalityType
  <2>6. Cardinality(after) <= MaxQueuedJobs
    BY <2>2, <2>4, <2>5, JobsAssumption
  <2> QED
    BY <2>6 DEF after
<1>11. JobsTypeOK'
  BY <1>1, <1>2, <1>9 DEF JobsInv, JobsTypeOK, JobStatus, JobPhase
<1>12. RunningHavePhases'
  BY <1>1, <1>2 DEF JobsInv, RunningHavePhases
<1>13. CheckpointsTell'
  BY <1>1, <1>2 DEF JobsInv, JobsTypeOK, CheckpointsTell, CompletedIsDurable
<1> QED
  BY <1>9, <1>10, <1>11, <1>12, <1>13 DEF JobsInv

LEMMA ContinueInv ==
    ASSUME JobsInv, NEW j \in Job, LoadDataset(j) \/ FinishTraining(j) \/ RenameCheckpoint(j)
    PROVE  JobsInv'
<1>1. PICK to \in JobPhase \ {"none"} :
         /\ phase' = [phase EXCEPT ![j] = to]
         /\ checkpoint' = IF to = "renamed" THEN checkpoint \cup {j} ELSE checkpoint
         /\ phase[j] # "none" /\ phase[j] # "renamed"
         /\ UNCHANGED <<status, pendingJobs, runningJobCount, scheduled, cancelRequested,
                        expired, timedOut, restarts>>
  BY DEF LoadDataset, FinishTraining, RenameCheckpoint, Continue, JobPhase
<1>2. /\ status \in [Job -> JobStatus] /\ phase \in [Job -> JobPhase]
      /\ status[j] = "running" /\ checkpoint \in SUBSET Job
  BY <1>1 DEF JobsInv, JobsTypeOK, RunningHavePhases
<1>3. Active' = Active
  BY <1>1, <1>2 DEF Active
<1>4. SlotsAreCounted' /\ NoIdleSlotWhileWaiting'
      /\ Cardinality(Waiting(status, pendingJobs)') <= MaxQueuedJobs
  <2>1. Waiting(status, pendingJobs)' \subseteq Waiting(status, pendingJobs)
    BY <1>1 DEF Waiting
  <2> QED
    BY <1>1, <1>3, <2>1, SlotsKept DEF JobsInv, SlotsAreCounted, SlotsAreExact
<1>5. JobsTypeOK'
  BY <1>1, <1>2 DEF JobsInv, JobsTypeOK
<1>6. QueuedAreUntouched' /\ ScheduledHaveNotBegun'
  BY <1>1 DEF JobsInv, QueuedAreUntouched, ScheduledHaveNotBegun, Distinct
<1>7. RunningHavePhases'
  BY <1>1, <1>2 DEF JobsInv, RunningHavePhases
<1>8. CheckpointsTell'
  BY <1>1, <1>2 DEF JobsInv, CheckpointsTell, CompletedIsDurable
<1> QED
  BY <1>4, <1>5, <1>6, <1>7, <1>8 DEF JobsInv

LEMMA ExpireInv ==
    ASSUME JobsInv, NEW j \in Job, Expire(j)
    PROVE  JobsInv'
<1>1. UNCHANGED <<status, pendingJobs, runningJobCount, scheduled, phase, cancelRequested,
                  timedOut, checkpoint, restarts>>
      /\ expired' \in SUBSET Job
  BY DEF Expire, JobsInv, JobsTypeOK
<1> QED
  BY <1>1
  DEF JobsInv, JobsTypeOK, QueuedAreUntouched, ScheduledHaveNotBegun, RunningHavePhases,
      SlotsAreCounted, SlotsAreExact, Active, NoIdleSlotWhileWaiting, Waiting, CheckpointsTell,
      CompletedIsDurable, Distinct

LEMMA RestartInv == ASSUME JobsInv, Restart PROVE JobsInv'
<1>1. /\ status' = [j \in Job |-> IF j \in checkpoint THEN "completed"
                                 ELSE IF status[j] = "absent" THEN "absent" ELSE "lost"]
      /\ pendingJobs' = <<>> /\ runningJobCount' = 0 /\ scheduled' = {}
      /\ phase' = [j \in Job |-> "none"] /\ cancelRequested' = {} /\ expired' = {}
      /\ timedOut' = {} /\ checkpoint' = checkpoint /\ restarts' = restarts + 1
      /\ restarts < MaxRestarts
  BY DEF Restart
<1>2. Active' = {} /\ Waiting(status, pendingJobs)' = {} /\ ToSet(pendingJobs)' = {}
  BY <1>1 DEF Active, Waiting, ToSet
<1>3. /\ IsFiniteSet(scheduled') /\ IsFiniteSet(Active') /\ scheduled' \cup Active' = {}
      /\ Cardinality(scheduled' \cup Active') = 0
      /\ Cardinality(Waiting(status, pendingJobs)') = 0
  BY <1>1, <1>2, FS_EmptySet
<1>4. SlotsAreCounted'
  BY <1>1, <1>2, <1>3, JobsAssumption DEF SlotsAreCounted, SlotsAreExact
<1>5. JobsTypeOK'
  <2>1. pendingJobs' \in Seq(Job)
    BY <1>1
  <2> QED
    BY <1>1, <2>1, JobsAssumption DEF JobsInv, JobsTypeOK, JobStatus, JobPhase
<1>6. QueuedAreUntouched' /\ ScheduledHaveNotBegun' /\ RunningHavePhases'
      /\ NoIdleSlotWhileWaiting'
  BY <1>1, <1>2
  DEF QueuedAreUntouched, Distinct, ScheduledHaveNotBegun, RunningHavePhases,
      NoIdleSlotWhileWaiting
<1>7. CheckpointsTell'
  BY <1>1 DEF JobsInv, JobsTypeOK, CheckpointsTell, CompletedIsDurable
<1> QED
  BY <1>3, <1>4, <1>5, <1>6, <1>7, JobsAssumption DEF JobsInv

\* The ends of runJob, each with what it leaves in the job.
LEMMA JobEnds ==
    ASSUME JobsInv, NEW j \in Job, StopTraining(j) \/ Complete(j) \/ Throw(j)
    PROVE  \E outcome \in {"completed", "failed", "cancelled"} :
              /\ phase[j] # "none" /\ (outcome = "completed" <=> phase[j] = "renamed")
              /\ timedOut' \in SUBSET Job /\ Settle(j, outcome)
<1>1. timedOut \in SUBSET Job /\ Outcome(j) \in {"failed", "cancelled"}
  BY DEF JobsInv, JobsTypeOK, Outcome
<1>2. CASE StopTraining(j)
  <2>1. phase[j] = "training" /\ timedOut' \in SUBSET Job /\ Settle(j, Outcome(j))
    BY <1>1, <1>2 DEF StopTraining
  <2> QED
    BY <1>1, <2>1
<1>3. CASE Complete(j)
  BY <1>1, <1>3 DEF Complete
<1>4. CASE Throw(j)
  <2>1. /\ phase[j] \in {"loading-dataset", "training", "checkpointing"}
        /\ timedOut' \in SUBSET Job /\ Settle(j, Outcome(j))
    BY <1>1, <1>4 DEF Throw
  <2> QED
    BY <1>1, <2>1
<1> QED
  BY <1>2, <1>3, <1>4

LEMMA JobsNextInv == JobsInv /\ [JobsNext]_jobsVars => JobsInv'
<1> SUFFICES ASSUME JobsInv, [JobsNext]_jobsVars PROVE JobsInv'
  OBVIOUS
<1>1. CASE UNCHANGED jobsVars
  BY <1>1
  DEF jobsVars, JobsInv, JobsTypeOK, QueuedAreUntouched, ScheduledHaveNotBegun,
      RunningHavePhases, SlotsAreCounted, SlotsAreExact, Active, NoIdleSlotWhileWaiting, Waiting,
      CheckpointsTell, CompletedIsDurable, Distinct
<1>2. ASSUME NEW j \in Job, StopTraining(j) \/ Complete(j) \/ Throw(j) PROVE JobsInv'
  <2>1. PICK outcome \in {"completed", "failed", "cancelled"} :
           /\ phase[j] # "none" /\ (outcome = "completed" <=> phase[j] = "renamed")
           /\ timedOut' \in SUBSET Job /\ Settle(j, outcome)
    BY <1>2, JobEnds
  <2> QED
    BY <2>1, SettleInv
<1> QED
  BY <1>1, <1>2, CreateJobInv, CancelInv, StartInv, ContinueInv, ExpireInv, RestartInv
  DEF JobsNext, Run

\* Over every way a job can end, and every restart, the counter counts the jobs with a slot
\* and the queue holds jobs that have not begun.
THEOREM JobsInvariance == JobsSpec => []JobsInv
BY JobsInitInv, JobsNextInv, PTL DEF JobsSpec

\* Slots are neither leaked nor given twice, none is idle while a job waits, the waiting jobs
\* stay below the limit, and what reads completed survives a restart.
THEOREM QueueKeepsItsBooks == JobsSpec => []QueueIsSound
<1>1. JobsInv => QueueIsSound
  <2> SUFFICES ASSUME JobsInv PROVE QueueIsSound
    OBVIOUS
  <2>1. pendingJobs \in Seq(Job) /\ Distinct(pendingJobs)
    BY DEF JobsInv, JobsTypeOK, QueuedAreUntouched
  <2>2. Len(pendingJobs) = Cardinality(ToSet(pendingJobs))
    BY <2>1, QueueIsFinite
  <2> QED
    BY <2>2 DEF JobsInv, QueueIsSound, QueueIsBounded, SlotsAreCounted, CheckpointsTell
<1> QED
  BY <1>1, JobsInvariance, PTL

----------------------------------------------------------------------------
\* The refinement: what a client sees of a job.
Seen == [j \in Job |-> IF status[j] \in {"queued", "running"} THEN "live" ELSE status[j]]

\* A step that changes one job's status, as a client sees it.
LEMMA OneBecomes ==
    ASSUME NEW j \in Job, status \in [Job -> JobStatus],
           NEW value \in JobStatus, status' = [status EXCEPT ![j] = value]
    PROVE  Seen' = [Seen EXCEPT ![j] = IF value \in {"queued", "running"} THEN "live" ELSE value]
BY DEF Seen

LEMMA ServiceStep == JobsInv /\ [JobsNext]_jobsVars => [Service!ServiceNext]_Seen
<1> SUFFICES ASSUME JobsInv, [JobsNext]_jobsVars PROVE [Service!ServiceNext]_Seen
  OBVIOUS
<1> USE DEF Service!ServiceNext, Service!AcceptJob, Service!ReenterJob, Service!EndJob,
            Service!Becomes, Service!Outcome
<1>0. status \in [Job -> JobStatus]
  BY DEF JobsInv, JobsTypeOK
<1>1. CASE UNCHANGED status
  BY <1>1 DEF Seen
<1>2. ASSUME NEW j \in Job, Create(j) PROVE [Service!ServiceNext]_Seen
  <2>1. Seen[j] = "absent" /\ Seen' = [Seen EXCEPT ![j] = "live"]
    BY <1>0, <1>2, OneBecomes DEF Create, Seen, JobStatus
  <2> QED
    BY <2>1 DEF Seen
<1>3. ASSUME NEW j \in Job, Cancel(j) PROVE [Service!ServiceNext]_Seen
  <2>1. CASE status[j] = "queued"
    <3>1. status' = [status EXCEPT ![j] = "cancelled"]
      BY <1>3, <2>1 DEF Cancel
    <3>2. Seen[j] = "live" /\ Seen' = [Seen EXCEPT ![j] = "cancelled"]
      BY <1>0, <2>1, <3>1, OneBecomes DEF Seen, JobStatus
    <3> QED
      BY <3>2 DEF Seen
  <2>2. CASE status[j] = "running"
    <3>1. status' = status
      BY <1>0, <1>3, <2>2 DEF Cancel
    <3> QED
      BY <3>1, <1>1
  <2> QED
    BY <1>3, <2>1, <2>2 DEF Cancel
<1>4. ASSUME NEW j \in Job, StartJob(j) PROVE [Service!ServiceNext]_Seen
  <2>1. status[j] \in {"queued", "cancelled"} /\ status' = [status EXCEPT ![j] = "running"]
    BY <1>4 DEF StartJob, JobsInv, ScheduledHaveNotBegun
  <2>2. Seen' = [Seen EXCEPT ![j] = "live"]
    BY <1>0, <2>1, OneBecomes DEF JobStatus
  <2>3. CASE status[j] = "queued"
    BY <2>2, <2>3 DEF Seen
  <2>4. CASE status[j] = "cancelled"
    BY <2>2, <2>4 DEF Seen
  <2> QED
    BY <2>1, <2>3, <2>4
<1>5. ASSUME NEW j \in Job, StopTraining(j) \/ Complete(j) \/ Throw(j)
      PROVE  [Service!ServiceNext]_Seen
  <2>1. PICK outcome \in {"completed", "failed", "cancelled"} :
           phase[j] # "none" /\ Settle(j, outcome)
    BY <1>5, JobEnds
  <2>2. status[j] = "running" /\ status' = [status EXCEPT ![j] = outcome]
    BY <2>1 DEF Settle, JobsInv, RunningHavePhases
  <2>3. Seen[j] = "live" /\ Seen' = [Seen EXCEPT ![j] = outcome]
    BY <1>0, <2>2, OneBecomes DEF Seen, JobStatus
  <2> QED
    BY <2>3 DEF Seen
<1>6. CASE Restart
  <2>1. status' = [j \in Job |-> IF j \in checkpoint THEN "completed"
                                ELSE IF status[j] = "absent" THEN "absent" ELSE "lost"]
    BY <1>6 DEF Restart
  <2>2. \A j \in checkpoint : status[j] \in {"completed", "running"}
    BY DEF JobsInv, JobsTypeOK, CheckpointsTell, RunningHavePhases
  <2>3. \A j \in Job : status[j] = "completed" => j \in checkpoint
    BY DEF JobsInv, CheckpointsTell, CompletedIsDurable
  <2>4. Seen' \in [Job -> {"absent", "completed", "lost"}]
    BY <2>1 DEF Seen
  <2>5. ASSUME NEW j \in Job
        PROVE  \/ Seen[j] \in {"absent", "completed"} /\ Seen'[j] = Seen[j]
               \/ Seen[j] \in {"failed", "cancelled", "lost"} /\ Seen'[j] = "lost"
               \/ Seen[j] = "live" /\ Seen'[j] \in {"completed", "lost"}
    <3>1. status[j] \in JobStatus
      BY <1>0
    <3>2. /\ Seen[j] = IF status[j] \in {"queued", "running"} THEN "live" ELSE status[j]
          /\ Seen'[j] = IF j \in checkpoint THEN "completed"
                        ELSE IF status[j] = "absent" THEN "absent" ELSE "lost"
      BY <2>1 DEF Seen
    <3> QED
      BY <2>2, <2>3, <3>1, <3>2 DEF JobStatus
  <2>6. Service!RestartService
    BY <2>4, <2>5 DEF Service!RestartService, Seen
  <2> QED
    BY <2>6
<1>7. ASSUME NEW j \in Job, LoadDataset(j) \/ FinishTraining(j) \/ RenameCheckpoint(j) \/ Expire(j)
      PROVE  UNCHANGED status
  BY <1>7 DEF LoadDataset, FinishTraining, RenameCheckpoint, Continue, Expire
<1>8. CASE UNCHANGED jobsVars
  BY <1>1, <1>8 DEF jobsVars
<1> QED
  BY <1>1, <1>2, <1>3, <1>4, <1>5, <1>6, <1>7, <1>8 DEF JobsNext, Run

\* The queue implements the abstract service: a job seen live has one outcome, a failed one
\* never comes back as completed, and a restart forgets all but the completed ones.
THEOREM ServiceRefinement == JobsSpec => KeepsServicePromises
<1>1. JobsInit => Service!ServiceInit
  BY DEF JobsInit, Service!ServiceInit
<1>2. JobsInv /\ [JobsNext]_jobsVars => [Service!ServiceNext]_Seen
  BY ServiceStep
<1> QED
  BY <1>1, <1>2, JobsInvariance, PTL DEF JobsSpec, KeepsServicePromises, Service!ServiceSpec, Seen

----------------------------------------------------------------------------
(* The segments.  Cuts in order make segments in turn, of records and of   *)
(* months, for every number of them from the least the loaders accept.     *)

LEMMA CutsInTurn ==
    ASSUME NEW n \in Int, NEW s \in Int, NEW e \in Int, 0 < s, s < e, e < n
    PROVE  InTurn(n, 0 .. s - 1, s .. e - 1, e .. n - 1)
<1>1. (0 .. s - 1) \cup (s .. e - 1) \cup (e .. n - 1) = 0 .. n - 1
    OBVIOUS
<1>2. 0 \in 0 .. s - 1 /\ s \in s .. e - 1 /\ e \in e .. n - 1
    OBVIOUS
<1>3. {} \notin {0 .. s - 1, s .. e - 1, e .. n - 1}
    BY <1>2
<1>4. Before(0 .. s - 1, s .. e - 1)
    BY <1>2 DEF Before
<1>5. Before(s .. e - 1, e .. n - 1)
    BY <1>2 DEF Before
<1> QED
    BY <1>1, <1>3, <1>4, <1>5 DEF InTurn

\* The records of the months from first on and before end.
Span(first, end) == 4 * first .. 4 * end - 1

LEMMA RecordsAre ==
    ASSUME NEW count \in Nat, NEW first \in Nat, NEW end \in Nat, first <= end, end <= count
    PROVE  /\ RecordsOf(count, first, end) = Span(first, end)
           /\ MonthsIn(RecordsOf(count, first, end)) \subseteq first .. end - 1
<1>1. \A i \in Int : i \div 4 \in first .. end - 1 <=> i \in 4 * first .. 4 * end - 1
    OBVIOUS
<1>2. 4 * first .. 4 * end - 1 \subseteq 0 .. 4 * count - 1
    OBVIOUS
<1> QED
    BY <1>1, <1>2 DEF Span, RecordsOf, MonthOf, MonthsIn, RecordsPerMonth

\* The business cut of n records, four of a month: 80 to train on, then 20 at least to be
\* tested on, which is what is left over of fewer than 104 records.
LEMMA BusinessInTurn ==
    ASSUME NEW n \in Nat, n >= 104
    PROVE  /\ InTurn(n, BusinessTrain(n), BusinessValidation(n), BusinessTest(n))
           /\ BusinessValidation(n) # {} /\ BusinessTrain(n) \cap BusinessTest(n) = {}
<1>1. PICK s \in Int : s = BusinessTrainEnd(n)
    BY DEF BusinessTrainEnd, AtLeast
<1>2. PICK e \in Int : e = BusinessValidationEnd(n)
    BY <1>1 DEF BusinessValidationEnd, AtLeast, AtMost
<1>3. 80 <= s /\ s <= n - 24
    BY <1>1 DEF BusinessTrainEnd, AtLeast
<1>4. s < e /\ e <= n - 20
    BY <1>1, <1>2, <1>3 DEF BusinessValidationEnd, AtLeast, AtMost
<1>5. AtMost(n, s) = s
    BY <1>3 DEF AtMost
<1>6. InTurn(n, 0 .. s - 1, s .. e - 1, e .. n - 1)
    BY <1>3, <1>4, CutsInTurn
<1>7. s \in s .. e - 1 /\ (0 .. s - 1) \cap (e .. n - 1) = {}
    BY <1>4
<1> QED
    BY <1>1, <1>2, <1>5, <1>6, <1>7 DEF BusinessTrain, BusinessValidation, BusinessTest

LEMMA BusinessTooFew ==
    ASSUME NEW n \in Nat, n >= 80, n <= 100
    PROVE  /\ BusinessValidation(n) = {} /\ BusinessTrain(n) = 0 .. 79
           /\ BusinessTest(n) = n - 20 .. n - 1
<1>1. BusinessTrainEnd(n) = 80
    BY DEF BusinessTrainEnd, AtLeast
<1>2. BusinessValidationEnd(n) = n - 20
    BY <1>1 DEF BusinessValidationEnd, AtLeast, AtMost
<1>3. AtMost(n, 80) = 80
    BY DEF AtMost
<1> QED
    BY <1>1, <1>2, <1>3 DEF BusinessTrain, BusinessValidation, BusinessTest

\* By record the public months keep apart from 26 of them on, and not below.
LEMMA BusinessMonths ==
    ASSUME NEW n \in Nat, Acceptable(n), NEW all \in Nat, all = 4 * n
    PROVE  /\ InTurn(all, BusinessTrain(all), BusinessValidation(all), BusinessTest(all)) <=> n >= 26
           /\ BusinessValidation(all) # {} <=> n >= 26
           /\ BusinessTrain(all) \cap BusinessTest(all) = {} <=> n >= 25
<1>1. n >= 20
    BY DEF Acceptable
<1>2. CASE n >= 26
    <2>1. all >= 104
        BY <1>2
    <2> QED
        BY <1>2, <2>1, BusinessInTurn
<1>3. CASE n < 26
    <2>1. all >= 80 /\ all <= 100
        BY <1>1, <1>3
    <2>2. /\ BusinessValidation(all) = {} /\ BusinessTrain(all) = 0 .. 79
          /\ BusinessTest(all) = all - 20 .. all - 1
        BY <2>1, BusinessTooFew
    <2>3. ~InTurn(all, BusinessTrain(all), BusinessValidation(all), BusinessTest(all))
        BY <2>2 DEF InTurn
    <2>4. CASE n = 25
        <3>1. (0 .. 79) \cap (80 .. 99) = {}
            OBVIOUS
        <3>2. all - 20 = 80 /\ all - 1 = 99
            BY <2>4
        <3> QED
            BY <1>3, <2>2, <2>3, <2>4, <3>1, <3>2
    <2>5. CASE n # 25
        <3>1. all <= 96
            BY <1>3, <2>5
        <3>2. all - 20 \in 0 .. 79 /\ all - 20 \in all - 20 .. all - 1
            BY <2>1, <3>1
        <3>3. PICK x : x = all - 20
            OBVIOUS
        <3>4. x \in BusinessTrain(all) /\ x \in BusinessTest(all)
            BY <2>2, <3>2, <3>3
        <3>5. BusinessTrain(all) \cap BusinessTest(all) # {}
            BY <3>4
        <3>6. ~(n >= 25) /\ ~(n >= 26)
            BY <1>3, <2>5
        <3> QED
            BY <2>2, <2>3, <3>5, <3>6
    <2> QED
        BY <2>4, <2>5
<1> QED
    BY <1>2, <1>3

LEMMA GroupsAre ==
    ASSUME NEW n \in Nat, Acceptable(n),
           NEW s, s = GroupTrainEnd(n), NEW e, e = GroupValidationEnd(n)
    PROVE  /\ s \in Nat /\ e \in Nat /\ 0 < s /\ s < e /\ e < n
           /\ GroupTrain(n) = Span(0, s) /\ MonthsIn(GroupTrain(n)) \subseteq 0 .. s - 1
           /\ GroupValidation(n) = Span(s, e)
           /\ MonthsIn(GroupValidation(n)) \subseteq s .. e - 1
           /\ GroupTest(n) = Span(e, n) /\ MonthsIn(GroupTest(n)) \subseteq e .. n - 1
<1>1. s \in Nat /\ e \in Nat /\ 0 < s /\ s < e /\ e < n
    BY DEF GroupTrainEnd, GroupValidationEnd, Acceptable
<1>2. PICK z \in Nat : z = 0
    OBVIOUS
<1>3. z <= s /\ s <= n /\ s <= e /\ e <= n /\ n <= n
    BY <1>1, <1>2
<1>4. GroupTrain(n) = Span(0, s) /\ MonthsIn(GroupTrain(n)) \subseteq 0 .. s - 1
    <2>1. RecordsOf(n, z, s) = Span(z, s) /\ MonthsIn(RecordsOf(n, z, s)) \subseteq z .. s - 1
        BY <1>1, <1>3, RecordsAre
    <2>2. GroupTrain(n) = RecordsOf(n, z, s)
        BY <1>2 DEF GroupTrain
    <2> QED
        BY <1>2, <2>1, <2>2
<1>5. GroupValidation(n) = Span(s, e) /\ MonthsIn(GroupValidation(n)) \subseteq s .. e - 1
    <2>1. RecordsOf(n, s, e) = Span(s, e) /\ MonthsIn(RecordsOf(n, s, e)) \subseteq s .. e - 1
        BY <1>1, <1>3, RecordsAre
    <2>2. GroupValidation(n) = RecordsOf(n, s, e)
        BY DEF GroupValidation
    <2> QED
        BY <2>1, <2>2
<1>6. GroupTest(n) = Span(e, n) /\ MonthsIn(GroupTest(n)) \subseteq e .. n - 1
    <2>1. RecordsOf(n, e, n) = Span(e, n) /\ MonthsIn(RecordsOf(n, e, n)) \subseteq e .. n - 1
        BY <1>1, <1>3, RecordsAre
    <2>2. GroupTest(n) = RecordsOf(n, e, n)
        BY DEF GroupTest
    <2> QED
        BY <2>1, <2>2
<1> QED
    BY <1>1, <1>4, <1>5, <1>6

LEMMA GroupsInTurn ==
    ASSUME NEW n \in Nat, Acceptable(n)
    PROVE  /\ InTurn(4 * n, GroupTrain(n), GroupValidation(n), GroupTest(n))
           /\ MonthsIn(GroupTrain(n)) \cap MonthsIn(GroupValidation(n)) = {}
           /\ MonthsIn(GroupValidation(n)) \cap MonthsIn(GroupTest(n)) = {}
<1>1. PICK s : s = GroupTrainEnd(n)
    OBVIOUS
<1>2. PICK e : e = GroupValidationEnd(n)
    OBVIOUS
<1>3. /\ s \in Nat /\ e \in Nat /\ 0 < s /\ s < e /\ e < n
      /\ GroupTrain(n) = Span(0, s) /\ MonthsIn(GroupTrain(n)) \subseteq 0 .. s - 1
      /\ GroupValidation(n) = Span(s, e)
      /\ MonthsIn(GroupValidation(n)) \subseteq s .. e - 1
      /\ GroupTest(n) = Span(e, n) /\ MonthsIn(GroupTest(n)) \subseteq e .. n - 1
    BY <1>1, <1>2, GroupsAre
<1>4. InTurn(4 * n, 0 .. 4 * s - 1, 4 * s .. 4 * e - 1, 4 * e .. 4 * n - 1)
    BY <1>3, CutsInTurn
<1>5. (0 .. s - 1) \cap (s .. e - 1) = {} /\ (s .. e - 1) \cap (e .. n - 1) = {}
    BY <1>3
<1> QED
    BY <1>3, <1>4, <1>5 DEF Span

LEMMA MonthsKeepApart ==
    ASSUME NEW n \in Nat, Acceptable(n)
    PROVE  KeepApart(n)
<1>1. PICK all \in Nat : all = 4 * n
    OBVIOUS
<1>2. BusinessAcceptable(n) =>
          InTurn(n, BusinessTrain(n), BusinessValidation(n), BusinessTest(n))
    BY BusinessInTurn DEF BusinessAcceptable
<1> QED
    BY <1>1, <1>2, GroupsInTurn, BusinessMonths DEF KeepApart, RecordsPerMonth

LEMMA EverythingIsSeen == SeeEverything(377)
<1>1. PICK n \in Nat : n = 377
    OBVIOUS
<1>2. PICK s \in Nat : s = 263
    OBVIOUS
<1>3. PICK e \in Nat : e = 320
    OBVIOUS
<1>4. /\ GroupTrain(n) = Span(0, s) /\ GroupValidation(n) = Span(s, e)
      /\ GroupTest(n) = Span(e, n)
    <2>1. Acceptable(n) /\ s = GroupTrainEnd(n) /\ e = GroupValidationEnd(n)
        BY <1>1, <1>2, <1>3 DEF GroupTrainEnd, GroupValidationEnd, Acceptable
    <2> QED
        BY <2>1, GroupsAre
<1>5. \A d \in Disturbance : Disturbed(d, 0)
    BY DEF Disturbance, Disturbed, RecordsPerMonth
<1>6. /\ Disturbed("channel", 1182) /\ Disturbed("channel", 1379)
      /\ Disturbed("tide", 1060) /\ Disturbed("tide", 1280)
      /\ Disturbed("maintenance", 1060) /\ Disturbed("maintenance", 1325)
      /\ Disturbed("hazmat", 1081) /\ Disturbed("hazmat", 1316)
    BY DEF Disturbed, RecordsPerMonth
<1>7. \A d \in Disturbance : \E i \in GroupTrain(n) : Disturbed(d, i)
    <2>1. 0 \in GroupTrain(n)
        BY <1>2, <1>4 DEF Span
    <2> QED
        BY <1>5, <2>1
<1>8. \A d \in Disturbance : \E i \in GroupValidation(n) : Disturbed(d, i)
    <2>1. {1182, 1060, 1081} \subseteq GroupValidation(n)
        BY <1>2, <1>3, <1>4 DEF Span
    <2> QED
        BY <1>6, <2>1 DEF Disturbance
<1>9. \A d \in Disturbance : \E i \in GroupTest(n) : Disturbed(d, i)
    <2>1. {1379, 1280, 1325, 1316} \subseteq GroupTest(n)
        BY <1>1, <1>3, <1>4 DEF Span
    <2> QED
        BY <1>6, <2>1 DEF Disturbance
<1> QED
    BY <1>1, <1>7, <1>8, <1>9 DEF SeeEverything

----------------------------------------------------------------------------
(* The loads.  What a load has read of manifest and source stays what it    *)
(* has read, and names the file it writes; of that file every load that     *)
(* writes it would write the same, and only the last to truncate it can     *)
(* have cut it short.                                                       *)

LoadingState == {"idle", "source", "open", "write", "read", "loaded", "failed"}

LoadsHaveShapes ==
    /\ loading \in [Loader -> LoadingState] /\ readOf \in [Loader -> ReadSoFar]
    /\ got \in [Loader -> {Nothing} \cup Pair]

\* How far a load has read.
ReadsInOrder ==
    \A l \in Loader :
        /\ loading[l] = "idle" => readOf[l] = Nothing
        /\ loading[l] = "source" => \E m \in Manifests : readOf[l] = <<m>>
        /\ loading[l] \in {"open", "write", "read"} =>
              readOf[l] \in Pair /\ MayAdapt(readOf[l][1], Sources[readOf[l][2]])
        /\ loading[l] = "loaded" => got[l] = readOf[l] /\ got[l] \in Loadable

\* A file is what its name says or cut short by the last that truncated it.
FilesAreNamed ==
    /\ \A path \in DOMAIN adapted : path \in Pair /\ adapted[path] \in {path, Partial}
    /\ \A path \in DOMAIN truncatedBy :
          /\ truncatedBy[path] \in Loader /\ readOf[truncatedBy[path]] = path
    /\ DOMAIN truncatedBy = DOMAIN adapted
    /\ \A l \in Loader :
          /\ loading[l] \in {"write", "read"} => readOf[l] \in DOMAIN adapted
          /\ loading[l] = "read" /\ truncatedBy[readOf[l]] = l => adapted[readOf[l]] = readOf[l]

DataInv ==
    /\ manifest \in Manifests /\ source \in Contents
    /\ months \in {0} \cup MonthCounts /\ (months # 0 => Acceptable(months))
    /\ revisions \in 0 .. MaxRevisions
    /\ LoadsHaveShapes /\ ReadsInOrder /\ FilesAreNamed /\ FailsForAReason

\* Parts and pairs of what is read are told apart.
LEMMA PairsAre ==
    /\ \A p \in Pair : p = <<p[1], p[2]>> /\ AdaptedPath(p[1], p[2]) = p
    /\ \A p \in Pair : p # Nothing /\ p # Partial /\ \A m : p # <<m>>
    /\ \A p \in Pair : p[1] \in Manifests /\ p[2] \in Contents
    /\ Paths = Pair
    /\ Loadable \subseteq Pair
<1>1. \A p \in Pair : p = <<p[1], p[2]>> /\ p[1] \in Manifests /\ p[2] \in Contents
    BY DEF Pair
<1>2. \A p \in Pair : AdaptedPath(p[1], p[2]) = p
    BY <1>1 DEF AdaptedPath
<1>3. \A p \in Pair : p # Nothing /\ p # Partial /\ \A m : p # <<m>>
    BY DEF Pair, Nothing, Partial
<1>4. Paths = Pair
    BY <1>2 DEF Paths
<1>5. Loadable \subseteq Pair
    BY DEF Loadable
<1> QED
    BY <1>1, <1>2, <1>3, <1>4, <1>5

LEMMA DataInitInv == DataInit => DataInv
<1> SUFFICES ASSUME DataInit PROVE DataInv
    OBVIOUS
<1>1. /\ manifest \in Manifests /\ source \in Contents /\ months = 0 /\ revisions = 0
      /\ MaxRevisions \in Nat
    BY DataAssumption DEF DataInit
<1>2. LoadsHaveShapes
    BY DEF DataInit, LoadsHaveShapes, LoadingState, ReadSoFar
<1>3. ReadsInOrder
    BY DEF DataInit, ReadsInOrder
<1>4. FilesAreNamed
    BY DEF DataInit, FilesAreNamed
<1>5. FailsForAReason
    BY DEF DataInit, FailsForAReason
<1> QED
    BY <1>1, <1>2, <1>3, <1>4, <1>5 DEF DataInv

\* A load that has read its source has read it for good.
LEMMA ReadOnce ==
    ASSUME LoadsHaveShapes, ReadsInOrder, NEW l \in Loader, loading[l] \in {"idle", "source"}
    PROVE  readOf[l] \notin Pair
<1>1. CASE loading[l] = "idle"
    BY <1>1, PairsAre DEF ReadsInOrder
<1>2. CASE loading[l] = "source"
    <2>1. PICK m \in Manifests : readOf[l] = <<m>>
        BY <1>2 DEF ReadsInOrder
    <2> QED
        BY <2>1, PairsAre
<1> QED
    BY <1>1, <1>2

\* What a step that only reads manifest or source leaves as it is.
LEMMA ReadingKeeps ==
    ASSUME DataInv, NEW l \in Loader, loading[l] \in {"idle", "source"}, NEW read, NEW step,
           step \in {"source", "open", "loaded", "failed"}, read \in ReadSoFar,
           readOf' = [readOf EXCEPT ![l] = read], loading' = [loading EXCEPT ![l] = step],
           UNCHANGED <<adapted, truncatedBy>>
    PROVE  /\ FilesAreNamed'
           /\ \A k \in Loader : k # l => readOf'[k] = readOf[k] /\ loading'[k] = loading[k]
           /\ readOf'[l] = read /\ loading'[l] = step
           /\ (step = "failed" /\ read \in Loadable => ~MayAdapt(read[1], Sources[read[2]]))
                => FailsForAReason'
<1> USE DEF DataInv
<1>1. /\ \A k \in Loader : k # l => readOf'[k] = readOf[k] /\ loading'[k] = loading[k]
      /\ readOf'[l] = read /\ loading'[l] = step
    BY DEF LoadsHaveShapes
<1>2. \A k \in Loader : readOf[k] \in Pair => k # l
    BY ReadOnce
<1>3. FilesAreNamed'
    <2>1. /\ \A path \in DOMAIN adapted : path \in Pair /\ adapted[path] \in {path, Partial}
          /\ DOMAIN truncatedBy = DOMAIN adapted
        BY DEF FilesAreNamed
    <2>2. \A path \in DOMAIN truncatedBy :
            truncatedBy[path] \in Loader /\ readOf'[truncatedBy[path]] = path
        BY <1>1, <1>2, <2>1 DEF FilesAreNamed
    <2>3. ASSUME NEW k \in Loader
          PROVE  /\ loading'[k] \in {"write", "read"} => readOf'[k] \in DOMAIN adapted
                 /\ loading'[k] = "read" /\ truncatedBy[readOf'[k]] = k =>
                      adapted[readOf'[k]] = readOf'[k]
        <3>1. CASE k = l
            BY <1>1, <3>1
        <3>2. CASE k # l
            BY <1>1, <3>2 DEF FilesAreNamed
        <3> QED
            BY <3>1, <3>2
    <2> QED
        BY <2>1, <2>2, <2>3 DEF FilesAreNamed
<1>4. ASSUME step = "failed" /\ read \in Loadable => ~MayAdapt(read[1], Sources[read[2]])
      PROVE  FailsForAReason'
    <2> SUFFICES ASSUME NEW k \in Loader, loading'[k] = "failed", readOf'[k] \in Loadable
                 PROVE  \/ ~MayAdapt(readOf'[k][1], Sources[readOf'[k][2]])
                        \/ \E j \in Loader \ {k} : readOf'[j] = readOf'[k]
        BY DEF FailsForAReason
    <2>1. CASE k = l
        BY <1>1, <1>4, <2>1
    <2>2. CASE k # l
        <3>1. loading[k] = "failed" /\ readOf[k] \in Loadable /\ readOf'[k] = readOf[k]
            BY <1>1, <2>2
        <3>2. CASE ~MayAdapt(readOf[k][1], Sources[readOf[k][2]])
            BY <3>1, <3>2
        <3>3. CASE \E j \in Loader \ {k} : readOf[j] = readOf[k]
            <4>1. PICK j \in Loader \ {k} : readOf[j] = readOf[k]
                BY <3>3
            <4>2. readOf[j] \in Pair
                BY <3>1, <4>1, PairsAre
            <4>3. readOf'[j] = readOf[j]
                BY <1>1, <1>2, <4>2
            <4> QED
                BY <3>1, <4>1, <4>3
        <3> QED
            BY <3>1, <3>2, <3>3 DEF FailsForAReason
    <2> QED
        BY <2>1, <2>2
<1> QED
    BY <1>1, <1>3, <1>4

LEMMA ReadManifestInv == ASSUME DataInv, NEW l \in Loader, ReadManifest(l) PROVE DataInv'
<1> USE DEF DataInv
<1>1. PICK step \in {"source", "failed"} : step =
        IF manifest = NoManifest \/ (Parses(manifest) /\ TrainingReady(manifest))
        THEN "source" ELSE "failed"
    OBVIOUS
<1>2. PICK read : read = <<manifest>>
    OBVIOUS
<1>3. read \in ReadSoFar /\ read \notin Pair
    BY <1>2, PairsAre DEF ReadSoFar
<1>4. /\ loading[l] = "idle" /\ readOf' = [readOf EXCEPT ![l] = read]
      /\ loading' = [loading EXCEPT ![l] = step]
      /\ UNCHANGED <<manifest, source, adapted, truncatedBy, got, months, revisions>>
    BY <1>1, <1>2, Zenon DEF ReadManifest, Goes
<1>5. /\ FilesAreNamed'
      /\ \A k \in Loader : k # l => readOf'[k] = readOf[k] /\ loading'[k] = loading[k]
      /\ readOf'[l] = read /\ loading'[l] = step
      /\ (step = "failed" /\ read \in Loadable => ~MayAdapt(read[1], Sources[read[2]]))
           => FailsForAReason'
    BY <1>3, <1>4, ReadingKeeps
<1>6. FailsForAReason'
    BY <1>3, <1>5, PairsAre
<1>7. LoadsHaveShapes'
    BY <1>3, <1>4 DEF LoadsHaveShapes, LoadingState
<1>8. ReadsInOrder'
    <2> SUFFICES ASSUME NEW k \in Loader
                 PROVE  /\ loading'[k] = "idle" => readOf'[k] = Nothing
                        /\ loading'[k] = "source" => \E m \in Manifests : readOf'[k] = <<m>>
                        /\ loading'[k] \in {"open", "write", "read"} =>
                              readOf'[k] \in Pair /\ MayAdapt(readOf'[k][1], Sources[readOf'[k][2]])
                        /\ loading'[k] = "loaded" => got'[k] = readOf'[k] /\ got'[k] \in Loadable
        BY <1>4 DEF ReadsInOrder, MayAdapt, CompleteRecords, Parses, TrainingReady
    <2>1. CASE k = l
        BY <1>2, <1>5, <2>1
    <2>2. CASE k # l
        BY <1>4, <1>5, <2>2 DEF ReadsInOrder
    <2> QED
        BY <2>1, <2>2
<1> QED
    BY <1>4, <1>5, <1>6, <1>7, <1>8

\* What is read without a manifest is handed over at once.
LEMMA ReadPlainInv == ASSUME DataInv, NEW l \in Loader, ReadPlain(l) PROVE DataInv'
<1> USE DEF DataInv
<1>1. NoManifest \in Manifests
    <2>1. PICK m \in Manifests : readOf[l] = <<m>>
        BY DEF ReadPlain, ReadsInOrder
    <2>2. <<m>> = <<NoManifest>>
        BY <2>1 DEF ReadPlain
    <2>3. m = NoManifest
        BY <2>2
    <2> QED
        BY <2>3
<1>2. PICK read \in Pair : read = <<NoManifest, source>>
    BY <1>1 DEF Pair
<1>3. read \in ReadSoFar
    BY DEF ReadSoFar
<1>4. PICK step \in {"loaded", "failed"} : step = IF read \in Loadable THEN "loaded" ELSE "failed"
    OBVIOUS
<1>5. /\ loading[l] = "source" /\ readOf' = [readOf EXCEPT ![l] = read]
      /\ loading' = [loading EXCEPT ![l] = step]
      /\ got' = [got EXCEPT ![l] = IF read \in Loadable THEN read ELSE @]
      /\ UNCHANGED <<manifest, source, adapted, truncatedBy, months, revisions>>
    BY <1>2, <1>4 DEF ReadPlain, Goes
<1>6. /\ FilesAreNamed'
      /\ \A k \in Loader : k # l => readOf'[k] = readOf[k] /\ loading'[k] = loading[k]
      /\ readOf'[l] = read /\ loading'[l] = step
      /\ (step = "failed" /\ read \in Loadable => ~MayAdapt(read[1], Sources[read[2]]))
           => FailsForAReason'
    BY <1>3, <1>5, ReadingKeeps
<1>7. FailsForAReason'
    BY <1>4, <1>6
<1>8. LoadsHaveShapes'
    BY <1>3, <1>5 DEF LoadsHaveShapes, LoadingState
<1>9. /\ \A k \in Loader : k # l => got'[k] = got[k]
      /\ read \in Loadable => got'[l] = read
    BY <1>5 DEF LoadsHaveShapes
<1>10. ReadsInOrder'
    <2> SUFFICES ASSUME NEW k \in Loader
                 PROVE  /\ loading'[k] = "idle" => readOf'[k] = Nothing
                        /\ loading'[k] = "source" => \E m \in Manifests : readOf'[k] = <<m>>
                        /\ loading'[k] \in {"open", "write", "read"} =>
                              readOf'[k] \in Pair /\ MayAdapt(readOf'[k][1], Sources[readOf'[k][2]])
                        /\ loading'[k] = "loaded" => got'[k] = readOf'[k] /\ got'[k] \in Loadable
        BY DEF ReadsInOrder, MayAdapt, CompleteRecords, Parses, TrainingReady
    <2>1. CASE k = l
        BY <1>4, <1>6, <1>9, <2>1
    <2>2. CASE k # l
        BY <1>6, <1>9, <2>2 DEF ReadsInOrder
    <2> QED
        BY <2>1, <2>2
<1> QED
    BY <1>5, <1>6, <1>7, <1>8, <1>10

LEMMA ReadSourceInv == ASSUME DataInv, NEW l \in Loader, ReadSource(l) PROVE DataInv'
<1> USE DEF DataInv
<1>1. PICK m \in Manifests : readOf[l] = <<m>>
    BY DEF ReadSource, ReadsInOrder
<1>2. PICK read \in Pair : read = <<m, source>>
    BY DEF Pair
<1>3. read \in ReadSoFar /\ <<readOf[l][1], source>> = read
    <2>1. <<readOf[l][1], source>> = read
        BY <1>1, <1>2
    <2>2. read \in ReadSoFar
        BY DEF ReadSoFar
    <2> QED
        BY <1>1, <1>2, <2>1, <2>2
<1>4. PICK step \in {"open", "failed"} :
        step = IF MayAdapt(m, Sources[source]) THEN "open" ELSE "failed"
    OBVIOUS
<1>5. /\ loading[l] = "source" /\ readOf' = [readOf EXCEPT ![l] = read]
      /\ loading' = [loading EXCEPT ![l] = step]
      /\ UNCHANGED <<manifest, source, adapted, truncatedBy, got, months, revisions>>
    <2>1. readOf[l][1] = m
        BY <1>1
    <2>2. /\ loading[l] = "source" /\ readOf' = [readOf EXCEPT ![l] = <<readOf[l][1], source>>]
          /\ loading' = [loading EXCEPT ![l] = IF MayAdapt(readOf[l][1], Sources[source])
                                              THEN "open" ELSE "failed"]
          /\ UNCHANGED <<manifest, source, adapted, truncatedBy, got, months, revisions>>
        BY DEF ReadSource, Goes
    <2> QED
        BY <1>3, <1>4, <2>1, <2>2
<1>6. /\ FilesAreNamed'
      /\ \A k \in Loader : k # l => readOf'[k] = readOf[k] /\ loading'[k] = loading[k]
      /\ readOf'[l] = read /\ loading'[l] = step
      /\ (step = "failed" /\ read \in Loadable => ~MayAdapt(read[1], Sources[read[2]]))
           => FailsForAReason'
    BY <1>3, <1>5, ReadingKeeps
<1>7. read[1] = m /\ read[2] = source
    BY <1>2
<1>8. FailsForAReason'
    BY <1>4, <1>6, <1>7
<1>9. LoadsHaveShapes'
    BY <1>3, <1>5 DEF LoadsHaveShapes, LoadingState
<1>10. ReadsInOrder'
    <2> SUFFICES ASSUME NEW k \in Loader
                 PROVE  /\ loading'[k] = "idle" => readOf'[k] = Nothing
                        /\ loading'[k] = "source" => \E n \in Manifests : readOf'[k] = <<n>>
                        /\ loading'[k] \in {"open", "write", "read"} =>
                              readOf'[k] \in Pair /\ MayAdapt(readOf'[k][1], Sources[readOf'[k][2]])
                        /\ loading'[k] = "loaded" => got'[k] = readOf'[k] /\ got'[k] \in Loadable
        BY DEF ReadsInOrder, MayAdapt, CompleteRecords, Parses, TrainingReady
    <2>1. CASE k = l
        BY <1>4, <1>6, <1>7, <2>1
    <2>2. CASE k # l
        BY <1>5, <1>6, <2>2 DEF ReadsInOrder
    <2> QED
        BY <2>1, <2>2
<1> QED
    BY <1>5, <1>6, <1>8, <1>9, <1>10

\* What the steps on the adapted file leave as it is.
LEMMA FileStepKeeps ==
    ASSUME DataInv, NEW l \in Loader, loading[l] \in {"open", "write", "read"}, NEW step,
           step \in {"write", "read", "loaded", "failed"}, readOf' = readOf,
           loading' = [loading EXCEPT ![l] = step],
           got' \in [Loader -> {Nothing} \cup Pair], \A k \in Loader : k # l => got'[k] = got[k],
           step = "loaded" => got'[l] = readOf[l] /\ readOf[l] \in Loadable
    PROVE  /\ \A k \in Loader : k # l => loading'[k] = loading[k]
           /\ loading'[l] = step /\ PathOf(l) = readOf[l] /\ readOf[l] \in Pair
           /\ LoadsHaveShapes' /\ ReadsInOrder'
<1> USE DEF DataInv
<1>1. (\A k \in Loader : k # l => loading'[k] = loading[k]) /\ loading'[l] = step
    BY DEF LoadsHaveShapes
<1>2. readOf[l] \in Pair /\ MayAdapt(readOf[l][1], Sources[readOf[l][2]])
    BY DEF ReadsInOrder
<1>3. PathOf(l) = readOf[l]
    BY <1>2, PairsAre DEF PathOf
<1>4. LoadsHaveShapes'
    BY DEF LoadsHaveShapes, LoadingState
<1>5. ReadsInOrder'
    <2> SUFFICES ASSUME NEW k \in Loader
                 PROVE  /\ loading'[k] = "idle" => readOf[k] = Nothing
                        /\ loading'[k] = "source" => \E m \in Manifests : readOf[k] = <<m>>
                        /\ loading'[k] \in {"open", "write", "read"} =>
                              readOf[k] \in Pair /\ MayAdapt(readOf[k][1], Sources[readOf[k][2]])
                        /\ loading'[k] = "loaded" => got'[k] = readOf[k] /\ got'[k] \in Loadable
        BY DEF ReadsInOrder, MayAdapt, CompleteRecords, Parses, TrainingReady
    <2>1. CASE k = l
        BY <1>1, <1>2, <2>1
    <2>2. CASE k # l
        BY <1>1, <2>2 DEF ReadsInOrder
    <2> QED
        BY <2>1, <2>2
<1> QED
    BY <1>1, <1>2, <1>3, <1>4, <1>5

LEMMA OpenAdaptedInv == ASSUME DataInv, NEW l \in Loader, OpenAdapted(l) PROVE DataInv'
<1> USE DEF DataInv
<1>1. /\ loading[l] = "open" /\ loading' = [loading EXCEPT ![l] = "write"]
      /\ UNCHANGED <<manifest, source, readOf, got, months, revisions>>
    BY DEF OpenAdapted, Goes
<1>2. got' \in [Loader -> {Nothing} \cup Pair] /\ \A k \in Loader : k # l => got'[k] = got[k]
    BY <1>1 DEF LoadsHaveShapes
<1>3. /\ \A k \in Loader : k # l => loading'[k] = loading[k]
      /\ loading'[l] = "write" /\ PathOf(l) = readOf[l] /\ readOf[l] \in Pair
      /\ LoadsHaveShapes' /\ ReadsInOrder'
    BY <1>1, <1>2, FileStepKeeps
<1>4. PICK path \in Pair : path = readOf[l]
    BY <1>3
<1>5. /\ DOMAIN adapted' = DOMAIN adapted \cup {path}
      /\ DOMAIN truncatedBy' = DOMAIN truncatedBy \cup {path}
      /\ adapted'[path] = Partial /\ truncatedBy'[path] = l
      /\ \A q \in DOMAIN adapted : q # path => adapted'[q] = adapted[q]
      /\ \A q \in DOMAIN truncatedBy : q # path => truncatedBy'[q] = truncatedBy[q]
    BY <1>3, <1>4 DEF OpenAdapted, WithFile
<1>6. FilesAreNamed'
    <2>1. \A q \in DOMAIN adapted' : q \in Pair /\ adapted'[q] \in {q, Partial}
        BY <1>4, <1>5 DEF FilesAreNamed
    <2>2. \A q \in DOMAIN truncatedBy' :
            truncatedBy'[q] \in Loader /\ readOf[truncatedBy'[q]] = q
        BY <1>4, <1>5 DEF FilesAreNamed
    <2>3. ASSUME NEW k \in Loader
          PROVE  /\ loading'[k] \in {"write", "read"} => readOf[k] \in DOMAIN adapted'
                 /\ loading'[k] = "read" /\ truncatedBy'[readOf[k]] = k =>
                      adapted'[readOf[k]] = readOf[k]
        <3>1. CASE k = l
            BY <1>3, <1>4, <1>5, <3>1
        <3>2. CASE k # l
            BY <1>3, <1>4, <1>5, <3>2 DEF FilesAreNamed
        <3> QED
            BY <3>1, <3>2
    <2> QED
        BY <1>1, <1>5, <2>1, <2>2, <2>3 DEF FilesAreNamed
<1>7. FailsForAReason'
    BY <1>1, <1>3 DEF FailsForAReason, MayAdapt, CompleteRecords, Parses, TrainingReady
<1> QED
    BY <1>1, <1>3, <1>6, <1>7

LEMMA WriteAdaptedInv == ASSUME DataInv, NEW l \in Loader, WriteAdapted(l) PROVE DataInv'
<1> USE DEF DataInv
<1>1. /\ loading[l] = "write" /\ loading' = [loading EXCEPT ![l] = "read"]
      /\ UNCHANGED <<manifest, source, truncatedBy, readOf, got, months, revisions>>
    BY DEF WriteAdapted, Goes
<1>2. got' \in [Loader -> {Nothing} \cup Pair] /\ \A k \in Loader : k # l => got'[k] = got[k]
    BY <1>1 DEF LoadsHaveShapes
<1>3. /\ \A k \in Loader : k # l => loading'[k] = loading[k]
      /\ loading'[l] = "read" /\ PathOf(l) = readOf[l] /\ readOf[l] \in Pair
      /\ LoadsHaveShapes' /\ ReadsInOrder'
    BY <1>1, <1>2, FileStepKeeps
<1>4. PICK path \in Pair : path = readOf[l]
    BY <1>3
<1>5. path \in DOMAIN adapted
    BY <1>1, <1>4 DEF FilesAreNamed
<1>6. /\ DOMAIN adapted' = DOMAIN adapted
      /\ \A q \in DOMAIN adapted : q # path => adapted'[q] = adapted[q]
      /\ adapted'[path] = path \/ (adapted'[path] = adapted[path] /\ truncatedBy[path] # l)
    BY <1>3, <1>4, <1>5 DEF WriteAdapted
<1>7. FilesAreNamed'
    <2>1. \A q \in DOMAIN adapted' : q \in Pair /\ adapted'[q] \in {q, Partial}
        BY <1>4, <1>6 DEF FilesAreNamed
    <2>2. ASSUME NEW k \in Loader
          PROVE  /\ loading'[k] \in {"write", "read"} => readOf[k] \in DOMAIN adapted'
                 /\ loading'[k] = "read" /\ truncatedBy[readOf[k]] = k =>
                      adapted'[readOf[k]] = readOf[k]
        <3>1. CASE k = l
            BY <1>3, <1>4, <1>5, <1>6, <3>1
        <3>2. CASE k # l
            BY <1>3, <1>4, <1>6, <3>2 DEF FilesAreNamed
        <3> QED
            BY <3>1, <3>2
    <2> QED
        BY <1>1, <1>6, <2>1, <2>2 DEF FilesAreNamed
<1>8. FailsForAReason'
    BY <1>1, <1>3 DEF FailsForAReason, MayAdapt, CompleteRecords, Parses, TrainingReady
<1> QED
    BY <1>1, <1>3, <1>7, <1>8

\* A load fails to read its file back only if another load has truncated it.
LEMMA ReadAdaptedInv == ASSUME DataInv, NEW l \in Loader, ReadAdapted(l) PROVE DataInv'
<1> USE DEF DataInv
<1>1. PICK content : content = adapted[PathOf(l)]
    OBVIOUS
<1>2. PICK step \in {"loaded", "failed"} :
        step = IF content \in Loadable THEN "loaded" ELSE "failed"
    OBVIOUS
<1>3. /\ loading[l] = "read" /\ loading' = [loading EXCEPT ![l] = step]
      /\ got' = [got EXCEPT ![l] = IF content \in Loadable THEN content ELSE got[l]]
      /\ UNCHANGED <<manifest, source, adapted, truncatedBy, readOf, months, revisions>>
    BY <1>1, <1>2 DEF ReadAdapted, Goes
<1>4. readOf[l] \in Pair /\ PathOf(l) = readOf[l]
    BY <1>3, PairsAre DEF ReadsInOrder, PathOf
<1>5. /\ readOf[l] \in DOMAIN adapted /\ content \in {readOf[l], Partial}
      /\ truncatedBy[readOf[l]] = l => content = readOf[l]
    BY <1>1, <1>3, <1>4 DEF FilesAreNamed
<1>6. content \in Loadable => content = readOf[l]
    BY <1>5, PairsAre
<1>7. /\ got' \in [Loader -> {Nothing} \cup Pair]
      /\ \A k \in Loader : k # l => got'[k] = got[k]
      /\ content \in Loadable => got'[l] = content
    BY <1>3, <1>4, <1>6 DEF LoadsHaveShapes
<1>8. /\ \A k \in Loader : k # l => loading'[k] = loading[k]
      /\ loading'[l] = step /\ LoadsHaveShapes' /\ ReadsInOrder'
    BY <1>2, <1>3, <1>6, <1>7, FileStepKeeps
<1>9. FilesAreNamed'
    <2>1. ASSUME NEW k \in Loader
          PROVE  /\ loading'[k] \in {"write", "read"} => readOf[k] \in DOMAIN adapted
                 /\ loading'[k] = "read" /\ truncatedBy[readOf[k]] = k =>
                      adapted[readOf[k]] = readOf[k]
        BY <1>2, <1>8 DEF FilesAreNamed
    <2> QED
        BY <1>3, <2>1 DEF FilesAreNamed
<1>10. FailsForAReason'
    <2> SUFFICES ASSUME NEW k \in Loader, loading'[k] = "failed", readOf[k] \in Loadable
                 PROVE  \/ ~MayAdapt(readOf[k][1], Sources[readOf[k][2]])
                        \/ \E j \in Loader \ {k} : readOf[j] = readOf[k]
        BY <1>3 DEF FailsForAReason, MayAdapt, CompleteRecords, Parses, TrainingReady
    <2>1. CASE k = l
        <3>1. content # readOf[l]
            BY <1>2, <1>8, <2>1
        <3>2. truncatedBy[readOf[l]] # l
            BY <1>5, <3>1
        <3>3. /\ truncatedBy[readOf[l]] \in Loader
              /\ readOf[truncatedBy[readOf[l]]] = readOf[l]
            BY <1>5 DEF FilesAreNamed
        <3> QED
            BY <2>1, <3>2, <3>3
    <2>2. CASE k # l
        BY <1>8, <2>2 DEF FailsForAReason
    <2> QED
        BY <2>1, <2>2
<1> QED
    BY <1>3, <1>8, <1>9, <1>10

\* The operator replaces a file, and the months are read: neither touches a load.
LEMMA OtherStepsInv ==
    ASSUME DataInv, Replace \/ \E n \in MonthCounts : LoadMonths(n)
    PROVE  DataInv'
<1> USE DEF DataInv
<1>1. UNCHANGED <<adapted, truncatedBy, loading, readOf, got>>
    BY DEF Replace, LoadMonths
<1>2. LoadsHaveShapes' /\ ReadsInOrder' /\ FilesAreNamed' /\ FailsForAReason'
    BY <1>1 DEF LoadsHaveShapes, ReadsInOrder, FilesAreNamed, FailsForAReason, MayAdapt,
                CompleteRecords, Parses, TrainingReady
<1>3. CASE Replace
    BY <1>2, <1>3, DataAssumption DEF Replace
<1>4. CASE \E n \in MonthCounts : LoadMonths(n)
    BY <1>2, <1>4 DEF LoadMonths
<1> QED
    BY <1>3, <1>4

\* The inductive invariant of the loads.
THEOREM DataInvariance == DataSpec => []DataInv
<1>1. DataInit => DataInv
    BY DataInitInv
<1>2. DataInv /\ [DataNext]_dataVars => DataInv'
    <2> SUFFICES ASSUME DataInv, [DataNext]_dataVars PROVE DataInv'
        OBVIOUS
    <2>1. CASE Replace \/ \E n \in MonthCounts : LoadMonths(n)
        BY <2>1, OtherStepsInv
    <2>2. ASSUME NEW l \in Loader,
                 \/ ReadManifest(l) \/ ReadPlain(l) \/ ReadSource(l)
                 \/ OpenAdapted(l) \/ WriteAdapted(l) \/ ReadAdapted(l)
          PROVE  DataInv'
        BY <2>2, ReadManifestInv, ReadPlainInv, ReadSourceInv, OpenAdaptedInv, WriteAdaptedInv,
           ReadAdaptedInv
    <2>3. CASE UNCHANGED dataVars
        BY <2>3 DEF dataVars, DataInv, LoadsHaveShapes, ReadsInOrder, FilesAreNamed,
                    FailsForAReason, MayAdapt, CompleteRecords, Parses, TrainingReady
    <2> QED
        BY <2>1, <2>2, <2>3 DEF DataNext
<1> QED
    BY <1>1, <1>2, PTL DEF DataSpec

\* In any number of processes, whatever the operator replaces between the steps of a load:
\* it hands over the records of the manifest and the file it read itself, and on records
\* that can be used it fails only where another load of the same was rewriting the file
\* (loadResolvedRlTrainingDataset).
THEOREM LoadsKeepTheirWord == DataSpec => [](HandsOverItsOwn /\ FailsForAReason)
<1>1. DataInv => HandsOverItsOwn /\ FailsForAReason
    BY DEF DataInv, ReadsInOrder, HandsOverItsOwn
<1> QED
    BY <1>1, DataInvariance, PTL

\* However many months the loader takes: the segments by month follow one another without a gap
\* and no month is on both sides of a border (coreOperationsGroupedDataset.ts); those by record
\* (portBusinessDataset.ts) do so exactly from 26 months on, have something to validate on exactly
\* from 26 on, and are tested on nothing they were trained on exactly from 25 on; and of the 377
\* months there are every disturbance occurs in each segment.
THEOREM SegmentsStaySound ==
    ASSUME PublicMonths = 377
    PROVE  DataSpec => []SegmentsAreSound
<1>1. DataInv => SegmentsAreSound
    <2> SUFFICES ASSUME DataInv, months # 0 PROVE months \in SoundMonths
        BY DEF SegmentsAreSound
    <2>1. months \in MonthCounts /\ months \in Nat /\ Acceptable(months)
        BY DataAssumption DEF DataInv
    <2>2. KeepApart(months)
        BY <2>1, MonthsKeepApart
    <2>3. months = PublicMonths => SeeEverything(months)
        BY EverythingIsSeen
    <2> QED
        BY <2>1, <2>2, <2>3 DEF SoundMonths
<1> QED
    BY <1>1, DataInvariance, PTL

----------------------------------------------------------------------------
(* Sorting.  The records chosen so far, each once, in the order of their    *)
(* keys: the next one is put before the first that is later.                *)

\* An order of the positions in set.
IsOrder(order, m, set, key) ==
    /\ m \in Nat /\ order \in [1 .. m -> set]
    /\ \A i, j \in 1 .. m : i # j => order[i] # order[j]
    /\ \A n \in set : \E j \in 1 .. m : order[j] = n
    /\ \A i, j \in 1 .. m : i < j => key[order[i]] <= key[order[j]]

\* Where a position goes.
LEMMA InsertedIs ==
    ASSUME NEW N \in Nat, NEW key \in [1 .. N -> Int], NEW n \in 1 .. N,
           NEW order \in Seq(1 .. N)
    PROVE  \E place \in 1 .. Len(order) + 1 :
              /\ Inserted(order, n, key) =
                    [j \in 1 .. Len(order) + 1 |->
                        IF j < place THEN order[j] ELSE IF j = place THEN n ELSE order[j - 1]]
              /\ \A j \in 1 .. Len(order) : j < place => key[order[j]] <= key[n]
              /\ place <= Len(order) => key[order[place]] > key[n]
<1> DEFINE end == Len(order) + 1
           later == {j \in 1 .. Len(order) : key[order[j]] > key[n]}
           First(p) == p \in later \cup {end} /\ \A k \in later \cup {end} : p <= k
<1>1. later \cup {end} \in SUBSET Nat /\ later \cup {end} # {}
    OBVIOUS
<1>2. \E p : First(p)
    <2> HIDE DEF later, end
    <2> QED
        BY <1>1, Least
<1>3. PICK place : place = CHOOSE p \in later \cup {end} : \A k \in later \cup {end} : p <= k
    OBVIOUS
<1>4. First(place)
    <2> HIDE DEF later, end
    <2> QED
        BY <1>2, <1>3, Zenon
<1>5. place \in 1 .. end
    BY <1>4
<1>6. \A j \in 1 .. Len(order) : order[j] \in 1 .. N /\ key[order[j]] \in Int
    OBVIOUS
<1>7. \A j \in 1 .. Len(order) : j < place => key[order[j]] <= key[n]
    <2> SUFFICES ASSUME NEW j \in 1 .. Len(order), j < place, key[order[j]] > key[n] PROVE FALSE
        BY <1>6
    <2>1. j \in later
        OBVIOUS
    <2>2. place <= j
        BY <1>4, <2>1
    <2> QED
        BY <1>5, <2>2
<1>8. place <= Len(order) => key[order[place]] > key[n]
    BY <1>4
<1>9. Inserted(order, n, key) =
         [j \in 1 .. end |->
             IF j < place THEN order[j] ELSE IF j = place THEN n ELSE order[j - 1]]
    BY <1>3, Zenon DEF Inserted
<1> QED
    BY <1>5, <1>7, <1>8, <1>9

\* A position more of a set is one more of its count.
LEMMA InsertedOrders ==
    ASSUME NEW N \in Nat, NEW key \in [1 .. N -> Int], NEW n \in 1 .. N,
           NEW set \in SUBSET (1 .. N), n \notin set,
           NEW order \in Seq(1 .. N), IsOrder(order, Len(order), set, key)
    PROVE  /\ Inserted(order, n, key) \in Seq(1 .. N)
           /\ Len(Inserted(order, n, key)) = Len(order) + 1
           /\ IsOrder(Inserted(order, n, key), Len(order) + 1, set \cup {n}, key)
<1>1. PICK place \in 1 .. Len(order) + 1 :
         /\ Inserted(order, n, key) =
               [j \in 1 .. Len(order) + 1 |->
                   IF j < place THEN order[j] ELSE IF j = place THEN n ELSE order[j - 1]]
         /\ \A j \in 1 .. Len(order) : j < place => key[order[j]] <= key[n]
         /\ place <= Len(order) => key[order[place]] > key[n]
    BY InsertedIs
<1>2. PICK m \in Nat : m = Len(order)
    OBVIOUS
<1>3. PICK new : new = Inserted(order, n, key)
    OBVIOUS
<1>4. /\ place \in 1 .. m + 1
      /\ new = [j \in 1 .. m + 1 |->
                   IF j < place THEN order[j] ELSE IF j = place THEN n ELSE order[j - 1]]
      /\ \A j \in 1 .. m : j < place => key[order[j]] <= key[n]
      /\ place <= m => key[order[place]] > key[n]
    BY <1>1, <1>2, <1>3
<1>5. /\ order \in [1 .. m -> set]
      /\ \A i, j \in 1 .. m : i # j => order[i] # order[j]
      /\ \A k \in set : \E j \in 1 .. m : order[j] = k
      /\ \A i, j \in 1 .. m : i < j => key[order[i]] <= key[order[j]]
    BY <1>2 DEF IsOrder
<1>6. /\ \A j \in 1 .. m : order[j] \in set /\ order[j] \in 1 .. N /\ key[order[j]] \in Int
      /\ key[n] \in Int
    BY <1>5
<1>7. \A j \in 1 .. m + 1 :
         /\ j < place => j \in 1 .. m /\ new[j] = order[j]
         /\ j = place => new[j] = n
         /\ j > place => j - 1 \in 1 .. m /\ new[j] = order[j - 1]
    BY <1>2, <1>4
<1>8. new \in [1 .. m + 1 -> set \cup {n}]
    <2>1. \A j \in 1 .. m + 1 : new[j] \in set \cup {n}
        BY <1>4, <1>6, <1>7
    <2> QED
        BY <1>4, <2>1
<1>9. \A i, j \in 1 .. m + 1 : i # j => new[i] # new[j]
    <2> SUFFICES ASSUME NEW i \in 1 .. m + 1, NEW j \in 1 .. m + 1, i < j PROVE new[i] # new[j]
        BY <1>2
    <2>1. i \in Nat /\ j \in Nat /\ place \in Nat
        BY <1>2, <1>4
    <2>2. CASE j < place
        BY <1>5, <1>7, <2>1, <2>2
    <2>3. CASE j = place
        BY <1>6, <1>7, <2>1, <2>3
    <2>4. CASE place < i
        BY <1>5, <1>7, <2>1, <2>4
    <2>5. CASE place = i
        BY <1>6, <1>7, <2>1, <2>5
    <2>6. CASE i < place /\ place < j
        BY <1>5, <1>7, <2>1, <2>6
    <2> QED
        BY <2>1, <2>2, <2>3, <2>4, <2>5, <2>6
<1>10. \A k \in set \cup {n} : \E j \in 1 .. m + 1 : new[j] = k
    <2> SUFFICES ASSUME NEW k \in set PROVE \E j \in 1 .. m + 1 : new[j] = k
        BY <1>2, <1>4, <1>7
    <2>1. PICK j \in 1 .. m : order[j] = k
        BY <1>5
    <2>2. j \in 1 .. m + 1 /\ j + 1 \in 1 .. m + 1 /\ j \in Nat /\ place \in Nat
        BY <1>2, <1>4
    <2>3. CASE j < place
        BY <1>7, <2>1, <2>2, <2>3
    <2>4. CASE place <= j
        <3>1. new[j + 1] = order[j]
            BY <1>7, <2>2, <2>4
        <3> QED
            BY <2>1, <2>2, <3>1
    <2> QED
        BY <2>2, <2>3, <2>4
<1>11. \A i, j \in 1 .. m + 1 : i < j => key[new[i]] <= key[new[j]]
    <2> SUFFICES ASSUME NEW i \in 1 .. m + 1, NEW j \in 1 .. m + 1, i < j
                 PROVE  key[new[i]] <= key[new[j]]
        OBVIOUS
    <2>1. i \in Nat /\ j \in Nat /\ place \in Nat
        BY <1>2, <1>4
    <2>2. CASE j < place
        <3>1. i \in 1 .. m /\ new[i] = order[i] /\ j \in 1 .. m /\ new[j] = order[j]
            BY <1>7, <2>1, <2>2
        <3>2. key[order[i]] <= key[order[j]]
            BY <1>5, <3>1
        <3> QED
            BY <3>1, <3>2
    <2>3. CASE j = place
        BY <1>4, <1>7, <2>1, <2>3
    <2>4. CASE place < i
        <3>1. /\ i - 1 \in 1 .. m /\ new[i] = order[i - 1]
              /\ j - 1 \in 1 .. m /\ new[j] = order[j - 1] /\ i - 1 < j - 1
            BY <1>7, <2>1, <2>4
        <3>2. key[order[i - 1]] <= key[order[j - 1]]
            BY <1>5, <3>1
        <3> QED
            BY <3>1, <3>2
    <2>5. CASE i <= place /\ place < j
        <3>1. place \in 1 .. m /\ j - 1 \in 1 .. m /\ place <= j - 1
            BY <1>2, <2>1, <2>5
        <3>2. key[n] < key[order[place]]
            BY <1>4, <3>1
        <3>3. key[order[place]] <= key[order[j - 1]]
            <4>1. CASE place = j - 1
                BY <1>6, <3>1, <4>1
            <4>2. CASE place < j - 1
                BY <1>5, <3>1, <4>2
            <4> QED
                BY <2>1, <3>1, <4>1, <4>2
        <3>4. key[new[i]] <= key[n]
            BY <1>4, <1>6, <1>7, <2>1, <2>5
        <3>5. new[j] = order[j - 1]
            BY <1>7, <2>1, <2>5
        <3>6. key[new[i]] \in Int
            BY <1>6, <1>7, <2>1, <2>5
        <3>7. /\ key[n] \in Int /\ key[order[place]] \in Int /\ key[order[j - 1]] \in Int
            BY <1>6, <3>1
        <3>8. PICK a \in Int, b \in Int, c \in Int, d \in Int :
                 /\ a = key[new[i]] /\ b = key[n] /\ c = key[order[place]]
                 /\ d = key[order[j - 1]]
            BY <3>6, <3>7
        <3>9. a <= d
            <4>1. a <= b
                BY <3>4, <3>8
            <4>2. b < c
                BY <3>2, <3>8
            <4>3. c <= d
                BY <3>3, <3>8
            <4> QED
                BY <4>1, <4>2, <4>3
        <3> QED
            BY <3>5, <3>8, <3>9
    <2> QED
        BY <2>1, <2>2, <2>3, <2>4, <2>5
<1>12. new \in Seq(1 .. N) /\ Len(new) = m + 1
    <2>1. \A j \in 1 .. m + 1 : new[j] \in 1 .. N
        BY <1>8
    <2> QED
        BY <1>2, <1>4, <2>1
<1>13. IsOrder(new, m + 1, set \cup {n}, key)
    BY <1>2, <1>8, <1>9, <1>10, <1>11 DEF IsOrder
<1> QED
    BY <1>2, <1>3, <1>12, <1>13
\* What holds of 0, and of a number if it holds of the one before, holds of all.
LEMMA ByNumber ==
    ASSUME NEW N \in Nat, NEW good, 0 \in good, \A n \in 1 .. N : n - 1 \in good => n \in good
    PROVE  \A n \in 0 .. N : n \in good
<1> DEFINE bad == {n \in 0 .. N : n \notin good}
<1>1. ASSUME bad # {} PROVE FALSE
    <2>1. bad \in SUBSET Nat
        OBVIOUS
    <2> HIDE DEF bad
    <2>2. PICK n \in bad : \A m \in bad : n <= m
        BY <1>1, <2>1, Least
    <2>3. n \in 0 .. N /\ n \notin good
        BY <2>2 DEF bad
    <2>4. n # 0
        BY <2>3
    <2>5. n \in 1 .. N /\ n - 1 \in 0 .. N /\ n - 1 \notin bad
        BY <2>1, <2>2, <2>3, <2>4
    <2>6. n - 1 \in good
        BY <2>5 DEF bad
    <2> QED
        BY <2>3, <2>5, <2>6
<1> QED
    BY <1>1

\* The orders of the chosen positions up to each.
OrdersTo(f, M, chosen, key) ==
    f = [n \in 0 .. M |->
            IF n = 0 THEN << >>
            ELSE IF n \in chosen THEN Inserted(f[n - 1], n, key) ELSE f[n - 1]]

OrdersInTurn(f, M, chosen, key) ==
    /\ f[0] = << >>
    /\ \A n \in 1 .. M :
          f[n] = IF n \in chosen THEN Inserted(f[n - 1], n, key) ELSE f[n - 1]

LEMMA OrdersExist ==
    ASSUME NEW N \in Nat, NEW chosen, NEW key
    PROVE  \E f : OrdersTo(f, N, chosen, key)
<1> DEFINE good == {M \in 0 .. N : \E f : OrdersTo(f, M, chosen, key)}
<1>1. 0 \in good
    <2>1. OrdersTo([n \in 0 .. 0 |-> << >>], 0, chosen, key)
        BY DEF OrdersTo
    <2> QED
        BY <2>1
<1>2. ASSUME NEW M \in 1 .. N, M - 1 \in good PROVE M \in good
    <2>1. PICK g : OrdersTo(g, M - 1, chosen, key)
        BY <1>2
    <2>2. PICK f : f = [n \in 0 .. M |->
                          IF n = 0 THEN << >>
                          ELSE IF n \in chosen THEN Inserted(g[n - 1], n, key) ELSE g[n - 1]]
        OBVIOUS
    <2>3. \A n \in 0 .. M - 1 : f[n] = g[n]
        BY <2>1, <2>2 DEF OrdersTo
    <2>4. \A n \in 0 .. M : n # 0 => g[n - 1] = f[n - 1]
        BY <2>3
    <2>5. OrdersTo(f, M, chosen, key)
        BY <2>2, <2>4 DEF OrdersTo
    <2> QED
        BY <1>2, <2>5
<1> HIDE DEF good
<1>3. \A M \in 0 .. N : M \in good
    BY <1>1, <1>2, ByNumber
<1>4. N \in good
    BY <1>3
<1> QED
    BY <1>4 DEF good

LEMMA OrdersAre ==
    ASSUME NEW N \in Nat, NEW chosen, NEW key, NEW f, OrdersTo(f, N, chosen, key)
    PROVE  OrdersInTurn(f, N, chosen, key)
<1>1. \A n \in 0 .. N :
         f[n] = IF n = 0 THEN << >>
                ELSE IF n \in chosen THEN Inserted(f[n - 1], n, key) ELSE f[n - 1]
    BY DEF OrdersTo
<1>2. f[0] = << >>
    BY <1>1
<1>3. \A n \in 1 .. N : n \in 0 .. N /\ n # 0
    OBVIOUS
<1> QED
    BY <1>1, <1>2, <1>3 DEF OrdersInTurn

\* A sort: an order of a finite set of positions up to N.
Sorts(order, N, set, key) ==
    /\ order \in Seq(1 .. N) /\ IsFiniteSet(set)
    /\ Len(order) = Cardinality(set) /\ IsOrder(order, Len(order), set, key)

LEMMA InsertedSorts ==
    ASSUME NEW N \in Nat, NEW key \in [1 .. N -> Int], NEW n \in 1 .. N,
           NEW set \in SUBSET (1 .. N), n \notin set,
           NEW order, Sorts(order, N, set, key)
    PROVE  Sorts(Inserted(order, n, key), N, set \cup {n}, key)
<1>1. order \in Seq(1 .. N) /\ IsFiniteSet(set) /\ Len(order) = Cardinality(set)
    BY DEF Sorts
<1>2. IsOrder(order, Len(order), set, key)
    BY DEF Sorts
<1>3. /\ Inserted(order, n, key) \in Seq(1 .. N)
      /\ Len(Inserted(order, n, key)) = Len(order) + 1
      /\ IsOrder(Inserted(order, n, key), Len(order) + 1, set \cup {n}, key)
    BY <1>1, <1>2, InsertedOrders
<1>4. IsFiniteSet(set \cup {n}) /\ Cardinality(set \cup {n}) = Cardinality(set) + 1
    BY <1>1, FS_AddElement
<1> QED
    BY <1>1, <1>3, <1>4 DEF Sorts

\* In turn they sort what is chosen so far.
LEMMA OrdersKeep ==
    ASSUME NEW N \in Nat, NEW key \in [1 .. N -> Int], NEW chosen \in SUBSET (1 .. N),
           NEW f, OrdersInTurn(f, N, chosen, key)
    PROVE  Sorts(f[N], N, chosen, key)
<1> DEFINE so(n) == chosen \cap (1 .. n)
           good == {n \in 0 .. N : Sorts(f[n], N, so(n), key)}
<1>1. 0 \in good
    <2>1. so(0) = {}
        OBVIOUS
    <2>2. IsOrder(<< >>, 0, {}, key)
        BY DEF IsOrder
    <2>3. IsFiniteSet({}) /\ Cardinality({}) = 0
        BY FS_EmptySet
    <2>4. << >> \in Seq(1 .. N) /\ Len(<< >>) = 0
        OBVIOUS
    <2>5. Sorts(<< >>, N, {}, key)
        BY <2>2, <2>3, <2>4 DEF Sorts
    <2>6. f[0] = << >>
        BY DEF OrdersInTurn
    <2> QED
        BY <2>1, <2>5, <2>6
<1>2. ASSUME NEW n \in 1 .. N, n - 1 \in good PROVE n \in good
    <2>1. Sorts(f[n - 1], N, so(n - 1), key)
        BY <1>2
    <2>2. f[n] = IF n \in chosen THEN Inserted(f[n - 1], n, key) ELSE f[n - 1]
        BY DEF OrdersInTurn
    <2>3. Sorts(f[n], N, so(n), key)
        <3>1. CASE n \notin chosen
            <4>1. so(n) = so(n - 1)
                BY <3>1
            <4> HIDE DEF so
            <4> QED
                BY <2>1, <2>2, <3>1, <4>1
        <3>2. CASE n \in chosen
            <4>1. so(n) = so(n - 1) \cup {n}
                BY <3>2
            <4>2. n \notin so(n - 1) /\ so(n - 1) \in SUBSET (1 .. N)
                OBVIOUS
            <4> HIDE DEF so
            <4>3. Sorts(Inserted(f[n - 1], n, key), N, so(n - 1) \cup {n}, key)
                BY <2>1, <4>2, InsertedSorts
            <4> QED
                BY <2>2, <3>2, <4>1, <4>3
        <3> QED
            BY <3>1, <3>2
    <2> QED
        BY <2>3
<1> HIDE DEF good
<1>3. \A n \in 0 .. N : n \in good
    BY <1>1, <1>2, ByNumber
<1>4. N \in good
    BY <1>3
<1>5. so(N) = chosen
    OBVIOUS
<1> QED
    BY <1>4, <1>5 DEF good

\* What a sort promises: the chosen positions, each once, in the order of their keys.
LEMMA InOrderIs ==
    ASSUME NEW N \in Nat, NEW key \in [1 .. N -> Int], Len(key) = N,
           NEW chosen \in SUBSET (1 .. N)
    PROVE  Sorts(InOrder(chosen, key), N, chosen, key)
<1>1. PICK f : f = CHOOSE g : OrdersTo(g, N, chosen, key)
    OBVIOUS
<1>2. OrdersTo(f, N, chosen, key)
    BY <1>1, OrdersExist, Zenon
<1>3. InOrder(chosen, key) = f[N]
    BY <1>1, Zenon DEF InOrder, OrdersTo
<1>4. OrdersInTurn(f, N, chosen, key)
    BY <1>2, OrdersAre
<1>5. Sorts(f[N], N, chosen, key)
    BY <1>4, OrdersKeep, Zenon
<1> QED
    BY <1>3, <1>5, Zenon
----------------------------------------------------------------------------
(* The datasets.  Sorting keeps the records; what they lack is inferred     *)
(* from the train segment, which the sort put first.                        *)

\* What adapting does to the rows of a file.
LEMMA RowsForAre ==
    ASSUME NEW m \in Manifests, NEW s \in Contents
    PROVE  /\ Sources[s] \in Seq(SourceRecord) /\ RowsFor(m, s) \in Seq(SourceRecord)
           /\ Len(RowsFor(m, s)) = Len(Sources[s])
           /\ \A i \in 1 .. Len(Sources[s]) :
                 /\ RowsFor(m, s)[i].port = Sources[s][i].port
                 /\ RowsFor(m, s)[i].at = Sources[s][i].at
                 /\ RowsFor(m, s)[i].arrivals = Sources[s][i].arrivals
                 /\ RowsFor(m, s)[i].capacity = Sources[s][i].capacity
                 /\ m # NoManifest => RowsFor(m, s)[i].weather /\ RowsFor(m, s)[i].safety
<1>1. PICK rows : rows = Sources[s]
    OBVIOUS
<1>2. rows \in Seq(SourceRecord)
    BY <1>1, DataAssumption DEF Contents
<1>3. CASE m = NoManifest
    <2>1. RowsFor(m, s) = rows
        BY <1>1, <1>3 DEF RowsFor
    <2> QED
        BY <1>1, <1>2, <1>3, <2>1
<1>4. CASE m # NoManifest
    <2>1. RowsFor(m, s) = [i \in 1 .. Len(rows) |-> [rows[i] EXCEPT !.weather = TRUE, !.safety = TRUE]]
        BY <1>1, <1>2, <1>4 DEF RowsFor, Adapt
    <2>2. ASSUME NEW i \in 1 .. Len(rows)
          PROVE  /\ [rows[i] EXCEPT !.weather = TRUE, !.safety = TRUE] \in SourceRecord
                 /\ RowsFor(m, s)[i].port = rows[i].port
                 /\ RowsFor(m, s)[i].at = rows[i].at
                 /\ RowsFor(m, s)[i].arrivals = rows[i].arrivals
                 /\ RowsFor(m, s)[i].capacity = rows[i].capacity
                 /\ RowsFor(m, s)[i].weather /\ RowsFor(m, s)[i].safety
        <3>1. PICK r \in SourceRecord : r = rows[i]
            BY <1>2
        <3>2. RowsFor(m, s)[i] = [r EXCEPT !.weather = TRUE, !.safety = TRUE]
            BY <2>1, <3>1
        <3>3. PICK q : q = [r EXCEPT !.weather = TRUE]
            OBVIOUS
        <3>4. /\ q \in SourceRecord /\ q.port = r.port /\ q.at = r.at /\ q.arrivals = r.arrivals
              /\ q.capacity = r.capacity /\ q.weather
            BY <3>1, <3>3 DEF SourceRecord
        <3>5. PICK t : t = [q EXCEPT !.safety = TRUE]
            OBVIOUS
        <3>6. /\ t \in SourceRecord /\ t.port = q.port /\ t.at = q.at /\ t.arrivals = q.arrivals
              /\ t.capacity = q.capacity /\ t.weather /\ t.safety
            BY <3>4, <3>5 DEF SourceRecord
        <3>7. RowsFor(m, s)[i] = t /\ t = [rows[i] EXCEPT !.weather = TRUE, !.safety = TRUE]
            BY <3>1, <3>2, <3>3, <3>5
        <3> QED
            BY <3>1, <3>4, <3>6, <3>7
    <2>3. RowsFor(m, s) \in Seq(SourceRecord) /\ Len(RowsFor(m, s)) = Len(rows)
        <3> DEFINE Row(i) == [rows[i] EXCEPT !.weather = TRUE, !.safety = TRUE]
        <3>1. RowsFor(m, s) = [i \in 1 .. Len(rows) |-> Row(i)]
            BY <2>1, Zenon
        <3>2. \A i \in 1 .. Len(rows) : Row(i) \in SourceRecord
            BY <2>2
        <3> HIDE DEF Row
        <3>3. Len(rows) \in Nat
            BY <1>2
        <3> QED
            BY <3>1, <3>2, <3>3
    <2> QED
        BY <1>1, <1>2, <1>4, <2>2, <2>3
<1> QED
    BY <1>3, <1>4

\* The positions of the valid records of a port.
Of(rows, named) == {i \in 1 .. Len(rows) : rows[i].arrivals > 0 /\ rows[i].port = named}
Times(rows) == [i \in 1 .. Len(rows) |-> rows[i].at]

\* The records in order are the rows at the positions of a sort.
InTimes(of, order, rows, named) ==
    /\ Sorts(order, Len(rows), Of(rows, named), Times(rows))
    /\ of = [j \in 1 .. Len(order) |-> rows[order[j]]]

LEMMA OrderedIs ==
    ASSUME NEW rows \in Seq(SourceRecord), NEW named
    PROVE  \E order : InTimes(Ordered(rows, named), order, rows, named)
<1>1. PICK N \in Nat : N = Len(rows)
    OBVIOUS
<1>2. PICK key : key = Times(rows)
    OBVIOUS
<1>3. PICK order : order = InOrder(Of(rows, named), key)
    OBVIOUS
<1>4. key \in [1 .. N -> Int] /\ Len(key) = N
    <2>1. ASSUME NEW i \in 1 .. N PROVE rows[i].at \in Int
        <3>1. rows[i] \in SourceRecord
            BY <1>1
        <3> QED
            BY <3>1 DEF SourceRecord
    <2> QED
        BY <1>1, <1>2, <2>1 DEF Times
<1>5. Of(rows, named) \in SUBSET (1 .. N)
    BY <1>1 DEF Of
<1>6. Sorts(order, N, Of(rows, named), key)
    BY <1>3, <1>4, <1>5, InOrderIs
<1>7. DOMAIN rows = 1 .. N
    BY <1>1
<1>8. {i \in Valid(rows) : rows[i].port = named} = Of(rows, named)
    BY <1>1, <1>7 DEF Valid, Of
<1>9. [i \in DOMAIN rows |-> rows[i].at] = key
    BY <1>1, <1>2, <1>7 DEF Times
<1>10. Ordered(rows, named) = [j \in DOMAIN order |-> rows[order[j]]]
    BY <1>3, <1>8, <1>9 DEF Ordered
<1>11. DOMAIN order = 1 .. Len(order)
    BY <1>6 DEF Sorts
<1> QED
    BY <1>1, <1>2, <1>6, <1>10, <1>11 DEF InTimes

\* What it comes to be in words of the rows.
LEMMA InTimesAre ==
    ASSUME NEW rows \in Seq(SourceRecord), NEW named, NEW of, NEW order,
           InTimes(of, order, rows, named)
    PROVE  /\ of \in Seq(SourceRecord) /\ Len(of) = Cardinality(Of(rows, named))
           /\ Len(of) = Len(order) /\ Len(of) <= Len(rows)
           /\ \A j \in 1 .. Len(of) : order[j] \in Of(rows, named) /\ of[j] = rows[order[j]]
           /\ \A i \in Of(rows, named) : \E j \in 1 .. Len(of) : of[j] = rows[i]
           /\ \A i, j \in 1 .. Len(of) : i < j => of[i].at <= of[j].at
<1>1. PICK N \in Nat : N = Len(rows)
    OBVIOUS
<1>2. PICK set : set = Of(rows, named)
    OBVIOUS
<1>3. set \in SUBSET (1 .. N)
    BY <1>1, <1>2 DEF Of
<1>4. /\ order \in Seq(1 .. N) /\ IsFiniteSet(set) /\ Len(order) = Cardinality(set)
      /\ IsOrder(order, Len(order), set, Times(rows))
      /\ of = [j \in 1 .. Len(order) |-> rows[order[j]]]
    BY <1>1, <1>2 DEF InTimes, Sorts
<1>5. PICK M \in Nat : M = Len(order)
    BY <1>4
<1>6. /\ \A j \in 1 .. M : order[j] \in set
      /\ \A n \in set : \E j \in 1 .. M : order[j] = n
      /\ \A i, j \in 1 .. M : i < j => Times(rows)[order[i]] <= Times(rows)[order[j]]
    BY <1>4, <1>5 DEF IsOrder
<1>7. \A j \in 1 .. M : order[j] \in 1 .. N /\ rows[order[j]] \in SourceRecord
    <2>1. \A j \in 1 .. M : order[j] \in 1 .. N
        BY <1>3, <1>6
    <2>2. \A i \in 1 .. N : rows[i] \in SourceRecord
        BY <1>1
    <2> QED
        BY <2>1, <2>2
<1>8. of \in Seq(SourceRecord) /\ Len(of) = M /\ \A j \in 1 .. M : of[j] = rows[order[j]]
    BY <1>4, <1>5, <1>7
<1>9. M <= N
    <2>1. IsFiniteSet(1 .. N) /\ Cardinality(1 .. N) = N
        BY FS_Interval
    <2>2. Cardinality(set) <= N
        BY <1>3, <2>1, FS_Subset
    <2> QED
        BY <1>4, <1>5, <2>2
<1>10. \A i \in set : \E j \in 1 .. M : of[j] = rows[i]
    BY <1>6, <1>8
<1>11. \A i, j \in 1 .. M : i < j => of[i].at <= of[j].at
    <2>1. \A i \in 1 .. N : Times(rows)[i] = rows[i].at
        BY <1>1 DEF Times
    <2>2. \A j \in 1 .. M : Times(rows)[order[j]] = of[j].at
        BY <1>7, <1>8, <2>1
    <2> QED
        BY <1>6, <2>2
<1> QED
    BY <1>1, <1>2, <1>4, <1>5, <1>6, <1>8, <1>9, <1>10, <1>11
LEMMA CountOfFirst ==
    ASSUME NEW b \in Nat
    PROVE  IsFiniteSet(1 .. b) /\ Cardinality(1 .. b) = b
<1>1. IsFiniteSet(1 .. b) /\ Cardinality(1 .. b) = IF 1 > b THEN 0 ELSE b - 1 + 1
    BY FS_Interval
<1> QED
    BY <1>1

\* Of a sorted sequence: as many do not exceed the one at p as come before it, and no more
\* than come before it are less.
HasRank(T, key, c, p) ==
    /\ Cardinality({i \in 1 .. T : key[i] <= c}) \in Nat
    /\ Cardinality({i \in 1 .. T : key[i] <= c}) >= p
    /\ Cardinality({i \in 1 .. T : key[i] < c}) \in Nat
    /\ Cardinality({i \in 1 .. T : key[i] < c}) <= p - 1

LEMMA RankIs ==
    ASSUME NEW T \in Nat, NEW key \in [1 .. T -> Int], NEW order, Sorts(order, T, 1 .. T, key),
           NEW p \in 1 .. T, NEW c, c = key[order[p]]
    PROVE  order[p] \in 1 .. T /\ HasRank(T, key, c, p)
<1>1. IsFiniteSet(1 .. T) /\ Cardinality(1 .. T) = T
    BY FS_Interval
<1>2. Len(order) = T /\ IsOrder(order, T, 1 .. T, key)
    BY <1>1 DEF Sorts
<1>3. /\ \A j \in 1 .. T : order[j] \in 1 .. T
      /\ \A i, j \in 1 .. T : i # j => order[i] # order[j]
      /\ \A n \in 1 .. T : \E j \in 1 .. T : order[j] = n
      /\ \A i, j \in 1 .. T : i < j => key[order[i]] <= key[order[j]]
    BY <1>2 DEF IsOrder
<1>4. c \in Int /\ order[p] \in 1 .. T
    BY <1>3
<1> DEFINE upTo == {i \in 1 .. T : key[i] <= c}
           under == {i \in 1 .. T : key[i] < c}
<1>5. upTo \in SUBSET (1 .. T) /\ under \in SUBSET (1 .. T)
    OBVIOUS
<1>6. /\ IsFiniteSet(upTo) /\ Cardinality(upTo) \in Nat
      /\ IsFiniteSet(under) /\ Cardinality(under) \in Nat
    <2> HIDE DEF upTo, under
    <2> QED
        BY <1>1, <1>5, FS_Subset, FS_CardinalityType
<1>7. Cardinality(upTo) >= p
    <2> DEFINE f == [q \in 1 .. p |-> order[q]]
    <2>1. \A q \in 1 .. p : q \in 1 .. T /\ order[q] \in upTo
        <3> SUFFICES ASSUME NEW q \in 1 .. p PROVE q \in 1 .. T /\ order[q] \in upTo
            OBVIOUS
        <3>1. q \in 1 .. T
            OBVIOUS
        <3>2. CASE q = p
            BY <1>3, <1>4, <3>2
        <3>3. CASE q < p
            BY <1>3, <1>4, <3>1, <3>3
        <3> QED
            BY <3>1, <3>2, <3>3
    <2> HIDE DEF upTo
    <2>2. f \in [1 .. p -> upTo] /\ \A a, b \in 1 .. p : f[a] = f[b] => a = b
        BY <1>3, <2>1
    <2> HIDE DEF f
    <2>3. f \in Injection(1 .. p, upTo)
        BY <2>2 DEF Injection, IsInjective
    <2>4. Cardinality(1 .. p) <= Cardinality(upTo)
        BY <1>6, <2>3, FS_Injection
    <2>5. Cardinality(1 .. p) = p
        <3>1. p \in Int /\ ~ (1 > p)
            OBVIOUS
        <3> QED
            BY <3>1, FS_Interval
    <2> QED
        BY <2>4, <2>5
<1>8. Cardinality(under) <= p - 1
    <2> DEFINE f == [q \in 1 .. p - 1 |-> order[q]]
               first == {order[q] : q \in 1 .. p - 1}
    <2>1. under \subseteq first
        <3> SUFFICES ASSUME NEW i \in 1 .. T, key[i] < c PROVE i \in first
            OBVIOUS
        <3>1. PICK q \in 1 .. T : order[q] = i
            BY <1>3
        <3>2. ~ (p <= q)
            <4>1. CASE p = q
                BY <1>4, <3>1, <4>1
            <4>2. ASSUME p < q PROVE FALSE
                <5>1. key[order[p]] <= key[order[q]]
                    BY <1>3, <3>1, <4>2
                <5> QED
                    BY <1>4, <3>1, <5>1
            <4> QED
                BY <4>1, <4>2
        <3>3. q \in 1 .. p - 1
            BY <3>2
        <3> QED
            BY <3>1, <3>3
    <2>2. f \in [1 .. p - 1 -> first] /\ \A x \in first : \E q \in 1 .. p - 1 : f[q] = x
        OBVIOUS
    <2> HIDE DEF f, first, under
    <2>3. f \in Surjection(1 .. p - 1, first)
        BY <2>2 DEF Surjection
    <2>4. IsFiniteSet(1 .. p - 1) /\ Cardinality(1 .. p - 1) = p - 1
        <3>1. p - 1 \in Nat
            OBVIOUS
        <3> QED
            BY <3>1, CountOfFirst, Zenon
    <2>5. IsFiniteSet(first) /\ Cardinality(first) <= p - 1
        BY <2>3, <2>4, FS_Surjection
    <2>6. Cardinality(under) <= Cardinality(first) /\ Cardinality(first) \in Nat
        BY <2>1, <2>5, FS_Subset, FS_CardinalityType
    <2> QED
        BY <1>6, <2>5, <2>6
<1> QED
    BY <1>4, <1>6, <1>7, <1>8 DEF HasRank

\* Nine tenths of the first T records do not exceed c, and one tenth reaches it.
IsTheir90th(rows, T, c) ==
    /\ \E j \in 1 .. T : rows[j].arrivals = c
    /\ 10 * Cardinality({i \in 1 .. T : rows[i].arrivals <= c}) >= 9 * (T - 1)
    /\ 10 * Cardinality({i \in 1 .. T : rows[i].arrivals < c}) <= 9 * (T - 1)

\* The percentile of some records.
LEMMA PercentileIs ==
    ASSUME NEW rows \in Seq(SourceRecord), NEW T \in Nat, T = Len(rows), T > 0
    PROVE  IsTheir90th(rows, T, Percentile90(rows))
<1> DEFINE c == Percentile90(rows)
<1>1. DOMAIN rows = 1 .. T
    OBVIOUS
<1>2. PICK key : key = [i \in 1 .. T |-> rows[i].arrivals]
    OBVIOUS
<1>3. /\ key \in [1 .. T -> Int] /\ \A i \in 1 .. T : key[i] = rows[i].arrivals /\ key[i] \in Nat
    <2>1. ASSUME NEW i \in 1 .. T PROVE rows[i].arrivals \in Nat
        <3>1. rows[i] \in SourceRecord
            OBVIOUS
        <3> QED
            BY <3>1 DEF SourceRecord
    <2> QED
        BY <1>2, <2>1
<1>4. Len(key) = T
    BY <1>2
<1>5. PICK order : order = InOrder(1 .. T, key)
    OBVIOUS
<1>6. Sorts(order, T, 1 .. T, key)
    BY <1>3, <1>4, <1>5, InOrderIs
<1>7. PICK p : p = 1 + (9 * (T - 1)) \div 10
    OBVIOUS
<1>8. p \in 1 .. T /\ 10 * p >= 9 * (T - 1) /\ 10 * (p - 1) <= 9 * (T - 1)
    BY <1>7
<1>9. c = key[order[p]]
    BY <1>1, <1>2, <1>5, <1>7 DEF Percentile90
<1> HIDE DEF c
<1> DEFINE upTo == {i \in 1 .. T : rows[i].arrivals <= c}
           under == {i \in 1 .. T : rows[i].arrivals < c}
<1>10. upTo = {i \in 1 .. T : key[i] <= c} /\ under = {i \in 1 .. T : key[i] < c}
    BY <1>3
<1>11. /\ order[p] \in 1 .. T
       /\ Cardinality(upTo) \in Nat /\ Cardinality(upTo) >= p
       /\ Cardinality(under) \in Nat /\ Cardinality(under) <= p - 1
    <2>1. order[p] \in 1 .. T /\ HasRank(T, key, c, p)
        BY <1>3, <1>6, <1>8, <1>9, RankIs
    <2>2. /\ Cardinality({i \in 1 .. T : key[i] <= c}) \in Nat
          /\ Cardinality({i \in 1 .. T : key[i] <= c}) >= p
          /\ Cardinality({i \in 1 .. T : key[i] < c}) \in Nat
          /\ Cardinality({i \in 1 .. T : key[i] < c}) <= p - 1
        BY <2>1, Zenon DEF HasRank
    <2> HIDE DEF upTo, under
    <2> QED
        BY <1>10, <2>1, <2>2
<1>12. rows[order[p]].arrivals = c /\ c \in Nat
    BY <1>3, <1>9, <1>11
<1> HIDE DEF upTo, under
<1>13. 10 * Cardinality(upTo) >= 9 * (T - 1) /\ 10 * Cardinality(under) <= 9 * (T - 1)
    BY <1>8, <1>11
<1> QED
    BY <1>11, <1>12, <1>13 DEF upTo, under, IsTheir90th, c
\* The records of a load, in order, and the rows they come from.
Loads(m, s, rows, of, order, named) ==
    /\ rows \in Seq(SourceRecord) /\ rows = RowsFor(m, s)
    /\ named = PortAsked(rows, PortOf(m)) /\ of = Ordered(rows, named)
    /\ InTimes(of, order, rows, named)
    /\ Len(of) >= 20 /\ \A i \in 2 .. Len(of) : of[i].at # of[i - 1].at

LEMMA LoadableIs ==
    ASSUME NEW m \in Manifests, NEW s \in Contents, <<m, s>> \in Loadable
    PROVE  \E rows, of, order, named : Loads(m, s, rows, of, order, named)
<1>1. PICK rows : rows = RowsFor(m, s)
    OBVIOUS
<1>2. PICK named : named = PortAsked(rows, PortOf(m))
    OBVIOUS
<1>3. PICK of : of = Ordered(rows, named)
    OBVIOUS
<1>4. rows \in Seq(SourceRecord)
    BY <1>1, RowsForAre
<1>5. PICK order : InTimes(of, order, rows, named)
    BY <1>3, <1>4, OrderedIs
<1>6. Usable(rows, PortOf(m))
    BY <1>1 DEF Loadable
<1>7. Len(of) >= 20 /\ \A i \in 2 .. Len(of) : of[i].at # of[i - 1].at
    BY <1>2, <1>3, <1>6 DEF Usable, Acceptable
<1>8. Loads(m, s, rows, of, order, named)
    BY <1>1, <1>2, <1>3, <1>4, <1>5, <1>7 DEF Loads
<1> QED
    BY <1>8

\* No two records of a load have the same time.
LEMMA TimesGrow ==
    ASSUME NEW m, NEW s, NEW rows, NEW of, NEW order, NEW named,
           Loads(m, s, rows, of, order, named)
    PROVE  \A i, j \in 1 .. Len(of) : i < j => of[i].at < of[j].at
<1>1. /\ of \in Seq(SourceRecord)
      /\ \A i, j \in 1 .. Len(of) : i < j => of[i].at <= of[j].at
      /\ \A i \in 2 .. Len(of) : of[i].at # of[i - 1].at
    BY InTimesAre DEF Loads
<1> SUFFICES ASSUME NEW i \in 1 .. Len(of), NEW j \in 1 .. Len(of), i < j
             PROVE  of[i].at < of[j].at
    OBVIOUS
<1>2. ASSUME NEW k \in 1 .. Len(of) PROVE of[k].at \in Nat
    <2>1. of[k] \in SourceRecord
        BY <1>1
    <2> QED
        BY <2>1 DEF SourceRecord
<1>3. i \in Nat /\ j \in Nat /\ Len(of) \in Nat /\ j - 1 \in 1 .. Len(of) /\ j \in 2 .. Len(of)
    BY <1>1
<1>4. PICK a \in Nat, b \in Nat, c \in Nat : a = of[i].at /\ b = of[j - 1].at /\ c = of[j].at
    BY <1>2, <1>3
<1>5. b <= c /\ c # b
    BY <1>1, <1>3, <1>4
<1>6. CASE i = j - 1
    BY <1>4, <1>5, <1>6
<1>7. CASE i < j - 1
    <2>1. a <= b
        BY <1>1, <1>3, <1>4, <1>7
    <2> QED
        BY <1>4, <1>5, <2>1
<1> QED
    BY <1>3, <1>6, <1>7

\* The records handed over differ from them in their capacities only.
FilledFrom(data, of) ==
    /\ DOMAIN data = 1 .. Len(of) /\ Len(data) = Len(of)
    /\ \A i \in 1 .. Len(of) :
          /\ data[i].port = of[i].port /\ data[i].at = of[i].at
          /\ data[i].arrivals = of[i].arrivals
          /\ data[i].capacity = IF of[i].capacity > 0 THEN of[i].capacity ELSE InferredCapacity(of)

ClaimMade(of) ==
    /\ Measured(of) /\ FullyCovered(of, {i \in DOMAIN of : of[i].weather})
    /\ FullyCovered(of, {i \in DOMAIN of : of[i].safety})

LEMMA DatasetIs ==
    ASSUME NEW m, NEW s, NEW rows, NEW of, NEW order, NEW named,
           Loads(m, s, rows, of, order, named),
           NEW data, data = Dataset(RowsFor(m, s), PortOf(m))
    PROVE  FilledFrom(data.records, of) /\ (data.claim => ClaimMade(of))
<1>1. /\ rows = RowsFor(m, s) /\ rows \in Seq(SourceRecord) /\ of \in Seq(SourceRecord)
      /\ named = PortAsked(rows, PortOf(m)) /\ of = Ordered(rows, named)
    BY InTimesAre DEF Loads
<1> DEFINE Filled(i) ==
        [of[i] EXCEPT !.capacity = IF @ > 0 THEN @ ELSE InferredCapacity(of)]
           backed == /\ Measured(of) /\ FullyCovered(of, {i \in DOMAIN of : of[i].weather})
                     /\ FullyCovered(of, {i \in DOMAIN of : of[i].safety})
<1>2. data = [records |-> [i \in DOMAIN of |-> Filled(i)], claim |-> backed]
    BY <1>1, Zenon DEF Dataset
<1>3. \A i \in 1 .. Len(of) :
         /\ Filled(i).port = of[i].port /\ Filled(i).at = of[i].at
         /\ Filled(i).arrivals = of[i].arrivals
         /\ Filled(i).capacity = IF of[i].capacity > 0 THEN of[i].capacity ELSE InferredCapacity(of)
    <2> SUFFICES ASSUME NEW i \in 1 .. Len(of)
                 PROVE  /\ Filled(i).port = of[i].port /\ Filled(i).at = of[i].at
                        /\ Filled(i).arrivals = of[i].arrivals
                        /\ Filled(i).capacity =
                              IF of[i].capacity > 0 THEN of[i].capacity ELSE InferredCapacity(of)
        OBVIOUS
    <2>1. PICK r \in SourceRecord : r = of[i]
        BY <1>1
    <2>2. PICK c : c = InferredCapacity(of)
        OBVIOUS
    <2>3. Filled(i) = [r EXCEPT !.capacity = IF r.capacity > 0 THEN r.capacity ELSE c]
        BY <2>1, <2>2
    <2> HIDE DEF Filled
    <2>4. /\ Filled(i).port = r.port /\ Filled(i).at = r.at /\ Filled(i).arrivals = r.arrivals
          /\ Filled(i).capacity = IF r.capacity > 0 THEN r.capacity ELSE c
        BY <2>3 DEF SourceRecord
    <2> QED
        BY <2>1, <2>2, <2>4
<1> HIDE DEF Filled, backed
<1>4. data.records = [i \in 1 .. Len(of) |-> Filled(i)] /\ data.claim = backed
    BY <1>1, <1>2
<1>5. Len(of) \in Nat
    BY <1>1
<1>6. FilledFrom(data.records, of)
    BY <1>3, <1>4, <1>5 DEF FilledFrom
<1> QED
    BY <1>4, <1>6 DEF backed, ClaimMade
LEMMA RowsAreHandedOver ==
    ASSUME NEW m \in Manifests, NEW s \in Contents, NEW rows, NEW of, NEW order, NEW named,
           Loads(m, s, rows, of, order, named), NEW records, FilledFrom(records, of)
    PROVE  records[1].port = named /\ RecordsAreTheRows(records, Sources[s], records[1].port)
<1>1. PICK raw : raw = Sources[s]
    OBVIOUS
<1>2. /\ raw \in Seq(SourceRecord) /\ rows \in Seq(SourceRecord) /\ Len(rows) = Len(raw)
      /\ \A i \in 1 .. Len(raw) :
            rows[i].port = raw[i].port /\ rows[i].at = raw[i].at /\ rows[i].arrivals = raw[i].arrivals
    BY <1>1, RowsForAre DEF Loads
<1>3. /\ of \in Seq(SourceRecord) /\ Len(of) = Cardinality(Of(rows, named))
      /\ \A j \in 1 .. Len(of) : order[j] \in Of(rows, named) /\ of[j] = rows[order[j]]
      /\ \A i \in Of(rows, named) : \E j \in 1 .. Len(of) : of[j] = rows[i]
      /\ Len(of) >= 20
    <2>1. rows \in Seq(SourceRecord) /\ InTimes(of, order, rows, named) /\ Len(of) >= 20
        BY DEF Loads
    <2> QED
        BY <2>1, InTimesAre
<1>4. /\ DOMAIN records = 1 .. Len(of) /\ Len(records) = Len(of)
      /\ \A i \in 1 .. Len(of) :
            /\ records[i].port = of[i].port /\ records[i].at = of[i].at
            /\ records[i].arrivals = of[i].arrivals
    BY DEF FilledFrom
<1>5. records[1].port = named
    <2>1. 1 \in 1 .. Len(of)
        BY <1>3
    <2>2. order[1] \in Of(rows, named) /\ of[1] = rows[order[1]]
        BY <1>3, <2>1
    <2> QED
        BY <1>4, <2>1, <2>2 DEF Of
<1> DEFINE wanted == {i \in DOMAIN raw : raw[i].arrivals > 0 /\ raw[i].port = named}
           Key(r) == <<r.at, r.arrivals>>
<1>6. DOMAIN raw = 1 .. Len(raw)
    BY <1>2
<1>7. wanted = Of(rows, named)
    BY <1>2, <1>6 DEF Of
<1>8. {Key(records[i]) : i \in DOMAIN records} = {Key(raw[i]) : i \in wanted}
    <2>1. ASSUME NEW i \in 1 .. Len(of)
          PROVE  \E k \in Of(rows, named) : Key(records[i]) = Key(raw[k])
        <3>1. order[i] \in Of(rows, named) /\ order[i] \in 1 .. Len(raw) /\ of[i] = rows[order[i]]
            BY <1>2, <1>3 DEF Of
        <3>2. records[i].at = raw[order[i]].at /\ records[i].arrivals = raw[order[i]].arrivals
            BY <1>2, <1>4, <3>1
        <3> QED
            BY <3>1, <3>2
    <2>2. ASSUME NEW k \in Of(rows, named)
          PROVE  \E i \in 1 .. Len(of) : Key(raw[k]) = Key(records[i])
        <3>1. PICK i \in 1 .. Len(of) : of[i] = rows[k]
            BY <1>3
        <3>2. k \in 1 .. Len(raw)
            BY <1>2 DEF Of
        <3>3. records[i].at = raw[k].at /\ records[i].arrivals = raw[k].arrivals
            BY <1>2, <1>4, <3>1, <3>2
        <3> QED
            BY <3>3
    <2> HIDE DEF Key, wanted
    <2>3. {Key(records[i]) : i \in 1 .. Len(of)} = {Key(raw[i]) : i \in Of(rows, named)}
        <3>1. ASSUME NEW x \in {Key(records[i]) : i \in 1 .. Len(of)}
              PROVE  x \in {Key(raw[i]) : i \in Of(rows, named)}
            <4>1. PICK i \in 1 .. Len(of) : x = Key(records[i])
                OBVIOUS
            <4> QED
                BY <2>1, <4>1
        <3>2. ASSUME NEW x \in {Key(raw[i]) : i \in Of(rows, named)}
              PROVE  x \in {Key(records[i]) : i \in 1 .. Len(of)}
            <4>1. PICK k \in Of(rows, named) : x = Key(raw[k])
                OBVIOUS
            <4> QED
                BY <2>2, <4>1
        <3> QED
            BY <3>1, <3>2
    <2> QED
        BY <1>4, <1>7, <2>3, Zenon
<1>9. \A i, j \in DOMAIN records : i < j => records[i].at < records[j].at
    <2>1. \A i, j \in 1 .. Len(of) : i < j => of[i].at < of[j].at
        BY TimesGrow
    <2> QED
        BY <1>4, <2>1
<1>10. Len(records) = Cardinality(wanted) /\ Len(records) >= 20
    BY <1>3, <1>4, <1>7
<1> HIDE DEF wanted
<1>11. RecordsAreTheRows(records, raw, named)
    BY <1>8, <1>9, <1>10, Zenon DEF RecordsAreTheRows, wanted
<1> QED
    BY <1>1, <1>5, <1>11

\* The train segment of some records, and what is inferred from it.
LEMMA InferredIs ==
    ASSUME NEW of \in Seq(SourceRecord), Len(of) >= 20, NEW T, T = TrainEnd(Len(of))
    PROVE  T \in 1 .. Len(of) /\ IsTheir90th(of, T, InferredCapacity(of))
<1>1. T \in 1 .. Len(of)
    <2>1. PICK n \in Nat : n = Len(of)
        OBVIOUS
    <2> QED
        BY <2>1 DEF TrainEnd, AtLeast
<1>2. PICK train : train = SubSeq(of, 1, T)
    OBVIOUS
<1>3. train \in Seq(SourceRecord) /\ Len(train) = T /\ \A i \in 1 .. T : train[i] = of[i]
    BY <1>1, <1>2
<1>4. PICK c : c = Percentile90(train)
    OBVIOUS
<1>5. InferredCapacity(of) = c
    BY <1>2, <1>4 DEF InferredCapacity
<1>6. T \in Nat /\ T > 0
    BY <1>1
<1>7. IsTheir90th(train, T, c)
    BY <1>3, <1>4, <1>6, PercentileIs
<1>8. /\ {i \in 1 .. T : train[i].arrivals <= c} = {i \in 1 .. T : of[i].arrivals <= c}
      /\ {i \in 1 .. T : train[i].arrivals < c} = {i \in 1 .. T : of[i].arrivals < c}
      /\ \A i \in 1 .. T : train[i].arrivals = of[i].arrivals
    BY <1>3
<1>9. IsTheir90th(of, T, c)
    BY <1>7, <1>8 DEF IsTheir90th
<1> QED
    BY <1>1, <1>5, <1>9

LEMMA CapacitiesAreOfThePast ==
    ASSUME NEW m \in Manifests, NEW s \in Contents, NEW rows, NEW of, NEW order, NEW named,
           Loads(m, s, rows, of, order, named), NEW records, FilledFrom(records, of)
    PROVE  CapacityIsOfThePast(records, Sources[s])
<1>1. PICK raw : raw = Sources[s]
    OBVIOUS
<1>2. /\ raw \in Seq(SourceRecord) /\ rows \in Seq(SourceRecord) /\ Len(rows) = Len(raw)
      /\ \A i \in 1 .. Len(raw) : rows[i].at = raw[i].at /\ rows[i].capacity = raw[i].capacity
    BY <1>1, RowsForAre DEF Loads
<1>3. /\ of \in Seq(SourceRecord) /\ Len(of) >= 20
      /\ \A j \in 1 .. Len(of) : order[j] \in Of(rows, named) /\ of[j] = rows[order[j]]
    BY InTimesAre DEF Loads
<1>4. PICK T : T = TrainEnd(Len(of))
    OBVIOUS
<1>5. PICK c : c = InferredCapacity(of)
    OBVIOUS
<1>6. /\ DOMAIN records = 1 .. Len(of) /\ Len(records) = Len(of)
      /\ \A i \in 1 .. Len(of) :
            /\ records[i].at = of[i].at /\ records[i].arrivals = of[i].arrivals
            /\ records[i].capacity = IF of[i].capacity > 0 THEN of[i].capacity ELSE c
    BY <1>5 DEF FilledFrom
<1> DEFINE measured == {<<r.at, r.capacity>> : r \in {q \in Range(raw) : q.capacity > 0}}
           UpTo(x) == Cardinality({i \in 1 .. T : records[i].arrivals <= x})
           Under(x) == Cardinality({i \in 1 .. T : records[i].arrivals < x})
<1>7. /\ T \in 1 .. Len(of) /\ Cardinality(1 .. T) = T
      /\ \E j \in 1 .. T : records[j].arrivals = c
      /\ 10 * UpTo(c) >= 9 * (Cardinality(1 .. T) - 1)
      /\ 10 * Under(c) <= 9 * (Cardinality(1 .. T) - 1)
    <2>1. T \in 1 .. Len(of) /\ IsTheir90th(of, T, c)
        BY <1>3, <1>4, <1>5, InferredIs
    <2>2. \A i \in 1 .. T : records[i].arrivals = of[i].arrivals
        BY <1>3, <1>6, <2>1
    <2>3. /\ {i \in 1 .. T : records[i].arrivals <= c} = {i \in 1 .. T : of[i].arrivals <= c}
          /\ {i \in 1 .. T : records[i].arrivals < c} = {i \in 1 .. T : of[i].arrivals < c}
        BY <2>2
    <2>4. T \in Nat
        BY <1>3, <2>1
    <2>5. Cardinality(1 .. T) = T
        BY <2>4, CountOfFirst
    <2> QED
        BY <2>1, <2>2, <2>3, <2>5 DEF IsTheir90th
<1>8. ASSUME NEW i \in 1 .. Len(of)
      PROVE  <<records[i].at, records[i].capacity>> \in measured \/ records[i].capacity = c
    <2>1. CASE of[i].capacity > 0
        <3>1. order[i] \in 1 .. Len(raw) /\ of[i] = rows[order[i]]
            BY <1>2, <1>3 DEF Of
        <3>2. PICK q : q = raw[order[i]]
            OBVIOUS
        <3>3. q \in Range(raw) /\ q.at = records[i].at /\ q.capacity = records[i].capacity
            BY <1>2, <1>6, <2>1, <3>1, <3>2 DEF Range
        <3>4. q.capacity > 0
            BY <1>6, <2>1, <3>3
        <3> QED
            BY <3>3, <3>4
    <2>2. CASE ~ (of[i].capacity > 0)
        BY <1>6, <2>2
    <2> QED
        BY <2>1, <2>2
<1> HIDE DEF measured, UpTo, Under
<1>9. \A i \in DOMAIN records :
         \/ <<records[i].at, records[i].capacity>> \in measured
         \/ /\ \E j \in 1 .. T : records[j].arrivals = records[i].capacity
            /\ 10 * UpTo(records[i].capacity) >= 9 * (Cardinality(1 .. T) - 1)
            /\ 10 * Under(records[i].capacity) <= 9 * (Cardinality(1 .. T) - 1)
    BY <1>6, <1>7, <1>8, Zenon
<1>10. TrainEnd(Len(records)) = T
    BY <1>4, <1>6
<1>11. CapacityIsOfThePast(records, raw)
    BY <1>9, <1>10, Zenon DEF CapacityIsOfThePast, measured, UpTo, Under
<1> QED
    BY <1>1, <1>11
Lacks(of, lacking) == 2 * FullCoverage * Cardinality(lacking) <= Len(of)

\* A coverage that is rounded to full lacks half a unit at most.
LEMMA RoundedToFull ==
    ASSUME NEW full \in Nat, NEW n \in Nat, NEW k \in Nat, n > 0,
           (2 * full * k + n) \div (2 * n) = full
    PROVE  2 * full * (n - k) <= n
<1>1. PICK a \in Nat, b \in Nat : a = 2 * full * k + n /\ b = 2 * n /\ b > 0
    OBVIOUS
<1>2. PICK q \in Nat : q = full
    OBVIOUS
<1>3. a \div b = q
    BY <1>1, <1>2
<1>4. a >= q * b
    BY <1>1, <1>3
<1>5. q * b = 2 * full * n
    BY <1>1, <1>2
<1>6. 2 * full * k + n >= 2 * full * n
    BY <1>1, <1>4, <1>5
<1>7. 2 * full * (n - k) = 2 * full * n - 2 * full * k
    OBVIOUS
<1>8. PICK x \in Int, y \in Int, z \in Int :
            x = 2 * full * n /\ y = 2 * full * k /\ z = 2 * full * (n - k)
    OBVIOUS
<1> QED
    BY <1>6, <1>7, <1>8

LEMMA FullyCoveredIs ==
    ASSUME NEW of, Len(of) \in Nat, Len(of) > 0,
           NEW having \in SUBSET (1 .. Len(of)), FullyCovered(of, having)
    PROVE  Lacks(of, (1 .. Len(of)) \ having)
<1>1. PICK n \in Nat : n = Len(of)
    OBVIOUS
<1>2. IsFiniteSet(1 .. n) /\ Cardinality(1 .. n) = n
    BY CountOfFirst
<1>3. IsFiniteSet(having) /\ having \subseteq 1 .. n
    BY <1>1, <1>2, FS_Subset
<1>4. PICK k \in Nat : k = Cardinality(having)
    BY <1>3, FS_CardinalityType
<1>5. Cardinality((1 .. n) \ having) = n - k
    <2>1. (1 .. n) \cap having = having
        BY <1>3
    <2>2. Cardinality((1 .. n) \ having) = Cardinality(1 .. n) - Cardinality((1 .. n) \cap having)
        BY <1>2, FS_Difference, Zenon
    <2> QED
        BY <1>2, <1>4, <2>1, <2>2
<1>6. (2 * FullCoverage * k + n) \div (2 * n) = FullCoverage
    BY <1>1, <1>4 DEF FullyCovered, Coverage
<1>7. FullCoverage \in Nat
    BY DataAssumption
<1>8. 2 * FullCoverage * (n - k) <= n
    BY <1>1, <1>6, <1>7, RoundedToFull
<1> QED
    BY <1>1, <1>5, <1>8 DEF Lacks

\* A product grows with its factor.
LEMMA ProductGrows ==
    ASSUME NEW full \in Nat, NEW a \in Nat, NEW b \in Nat, a <= b
    PROVE  2 * full * a <= 2 * full * b
<1>1. PICK d \in Nat : b = a + d
    <2>1. b - a \in Nat /\ b = a + (b - a)
        OBVIOUS
    <2> QED
        BY <2>1
<1>2. 2 * full * b = 2 * full * a + 2 * full * d
    BY <1>1
<1>3. PICK x \in Nat, y \in Nat : x = 2 * full * a /\ y = 2 * full * d
    <2>1. 2 * full * a \in Nat /\ 2 * full * d \in Nat
        OBVIOUS
    <2> QED
        BY <2>1
<1> QED
    BY <1>2, <1>3

\* Of the rows of a port no more lack something than of its records in order.
LEMMA RowsLackNoMore ==
    ASSUME NEW rows \in Seq(SourceRecord), NEW named, NEW of, NEW order,
           InTimes(of, order, rows, named), NEW lacking \in SUBSET (1 .. Len(of)),
           NEW missing \in SUBSET Of(rows, named), Lacks(of, lacking),
           \A i \in missing : \E j \in lacking : order[j] = i
    PROVE  2 * FullCoverage * Cardinality(missing) <= Cardinality(Of(rows, named))
<1>1. /\ Len(of) \in Nat /\ Len(of) = Cardinality(Of(rows, named))
      /\ of \in Seq(SourceRecord)
    BY InTimesAre
<1>2. PICK n \in Nat : n = Len(of)
    BY <1>1
<1>3. IsFiniteSet(lacking)
    BY <1>2, CountOfFirst, FS_Subset
<1> DEFINE hit == {j \in lacking : order[j] \in missing}
           f == [j \in hit |-> order[j]]
<1>4. f \in Surjection(hit, missing)
    <2>1. f \in [hit -> missing]
        OBVIOUS
    <2>2. \A i \in missing : \E j \in hit : f[j] = i
        OBVIOUS
    <2> QED
        BY <2>1, <2>2 DEF Surjection
<1>5. hit \in SUBSET lacking
    OBVIOUS
<1> HIDE DEF hit, f
<1>6. IsFiniteSet(hit) /\ Cardinality(hit) <= Cardinality(lacking)
    BY <1>3, <1>5, FS_Subset
<1>7. IsFiniteSet(missing) /\ Cardinality(missing) <= Cardinality(hit)
    BY <1>4, <1>6, FS_Surjection
<1>8. PICK a \in Nat, b \in Nat : a = Cardinality(missing) /\ b = Cardinality(lacking) /\ a <= b
    <2>1. /\ Cardinality(missing) \in Nat /\ Cardinality(hit) \in Nat
          /\ Cardinality(lacking) \in Nat
        BY <1>3, <1>6, <1>7, FS_CardinalityType
    <2> QED
        BY <1>6, <1>7, <2>1
<1>9. PICK full \in Nat : full = FullCoverage
    BY DataAssumption
<1>10. 2 * full * b <= n
    BY <1>2, <1>8, <1>9 DEF Lacks
<1>11. 2 * full * a <= 2 * full * b
    BY <1>8, ProductGrows
<1>12. PICK x \in Int, y \in Int : x = 2 * full * a /\ y = 2 * full * b
    OBVIOUS
<1>13. 2 * full * a <= n
    BY <1>10, <1>11, <1>12
<1> QED
    BY <1>1, <1>2, <1>8, <1>9, <1>13

LEMMA ClaimsAreBacked ==
    ASSUME NEW m \in Manifests, NEW s \in Contents,
           NEW rows, NEW of, NEW order, NEW named, Loads(m, s, rows, of, order, named),
           NEW data, data = Dataset(RowsFor(m, s), PortOf(m)), data.records[1].port = named
    PROVE  ClaimIsBacked(m, s, data)
<1>1. PICK mine : mine = Of(rows, named)
    OBVIOUS
<1>2. /\ rows \in Seq(SourceRecord) /\ rows = RowsFor(m, s) /\ InTimes(of, order, rows, named)
      /\ Len(of) >= 20
    BY DEF Loads
<1>3. DOMAIN rows = 1 .. Len(rows)
    BY <1>2
<1>4. {i \in DOMAIN rows : rows[i].arrivals > 0 /\ rows[i].port = data.records[1].port} = mine
    BY <1>1, <1>3 DEF Of
<1> SUFFICES ASSUME Claim(m, data.claim)
             PROVE  /\ m = NoManifest \/ m.authorized
                    /\ \A i \in mine : Sources[s][i].capacity > 0
                    /\ 2 * FullCoverage * Cardinality({i \in mine : ~rows[i].weather})
                            <= Cardinality(mine)
                    /\ 2 * FullCoverage * Cardinality({i \in mine : ~rows[i].safety})
                            <= Cardinality(mine)
    BY <1>2, <1>4, Zenon DEF ClaimIsBacked
<1>5. /\ of \in Seq(SourceRecord)
      /\ \A j \in 1 .. Len(of) : order[j] \in mine /\ of[j] = rows[order[j]]
      /\ \A i \in mine : \E j \in 1 .. Len(of) : of[j] = rows[i]
    BY <1>1, <1>2, InTimesAre
<1>6. \A i \in mine : \E j \in 1 .. Len(of) : order[j] = i
    <2>1. /\ IsOrder(order, Len(order), mine, Times(rows))
          /\ Len(order) = Len(of)
        BY <1>1, <1>2, InTimesAre DEF InTimes, Sorts
    <2> QED
        BY <2>1 DEF IsOrder
<1>7. Len(of) \in Nat /\ Len(of) > 0 /\ DOMAIN of = 1 .. Len(of)
    BY <1>2, <1>5
<1>8. data.claim /\ (m = NoManifest \/ m.authorized)
    BY DEF Claim
<1>9. /\ Measured(of) /\ FullyCovered(of, {i \in DOMAIN of : of[i].weather})
      /\ FullyCovered(of, {i \in DOMAIN of : of[i].safety})
    BY <1>8, DatasetIs DEF ClaimMade
<1>10. ASSUME NEW i \in mine PROVE Sources[s][i].capacity > 0
    <2>1. PICK j \in 1 .. Len(of) : of[j] = rows[i]
        BY <1>5
    <2>2. rows[i].capacity > 0
        BY <1>7, <1>9, <2>1 DEF Measured
    <2>3. i \in 1 .. Len(rows)
        BY <1>1 DEF Of
    <2>4. Len(RowsFor(m, s)) = Len(Sources[s]) /\ RowsFor(m, s)[i].capacity = Sources[s][i].capacity
        BY <1>2, <2>3, RowsForAre
    <2> QED
        BY <1>2, <2>2, <2>4
<1>11. 2 * FullCoverage * Cardinality({i \in mine : ~rows[i].weather}) <= Cardinality(mine)
    <2> DEFINE having == {i \in DOMAIN of : of[i].weather}
               missing == {i \in mine : ~rows[i].weather}
    <2>1. having \in SUBSET (1 .. Len(of)) /\ missing \in SUBSET mine
        BY <1>7
    <2>2. \A i \in missing : \E j \in (1 .. Len(of)) \ having : order[j] = i
        <3> SUFFICES ASSUME NEW i \in missing
                     PROVE  \E j \in (1 .. Len(of)) \ having : order[j] = i
            OBVIOUS
        <3>1. PICK j \in 1 .. Len(of) : order[j] = i
            BY <1>6
        <3>2. of[j] = rows[i]
            BY <1>5, <3>1
        <3>3. j \notin having
            BY <3>2
        <3> QED
            BY <3>1, <3>3
    <2>3. FullyCovered(of, having)
        BY <1>9
    <2> HIDE DEF having, missing
    <2>4. Lacks(of, (1 .. Len(of)) \ having)
        BY <1>7, <2>1, <2>3, FullyCoveredIs
    <2>5. 2 * FullCoverage * Cardinality(missing) <= Cardinality(mine)
        BY <1>1, <1>2, <2>1, <2>2, <2>4, RowsLackNoMore
    <2> QED
        BY <2>5 DEF missing
<1>12. 2 * FullCoverage * Cardinality({i \in mine : ~rows[i].safety}) <= Cardinality(mine)
    <2> DEFINE having == {i \in DOMAIN of : of[i].safety}
               missing == {i \in mine : ~rows[i].safety}
    <2>1. having \in SUBSET (1 .. Len(of)) /\ missing \in SUBSET mine
        BY <1>7
    <2>2. \A i \in missing : \E j \in (1 .. Len(of)) \ having : order[j] = i
        <3> SUFFICES ASSUME NEW i \in missing
                     PROVE  \E j \in (1 .. Len(of)) \ having : order[j] = i
            OBVIOUS
        <3>1. PICK j \in 1 .. Len(of) : order[j] = i
            BY <1>6
        <3>2. of[j] = rows[i]
            BY <1>5, <3>1
        <3>3. j \notin having
            BY <3>2
        <3> QED
            BY <3>1, <3>3
    <2>3. FullyCovered(of, having)
        BY <1>9
    <2> HIDE DEF having, missing
    <2>4. Lacks(of, (1 .. Len(of)) \ having)
        BY <1>7, <2>1, <2>3, FullyCoveredIs
    <2>5. 2 * FullCoverage * Cardinality(missing) <= Cardinality(mine)
        BY <1>1, <1>2, <2>1, <2>2, <2>4, RowsLackNoMore
    <2> QED
        BY <2>5 DEF missing
<1> QED
    BY <1>8, <1>10, <1>11, <1>12

\* What can be loaded is sound.
LEMMA LoadableAreSound == Loadable \subseteq SoundlyLoadable
<1> SUFFICES ASSUME NEW p \in Loadable PROVE p \in SoundlyLoadable
    OBVIOUS
<1>1. PICK m \in Manifests, s \in Contents : p = <<m, s>>
    BY DEF Loadable, Pair
<1>2. PICK rows, of, order, named : Loads(m, s, rows, of, order, named)
    BY <1>1, LoadableIs
<1>3. PICK data : data = Dataset(RowsFor(m, s), PortOf(m))
    OBVIOUS
<1>4. FilledFrom(data.records, of)
    BY <1>2, <1>3, DatasetIs, Zenon
<1>5. /\ data.records[1].port = named
      /\ RecordsAreTheRows(data.records, Sources[s], data.records[1].port)
    BY <1>2, <1>4, RowsAreHandedOver
<1>6. CapacityIsOfThePast(data.records, Sources[s])
    BY <1>2, <1>4, CapacitiesAreOfThePast
<1>7. ClaimIsBacked(m, s, data)
    BY <1>2, <1>3, <1>5, ClaimsAreBacked
<1>8. p[1] = m /\ p[2] = s
    BY <1>1
<1> QED
    BY <1>3, <1>5, <1>6, <1>7, <1>8 DEF SoundlyLoadable

\* The type invariant of the loads.
LEMMA DataTypes == ASSUME DataInv PROVE DataTypeOK
<1>1. /\ manifest \in Manifests /\ source \in Contents
      /\ months \in {0} \cup MonthCounts /\ revisions \in 0 .. MaxRevisions
    BY DEF DataInv
<1>2. DOMAIN adapted \subseteq Paths /\ Range(adapted) \subseteq Pair \cup {Partial}
    BY PairsAre DEF DataInv, FilesAreNamed, Range
<1>3. DOMAIN truncatedBy = DOMAIN adapted /\ Range(truncatedBy) \subseteq Loader
    BY DEF DataInv, FilesAreNamed, Range
<1>4. \A l \in Loader :
         /\ loading[l] \in {"idle", "source", "open", "write", "read", "loaded", "failed"}
         /\ readOf[l] \in ReadSoFar /\ got[l] \in {Nothing} \cup Pair
    BY DEF DataInv, LoadsHaveShapes, LoadingState
<1> QED
    BY <1>1, <1>2, <1>3, <1>4 DEF DataTypeOK

\* Whatever the data files hold, however long and in whatever order, of ports asked for or not: a
\* dataset has the valid records of its port, once each and in order, a capacity inferred for one
\* of them is the 90th percentile of the train segment and of nothing later, and a claim is made
\* only with the operator's authority, with the capacity of every record measured, and with at
\* most one record in twice FullCoverage, 2000 in the code, without its weather and one without
\* its incidents (portTrainingDataset.ts, rlDatasetResolver.ts); and the months are cut as
\* SegmentsStaySound says.  The claim says nothing of the drift of the arrivals.
THEOREM DataStaysEarned ==
    ASSUME PublicMonths = 377
    PROVE  DataSpec => []DataIsEarned
<1>1. Loadable \subseteq SoundlyLoadable
    BY LoadableAreSound
<1>2. DataInv => DataTypeOK /\ DatasetsAreSound
    BY <1>1, DataTypes DEF DataInv, ReadsInOrder, DatasetsAreSound
<1>3. DataSpec => []SegmentsAreSound
    BY SegmentsStaySound
<1>4. DataTypeOK /\ HandsOverItsOwn /\ FailsForAReason /\ DatasetsAreSound /\ SegmentsAreSound
         => DataIsEarned
    BY DEF DataIsEarned
<1> QED
    BY <1>2, <1>3, <1>4, DataInvariance, LoadsKeepTheirWord, PTL
=============================================================================
