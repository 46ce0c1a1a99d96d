--------------------------- MODULE NativeValidation ---------------------------
(***************************************************************************)
(* The service that runs a native simulator (server/nativeGodotValidation).*)
(* It keeps a map of jobs; a job owns a child process that writes its      *)
(* result to a file which the service polls.  A job is named by the page   *)
(* run whose POST created it, since a run posts once.                      *)
(*                                                                         *)
(* start() is cut at its awaits.  The 'spawn' event follows the spawn in   *)
(* the same turn of the event loop and the exit code is set together with  *)
(* the 'exit' event, so windowOpen is `engine = "up"`.                     *)
(***************************************************************************)
EXTENDS Integers, FiniteSets

CONSTANTS
    NativeRun,    \* the page's runs, and so the jobs
    None,
    MaxKept       \* finished jobs kept in the map (100 in the code)

ASSUME KeptAssumption ==
    MaxKept \in Nat /\ None \notin NativeRun /\ IsFiniteSet(NativeRun)

VARIABLES
    nativeJob,    \* the jobs map and what the job's process and files hold
    starting,     \* the run whose start() is suspended, None when starting is false
    startStep,    \* the await it is at
    serving,      \* ~disposed
    call          \* the POST of a run: what happened to it

serviceVars == <<nativeJob, starting, startStep, serving, call>>

Terminal == {"completed", "failed", "cancelled"}
JobStatus == {"active"} \cup Terminal    \* launching and running are not told apart
Content == {"none", "result", "foreign"}
NativeJob == [status: JobStatus \cup {"absent", "evicted"},
        error: {"none", "closed", "other"},
        engine: {"none", "up", "gone"},
        stopping: {"no", "asked", "refused"},   \* the memoised promise of stop()
        file: Content,                          \* result.json
        polling: Content \cup {"idle"},         \* what the read in flight has seen
        exitPolls: 0..2]                        \* polls the exit handler still awaits

ServiceTypeOK ==
    /\ nativeJob \in [NativeRun -> NativeJob]
    /\ starting \in NativeRun \cup {None}
    /\ startStep \in {"idle", "configuring", "closing"}
    /\ serving \in BOOLEAN
    /\ call \in [NativeRun -> {"none", "sent", "accepted", "created", "refused"}]

NoNativeJob == [status |-> "absent", error |-> "none", engine |-> "none", stopping |-> "no",
          file |-> "none", polling |-> "idle", exitPolls |-> 0]

NativeServiceInit ==
    /\ nativeJob = [r \in NativeRun |-> NoNativeJob]
    /\ starting = None
    /\ startStep = "idle"
    /\ serving = TRUE
    /\ call = [r \in NativeRun |-> "none"]

Active(r) == nativeJob[r].status = "active"
Open(r) == nativeJob[r].engine = "up"

----------------------------------------------------------------------------
\* stop(): a live process is asked once, the promise is kept.
Stopped(j) == IF j.engine = "up" /\ j.stopping = "no" THEN [j EXCEPT !.stopping = "asked"] ELSE j

\* Mutation: the process of a failed job is left alone.
FailedLeavingProcess(j, why) ==
    IF j.status = "active"
    THEN [j EXCEPT !.status = "failed", !.error = why, !.exitPolls = 0] ELSE j

\* fail(): only while the job is active.
Failed(j, why) ==
    IF j.status = "active"
    THEN Stopped([j EXCEPT !.status = "failed", !.error = why, !.exitPolls = 0]) ELSE j

Refuse(r) ==
    /\ call' = [call EXCEPT ![r] = "refused"]
    /\ starting' = None
    /\ startStep' = "idle"

Busy == starting # None \/ \E r \in NativeRun : Active(r)

\* start() up to its first await.
StartRequest(r) ==
    /\ call[r] = "sent"
    /\ IF serving /\ ~Busy
       THEN /\ starting' = r
            /\ startStep' = "configuring"
            /\ call' = [call EXCEPT ![r] = "accepted"]
       ELSE call' = [call EXCEPT ![r] = "refused"] /\ UNCHANGED <<starting, startStep>>
    /\ UNCHANGED <<nativeJob, serving>>

\* configuration() is resolved; earlier windows are asked to close.
Configured(r) ==
    /\ starting = r /\ startStep = "configuring"
    /\ startStep' = "closing"
    /\ nativeJob' = [j \in NativeRun |-> Stopped(nativeJob[j])]
    /\ UNCHANGED <<starting, serving, call>>

\* configuration, stop or the file system rejects: 503.
StartThrows(r) ==
    /\ starting = r
    /\ startStep = "closing" => \E j \in NativeRun : Open(j) /\ nativeJob[j].stopping = "refused"
    /\ Refuse(r)
    /\ UNCHANGED <<nativeJob, serving>>

\* The eviction loop at the end of start(): as many finished jobs as there are too
\* many; which of them (the oldest) is not told apart here.
Evictable == {j \in NativeRun : nativeJob[j].status \in Terminal /\ ~Open(j)}
Kept == {j \in NativeRun : nativeJob[j].status \notin {"absent", "evicted"}}

Evicts(old) ==
    LET excess == Cardinality(Kept) + 1 - MaxKept
    IN  \/ excess <= 0 /\ old = {}
        \/ excess > 0 /\ Cardinality(old) = excess
        \/ excess > Cardinality(Evictable) /\ old = Evictable

\* Mutation: nobody waits for the windows to close.
SpawnAtOnce(r, ok) ==
    /\ starting = r /\ startStep = "closing" /\ serving
    /\ nativeJob' = [nativeJob EXCEPT ![r] = [@ EXCEPT !.status = "active", !.engine = "up"]]
    /\ call' = [call EXCEPT ![r] = "created"]
    /\ starting' = None /\ startStep' = "idle"
    /\ UNCHANGED serving

\* The rest of start(), once every stop() is resolved: the second look at `disposed`, spawn
\* and its event, the eviction of finished jobs, the answer.
Spawn(r, ok) ==
    /\ starting = r /\ startStep = "closing"
    /\ \A j \in NativeRun : ~Open(j)
    /\ IF ~serving
       THEN Refuse(r) /\ UNCHANGED nativeJob
       ELSE /\ \E old \in SUBSET Evictable :
                 /\ Evicts(old)
                 /\ nativeJob' = [j \in NativeRun |->
                        IF j \in old THEN [NoNativeJob EXCEPT !.status = "evicted"]
                        ELSE IF j # r THEN nativeJob[j]
                        ELSE IF ok THEN [nativeJob[r] EXCEPT !.status = "active", !.engine = "up"]
                        ELSE [nativeJob[r] EXCEPT !.status = "failed", !.error = "other"]]
            /\ call' = [call EXCEPT ![r] = "created"]
            /\ starting' = None /\ startStep' = "idle"
    /\ UNCHANGED serving

----------------------------------------------------------------------------
ChangeJob(r, j) ==
    nativeJob' = [nativeJob EXCEPT ![r] = j] /\ UNCHANGED <<starting, startStep, serving, call>>

\* The process: it writes its result (of another request if it is broken), and ends
\* on its own, when its window is closed, or when asked.  What it writes later is not
\* read any more.
ProcessWrites(r, what) ==
    /\ Open(r) /\ Active(r) /\ nativeJob[r].file = "none"
    /\ ChangeJob(r, [nativeJob[r] EXCEPT !.file = what])

\* The exit event; a stop() in flight resolves.
EngineExits(r) ==
    /\ Open(r)
    /\ ChangeJob(r, [nativeJob[r] EXCEPT !.engine = "gone",
                                      !.exitPolls = IF Active(r) THEN 2 ELSE 0])

\* stop() rejects after five seconds and stays rejected.
StopGivesUp(r) ==
    /\ Open(r) /\ nativeJob[r].stopping = "asked"
    /\ ChangeJob(r, [nativeJob[r] EXCEPT !.stopping = "refused"])

\* poll() begins a read unless one is in flight; the interval is cleared with the
\* job's end, the exit handler calls it again.
BeginPoll(r) ==
    /\ Active(r) /\ nativeJob[r].polling = "idle"
    /\ ChangeJob(r, [nativeJob[r] EXCEPT !.polling = nativeJob[r].file])

\* The poll just ended is the one the exit handler awaited.
PollEnded(j) == [j EXCEPT !.polling = "idle", !.exitPolls = IF @ = 0 THEN 0 ELSE @ - 1]

\* Mutation: the service does not look at the status again after reading the file.
EndPollLate(r) ==
    /\ nativeJob[r].polling # "idle"
    /\ ChangeJob(r, PollEnded(
         IF nativeJob[r].polling = "result" THEN [nativeJob[r] EXCEPT !.status = "completed"]
         ELSE nativeJob[r]))

\* readJob() after its reads, which looks at the status again: a complete result of this
\* request ends the job, one of another (or an oversized one) fails it.
EndPoll(r) ==
    /\ nativeJob[r].polling # "idle"
    /\ ChangeJob(r, PollEnded(
         IF Active(r) /\ nativeJob[r].polling = "result"
         THEN [nativeJob[r] EXCEPT !.status = "completed"]
         ELSE IF nativeJob[r].polling = "foreign" THEN Failed(nativeJob[r], "other")
         ELSE nativeJob[r]))

\* The ninety seconds are over when a poll that found nothing looks at the clock.
PollTimesOut(r) ==
    /\ nativeJob[r].polling = "none"
    /\ ChangeJob(r, PollEnded(Failed(nativeJob[r], "other")))

\* The exit handler after its two polls.
AfterExitPolls(r) ==
    /\ nativeJob[r].engine = "gone"
    /\ nativeJob[r].exitPolls = 0
    /\ Active(r)
    /\ ChangeJob(r, Failed(nativeJob[r], "closed"))

\* cancel() up to the await of stop(): an active job is cancelled, a finished one only
\* loses its window.
Cancelled(j) ==
    IF j.status = "active" THEN Stopped([j EXCEPT !.status = "cancelled", !.exitPolls = 0])
    ELSE IF j.status \in Terminal THEN Stopped(j)
    ELSE j

\* dispose(): nothing new is started and every job is cancelled.
Dispose ==
    /\ serving
    /\ serving' = FALSE
    /\ nativeJob' = [r \in NativeRun |-> Cancelled(nativeJob[r])]
    /\ UNCHANGED <<starting, startStep, call>>

\* What the event loop and the operating system do for a job.
StartSteps(r) ==
    \/ StartRequest(r) \/ Configured(r) \/ StartThrows(r)
    \/ \E ok \in BOOLEAN : Spawn(r, ok)

PollSteps(r) == BeginPoll(r) \/ EndPoll(r) \/ AfterExitPolls(r)

ServiceSteps ==
    \E r \in NativeRun : \/ StartSteps(r) \/ PollSteps(r) \/ PollTimesOut(r)
                   \/ ProcessWrites(r, "result") \/ EngineExits(r)

\* What goes wrong in the service or with its processes.
ServiceTroubles ==
    \/ Dispose
    \/ \E r \in NativeRun : ProcessWrites(r, "foreign") \/ StopGivesUp(r)

----------------------------------------------------------------------------
\* At most one simulator process exists, over starts that replace a finished window,
\* cancellations under way and processes that refuse to end.
OneEngine == \A r, s \in NativeRun : Open(r) /\ Open(s) => r = s

\* Nothing the service started outlives its disposal unasked, also when dispose()
\* falls between the awaits of a start.
NothingOutlivesDispose == \A r \in NativeRun : ~serving /\ Open(r) => nativeJob[r].stopping # "no"

\* A process that wrote its result and then closed is never reported as closed without
\* a result, also when a read was in flight at its exit.
ExitLosesNoResult ==
    \A r \in NativeRun : nativeJob[r].error = "closed" => nativeJob[r].file = "none"

\* A job ends once: completed on its own result, and no late poll, exit or cancellation
\* changes how it ended.
EndsOnce ==
    [][\A r \in NativeRun :
        /\ nativeJob[r].status \in Terminal =>
               nativeJob'[r].status \in {nativeJob[r].status, "evicted"}
        /\ nativeJob'[r].status = "completed" => nativeJob'[r].file = "result"]_serviceVars

\* Whenever a job runs the service comes to rest: every job has ended, and unless it
\* completed it has left no process.
JobsEnd ==
    (\E r \in NativeRun : Active(r)) ~>
        \A r \in NativeRun : ~Active(r) /\ (nativeJob[r].status = "completed" \/ ~Open(r))
=============================================================================
