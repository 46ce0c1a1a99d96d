------------------------- MODULE NativeValidationPage -------------------------
(***************************************************************************)
(* The page's controller of native validations                             *)
(* (src/hooks/useNativeGodotValidation.ts) on top of the service: it       *)
(* starts a run for the request shown, polls the job, delivers its result  *)
(* once, and closes every job it created that nobody waits for any more.   *)
(* HTTP answers arrive late, out of order with the user's actions, or not  *)
(* within the adapter's eight seconds.                                     *)
(*                                                                         *)
(* Requests are numbered as they are generated.  While there is a run its  *)
(* job, once known, is the one in `state.job`: start() clears that and     *)
(* receive() sets both, so one record stands for the two.                  *)
(***************************************************************************)
EXTENDS NativeValidation

CONSTANTS
    MaxRequest,          \* bound: requests generated on the page
    MaxTroubles,         \* bound: late answers, unmounting, disposal, bad processes
    MaxWindowFailures    \* failed window reads in a row that end the watch (3)

ASSUME HookAssumption ==
    /\ {MaxRequest, MaxTroubles} \subseteq Nat /\ MaxWindowFailures \in Nat \ {0}
    /\ None \notin 0..MaxRequest

VARIABLES
    identity,     \* the request now shown
    run,          \* this.run
    step,         \* where the asynchronous work of this.run is
    late,         \* runs no longer current whose create is still in flight
    for,          \* run.request of every run
    shownJob,     \* state.job: whose it is, and the job as last received
    got,          \* the answer of a read under way
    failures,     \* run.windowReadFailures
    busy,         \* state.busy
    closingRun,   \* the job a user's cancel is closing, None when closing is false
    closingFor,   \* cancelledIdentity
    closeStep,
    detached,     \* jobs with a close in flight that nobody awaits
    delivered,    \* run.resultDelivered
    mounted,      \* ~disposed
    lost,
    unconfirmed   \* runs with a create or a close whose answer was given up

hookVars == <<identity, run, step, late, for, shownJob, got, failures, busy, closingRun,
             closingFor, closeStep, detached, delivered, mounted, lost, unconfirmed>>
nativeVars == <<serviceVars, hookVars>>
hookRunVars == <<run, step, late, detached>>
viewVars == <<shownJob, busy>>
readVars == <<got, failures, delivered>>
closeVars == <<closingRun, closingFor, closeStep>>
userVars == <<identity, for, mounted>>
lossVars == <<lost, unconfirmed>>

Seen == [run: NativeRun \cup {None}, status: JobStatus \cup {"none"}, open: BOOLEAN]
NoJobShown == [run |-> None, status |-> "none", open |-> FALSE]
Requests == 0..MaxRequest

NativeTypeOK ==
    /\ ServiceTypeOK
    /\ identity \in Requests
    /\ run \in NativeRun \cup {None}
    /\ step \in {"idle", "availability", "creating", "waiting", "reading", "watching",
                 "settled"}
    /\ {late, detached, unconfirmed} \subseteq SUBSET NativeRun
    /\ for \in [NativeRun -> Requests \cup {None}]
    /\ {shownJob, got} \subseteq Seen
    /\ run # None => shownJob.run \in {run, None}
    /\ failures \in 0..MaxWindowFailures
    /\ {busy, delivered, mounted} \subseteq BOOLEAN
    /\ closingRun \in NativeRun \cup {None}
    /\ closingFor \in Requests \cup {None}
    /\ closeStep \in {"idle", "sent", "accepted"}
    /\ lost \in 0..MaxTroubles

NativeInit ==
    /\ NativeServiceInit
    /\ identity = 0 /\ run = None /\ step = "idle"
    /\ late = {} /\ detached = {} /\ unconfirmed = {}
    /\ for = [r \in NativeRun |-> None]
    /\ shownJob = NoJobShown /\ got = NoJobShown /\ failures = 0
    /\ busy = FALSE /\ delivered = FALSE /\ mounted = TRUE
    /\ closingRun = None /\ closingFor = None /\ closeStep = "idle"
    /\ lost = 0

----------------------------------------------------------------------------
Count(happened) == IF happened THEN 1 ELSE 0
Troubles == lost + Count(~mounted) + Count(~serving)
            + Cardinality({r \in NativeRun : nativeJob[r].stopping = "refused" \/ nativeJob[r].file = "foreign"})

\* stopTimers(): timers are cleared and everything but a create is aborted.
Abandon == late' = IF step = "creating" THEN late \cup {run} ELSE late

\* A dropped run: timers stopped, this.run cleared, closeDetached(run.job).
Drop ==
    /\ run' = None /\ step' = "idle"
    /\ got' = NoJobShown /\ failures' = 0 /\ delivered' = FALSE
    /\ Abandon
    /\ detached' = IF run # None /\ shownJob.run = run /\ shownJob.status = "active"
                   THEN detached \cup {run} ELSE detached

\* updateInputs() and syncRequest() with a new request.
ChangeRequest ==
    /\ mounted /\ identity < MaxRequest
    /\ identity' = identity + 1
    /\ Drop
    /\ shownJob' = NoJobShown
    /\ busy' = (closingRun # None)
    /\ UNCHANGED <<serviceVars, for, mounted, closeVars, lossVars>>

\* dispose(), when the component is unmounted.
Unmount ==
    /\ mounted /\ Troubles < MaxTroubles
    /\ mounted' = FALSE
    /\ Drop
    /\ UNCHANGED <<serviceVars, identity, for, viewVars, closeVars, lossVars>>

\* start() up to the await of the availability.
Start ==
    /\ mounted /\ ~busy /\ closingRun = None
    /\ \E r \in NativeRun : for[r] = None
    /\ run' = CHOOSE r \in NativeRun : for[r] = None
    /\ for' = [for EXCEPT ![run'] = identity]
    /\ step' = "availability"
    /\ got' = NoJobShown /\ failures' = 0 /\ delivered' = FALSE
    /\ busy' = TRUE /\ shownJob' = NoJobShown
    /\ UNCHANGED <<serviceVars, late, detached, identity, mounted, closeVars, lossVars>>

\* The service is available: the job is created, in a request nothing aborts.
Create ==
    /\ step = "availability"
    /\ step' = "creating"
    /\ call' = [call EXCEPT ![run] = "sent"]
    /\ UNCHANGED <<nativeJob, starting, startStep, serving, run, late, detached, readVars,
                   userVars, viewVars, closeVars, lossVars>>

\* fail() of the current run.
Fail ==
    /\ Drop
    /\ busy' = FALSE
    /\ UNCHANGED <<serviceVars, userVars, shownJob, closeVars>>

Lose(r) == Troubles < MaxTroubles /\ lost' = lost + 1 /\ unconfirmed' = unconfirmed \cup {r}

\* The availability check says no or fails.
Unavailable == step = "availability" /\ Fail /\ UNCHANGED lossVars

\* The 120 seconds of a run; a create in flight is still waited for.
Deadline ==
    /\ step \in {"availability", "creating", "waiting", "reading"}
    /\ Fail /\ UNCHANGED lossVars

\* receive() for the current run: a running job is polled again in a second, a result is
\* delivered and its window watched.
Receive(r, status, open) ==
    /\ shownJob' = [run |-> r, status |-> status, open |-> open]
    /\ step' = IF status = "active" THEN "waiting"
               ELSE IF status = "completed" /\ open THEN "watching" ELSE "settled"
    /\ busy' = (status = "active")
    /\ delivered' = (delivered \/ status = "completed")
    /\ got' = NoJobShown
    /\ UNCHANGED <<serviceVars, userVars, run, late, detached, failures, closeVars, lossVars>>

\* The create call is answered: 202 with the job as it was spawned, or an error.
CreateAnswered ==
    /\ step = "creating"
    /\ \/ call[run] = "created" /\ Receive(run, "active", FALSE)
       \/ /\ call[run] = "refused"
          /\ run' = None /\ step' = "idle" /\ busy' = FALSE
          /\ UNCHANGED <<serviceVars, late, detached, readVars, userVars, shownJob,
                         closeVars, lossVars>>

\* receive() for a run that is not current: the job is closed.
LateCreateAnswered(r) ==
    /\ r \in late /\ call[r] \in {"created", "refused"}
    /\ late' = late \ {r}
    /\ detached' = IF call[r] = "created" THEN detached \cup {r} ELSE detached
    /\ UNCHANGED <<serviceVars, run, step, readVars, userVars, viewVars, closeVars, lossVars>>

\* The adapter's eight seconds are over: the answer is thrown away when it comes.
CreateTooLate ==
    /\ step = "creating"
    /\ run' = None /\ step' = "idle" /\ busy' = FALSE
    /\ Lose(run)
    /\ UNCHANGED <<serviceVars, late, detached, readVars, userVars, shownJob, closeVars>>

LateCreateTooLate(r) ==
    /\ r \in late
    /\ late' = late \ {r}
    /\ Lose(r)
    /\ UNCHANGED <<serviceVars, run, step, detached, readVars, userVars, viewVars, closeVars>>

----------------------------------------------------------------------------
\* A read: the job is looked up at the server at one moment and received at a later one;
\* an evicted job is answered with 404.
Poll ==
    /\ step = "waiting"
    /\ step' = "reading"
    /\ got' = IF nativeJob[run].status \in JobStatus
              THEN [run |-> run, status |-> nativeJob[run].status, open |-> Open(run)]
              ELSE NoJobShown
    /\ UNCHANGED <<serviceVars, run, late, detached, failures, delivered, userVars, viewVars,
                   closeVars, lossVars>>

ReadAnswered ==
    /\ step = "reading"
    /\ IF got = NoJobShown THEN Fail /\ UNCHANGED lossVars
       ELSE Receive(run, got.status, got.open)

PollTooLate ==
    /\ step = "reading" /\ Fail
    /\ Troubles < MaxTroubles /\ lost' = lost + 1 /\ UNCHANGED unconfirmed

\* pollCompletedWindow(): the result stays, only windowOpen is taken over; failed reads in
\* a row end the watch.  What was read a moment ago makes no difference here, so a read
\* and its answer are one step.
PollWindow(tooLate) ==
    /\ step = "watching"
    /\ LET ok == ~tooLate /\ nativeJob[run].status = "completed"
       IN  /\ failures' = IF ok THEN 0 ELSE failures + 1
           /\ shownJob' = IF ok THEN [shownJob EXCEPT !.open = Open(run)] ELSE shownJob
           /\ step' = IF (ok /\ ~Open(run)) \/ failures' = MaxWindowFailures
                      THEN "settled" ELSE "watching"
    /\ UNCHANGED <<serviceVars, run, late, got, detached, busy, delivered, userVars, closeVars,
                   lossVars>>

\* The thirty minutes of the watch.
WatchEnds ==
    /\ step = "watching"
    /\ step' = "settled"
    /\ UNCHANGED <<serviceVars, run, late, detached, readVars, userVars, viewVars, closeVars,
                   lossVars>>

----------------------------------------------------------------------------
\* cancel() up to the await of the close; without a job it ends at once.
Cancel ==
    /\ mounted /\ closingRun = None
    /\ run # None \/ shownJob # NoJobShown
    /\ closingRun' = shownJob.run
    /\ closingFor' = IF shownJob.run = None THEN None ELSE identity
    /\ closeStep' = IF shownJob.run = None THEN "idle" ELSE "sent"
    /\ busy' = (shownJob.run # None)
    /\ run' = None /\ step' = "idle" /\ got' = NoJobShown /\ failures' = 0 /\ delivered' = FALSE
    /\ Abandon
    /\ UNCHANGED <<serviceVars, detached, userVars, shownJob, lossVars>>

ServerCancels(r) ==
    /\ nativeJob' = [nativeJob EXCEPT ![r] = Cancelled(@)]
    /\ UNCHANGED <<starting, startStep, serving, call>>

CloseArrives ==
    /\ closeStep = "sent"
    /\ closeStep' = "accepted"
    /\ ServerCancels(closingRun)
    /\ UNCHANGED <<hookRunVars, readVars, userVars, viewVars, closingRun, closingFor, lossVars>>

\* The finally block of cancel().
CloseEnds ==
    /\ closingRun' = None /\ closingFor' = None /\ closeStep' = "idle"
    /\ busy' = (busy /\ ~mounted)
    /\ UNCHANGED <<serviceVars, run, step, late, readVars, userVars>>

\* stop() is resolved; a result the page already has is kept.
CloseAnswered ==
    /\ closeStep = "accepted"
    /\ nativeJob[closingRun].status \in JobStatus
    /\ ~Open(closingRun) /\ nativeJob[closingRun].stopping # "refused"
    /\ shownJob' = IF ~mounted \/ identity # closingFor THEN shownJob
                ELSE [run |-> closingRun, open |-> FALSE,
                      status |-> IF shownJob.status = "completed" THEN "completed"
                                 ELSE nativeJob[closingRun].status]
    /\ CloseEnds
    /\ UNCHANGED <<detached, lossVars>>

\* stop() was rejected, now or at an earlier time, or the job is no longer kept.
CloseRefused ==
    /\ closeStep = "accepted"
    /\ nativeJob[closingRun].stopping = "refused" \/ nativeJob[closingRun].status = "evicted"
    /\ CloseEnds
    /\ UNCHANGED <<shownJob, detached, lossVars>>

\* The answer comes too late; the request itself may still arrive.
CloseTooLate ==
    /\ closingRun # None
    /\ detached' = IF closeStep = "sent" THEN detached \cup {closingRun} ELSE detached
    /\ Troubles < MaxTroubles /\ lost' = lost + 1
    /\ CloseEnds
    /\ UNCHANGED <<shownJob, unconfirmed>>

DetachedArrives(r) ==
    /\ r \in detached
    /\ detached' = detached \ {r}
    /\ ServerCancels(r)
    /\ UNCHANGED <<run, step, late, readVars, userVars, viewVars, closeVars, lossVars>>

\* The service cannot be reached.
DetachedLost(r) ==
    /\ r \in detached
    /\ detached' = detached \ {r}
    /\ Lose(r)
    /\ UNCHANGED <<serviceVars, run, step, late, readVars, userVars, viewVars, closeVars>>

\* What timers and answers do for the page.
RunSteps ==
    \/ Create
    \/ Unavailable
    \/ CreateAnswered
    \/ Poll
    \/ ReadAnswered
    \/ \E tooLate \in BOOLEAN : PollWindow(tooLate)

CloseSteps == CloseArrives \/ CloseAnswered \/ CloseRefused

HookNext ==
    \/ ChangeRequest \/ Unmount \/ Start \/ Cancel
    \/ RunSteps \/ CreateTooLate \/ PollTooLate \/ Deadline \/ WatchEnds
    \/ CloseSteps \/ CloseTooLate
    \/ \E r \in NativeRun : LateCreateAnswered(r) \/ LateCreateTooLate(r)
                      \/ DetachedArrives(r) \/ DetachedLost(r)

NativeNext ==
    \/ HookNext
    \/ ServiceSteps /\ UNCHANGED hookVars
    \/ Troubles < MaxTroubles /\ ServiceTroubles /\ UNCHANGED hookVars

NativeSpec == NativeInit /\ [][NativeNext]_nativeVars

----------------------------------------------------------------------------
\* "Retaining its returned job ID lets us close the job we created": a job that runs is
\* the current run's, or its creation is still awaited, or a close is on its way - unless
\* an answer or a close was given up.
NoOrphans ==
    \A r \in NativeRun : Active(r) =>
        \/ run = r
        \/ r \in late \cup detached
        \/ closingRun = r /\ closeStep = "sent"
        \/ r \in unconfirmed

\* A result is handed to the page only for the request it shows at that moment, and it is
\* the result of a job of that run that completed.
DeliveredIsCurrent ==
    [][~delivered /\ delivered' =>
        /\ mounted /\ for[run] = identity
        /\ nativeJob[run].status \in {"completed", "evicted"}]_nativeVars

\* Evidence the page shows as completed is what the service holds, whatever cancellation
\* or late answer came between.
EvidenceIsReal ==
    shownJob.status = "completed" => nativeJob[shownJob.run].status \in {"completed", "evicted"}

\* One window, which nothing outlives, for a run of a page, and results that are its own.
WindowIsAccountedFor ==
    /\ NativeTypeOK /\ OneEngine /\ NothingOutlivesDispose /\ ExitLosesNoResult
    /\ NoOrphans /\ EvidenceIsReal

\* A job ends once, and what it delivers is for the request on the page.
EndsOnceForItsRequest == EndsOnce /\ DeliveredIsCurrent
=============================================================================
