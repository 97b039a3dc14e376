----------------------------- MODULE ImportQueue -----------------------------
(***************************************************************************)
(* The queue of an importer, shared by the replicas of the server: one job *)
(* a day, named after the day, added by every replica when it boots and at *)
(* four each morning, run by the replicas' workers, tried again after a    *)
(* failure.  The queues of the two importers are the same but for their    *)
(* names and for the setting that enables them; this is one of them.       *)
(*                                                                         *)
(* BullMQ is external: an added job whose id is kept is ignored, a job     *)
(* whose worker stops renewing its lock is given to another worker once    *)
(* and failed the second time, jobs that ended are kept up to a number,    *)
(* and the process that settled a failure then emits an event.  So is      *)
(* Sentry: what is thrown in a processor is captured as it is thrown       *)
(* (README.md, "Error monitoring").                                        *)
(***************************************************************************)
EXTENDS Integers, Sequences, FiniteSets

CONSTANTS
  Replicas,
  NoOne,
  LastDay,    \* bound on the days followed
  Attempts,   \* defaultJobOptions.attempts
  Kept,       \* removeOnComplete and removeOnFail
  MaxStalls,  \* BullMQ's maxStalledCount
  MaxCrashes  \* bound on the crashes followed

ASSUME QueueAssumption ==
  /\ NoOne \notin Replicas /\ IsFiniteSet(Replicas)
  /\ LastDay \in Nat \ {0} /\ Attempts \in Nat \ {0} /\ Kept \in Nat
  /\ MaxStalls \in Nat /\ MaxCrashes \in Nat

Days == 1 .. LastDay

VARIABLES
  day,      \* the UTC day
  up,       \* the replicas that run
  due,      \* those with an enqueue to make, at boot or at four
  job,      \* the queue, per day
  worker,   \* what each replica's worker runs, 0 for nothing
  event,    \* the 'failed' event each replica is about to emit
  ended,    \* history: the jobs that ended, in order, and how
  starts,   \* history: how often each day's job was started since it was added
  captured, \* history: how many attempts of it were captured since
  alerts,   \* history: how often onJobFailed reported the day's jobs
  crashes

queueVars == <<job, ended>>
workerVars == <<worker, event>>
reportVars == <<captured, alerts>>
vars == <<day, up, due, queueVars, workerVars, starts, reportVars, crashes>>

States == {"none", "waiting", "active", "delayed", "completed", "failed"}
Job == [state : States, made : 0 .. Attempts, stalls : 0 .. MaxStalls,
        owner : Replicas \cup {NoOne}]
Ending == [day : Days, how : {"completed", "failed"}]

\* A day and the attempts its job has made, as the event carries them.
Event == [day : 0 .. LastDay, made : 0 .. Attempts]
NoEvent == [day |-> 0, made |-> 0]

NoJob == [state |-> "none", made |-> 0, stalls |-> 0, owner |-> NoOne]

TypeOK ==
  /\ day \in Days /\ up \subseteq Replicas /\ due \subseteq up
  /\ job \in [Days -> Job]
  /\ worker \in [Replicas -> 0 .. LastDay]
  /\ event \in [Replicas -> Event]
  /\ ended \in Seq(Ending)
  /\ starts \in [Days -> Nat]
  /\ captured \in [Days -> Nat] /\ alerts \in [Days -> Nat]
  /\ crashes \in 0 .. MaxCrashes

Init ==
  /\ day = 1
  /\ up = Replicas /\ due = Replicas
  /\ job = [d \in Days |-> NoJob]
  /\ worker = [r \in Replicas |-> 0]
  /\ event = [r \in Replicas |-> NoEvent]
  /\ ended = <<>>
  /\ starts = [d \in Days |-> 0]
  /\ captured = [d \in Days |-> 0] /\ alerts = [d \in Days |-> 0]
  /\ crashes = 0

----------------------------------------------------------------------------
(* Scheduling *)

\* Midnight.
NewDay ==
  /\ day < LastDay
  /\ day' = day + 1
  /\ UNCHANGED <<up, due, queueVars, workerVars, starts, reportVars, crashes>>

\* Four o'clock, for one replica.
Tick(r) ==
  /\ r \in up
  /\ due' = due \cup {r}
  /\ UNCHANGED <<day, up, queueVars, workerVars, starts, reportVars, crashes>>

Enqueue_AnyId(r) ==
  /\ r \in due
  /\ due' = due \ {r}
  /\ job' = [job EXCEPT ![day] = [NoJob EXCEPT !.state = "waiting"]]
  /\ starts' = [starts EXCEPT ![day] = 0]
  /\ captured' = [captured EXCEPT ![day] = 0]
  /\ UNCHANGED <<day, up, ended, workerVars, alerts, crashes>>

\* queue.add with the day as the id.
Enqueue(r) ==
  /\ r \in due
  /\ due' = due \ {r}
  /\ IF job[day].state = "none"
     THEN /\ job' = [job EXCEPT ![day] = [@ EXCEPT !.state = "waiting"]]
          /\ starts' = [starts EXCEPT ![day] = 0]
          /\ captured' = [captured EXCEPT ![day] = 0]
     ELSE UNCHANGED <<job, starts, captured>>
  /\ UNCHANGED <<day, up, ended, workerVars, alerts, crashes>>

\* Redis cannot be reached: logged, at boot also reported, and not tried again.
EnqueueFails(r) ==
  /\ r \in due
  /\ due' = due \ {r}
  /\ UNCHANGED <<day, up, queueVars, workerVars, starts, reportVars, crashes>>

----------------------------------------------------------------------------
(* Workers *)

Take(r, d) ==
  /\ r \in up /\ worker[r] = 0 /\ event[r] = NoEvent /\ job[d].state = "waiting"
  /\ worker' = [worker EXCEPT ![r] = d]
  /\ job' = [job EXCEPT ![d] = [@ EXCEPT !.state = "active", !.owner = r]]
  /\ starts' = [starts EXCEPT ![d] = @ + 1]
  /\ UNCHANGED <<day, up, due, event, ended, reportVars, crashes>>

\* Of the endings i + 1 .. n, those that are like ending i.
Since(e, i, n) == Cardinality({k \in i + 1 .. n : e[k].how = e[i].how})

Dropped_AtOnce(e, how) == {e[Len(e)].day}

\* As many jobs as are kept ended the same way after these: they are dropped.
Dropped(e, how) ==
  {e[i].day : i \in {k \in DOMAIN e : e[k].how = how /\ Since(e, k, Len(e)) = Kept}}

Settle(d, how, made) ==
  /\ ended' = Append(ended, [day |-> d, how |-> how])
  /\ job' = [x \in Days |->
       IF x \in Dropped(ended', how) THEN NoJob
       ELSE IF x = d THEN [job[d] EXCEPT !.state = how, !.made = made, !.owner = NoOne]
       ELSE job[x]]

Idle_Never(r) == UNCHANGED worker

\* process is over, or the replica is gone.
Idle(r) == worker' = [worker EXCEPT ![r] = 0]

Owns(r) == worker[r] # 0 /\ job[worker[r]].owner = r

Complete(r) ==
  /\ r \in up /\ Owns(r)
  /\ Idle(r)
  /\ Settle(worker[r], "completed", job[worker[r]].made)
  /\ UNCHANGED <<day, up, due, event, starts, reportVars, crashes>>

Captures_Never(d) == UNCHANGED captured

\* The import throws out of process: captured on the way.
Captures(d) == captured' = [captured EXCEPT ![d] = @ + 1]

Exhausted_TooLate(made) == made > Attempts

Exhausted(made) == made >= Attempts

MadeAfter_Uncounted(made) == made

MadeAfter(made) == made + 1

Emits(r, d, made) == event' = [event EXCEPT ![r] = [day |-> d, made |-> made]]

\* The import threw and BullMQ is told: the job waits for its backoff or has
\* failed.  The event follows in this process.
Fail(r) ==
  /\ r \in up /\ Owns(r) /\ event[r] = NoEvent
  /\ LET d == worker[r]
         made == MadeAfter(job[d].made)
     IN /\ IF Exhausted(made) THEN Settle(d, "failed", made)
           ELSE /\ job' = [job EXCEPT ![d] =
                               [@ EXCEPT !.state = "delayed", !.made = made, !.owner = NoOne]]
                /\ UNCHANGED ended
        /\ Captures(d) /\ Emits(r, d, made)
  /\ Idle(r)
  /\ UNCHANGED <<day, up, due, starts, alerts, crashes>>

\* The import returned or threw, but its job is no longer this worker's: BullMQ
\* refuses the result and no event follows.  Such a throw is captured as well;
\* captured counts those of attempts.
EndUnowned(r) ==
  /\ r \in up /\ worker[r] # 0 /\ ~Owns(r)
  /\ Idle(r)
  /\ UNCHANGED <<day, up, due, queueVars, event, starts, reportVars, crashes>>

Report_EachTime(made) == TRUE

\* Only once the attempts are used up.
Report(made) == made >= Attempts

OnJobFailed(r) ==
  /\ r \in up /\ event[r] # NoEvent
  /\ alerts' = [alerts EXCEPT ![event[r].day] = IF Report(event[r].made) THEN @ + 1 ELSE @]
  /\ event' = [event EXCEPT ![r] = NoEvent]
  /\ UNCHANGED <<day, up, due, queueVars, worker, starts, captured, crashes>>

BackoffEnds(d) ==
  /\ job[d].state = "delayed"
  /\ job' = [job EXCEPT ![d] = [@ EXCEPT !.state = "waiting"]]
  /\ UNCHANGED <<day, up, due, ended, workerVars, starts, reportVars, crashes>>

\* A running replica finds that the lock of an active job was not renewed: its
\* worker is gone, or could not reach Redis for long enough and works on.
Requeue(d) ==
  /\ up # {} /\ job[d].state = "active" /\ job[d].stalls < MaxStalls
  /\ job' = [job EXCEPT ![d] =
                [@ EXCEPT !.state = "waiting", !.stalls = job[d].stalls + 1,
                          !.owner = NoOne]]
  /\ UNCHANGED <<day, up, due, ended, workerVars, starts, reportVars, crashes>>

\* Once too often: the job has failed.  Versions of BullMQ differ in whether
\* that counts as an attempt.
StallOut(r, d) ==
  /\ r \in up /\ event[r] = NoEvent
  /\ job[d].state = "active" /\ job[d].stalls = MaxStalls
  /\ \E made \in {job[d].made, job[d].made + 1} :
       Settle(d, "failed", made) /\ Emits(r, d, made)
  /\ UNCHANGED <<day, up, due, worker, starts, reportVars, crashes>>

\* An event not emitted yet is lost.  (What an import threw that BullMQ was not
\* told of is not counted.)
Crash(r) ==
  /\ r \in up /\ crashes < MaxCrashes
  /\ up' = up \ {r} /\ due' = due \ {r}
  /\ Idle(r)
  /\ event' = [event EXCEPT ![r] = NoEvent]
  /\ crashes' = crashes + 1
  /\ UNCHANGED <<day, queueVars, starts, reportVars>>

\* The container is restarted.
Boot(r) ==
  /\ r \notin up
  /\ up' = up \cup {r} /\ due' = due \cup {r}
  /\ UNCHANGED <<day, queueVars, workerVars, starts, reportVars, crashes>>

Next ==
  \/ NewDay
  \/ \E r \in Replicas :
       \/ Tick(r) \/ Enqueue(r) \/ EnqueueFails(r)
       \/ \E d \in Days : Take(r, d)
       \/ \E d \in Days : StallOut(r, d)
       \/ Complete(r) \/ Fail(r) \/ EndUnowned(r) \/ OnJobFailed(r)
       \/ Crash(r) \/ Boot(r)
  \/ \E d \in Days : BackoffEnds(d) \/ Requeue(d)

Lost(d) == job[d].state = "active" /\ \A r \in up : worker[r] # d

(* A worker's import ends one way or another and BullMQ is told, an idle     *)
(* worker takes a job that waits, timers fire and the container is restarted.*)
Fairness ==
  /\ WF_vars(\E r \in Replicas, d \in Days : Take(r, d))
  /\ \A r \in Replicas :
       /\ WF_vars(Complete(r) \/ Fail(r) \/ EndUnowned(r))
       /\ WF_vars(OnJobFailed(r))
  /\ \A d \in Days :
       /\ WF_vars(BackoffEnds(d))
       /\ WF_vars(Lost(d) /\ (Requeue(d) \/ \E r \in Replicas : StallOut(r, d)))
  /\ \A r \in Replicas : WF_vars(Boot(r))

Spec == Init /\ [][Next]_vars /\ Fairness

----------------------------------------------------------------------------
(* Properties *)

EndedDays == {ended[i].day : i \in DOMAIN ended}

(* Two workers are busy with the same day's import only if one of them lost  *)
(* its job: it stalled, or ended as stalled and was added anew.  Retries,    *)
(* ticks and boots of any number of replicas never double it.  Imports of    *)
(* different days do overlap.                                                *)
OneWorkerPerJob ==
  \A r, s \in Replicas :
    r # s /\ worker[r] = worker[s] /\ worker[r] # 0 =>
      job[worker[r]].stalls > 0 \/ worker[r] \in EndedDays

(* A job is started once per attempt and once more for each time it stalled, *)
(* and never again after that.                                               *)
StartsBounded ==
  \A d \in Days : starts[d] <= Attempts + MaxStalls

Failures(d) == {i \in DOMAIN ended : ended[i] = [day |-> d, how |-> "failed"]}

(* onJobFailed reports a job that failed at most once and never one that is  *)
(* still tried again, wherever and however late its event is emitted.  A     *)
(* crash may lose that report, or a job may fail by stalling: a job on the   *)
(* list of failed ones had every attempt captured, or stalled too often.     *)
FailuresAreHeardOf ==
  \A d \in Days :
    /\ alerts[d] <= Cardinality(Failures(d))
    /\ job[d].state = "failed" => captured[d] >= Attempts \/ job[d].stalls = MaxStalls

(* Daily job ids prevent duplicate work: boots and ticks never make a day's  *)
(* job end twice, unless as many others as are kept ended meanwhile.         *)
NotRepeated ==
  \A j \in DOMAIN ended : \A i \in 1 .. j - 1 :
    ended[i].day = ended[j].day => Since(ended, i, j - 1) >= Kept

(* A job that was added ends, whatever crashes on the way.                   *)
JobsEnd ==
  \A d \in Days :
    job[d].state \in {"waiting", "active", "delayed"}
      ~> job[d].state \in {"completed", "failed", "none"}
=============================================================================
