------------------------ MODULE IndexingLeases_proofs ------------------------
(***************************************************************************)
(* What holds while live workers keep their leases (no heartbeat is missed *)
(* for abandoned_after, and nothing is committed between the SELECT and    *)
(* the COMMIT of recover_abandoned): one process works on the repository,  *)
(* attempts are bounded, deliveries end with their jobs and the vectors of *)
(* the active version are complete, whatever else fails, for any number of *)
(* jobs, workers, commits and batches.                                     *)
(***************************************************************************)
EXTENDS IndexingSafety_proofs

LeasesAreKept == "lease" \notin Faults /\ "overlap" \notin Faults

(* One job runs; the process at work on it holds a fresh lease and knows   *)
(* its attempt.                                                            *)
LeaseInv ==
    /\ \A i, j \in Jobs : job[i].status = "running" /\ job[j].status = "running" => i = j
    /\ \A w \in Workers : worker[w].pc # "recovering"
    /\ \A w \in Workers : Working(w) =>
          Leased(JobOf(w), w) /\ job[JobOf(w)].fresh /\ worker[w].attempt = job[JobOf(w)].attempt
    /\ \A j \in Jobs :
          /\ job[j].attempt <= MaxAttempts
          /\ job[j].status \in {"queued", "retrying"} => job[j].attempt < MaxAttempts
    /\ DeliveryEndsWithJob

PreparedSteps == {"embed", "check", "delete", "upsert", "count", "validate"}
ScopeSteps == {"graph", "ready", "recheck", "reauthorize", "activating", "activate"}
TargetSteps == {"current", "clone", "analyze", "prepare"} \cup PreparedSteps \cup ScopeSteps

(* What a run has seen to by the step it has come to.                      *)
RunOK(w) ==
    /\ worker[w].pc \in TargetSteps => job[JobOf(w)].target = Target(w)
    /\ worker[w].pc \in PreparedSteps \cup ScopeSteps => Target(w) = repo.version + 1
    /\ worker[w].pc \in ScopeSteps => ScopeComplete(Target(w), worker[w].commit)
    /\ worker[w].pc = "cleanDelete" => Target(w) # repo.version

VectorsInv == (\A w \in Workers : RunOK(w)) /\ ActiveVectorsComplete

WorkInv == SafetyInv /\ LeaseInv /\ VectorsInv

(* A job, its lease and its attempts are what they were.                   *)
LeasesStay ==
    \A j \in Jobs : /\ job'[j].status = job[j].status /\ job'[j].lockedBy = job[j].lockedBy
                    /\ job'[j].attempt = job[j].attempt /\ (job[j].fresh => job'[j].fresh)

TargetsStay == \A j \in Jobs : job'[j].target = job[j].target

VersionStays == repo'.version = repo.version /\ repo'.commit = repo.commit

(* Nobody begins to work.                                                  *)
NobodyBegins ==
    \A w \in Workers :
        /\ worker'[w].pc # "recovering"
        /\ Working(w)' => /\ Working(w) /\ worker'[w].job = worker[w].job
                          /\ worker'[w].attempt = worker[w].attempt

-----------------------------------------------------------------------------
(* Leases, one kind of change at a time.                                   *)
LEMMA OnlyOneWorks ==
  ASSUME LeaseInv, NEW w \in Workers, Working(w), NEW x \in Workers, Working(x),
         JobOf(w) \in Jobs, JobOf(x) \in Jobs
  PROVE  x = w
  BY DEF LeaseInv, Leased

LEMMA WorkersHaveJobs == ASSUME WorkInv, NEW w \in Workers, Working(w) PROVE JobOf(w) \in Jobs
  BY DEF WorkInv, SafetyInv, TypeInv, WorkersOK, RowKnows, JobOf, Working, IdleSteps

LEMMA LeasesKept ==
  ASSUME WorkInv, LeasesStay, NobodyBegins,
         \A j \in Jobs : delivery'[j] \in DeliveryEnded => delivery[j] \in DeliveryEnded
  PROVE  LeaseInv'
  <1>1. \A i, j \in Jobs : job'[i].status = "running" /\ job'[j].status = "running" => i = j
    BY DEF WorkInv, LeaseInv, LeasesStay
  <1>2. ASSUME NEW w \in Workers, Working(w)'
        PROVE  Leased(JobOf(w), w)' /\ job'[JobOf(w)'].fresh /\ worker'[w].attempt = job'[JobOf(w)'].attempt
    <2>1. Working(w) /\ JobOf(w)' = JobOf(w) /\ worker'[w].attempt = worker[w].attempt /\ JobOf(w) \in Jobs
      BY <1>2, WorkersHaveJobs DEF NobodyBegins, JobOf
    <2> QED
      BY <2>1 DEF WorkInv, LeaseInv, LeasesStay, Leased
  <1>3. \A j \in Jobs :
          /\ job'[j].attempt <= MaxAttempts
          /\ job'[j].status \in {"queued", "retrying"} => job'[j].attempt < MaxAttempts
    BY DEF WorkInv, LeaseInv, LeasesStay
  <1>4. DeliveryEndsWithJob'
    BY DEF WorkInv, LeaseInv, LeasesStay, DeliveryEndsWithJob
  <1>5. \A w \in Workers : worker'[w].pc # "recovering"
    BY DEF NobodyBegins
  <1> QED
    BY <1>1, <1>2, <1>3, <1>4, <1>5 DEF LeaseInv

(* One job leaves the hands of whoever worked on it, or is new.            *)
LEMMA OneJobChanges ==
  ASSUME WorkInv, NobodyBegins, NEW j \in Jobs,
         \A k \in Jobs : k # j => job'[k] = job[k] /\ delivery'[k] = delivery[k],
         \A w \in Workers : Working(w)' => JobOf(w) # j,
         job'[j].status # "running", job'[j].attempt <= MaxAttempts,
         job'[j].status \in {"queued", "retrying"} => job'[j].attempt < MaxAttempts,
         delivery'[j] \in DeliveryEnded => job'[j].status \in Terminal
  PROVE  LeaseInv'
  <1>1. \A i, k \in Jobs : job'[i].status = "running" /\ job'[k].status = "running" => i = k
    BY DEF WorkInv, LeaseInv
  <1>2. ASSUME NEW w \in Workers, Working(w)'
        PROVE  Leased(JobOf(w), w)' /\ job'[JobOf(w)'].fresh /\ worker'[w].attempt = job'[JobOf(w)'].attempt
    <2>1. Working(w) /\ JobOf(w)' = JobOf(w) /\ worker'[w].attempt = worker[w].attempt /\ JobOf(w) \in Jobs
          /\ JobOf(w) # j
      BY <1>2, WorkersHaveJobs DEF NobodyBegins, JobOf
    <2>2. job'[JobOf(w)] = job[JobOf(w)]
      BY <2>1
    <2> QED
      BY <2>1, <2>2 DEF WorkInv, LeaseInv, Leased
  <1>3. \A k \in Jobs :
          /\ job'[k].attempt <= MaxAttempts
          /\ job'[k].status \in {"queued", "retrying"} => job'[k].attempt < MaxAttempts
    BY DEF WorkInv, LeaseInv
  <1>4. DeliveryEndsWithJob'
    BY DEF WorkInv, LeaseInv, DeliveryEndsWithJob
  <1>5. \A w \in Workers : worker'[w].pc # "recovering"
    BY DEF NobodyBegins
  <1> QED
    BY <1>1, <1>2, <1>3, <1>4, <1>5 DEF LeaseInv

-----------------------------------------------------------------------------
(* The vectors, next to the leases.                                        *)
CheckedSteps == TargetSteps \cup {"cleanDelete"}

(* The scopes of the active and of the next version are what they were.    *)
ScopesStay ==
    \A v \in Versions : v \in {repo.version, repo.version + 1} => vectors'[v] = vectors[v]

LEMMA VectorsStay ==
  ASSUME WorkInv, TargetsStay, VersionStays, ScopesStay,
         \A w \in Workers : worker'[w] = worker[w] \/ worker'[w].pc \notin CheckedSteps
  PROVE  VectorsInv'
  <1> USE DEF WorkInv, VectorsInv
  <1>1. repo.version \in Nat /\ repo.version \in {0} \cup Versions
    BY DEF SafetyInv, TypeInv, StoreTypeOK, RepositoryRow, Versions
  <1>2. ASSUME NEW w \in Workers PROVE RunOK(w)'
    <2>1. CASE worker'[w].pc \notin CheckedSteps
      BY <2>1 DEF RunOK, CheckedSteps, TargetSteps, PreparedSteps, ScopeSteps
    <2>2. CASE worker'[w] = worker[w] /\ worker[w].pc \in CheckedSteps
      <3>1. JobOf(w) \in Jobs /\ RunOK(w) /\ JobOf(w)' = JobOf(w) /\ Target(w)' = Target(w)
        BY <2>2, WorkersHaveJobs
        DEF Working, IdleSteps, CheckedSteps, TargetSteps, PreparedSteps, ScopeSteps, JobOf, Target
      <3>2. worker[w].pc \in ScopeSteps => Target(w) \in Versions /\ Target(w) = repo.version + 1
        BY <1>1, <3>1 DEF RunOK, SafetyInv, TypeInv, WorkersOK, RowKnows, AuthorizedSteps, PinnedSteps,
                          ScopeSteps, Target
      <3> QED
        BY <2>2, <3>1, <3>2 DEF RunOK, TargetsStay, VersionStays, ScopesStay, ScopeComplete
    <2> QED
      BY <2>1, <2>2
  <1>3. ActiveVectorsComplete'
    BY <1>1 DEF ActiveVectorsComplete, VersionStays, ScopesStay, ScopeComplete
  <1> QED
    BY <1>2, <1>3

(* One worker at work changes what it likes, but the active scope.         *)
LEMMA RunGoesOn ==
  ASSUME WorkInv, NEW w \in Workers, Working(w), NEW row, worker' = [worker EXCEPT ![w] = row],
         RunOK(w)', ActiveVectorsComplete'
  PROVE  VectorsInv'
  <1>1. ASSUME NEW x \in Workers, x # w PROVE RunOK(x)'
    <2>1. worker'[x] = worker[x] /\ ~Working(x)
      BY <1>1, OnlyOneWorks, WorkersHaveJobs DEF WorkInv, SafetyInv, TypeInv, WorkersOK
    <2> QED
      BY <2>1 DEF RunOK, Working, IdleSteps, TargetSteps, PreparedSteps, ScopeSteps
  <1> QED
    BY <1>1 DEF VectorsInv

LEMMA ActiveScopeStays ==
  ASSUME WorkInv, VersionStays, repo.version > 0 => vectors'[repo.version] = vectors[repo.version]
  PROVE  ActiveVectorsComplete'
  BY DEF WorkInv, VectorsInv, ActiveVectorsComplete, VersionStays, ScopeComplete

-----------------------------------------------------------------------------
(* The steps of a run.                                                     *)
LEMMA WorkStep ==
  ASSUME WorkInv, NEW w \in Workers, Working(w), NEW row, worker' = [worker EXCEPT ![w] = row],
         row.job = worker[w].job, row.attempt = worker[w].attempt, row.pc # "recovering",
         LeasesStay, VersionStays, UNCHANGED delivery, RunOK(w)',
         repo.version > 0 => vectors'[repo.version] = vectors[repo.version]
  PROVE  LeaseInv' /\ VectorsInv'
  <1>1. worker \in [Workers -> WorkerRow] /\ worker'[w] = row
        /\ \A x \in Workers : x # w => worker'[x] = worker[x]
    BY DEF WorkInv, SafetyInv, TypeInv, WorkersOK
  <1>2. NobodyBegins
    BY <1>1 DEF NobodyBegins, Working, WorkInv, LeaseInv
  <1>3. LeaseInv'
    BY <1>2, LeasesKept
  <1>4. VectorsInv'
    BY ActiveScopeStays, RunGoesOn
  <1> QED
    BY <1>3, <1>4

LEMMA WorkLeft ==
  ASSUME WorkInv, NEW w \in Workers, Working(w), NEW row, worker' = [worker EXCEPT ![w] = row],
         row.job = worker[w].job, row.attempt = worker[w].attempt,
         row.pc \notin CheckedSteps \cup {"recovering"},
         LeasesStay, VersionStays, UNCHANGED <<delivery, vectors>>
  PROVE  LeaseInv' /\ VectorsInv'
  <1>1. worker'[w] = row
    BY DEF WorkInv, SafetyInv, TypeInv, WorkersOK
  <1>2. RunOK(w)'
    BY <1>1 DEF RunOK, CheckedSteps, TargetSteps, PreparedSteps, ScopeSteps
  <1> QED
    BY <1>2, WorkStep

(* A process that does not work on a job takes a step.                     *)
LEMMA RestStep ==
  ASSUME WorkInv, LeasesStay, TargetsStay, VersionStays, ScopesStay,
         \A j \in Jobs : delivery'[j] \in DeliveryEnded => delivery[j] \in DeliveryEnded,
         \A w \in Workers : worker'[w] = worker[w] \/ worker'[w].pc \in {"idle", "ack", "dropRows"}
  PROVE  LeaseInv' /\ VectorsInv'
  <1>1. NobodyBegins
    BY DEF NobodyBegins, Working, WorkInv, LeaseInv, IdleSteps
  <1>2. LeaseInv'
    BY <1>1, LeasesKept
  <1>3. VectorsInv'
    BY VectorsStay DEF CheckedSteps, TargetSteps, PreparedSteps, ScopeSteps
  <1> QED
    BY <1>2, <1>3

LEMMA StoreStays ==
  ASSUME UNCHANGED store
  PROVE  LeasesStay /\ TargetsStay /\ VersionStays /\ UNCHANGED <<job, repo, delivery>>
  BY DEF store, LeasesStay, TargetsStay, VersionStays

(* The rows that runs leave with.                                          *)
LEMMA GotoRow ==
  ASSUME WorkersOK, NEW w \in Workers, NEW step, Goto(w, step)
  PROVE  \E row : /\ worker' = [worker EXCEPT ![w] = row] /\ worker'[w] = row /\ row.pc = step
                  /\ row.job = worker[w].job /\ row.attempt = worker[w].attempt
                  /\ row.context = worker[w].context /\ row.commit = worker[w].commit
  <1>1. PICK row : row = [worker[w] EXCEPT !.pc = step]
    OBVIOUS
  <1>2. worker[w] \in WorkerRow
    BY DEF WorkersOK
  <1>3. worker' = [worker EXCEPT ![w] = row] /\ worker'[w] = row
    BY <1>1 DEF Goto, WorkersOK
  <1>4. /\ row.pc = step /\ row.job = worker[w].job /\ row.attempt = worker[w].attempt
        /\ row.context = worker[w].context /\ row.commit = worker[w].commit
    BY <1>1, <1>2 DEF WorkerRow
  <1> QED
    BY <1>3, <1>4

LEMMA LeavingRow ==
  ASSUME WorkersOK, NEW w \in Workers,
         \/ \E b : FailFrom(w, b)
         \/ \E exit : CleanThen(w, exit)
         \/ \E step \in {"cancel", "supersede", "stale"} : worker' = [worker EXCEPT ![w] = Leaving(w, step)]
  PROVE  \E row : /\ worker' = [worker EXCEPT ![w] = row] /\ worker'[w] = row
                  /\ row.job = worker[w].job /\ row.attempt = worker[w].attempt
                  /\ row.pc \notin CheckedSteps \cup {"recovering"}
  <1>1. ASSUME NEW step PROVE LET row == Leaving(w, step) IN
                                /\ row.pc = step /\ row.job = worker[w].job /\ row.attempt = worker[w].attempt
    BY DEF Leaving, Idle, JobOf
  <1>2. ASSUME NEW b, FailFrom(w, b)
        PROVE  \E row : /\ worker' = [worker EXCEPT ![w] = row] /\ row.job = worker[w].job
                        /\ row.attempt = worker[w].attempt /\ row.pc \in {"cleanCheck", "fail"}
    <2>1. PICK step \in {"cleanCheck", "fail"} : step = IF worker[w].prepared THEN "cleanCheck" ELSE "fail"
      OBVIOUS
    <2>2. PICK row : row = [Leaving(w, step) EXCEPT !.retryable = b]
      OBVIOUS
    <2>3. row.pc = step /\ row.job = worker[w].job /\ row.attempt = worker[w].attempt
      BY <2>2 DEF Leaving, Idle, JobOf
    <2>4. worker' = [worker EXCEPT ![w] = row]
      BY <1>2, <2>1, <2>2 DEF FailFrom
    <2> QED
      BY <2>3, <2>4
  <1>3. ASSUME NEW exit, CleanThen(w, exit)
        PROVE  \E row : /\ worker' = [worker EXCEPT ![w] = row] /\ row.job = worker[w].job
                        /\ row.attempt = worker[w].attempt /\ row.pc = "cleanCheck"
    <2>1. PICK row : row = [Leaving(w, "cleanCheck") EXCEPT !.exit = exit]
      OBVIOUS
    <2>2. row.pc = "cleanCheck" /\ row.job = worker[w].job /\ row.attempt = worker[w].attempt
      BY <2>1 DEF Leaving, Idle, JobOf
    <2>3. worker' = [worker EXCEPT ![w] = row]
      BY <1>3, <2>1 DEF CleanThen
    <2> QED
      BY <2>2, <2>3
  <1>4. PICK row : /\ worker' = [worker EXCEPT ![w] = row] /\ row.job = worker[w].job
                   /\ row.attempt = worker[w].attempt
                   /\ row.pc \in {"cleanCheck", "fail", "cancel", "supersede", "stale"}
    BY <1>1, <1>2, <1>3
  <1> QED
    BY <1>4 DEF WorkersOK, CheckedSteps, TargetSteps, PreparedSteps, ScopeSteps

-----------------------------------------------------------------------------
(* The store under a worker.                                               *)
LEMMA StageStays ==
  ASSUME WorkInv, NEW j \in Jobs, NEW w \in Workers, Stage(j, w)
  PROVE  LeasesStay /\ TargetsStay /\ VersionStays /\ UNCHANGED delivery
  <1>1. job \in [Jobs -> JobRow] /\ repo \in RepositoryRow
    BY DEF WorkInv, SafetyInv, TypeInv, StoreTypeOK
  <1>2. CASE ~Leased(j, w)
    BY <1>2, StoreStays DEF Stage
  <1>3. CASE Leased(j, w)
    <2>1. PICK row : row = [job[j] EXCEPT !.fresh = TRUE]
      OBVIOUS
    <2>2. row.status = job[j].status /\ row.lockedBy = job[j].lockedBy /\ row.attempt = job[j].attempt
          /\ row.fresh /\ row.target = job[j].target
      BY <1>1, <2>1 DEF JobRow
    <2>3. job' = [job EXCEPT ![j] = row]
      BY <1>1, <1>3, <2>1 DEF Stage
    <2>4. VersionStays /\ UNCHANGED delivery
      BY <1>1, <1>3 DEF Stage, VersionStays, RepositoryRow
    <2> QED
      BY <1>1, <2>2, <2>3, <2>4 DEF LeasesStay, TargetsStay
  <1> QED
    BY <1>2, <1>3

LEMMA RowsStay ==
  ASSUME UNCHANGED <<job, repo, delivery>>
  PROVE  LeasesStay /\ TargetsStay /\ VersionStays
  BY DEF LeasesStay, TargetsStay, VersionStays

LEMMA AuthorizedContextStays ==
  ASSUME WorkInv, NEW j \in Jobs, AuthorizedContext(j)
  PROVE  /\ LeasesStay /\ VersionStays /\ UNCHANGED delivery /\ job'[j].target = TargetOf(j)
         /\ job[j].target # 0 => TargetsStay
  <1>1. job \in [Jobs -> JobRow]
    BY DEF WorkInv, SafetyInv, TypeInv, StoreTypeOK
  <1>2. PICK row : row = [job[j] EXCEPT !.target = TargetOf(j)]
    OBVIOUS
  <1>3. row.status = job[j].status /\ row.lockedBy = job[j].lockedBy /\ row.attempt = job[j].attempt
        /\ row.fresh = job[j].fresh /\ row.target = TargetOf(j)
    BY <1>1, <1>2 DEF JobRow
  <1>4. job' = [job EXCEPT ![j] = row] /\ UNCHANGED <<repo, delivery>>
    BY <1>1, <1>2 DEF AuthorizedContext
  <1>5. job[j].target # 0 => TargetOf(j) = job[j].target
    BY DEF TargetOf
  <1>6. LeasesStay
    BY <1>1, <1>3, <1>4 DEF LeasesStay
  <1>7. job[j].target # 0 => TargetsStay
    BY <1>1, <1>3, <1>4, <1>5 DEF TargetsStay
  <1>8. job'[j].target = TargetOf(j) /\ VersionStays
    BY <1>1, <1>3, <1>4 DEF VersionStays
  <1> QED
    BY <1>4, <1>6, <1>7, <1>8

LEMMA WorkTypes ==
  ASSUME WorkInv
  PROVE  /\ WorkersOK /\ StoreTypeOK /\ vectors \in [Versions -> SUBSET (Commits \X Batches)]
         /\ repo.version \in Nat /\ repo.version \in {0} \cup Versions
         /\ \A w \in Workers : RunOK(w)
  BY DEF WorkInv, SafetyInv, TypeInv, QueuesOK, VectorsInv, StoreTypeOK, RepositoryRow, Versions

(* A run goes on, and what it relies on is not touched.                    *)
LEMMA RunAdvances ==
  ASSUME WorkInv, NEW w \in Workers, NEW step, Goto(w, step), worker[w].pc \in TargetSteps,
         step \in TargetSteps,
         step \in PreparedSteps \cup ScopeSteps => worker[w].pc \in PreparedSteps \cup ScopeSteps,
         step \in ScopeSteps =>
            worker[w].pc \in ScopeSteps \/ ScopeComplete(Target(w), worker[w].commit),
         LeasesStay, TargetsStay, VersionStays, UNCHANGED <<delivery, vectors>>
  PROVE  LeaseInv' /\ VectorsInv'
  <1>1. Working(w) /\ JobOf(w) \in Jobs
    BY WorkersHaveJobs DEF Working, IdleSteps, TargetSteps, PreparedSteps, ScopeSteps
  <1>2. PICK row : /\ worker' = [worker EXCEPT ![w] = row] /\ worker'[w] = row /\ row.pc = step
                   /\ row.job = worker[w].job /\ row.attempt = worker[w].attempt
                   /\ row.context = worker[w].context /\ row.commit = worker[w].commit
    BY WorkTypes, GotoRow
  <1>3. JobOf(w)' = JobOf(w) /\ Target(w)' = Target(w) /\ RunOK(w)
    BY <1>2, WorkTypes DEF JobOf, Target
  <1>4. step \notin {"cleanDelete", "recovering"}
    BY DEF TargetSteps, PreparedSteps, ScopeSteps
  <1>5. RunOK(w)'
    BY <1>1, <1>2, <1>3, <1>4 DEF RunOK, TargetsStay, VersionStays, ScopeComplete
  <1> QED
    BY <1>1, <1>2, <1>4, <1>5, WorkStep

(* A run leaves its steps.                                                 *)
LEMMA RunLeaves ==
  ASSUME WorkInv, NEW w \in Workers, Working(w),
         \/ \E b : FailFrom(w, b)
         \/ \E exit : CleanThen(w, exit)
         \/ \E step \in {"cancel", "supersede", "stale"} : worker' = [worker EXCEPT ![w] = Leaving(w, step)],
         LeasesStay, VersionStays, UNCHANGED <<delivery, vectors>>
  PROVE  LeaseInv' /\ VectorsInv'
  <1>1. PICK row : /\ worker' = [worker EXCEPT ![w] = row] /\ worker'[w] = row
                   /\ row.job = worker[w].job /\ row.attempt = worker[w].attempt
                   /\ row.pc \notin CheckedSteps \cup {"recovering"}
    BY WorkTypes, LeavingRow
  <1> QED
    BY <1>1, WorkLeft

-----------------------------------------------------------------------------
(* The actions of a run (Build).                                           *)
LEMMA AuthorizeWorks == ASSUME WorkInv, NEW w \in Workers, Authorize(w) PROVE LeaseInv' /\ VectorsInv'
  <1>1. worker[w].pc = "authorize" /\ Working(w) /\ UNCHANGED vectors
    BY DEF Authorize, At, Working, IdleSteps
  <1>2. JobOf(w) \in Jobs
    BY <1>1, WorkersHaveJobs
  <1>3. CASE Authorized(JobOf(w))
    <2>1. AuthorizedContext(JobOf(w))
      BY <1>3 DEF Authorize
    <2>2. PICK context : context = ContextOf(JobOf(w))
      OBVIOUS
    <2>3. PICK row : row = [worker[w] EXCEPT !.pc = "current", !.context = context]
      OBVIOUS
    <2>4. worker' = [worker EXCEPT ![w] = row] /\ worker'[w] = row
      BY <1>3, <2>2, <2>3, WorkTypes DEF Authorize, WorkersOK
    <2>5. /\ row.pc = "current" /\ row.context = context /\ row.job = worker[w].job
          /\ row.attempt = worker[w].attempt
      BY <2>3, WorkTypes DEF WorkersOK, WorkerRow
    <2>6. context.target = TargetOf(JobOf(w))
      BY <2>2 DEF ContextOf
    <2>7. RunOK(w)'
      BY <1>2, <2>1, <2>4, <2>5, <2>6, AuthorizedContextStays
      DEF RunOK, Target, JobOf, TargetSteps, PreparedSteps, ScopeSteps
    <2> QED
      BY <1>1, <1>2, <2>1, <2>4, <2>5, <2>7, AuthorizedContextStays, WorkStep
  <1>4. CASE ~Authorized(JobOf(w))
    <2>1. worker' = [worker EXCEPT ![w] = Leaving(w, "cancel")] /\ UNCHANGED store
      BY <1>4 DEF Authorize
    <2> QED
      BY <1>1, <2>1, StoreStays, RunLeaves
  <1> QED
    BY <1>3, <1>4

LEMMA CloneWorks ==
  ASSUME WorkInv, NEW w \in Workers, NEW c \in Commits, Clone(w, c) PROVE LeaseInv' /\ VectorsInv'
  <1>1. worker[w].pc = "clone" /\ Working(w) /\ UNCHANGED vectors /\ UNCHANGED store
    BY DEF Clone, At, Working, IdleSteps
  <1>2. CASE AlreadyActive(w, c)
    BY <1>1, <1>2, StoreStays, RunLeaves DEF Clone
  <1>3. CASE ~AlreadyActive(w, c)
    <2>1. PICK row : row = [worker[w] EXCEPT !.commit = c, !.pc = "analyze"]
      OBVIOUS
    <2>2. worker' = [worker EXCEPT ![w] = row] /\ worker'[w] = row
      BY <1>3, <2>1, WorkTypes DEF Clone, WorkersOK
    <2>3. /\ row.pc = "analyze" /\ row.context = worker[w].context /\ row.job = worker[w].job
          /\ row.attempt = worker[w].attempt
      BY <2>1, WorkTypes DEF WorkersOK, WorkerRow
    <2>4. job[JobOf(w)].target = Target(w)
      BY <1>1, WorkTypes DEF RunOK, TargetSteps
    <2>5. RunOK(w)'
      BY <1>1, <2>2, <2>3, <2>4, StoreStays DEF RunOK, Target, JobOf, TargetSteps, PreparedSteps, ScopeSteps
    <2> QED
      BY <1>1, <2>2, <2>3, <2>5, StoreStays, WorkStep
  <1> QED
    BY <1>2, <1>3

LEMMA PrepareWorks == ASSUME WorkInv, NEW w \in Workers, Prepare(w) PROVE LeaseInv' /\ VectorsInv'
  <1>1. worker[w].pc = "prepare" /\ Working(w) /\ UNCHANGED vectors
    BY DEF Prepare, At, Working, IdleSteps
  <1>2. CASE ~CanPrepare(JobOf(w), w)
    BY <1>1, <1>2, StoreStays, RunLeaves DEF Prepare
  <1>3. CASE CanPrepare(JobOf(w), w)
    <2>1. PICK row : row = [worker[w] EXCEPT !.pc = "embed", !.prepared = TRUE]
      OBVIOUS
    <2>2. worker' = [worker EXCEPT ![w] = row] /\ worker'[w] = row
      BY <1>3, <2>1, WorkTypes DEF Prepare, WorkersOK
    <2>3. /\ row.pc = "embed" /\ row.context = worker[w].context /\ row.job = worker[w].job
          /\ row.attempt = worker[w].attempt
      BY <2>1, WorkTypes DEF WorkersOK, WorkerRow
    <2>4. job[JobOf(w)].target = Target(w) /\ Target(w) = repo.version + 1
      BY <1>1, <1>3, WorkTypes DEF RunOK, TargetSteps, CanPrepare
    <2>5. UNCHANGED <<job, repo, delivery>>
      BY <1>3 DEF Prepare, PrepareBuild
    <2>6. RunOK(w)'
      BY <2>2, <2>3, <2>4, <2>5 DEF RunOK, Target, JobOf, TargetSteps, PreparedSteps, ScopeSteps
    <2> QED
      BY <1>1, <2>2, <2>3, <2>5, <2>6, RowsStay, WorkStep
  <1> QED
    BY <1>2, <1>3

LEMMA ProgressWorks ==
  ASSUME WorkInv, NEW w \in Workers,
         \/ CheckCurrent(w) \/ PublicRepositoryGone(w) \/ Analyze(w) \/ Embed(w) \/ CheckInactive(w)
         \/ Count(w) \/ CheckGraph(w) \/ MarkReady(w) \/ Recheck(w) \/ Activating(w)
  PROVE  LeaseInv' /\ VectorsInv'
  <1> USE DEF TargetSteps, PreparedSteps, ScopeSteps
  <1>1. /\ worker[w].pc \in {"current", "clone", "analyze", "embed", "check", "count", "graph", "ready",
                             "recheck", "activating"}
        /\ UNCHANGED vectors
    BY DEF CheckCurrent, PublicRepositoryGone, Analyze, Embed, CheckInactive, Count, CheckGraph,
           MarkReady, Recheck, Activating, At
  <1>2. Working(w) /\ worker[w].pc \in TargetSteps
    BY <1>1 DEF Working, IdleSteps
  <1>3. JobOf(w) \in Jobs
    BY <1>2, WorkersHaveJobs
  <1>4. CASE CheckCurrent(w)
    BY <1>1, <1>2, <1>4, StoreStays, RunAdvances, RunLeaves DEF CheckCurrent, At
  <1>5. CASE PublicRepositoryGone(w)
    <2>1. LeasesStay /\ VersionStays /\ UNCHANGED delivery
      BY <1>5, WorkTypes
      DEF PublicRepositoryGone, RevokePublicAccess, LeasesStay, VersionStays, StoreTypeOK, RepositoryRow
    <2> QED
      BY <1>1, <1>2, <1>5, <2>1, RunLeaves DEF PublicRepositoryGone
  <1>6. CASE Analyze(w) \/ Embed(w) \/ Activating(w)
    <2>1. LeasesStay /\ TargetsStay /\ VersionStays /\ UNCHANGED delivery
      BY <1>3, <1>6, StageStays DEF Analyze, Embed, Activating
    <2> QED
      BY <1>1, <1>2, <1>6, <2>1, RunAdvances DEF Analyze, Embed, Activating, At
  <1>7. CASE CheckInactive(w) \/ Recheck(w)
    BY <1>1, <1>2, <1>7, StoreStays, RunAdvances, RunLeaves DEF CheckInactive, Recheck, At
  <1>8. CASE Count(w) \/ CheckGraph(w) \/ MarkReady(w)
    <2>1. UNCHANGED <<job, repo, delivery>>
      BY <1>8, StoreStays
      DEF Count, CheckGraph, MarkReady, RecordVectorCounts, ValidateGraph, MarkBuildReady
    <2> QED
      BY <1>1, <1>2, <1>8, <2>1, RowsStay, RunAdvances, RunLeaves DEF Count, CheckGraph, MarkReady, At
  <1> QED
    BY <1>4, <1>5, <1>6, <1>7, <1>8

LEMMA ValidateWorks == ASSUME WorkInv, NEW w \in Workers, ValidateScope(w) PROVE LeaseInv' /\ VectorsInv'
  <1>1. worker[w].pc = "validate" /\ Working(w) /\ worker[w].pc \in TargetSteps /\ UNCHANGED vectors
    BY DEF ValidateScope, At, Working, IdleSteps, TargetSteps, PreparedSteps
  <1>2. LeasesStay /\ TargetsStay /\ VersionStays /\ UNCHANGED delivery
    BY <1>1, WorkersHaveJobs, StageStays DEF ValidateScope
  <1>3. CASE ScopeComplete(Target(w), worker[w].commit)
    BY <1>1, <1>2, <1>3, RunAdvances DEF ValidateScope, TargetSteps, PreparedSteps, ScopeSteps
  <1>4. CASE ~ScopeComplete(Target(w), worker[w].commit)
    BY <1>1, <1>2, <1>4, RunLeaves DEF ValidateScope
  <1> QED
    BY <1>3, <1>4

LEMMA ReauthorizeWorks == ASSUME WorkInv, NEW w \in Workers, Reauthorize(w) PROVE LeaseInv' /\ VectorsInv'
  <1>1. worker[w].pc = "reauthorize" /\ Working(w) /\ worker[w].pc \in TargetSteps /\ UNCHANGED vectors
    BY DEF Reauthorize, At, Working, IdleSteps, TargetSteps, ScopeSteps
  <1>2. JobOf(w) \in Jobs
    BY <1>1, WorkersHaveJobs
  <1>3. CASE Authorized(JobOf(w))
    <2>1. AuthorizedContext(JobOf(w))
      BY <1>3 DEF Reauthorize
    <2>2. job[JobOf(w)].target # 0
      BY <1>1, WorkTypes DEF RunOK, TargetSteps, PreparedSteps, ScopeSteps
    <2>3. LeasesStay /\ TargetsStay /\ VersionStays /\ UNCHANGED delivery
      BY <1>2, <2>1, <2>2, AuthorizedContextStays
    <2>4. Goto(w, "activating") \/ FailFrom(w, FALSE)
      BY <1>3 DEF Reauthorize
    <2> QED
      BY <1>1, <2>3, <2>4, RunAdvances, RunLeaves DEF TargetSteps, PreparedSteps, ScopeSteps
  <1>4. CASE ~Authorized(JobOf(w))
    BY <1>1, <1>4, StoreStays, RunLeaves DEF Reauthorize
  <1> QED
    BY <1>3, <1>4

(* The writes to the scope under construction.                             *)
LEMMA ScopeWorks ==
  ASSUME WorkInv, NEW w \in Workers, ClearScope(w) \/ \E b \in Batches : Upsert(w, b)
  PROVE  LeaseInv' /\ VectorsInv'
  <1>1. worker[w].pc \in {"delete", "upsert"} /\ Working(w) /\ UNCHANGED store
    BY DEF ClearScope, Upsert, At, Working, IdleSteps
  <1>2. job[JobOf(w)].target = Target(w) /\ Target(w) = repo.version + 1
    BY <1>1, WorkTypes DEF RunOK, TargetSteps, PreparedSteps
  <1>3. repo.version > 0 => vectors'[repo.version] = vectors[repo.version]
    BY <1>2, WorkTypes DEF ClearScope, DeleteScope, Upsert
  <1>4. PICK row : /\ worker' = [worker EXCEPT ![w] = row] /\ row.pc \in {"upsert", "count"}
                   /\ row.context = worker[w].context /\ row.job = worker[w].job
                   /\ row.attempt = worker[w].attempt
    <2>1. worker[w] \in WorkerRow /\ worker \in [Workers -> WorkerRow]
      BY WorkTypes DEF WorkersOK
    <2>2. CASE ClearScope(w)
      <3>1. PICK row : row = [worker[w] EXCEPT !.pc = "upsert"]
        OBVIOUS
      <3>2. worker' = [worker EXCEPT ![w] = row]
        BY <2>1, <2>2, <3>1 DEF ClearScope
      <3>3. /\ row.pc = "upsert" /\ row.context = worker[w].context /\ row.job = worker[w].job
            /\ row.attempt = worker[w].attempt
        BY <2>1, <3>1 DEF WorkerRow
      <3> QED
        BY <3>2, <3>3
    <2>3. ASSUME NEW b \in Batches, Upsert(w, b)
          PROVE  \E row : /\ worker' = [worker EXCEPT ![w] = row] /\ row.pc \in {"upsert", "count"}
                          /\ row.context = worker[w].context /\ row.job = worker[w].job
                          /\ row.attempt = worker[w].attempt
      <3>1. PICK sent : sent = worker[w].sent \cup {b}
        OBVIOUS
      <3>2. PICK row : row = IF sent = Batches THEN [worker[w] EXCEPT !.sent = {}, !.pc = "count"]
                             ELSE [worker[w] EXCEPT !.sent = sent]
        OBVIOUS
      <3>3. worker' = [worker EXCEPT ![w] = row]
        BY <2>1, <2>3, <3>1, <3>2 DEF Upsert
      <3>4. row.pc \in {"upsert", "count"}
        BY <2>1, <2>3, <3>2 DEF WorkerRow, Upsert, At
      <3>5. row.context = worker[w].context /\ row.job = worker[w].job /\ row.attempt = worker[w].attempt
        BY <2>1, <3>2 DEF WorkerRow
      <3> QED
        BY <3>3, <3>4, <3>5
    <2> QED
      BY <2>2, <2>3
  <1>5. worker'[w] = row
    BY <1>4, WorkTypes DEF WorkersOK
  <1>6. RunOK(w)'
    BY <1>1, <1>2, <1>4, <1>5, StoreStays DEF RunOK, Target, JobOf, TargetSteps, PreparedSteps, ScopeSteps
  <1> QED
    BY <1>1, <1>3, <1>4, <1>6, StoreStays, WorkStep

-----------------------------------------------------------------------------
(* The ends of a run.                                                      *)
LEMMA ReleasedRow ==
  ASSUME WorkInv, NEW j \in Jobs, NEW status \in Unfinished \cup Terminal, NEW f,
         \/ f = Release(j, status)
         \/ \E due : f = [Release(j, status) EXCEPT ![j].due = due]
         \/ \E c : f = [Release(j, status) EXCEPT ![j].commit = c]
  PROVE  /\ f[j].status = status /\ f[j].attempt = job[j].attempt
         /\ \A k \in Jobs : k # j => f[k] = job[k]
  <1>1. job \in [Jobs -> JobRow]
    BY DEF WorkInv, SafetyInv, TypeInv, StoreTypeOK
  <1>2. PICK released : released = Release(j, status)
    OBVIOUS
  <1>3. PICK row : row = [job[j] EXCEPT !.status = status, !.lockedBy = NoWorker, !.fresh = FALSE]
    OBVIOUS
  <1>4. row.status = status /\ row.attempt = job[j].attempt
    BY <1>1, <1>3 DEF JobRow
  <1>5. released = [job EXCEPT ![j] = row]
    BY <1>1, <1>2, <1>3 DEF Release
  <1>6. released \in [Jobs -> JobRow]
    BY <1>1, <1>2, ReleaseType
  <1>7. /\ released[j].status = status /\ released[j].attempt = job[j].attempt
        /\ \A k \in Jobs : k # j => released[k] = job[k]
    BY <1>1, <1>4, <1>5
  <1>8. ASSUME NEW due, f = [released EXCEPT ![j].due = due]
        PROVE  /\ f[j].status = status /\ f[j].attempt = job[j].attempt
               /\ \A k \in Jobs : k # j => f[k] = job[k]
    BY <1>6, <1>7, <1>8 DEF JobRow
  <1>9. ASSUME NEW c, f = [released EXCEPT ![j].commit = c]
        PROVE  /\ f[j].status = status /\ f[j].attempt = job[j].attempt
               /\ \A k \in Jobs : k # j => f[k] = job[k]
    BY <1>6, <1>7, <1>9 DEF JobRow
  <1> QED
    BY <1>2, <1>7, <1>8, <1>9

LEMMA DeliveredRow ==
  ASSUME WorkInv, NEW j \in Jobs, NEW status
  PROVE  /\ Deliver(j, status)[j] \in DeliveryEnded => status \in DeliveryEnded
         /\ \A k \in Jobs : k # j => Deliver(j, status)[k] = delivery[k]
         /\ Deliver(j, status)[j] \in {"none", status}
  BY DEF WorkInv, SafetyInv, TypeInv, StoreTypeOK, Deliver, DeliveryEnded

LEMMA RunEnds ==
  ASSUME WorkInv, NEW w \in Workers, Working(w), NEW row, worker' = [worker EXCEPT ![w] = row],
         row.pc \in {"ack", "drop"},
         \A k \in Jobs : k # JobOf(w) => job'[k] = job[k] /\ delivery'[k] = delivery[k],
         job'[JobOf(w)].status \in Terminal \cup {"retrying"},
         job'[JobOf(w)].attempt = job[JobOf(w)].attempt,
         job'[JobOf(w)].status = "retrying" => job[JobOf(w)].attempt < MaxAttempts,
         delivery'[JobOf(w)] \in DeliveryEnded => job'[JobOf(w)].status \in Terminal,
         ActiveVectorsComplete'
  PROVE  LeaseInv' /\ VectorsInv'
  <1>1. worker \in [Workers -> WorkerRow] /\ worker'[w] = row
        /\ \A x \in Workers : x # w => worker'[x] = worker[x]
    BY WorkTypes DEF WorkersOK
  <1>2. JobOf(w) \in Jobs
    BY WorkersHaveJobs
  <1>3. NobodyBegins
    BY <1>1 DEF NobodyBegins, Working, WorkInv, LeaseInv
  <1>4. ASSUME NEW x \in Workers, Working(x)' PROVE JobOf(x)' # JobOf(w)
    <2>1. x # w
      BY <1>1, <1>4 DEF Working
    <2>2. Working(x)
      BY <1>1, <1>4, <2>1 DEF Working
    <2> QED
      BY <1>2, <2>1, <2>2, OnlyOneWorks, WorkersHaveJobs DEF WorkInv
  <1>5. PICK j \in Jobs : j = JobOf(w)
    BY <1>2
  <1>6. LeaseInv'
    <2>1. ASSUME NEW x \in Workers, Working(x)' PROVE JobOf(x) # j
      BY <1>3, <1>4, <1>5, <2>1 DEF NobodyBegins, JobOf
    <2>2. /\ job'[j].status # "running" /\ job'[j].attempt <= MaxAttempts
          /\ job'[j].status \in {"queued", "retrying"} => job'[j].attempt < MaxAttempts
      BY <1>5 DEF WorkInv, LeaseInv, Terminal
    <2>3. \A k \in Jobs : k # j => job'[k] = job[k] /\ delivery'[k] = delivery[k]
      BY <1>5
    <2>4. delivery'[j] \in DeliveryEnded => job'[j].status \in Terminal
      BY <1>5
    <2> QED
      BY <1>3, <2>1, <2>2, <2>3, <2>4, OneJobChanges
  <1>7. RunOK(w)'
    BY <1>1 DEF RunOK, TargetSteps, PreparedSteps, ScopeSteps
  <1>8. VectorsInv'
    BY <1>7, RunGoesOn
  <1> QED
    BY <1>6, <1>8

LEMMA FinishRow ==
  ASSUME WorkInv, NEW w \in Workers, Finish(w)
  PROVE  \E row : worker' = [worker EXCEPT ![w] = row] /\ row.pc = "ack" /\ worker'[w] = row
  <1>1. PICK row : row = [Idle EXCEPT !.pc = "ack", !.job = JobOf(w)]
    OBVIOUS
  <1>2. row.pc = "ack"
    BY <1>1 DEF Idle
  <1> QED
    BY <1>1, <1>2, WorkTypes DEF Finish, WorkersOK

LEMMA EndsWork ==
  ASSUME WorkInv, NEW w \in Workers,
         FailJob(w) \/ CancelJob(w) \/ SupersedeJob(w) \/ AlreadyActiveJob(w)
  PROVE  LeaseInv' /\ VectorsInv'
  <1>1. Working(w) /\ Finish(w) /\ UNCHANGED vectors
    BY DEF FailJob, CancelJob, SupersedeJob, AlreadyActiveJob, At, Working, IdleSteps
  <1>2. PICK j \in Jobs : j = JobOf(w)
    BY <1>1, WorkersHaveJobs
  <1>3. Leased(j, w) /\ worker[w].attempt = job[j].attempt
    BY <1>1, <1>2 DEF WorkInv, LeaseInv
  <1>4. PICK row : worker' = [worker EXCEPT ![w] = row] /\ row.pc = "ack"
    BY <1>1, FinishRow
  <1>5. VersionStays
    BY <1>2, <1>3, WorkTypes
    DEF FailJob, CancelJob, SupersedeJob, AlreadyActiveJob, Fail, CancelRevoked, MarkStale,
        VersionStays, StoreTypeOK, RepositoryRow
  <1>6. ActiveVectorsComplete'
    BY <1>1, <1>5, ActiveScopeStays
  <1>7. CASE FailJob(w)
    <2>1. PICK retry \in BOOLEAN : retry = ShouldRetry(worker[w].attempt, worker[w].retryable)
      BY WorkTypes DEF ShouldRetry, WorkersOK, WorkerRow
    <2>2. PICK status \in {"retrying", "failed"} : status = IF retry THEN "retrying" ELSE "failed"
      OBVIOUS
    <2>3. job' = [Release(j, status) EXCEPT ![j].due = ~retry] /\ delivery' = Deliver(j, FailDelivery(retry))
      BY <1>2, <1>3, <1>7, <2>1, <2>2 DEF FailJob, Fail
    <2>4. retry => job[j].attempt < MaxAttempts
      BY <1>3, <2>1 DEF ShouldRetry
    <2>5. /\ job'[j].status = status /\ job'[j].attempt = job[j].attempt
          /\ \A k \in Jobs : k # j => job'[k] = job[k]
      BY <2>3, ReleasedRow DEF Unfinished, Terminal
    <2>6. /\ delivery'[j] \in DeliveryEnded => ~retry
          /\ \A k \in Jobs : k # j => delivery'[k] = delivery[k]
      BY <2>3, DeliveredRow DEF FailDelivery, DeliveryEnded
    <2> QED
      BY <1>1, <1>2, <1>4, <1>6, <2>2, <2>4, <2>5, <2>6, RunEnds DEF Terminal
  <1>8. CASE ~FailJob(w)
    <2>1. PICK status : job' = Release(j, "cancelled") /\ delivery' = Deliver(j, status)
      BY <1>2, <1>3, <1>8 DEF CancelJob, SupersedeJob, AlreadyActiveJob, CancelRevoked, MarkStale
    <2>2. /\ job'[j].status = "cancelled" /\ job'[j].attempt = job[j].attempt
          /\ \A k \in Jobs : k # j => job'[k] = job[k]
      BY <2>1, ReleasedRow DEF Terminal
    <2>3. \A k \in Jobs : k # j => delivery'[k] = delivery[k]
      BY <2>1, DeliveredRow
    <2> QED
      BY <1>1, <1>2, <1>4, <1>6, <2>2, <2>3, RunEnds DEF Terminal
  <1> QED
    BY <1>7, <1>8

LEMMA ActivateWorks == ASSUME WorkInv, NEW w \in Workers, ActivateIndex(w) PROVE LeaseInv' /\ VectorsInv'
  <1>1. worker[w].pc = "activate" /\ Working(w) /\ UNCHANGED vectors
    BY DEF ActivateIndex, At, Working, IdleSteps
  <1>2. PICK j \in Jobs : j = JobOf(w)
    BY <1>1, WorkersHaveJobs
  <1>3. PICK c : c = worker[w].commit
    OBVIOUS
  <1>4. CASE ~CanActivate(j, w, c)
    BY <1>1, <1>2, <1>3, <1>4, StoreStays, RunLeaves DEF ActivateIndex
  <1>5. CASE CanActivate(j, w, c)
    <2>1. Activate(j, w, c)
      BY <1>2, <1>3, <1>5 DEF ActivateIndex
    <2>2. PICK row : worker' = [worker EXCEPT ![w] = row] /\ row.pc \in {"ack", "drop"}
      <3>1. CASE repo.version > 0
        <4>1. PICK row : row = [Leaving(w, "drop") EXCEPT !.previous = repo.version]
          OBVIOUS
        <4>2. row.pc = "drop"
          BY <4>1 DEF Leaving, Idle
        <4>3. worker' = [worker EXCEPT ![w] = row]
          BY <1>2, <1>3, <1>5, <3>1, <4>1 DEF ActivateIndex
        <4> QED
          BY <4>2, <4>3
      <3>2. CASE ~(repo.version > 0)
        BY <1>2, <1>3, <1>5, <3>2, FinishRow DEF ActivateIndex
      <3> QED
        BY <3>1, <3>2
    <2>3. /\ job'[j].status = "complete" /\ job'[j].attempt = job[j].attempt
          /\ \A k \in Jobs : k # j => job'[k] = job[k]
      BY <2>1, ReleasedRow DEF Activate, Terminal
    <2>4. \A k \in Jobs : k # j => delivery'[k] = delivery[k]
      BY <2>1, DeliveredRow DEF Activate
    <2>5. repo'.version = job[j].target /\ repo'.commit = c
      BY <2>1, WorkTypes DEF Activate, StoreTypeOK, RepositoryRow
    <2>6. ScopeComplete(job[j].target, c)
      BY <1>1, <1>2, <1>3, WorkTypes DEF RunOK, TargetSteps, PreparedSteps, ScopeSteps
    <2>7. ActiveVectorsComplete'
      BY <1>1, <2>5, <2>6 DEF ActiveVectorsComplete, ScopeComplete
    <2> QED
      BY <1>1, <1>2, <2>2, <2>3, <2>4, <2>7, RunEnds DEF Terminal
  <1> QED
    BY <1>4, <1>5

-----------------------------------------------------------------------------
(* Failing and cleaning (Leave).                                           *)

(* The cleanup reads and writes the builds only.                           *)
LEMMA CleanupStays ==
  ASSUME NEW v, NEW complete, RecordFailedBuildCleanup(v, complete)
  PROVE  LeasesStay /\ VersionStays /\ UNCHANGED delivery
  BY StoreStays, RowsStay DEF RecordFailedBuildCleanup

LEMMA CleanWorks ==
  ASSUME WorkInv, NEW w \in Workers,
         CleanCheck(w) \/ CleanDelete(w) \/ CleanDeleteFails(w) \/ CleanRecord(w)
  PROVE  LeaseInv' /\ VectorsInv'
  <1>1. worker[w].pc \in CleanSteps /\ Working(w)
    BY DEF CleanCheck, CleanDelete, CleanDeleteFails, CleanRecord, At, CleanSteps, Working, IdleSteps
  <1>2. worker[w] \in WorkerRow /\ worker \in [Workers -> WorkerRow] /\ Target(w) \in Versions
    BY <1>1, WorkTypes DEF WorkersOK, RowKnows, AuthorizedSteps, Target
  <1>3. worker[w].exit \in {"fail", "cancel", "supersede"}
    BY <1>2 DEF WorkerRow
  <1>4. CASE CleanCheck(w)
    <2>1. CASE CanCleanupInactive(Target(w))
      <3>1. Goto(w, "cleanDelete") /\ UNCHANGED <<store, vectors>>
        BY <1>4, <2>1 DEF CleanCheck, Goto
      <3>2. PICK row : /\ worker' = [worker EXCEPT ![w] = row] /\ worker'[w] = row /\ row.pc = "cleanDelete"
                       /\ row.job = worker[w].job /\ row.attempt = worker[w].attempt
                       /\ row.context = worker[w].context
        BY <3>1, WorkTypes, GotoRow
      <3>3. RunOK(w)'
        BY <2>1, <3>1, <3>2, StoreStays
        DEF CanCleanupInactive, RunOK, Target, TargetSteps, PreparedSteps, ScopeSteps
      <3> QED
        BY <1>1, <3>1, <3>2, <3>3, StoreStays, WorkStep
    <2>2. CASE ~CanCleanupInactive(Target(w))
      <3>1. PICK exit : exit = worker[w].exit
        OBVIOUS
      <3>2. PICK row : row = [worker[w] EXCEPT !.pc = exit, !.retryable = TRUE]
        OBVIOUS
      <3>3. row.pc = exit /\ row.job = worker[w].job /\ row.attempt = worker[w].attempt
        BY <1>2, <3>2 DEF WorkerRow
      <3>4. worker' = [worker EXCEPT ![w] = row] /\ UNCHANGED <<store, vectors>>
        BY <1>2, <1>4, <2>2, <3>1, <3>2 DEF CleanCheck
      <3> QED
        BY <1>1, <1>3, <3>1, <3>3, <3>4, StoreStays, WorkLeft
        DEF CheckedSteps, TargetSteps, PreparedSteps, ScopeSteps
    <2> QED
      BY <2>1, <2>2
  <1>5. CASE CleanDelete(w)
    <2>1. worker[w].pc = "cleanDelete" /\ Goto(w, "cleanRecord") /\ UNCHANGED store
      BY <1>5 DEF CleanDelete, At
    <2>2. PICK row : /\ worker' = [worker EXCEPT ![w] = row] /\ worker'[w] = row /\ row.pc = "cleanRecord"
                     /\ row.job = worker[w].job /\ row.attempt = worker[w].attempt
      BY <2>1, WorkTypes, GotoRow
    <2>3. Target(w) # repo.version
      BY <2>1, WorkTypes DEF RunOK
    <2>4. repo.version > 0 => vectors'[repo.version] = vectors[repo.version]
      BY <1>5, <2>3, WorkTypes DEF CleanDelete, DeleteScope
    <2>5. RunOK(w)'
      BY <2>2 DEF RunOK, TargetSteps, PreparedSteps, ScopeSteps
    <2> QED
      BY <1>1, <2>1, <2>2, <2>4, <2>5, StoreStays, WorkStep
  <1>6. CASE CleanDeleteFails(w)
    <2>1. PICK exit : exit = worker[w].exit
      OBVIOUS
    <2>2. PICK row : row = [worker[w] EXCEPT !.pc = exit, !.retryable = TRUE]
      OBVIOUS
    <2>3. row.pc = exit /\ row.job = worker[w].job /\ row.attempt = worker[w].attempt
      BY <1>2, <2>2 DEF WorkerRow
    <2>4. worker' = [worker EXCEPT ![w] = row]
      BY <1>2, <1>6, <2>1, <2>2 DEF CleanDeleteFails
    <2>5. LeasesStay /\ VersionStays /\ UNCHANGED <<delivery, vectors>>
      BY <1>6, CleanupStays DEF CleanDeleteFails
    <2> QED
      BY <1>1, <1>3, <2>1, <2>3, <2>4, <2>5, WorkLeft
      DEF CheckedSteps, TargetSteps, PreparedSteps, ScopeSteps
  <1>7. CASE CleanRecord(w)
    <2>1. LeasesStay /\ VersionStays /\ UNCHANGED <<delivery, vectors>>
      BY <1>7, CleanupStays DEF CleanRecord
    <2>2. PICK row : /\ worker' = [worker EXCEPT ![w] = row] /\ row.pc = worker[w].exit
                     /\ row.job = worker[w].job /\ row.attempt = worker[w].attempt
      BY <1>7, WorkTypes, GotoRow DEF CleanRecord
    <2> QED
      BY <1>1, <1>3, <2>1, <2>2, WorkLeft DEF CheckedSteps, TargetSteps, PreparedSteps, ScopeSteps
  <1> QED
    BY <1>4, <1>5, <1>6, <1>7

LEMMA LeaveWorks == ASSUME WorkInv, NEW w \in Workers, Leave(w) PROVE LeaseInv' /\ VectorsInv'
  <1>1. ASSUME NEW retryable \in BOOLEAN, StepFails(w, retryable) PROVE LeaseInv' /\ VectorsInv'
    <2>1. Working(w) /\ FailFrom(w, retryable) /\ UNCHANGED <<store, vectors>>
      BY <1>1 DEF StepFails, FallibleSteps, Working, IdleSteps
    <2> QED
      BY <2>1, StoreStays, RunLeaves
  <1> QED
    BY <1>1, CleanWorks, EndsWork DEF Leave

(* Dropping the version that was replaced.                                 *)
LEMMA DropWorks ==
  ASSUME WorkInv, NEW w \in Workers,
         DropSuperseded(w) \/ DropSupersededFails(w) \/ DropSupersededRows(w)
  PROVE  LeaseInv' /\ VectorsInv'
  <1>1. UNCHANGED <<job, repo, delivery>>
    BY StoreStays DEF DropSuperseded, DropSupersededFails, DropSupersededRows, CompleteSupersededCleanup
  <1>2. ASSUME DropSuperseded(w) PROVE ScopesStay
    <2>1. worker[w].pc = "drop" /\ DeleteScope(worker[w].previous)
      BY <1>2 DEF DropSuperseded, At
    <2>2. worker[w].previous \in Versions
      BY <2>1, WorkTypes DEF WorkersOK, RowKnows
    <2>3. worker[w].previous < repo.version
      BY <2>1 DEF WorkInv, SafetyInv, BuildInv, PreviousInv
    <2> QED
      BY <2>1, <2>2, <2>3, WorkTypes DEF DeleteScope, ScopesStay, Versions
  <1>3. ScopesStay
    BY <1>2 DEF DropSuperseded, DropSupersededFails, DropSupersededRows, ScopesStay
  <1>4. \A x \in Workers : worker'[x] = worker[x] \/ worker'[x].pc \in {"idle", "ack", "dropRows"}
    <2>1. Finish(w) \/ Goto(w, "dropRows")
      BY DEF DropSuperseded, DropSupersededFails, DropSupersededRows
    <2> QED
      BY <2>1, FinishRow, GotoRow, WorkTypes DEF WorkersOK
  <1> QED
    BY <1>1, <1>3, <1>4, RowsStay, RestStep

LEMMA BuildWorks == ASSUME WorkInv, NEW w \in Workers, Build(w) PROVE LeaseInv' /\ VectorsInv'
  BY AuthorizeWorks, CloneWorks, PrepareWorks, ProgressWorks, ValidateWorks, ReauthorizeWorks,
     ScopeWorks, ActivateWorks, DropWorks
  DEF Build

-----------------------------------------------------------------------------
(* Deliveries and reconciliation.                                          *)

(* The unique running job is claimed by one worker, who was idle.          *)
LEMMA ClaimWorks ==
  ASSUME ConstantsAssumption, WorkInv, NEW w \in Workers, NEW j \in Jobs, ClaimDelivery(w, j)
  PROVE  LeaseInv' /\ VectorsInv'
  <1>1. /\ Claim(j, w) /\ Running = {} /\ job[j].status \in {"queued", "retrying"}
        /\ UNCHANGED vectors
    BY DEF ClaimDelivery, Claim, Claimable
  <1>2. \A k \in Jobs : job[k].status # "running"
    BY <1>1 DEF Running
  <1>3. \A x \in Workers : ~Working(x)
    BY <1>2, WorkersHaveJobs DEF WorkInv, LeaseInv, Leased
  <1>4. PICK attempt : attempt = job[j].attempt + 1
    OBVIOUS
  <1>5. PICK row : row = [Idle EXCEPT !.pc = "authorize", !.job = j, !.attempt = attempt]
    OBVIOUS
  <1>6. row.pc = "authorize" /\ row.job = j /\ row.attempt = attempt
    BY <1>5 DEF Idle
  <1>7. worker' = [worker EXCEPT ![w] = row]
    BY <1>4, <1>5 DEF ClaimDelivery
  <1>8. worker'[w] = row /\ \A x \in Workers : x # w => worker'[x] = worker[x]
    BY <1>7, WorkTypes DEF WorkersOK
  <1>9. PICK new : new = [job[j] EXCEPT !.status = "running", !.lockedBy = w, !.attempt = attempt,
                                        !.fresh = TRUE, !.due = TRUE]
    OBVIOUS
  <1>10. job[j] \in JobRow /\ job \in [Jobs -> JobRow]
    BY WorkTypes DEF StoreTypeOK
  <1>11. /\ new.status = "running" /\ new.lockedBy = w /\ new.attempt = attempt /\ new.fresh
         /\ new.target = job[j].target
    BY <1>9, <1>10 DEF JobRow
  <1>12. job' = [job EXCEPT ![j] = new]
    BY <1>1, <1>4, <1>9, <1>10 DEF Claim
  <1>13. job'[j] = new /\ \A k \in Jobs : k # j => job'[k] = job[k]
    BY <1>10, <1>12
  <1>14. attempt \in Nat /\ attempt <= MaxAttempts
    <2>1. job[j].attempt \in Nat /\ job[j].attempt < MaxAttempts
      BY <1>1, <1>10 DEF JobRow, WorkInv, LeaseInv
    <2> QED
      BY <1>4, <2>1 DEF ConstantsAssumption
  <1>15. LeaseInv'
    <2>1. \A i, k \in Jobs : job'[i].status = "running" /\ job'[k].status = "running" => i = k
      BY <1>2, <1>13
    <2>2. \A x \in Workers : worker'[x].pc # "recovering"
      BY <1>6, <1>8 DEF WorkInv, LeaseInv
    <2>3. ASSUME NEW x \in Workers, Working(x)'
          PROVE  Leased(JobOf(x), x)' /\ job'[JobOf(x)'].fresh /\ worker'[x].attempt = job'[JobOf(x)'].attempt
      <3>1. x = w
        BY <1>3, <1>8, <2>3 DEF Working
      <3> QED
        BY <1>6, <1>8, <1>11, <1>13, <3>1 DEF JobOf, Leased
    <2>4. \A k \in Jobs :
            /\ job'[k].attempt <= MaxAttempts
            /\ job'[k].status \in {"queued", "retrying"} => job'[k].attempt < MaxAttempts
      BY <1>11, <1>13, <1>14 DEF WorkInv, LeaseInv
    <2>5. DeliveryEndsWithJob'
      <3>1. delivery' = Deliver(j, "processing")
        BY <1>1 DEF Claim
      <3>2. /\ delivery'[j] \notin DeliveryEnded
            /\ \A k \in Jobs : k # j => delivery'[k] = delivery[k]
        BY <3>1, DeliveredRow DEF DeliveryEnded
      <3> QED
        BY <1>13, <3>2 DEF WorkInv, LeaseInv, DeliveryEndsWithJob
    <2> QED
      BY <2>1, <2>2, <2>3, <2>4, <2>5 DEF LeaseInv
  <1>16. VectorsInv'
    <2>1. TargetsStay
      BY <1>11, <1>13 DEF TargetsStay
    <2>2. VersionStays
      BY <1>1, WorkTypes DEF Claim, VersionStays, StoreTypeOK, RepositoryRow
    <2>3. ScopesStay
      BY <1>1 DEF ScopesStay
    <2>4. \A x \in Workers : worker'[x] = worker[x] \/ worker'[x].pc \notin CheckedSteps
      BY <1>6, <1>8 DEF CheckedSteps, TargetSteps, PreparedSteps, ScopeSteps
    <2> QED
      BY <2>1, <2>2, <2>3, <2>4, VectorsStay
  <1> QED
    BY <1>15, <1>16

(* Only a job whose process died has an old heartbeat.                     *)
LEMMA RecoverWorks ==
  ASSUME WorkInv, NEW w \in Workers, NEW j \in Jobs, RecoverAtOnce(w, j)
  PROVE  LeaseInv' /\ VectorsInv'
  <1>1. /\ job[j].status = "running" /\ ~job[j].fresh /\ RecoverAbandoned(j, job[j].attempt)
        /\ UNCHANGED <<worker, vectors>>
    BY DEF RecoverAtOnce, Abandoned
  <1>2. Quiet
    BY <1>1, WorkTypes, RecoverAbandonedQuiet
  <1>3. NobodyBegins
    BY <1>1 DEF NobodyBegins, Working, WorkInv, LeaseInv
  <1>4. ASSUME NEW x \in Workers, Working(x)' PROVE JobOf(x) # j
    <2>1. Working(x)
      BY <1>1, <1>4 DEF Working
    <2> QED
      BY <1>1, <2>1 DEF WorkInv, LeaseInv
  <1>5. PICK retry : retry = (job[j].attempt < MaxAttempts)
    OBVIOUS
  <1>6. PICK status \in {"retrying", "failed"} : status = IF retry THEN "retrying" ELSE "failed"
    OBVIOUS
  <1>7. job' = [Release(j, status) EXCEPT ![j].due = TRUE] /\ delivery' = Deliver(j, FailDelivery(retry))
    BY <1>1, <1>5, <1>6 DEF RecoverAbandoned
  <1>8. /\ job'[j].status = status /\ job'[j].attempt = job[j].attempt
        /\ \A k \in Jobs : k # j => job'[k] = job[k]
    BY <1>7, ReleasedRow DEF Unfinished, Terminal
  <1>9. /\ delivery'[j] \in DeliveryEnded => ~retry
        /\ \A k \in Jobs : k # j => delivery'[k] = delivery[k]
    BY <1>7, DeliveredRow DEF FailDelivery, DeliveryEnded
  <1>10. LeaseInv'
    <2>1. /\ job'[j].status # "running" /\ job'[j].attempt <= MaxAttempts
          /\ job'[j].status \in {"queued", "retrying"} => job'[j].attempt < MaxAttempts
      BY <1>5, <1>6, <1>8 DEF WorkInv, LeaseInv
    <2>2. delivery'[j] \in DeliveryEnded => job'[j].status \in Terminal
      BY <1>6, <1>8, <1>9 DEF Terminal
    <2> QED
      BY <1>3, <1>4, <1>8, <1>9, <2>1, <2>2, OneJobChanges
  <1>11. VectorsInv'
    BY <1>1, <1>2, VectorsStay DEF Quiet, TargetsStay, VersionStays, ScopesStay
  <1> QED
    BY <1>10, <1>11

LEMMA DeliveriesWork ==
  ASSUME ConstantsAssumption, LeasesAreKept, WorkInv, NEW w \in Workers, Deliveries(w)
  PROVE  LeaseInv' /\ VectorsInv'
  <1>1. ASSUME NEW j \in Jobs, DropDelivery(w, j) \/ EnqueueDue(w, j) PROVE LeaseInv' /\ VectorsInv'
    BY <1>1, StoreStays, RestStep DEF DropDelivery, EnqueueDue, ScopesStay
  <1>2. ASSUME NEW j \in Jobs, RecoverSelect(w, j) PROVE FALSE
    BY <1>2 DEF RecoverSelect, LeasesAreKept
  <1>3. ASSUME RecoverCommit(w) PROVE FALSE
    BY <1>3 DEF RecoverCommit, At, WorkInv, LeaseInv
  <1>4. CASE Acknowledge(w)
    <2>1. worker' = [worker EXCEPT ![w] = Idle] /\ Idle.pc = "idle" /\ UNCHANGED <<store, vectors>>
      BY <1>4 DEF Acknowledge, Idle
    <2>2. \A x \in Workers : worker'[x] = worker[x] \/ worker'[x].pc = "idle"
      BY <2>1, WorkTypes DEF WorkersOK
    <2> QED
      BY <2>1, <2>2, StoreStays, RestStep DEF ScopesStay
  <1> QED
    BY <1>1, <1>2, <1>3, <1>4, ClaimWorks, RecoverWorks DEF Deliveries

-----------------------------------------------------------------------------
(* The API.                                                                *)

(* A request writes the row of a new job.                                  *)
LEMMA NewJobRow ==
  ASSUME WorkInv, NEW j \in Jobs,
         \/ SelectRepository(j)
         \/ \E c \in Commits \cup {NoCommit} : Reindex(j, c)
         \/ \E before, after \in Commits, forced \in BOOLEAN : ApplyPush(j, before, after, forced)
         \/ \E b \in Branches : ApplyRepositoryMetadata(j, b)
  PROVE  /\ job[j].status = "absent" /\ job'[j].status = "queued" /\ job'[j].attempt = 0
         /\ \A k \in Jobs : k # j => job'[k] = job[k] /\ delivery'[k] = delivery[k]
         /\ delivery'[j] \in {delivery[j], "queued"}
  <1>1. PICK mode, generation, commit, branch :
           job' = [job EXCEPT ![j] = NewJob(mode, generation, commit, branch)]
    <2>1. CASE SelectRepository(j)
      BY <2>1 DEF SelectRepository
    <2>2. ASSUME NEW c \in Commits \cup {NoCommit}, Reindex(j, c)
          PROVE  job' = [job EXCEPT ![j] = NewJob("full", repo.generation + 1, c, repo.branch)]
      BY <2>2 DEF Reindex
    <2>3. ASSUME NEW before \in Commits, NEW after \in Commits, NEW forced \in BOOLEAN,
                 ApplyPush(j, before, after, forced)
          PROVE  job' = [job EXCEPT ![j] =
                            NewJob(PushMode(before, forced), repo.generation + 1, after, repo.branch)]
      BY <2>3 DEF ApplyPush
    <2>4. ASSUME NEW b \in Branches, ApplyRepositoryMetadata(j, b)
          PROVE  job' = [job EXCEPT ![j] = NewJob("full", repo.generation + 1, NoCommit, b)]
      BY <2>4 DEF ApplyRepositoryMetadata
    <2> QED
      BY <2>1, <2>2, <2>3, <2>4
  <1>2. PICK row : row = NewJob(mode, generation, commit, branch)
    OBVIOUS
  <1>3. row.status = "queued" /\ row.attempt = 0
    BY <1>2 DEF NewJob, AbsentJob
  <1>4. job'[j] = row /\ \A k \in Jobs : k # j => job'[k] = job[k]
    BY <1>1, <1>2, WorkTypes DEF StoreTypeOK
  <1>5. job[j].status = "absent" /\ (UNCHANGED delivery \/ delivery' = [delivery EXCEPT ![j] = "queued"])
    BY DEF SelectRepository, Reindex, ApplyPush, ApplyRepositoryMetadata
  <1> QED
    BY <1>3, <1>4, <1>5, WorkTypes DEF StoreTypeOK

LEMMA RequestWorks ==
  ASSUME ConstantsAssumption, WorkInv, NEW j \in Jobs, Request(j)
  PROVE  LeaseInv' /\ VectorsInv'
  <1>1. UNCHANGED <<worker, vectors>>
    BY DEF Request
  <1>2. /\ job[j].status = "absent" /\ job'[j].status = "queued" /\ job'[j].attempt = 0
        /\ \A k \in Jobs : k # j => job'[k] = job[k] /\ delivery'[k] = delivery[k]
        /\ delivery'[j] \in {delivery[j], "queued"}
    BY NewJobRow DEF Request
  <1>3. Quiet
    BY WorkTypes, RequestQuiet DEF Request, WorkInv, SafetyInv, BuildInv
  <1>4. NobodyBegins
    BY <1>1 DEF NobodyBegins, Working, WorkInv, LeaseInv
  <1>5. ASSUME NEW x \in Workers, Working(x)' PROVE JobOf(x) # j
    <2>1. Working(x)
      BY <1>1, <1>5 DEF Working
    <2> QED
      BY <1>2, <2>1 DEF WorkInv, LeaseInv, Leased
  <1>6. delivery'[j] \notin DeliveryEnded
    BY <1>2 DEF WorkInv, LeaseInv, DeliveryEndsWithJob, Terminal, DeliveryEnded
  <1>7. LeaseInv'
    BY <1>2, <1>4, <1>5, <1>6, OneJobChanges DEF ConstantsAssumption
  <1>8. VectorsInv'
    BY <1>1, <1>3, VectorsStay DEF Quiet, TargetsStay, VersionStays, ScopesStay
  <1> QED
    BY <1>7, <1>8

LEMMA ApiWorks ==
  ASSUME ConstantsAssumption, WorkInv, NEW j \in Jobs, Api(j)
  PROVE  LeaseInv' /\ VectorsInv'
  <1>1. CASE SelectAgain(j) \/ PostEnqueue(j) \/ PostCrashes(j)
    BY <1>1, StoreStays, RestStep DEF SelectAgain, PostEnqueue, PostCrashes, ScopesStay
  <1>2. CASE PostEnqueueFails(j)
    <2>1. UNCHANGED <<job, repo, worker, vectors>> /\ delivery' = Deliver(j, "retryable")
      BY <1>2 DEF PostEnqueueFails
    <2>2. /\ delivery'[j] \notin DeliveryEnded
          /\ \A k \in Jobs : k # j => delivery'[k] = delivery[k]
      BY <2>1, DeliveredRow DEF DeliveryEnded
    <2>3. LeasesStay /\ TargetsStay /\ VersionStays /\ ScopesStay
      BY <2>1 DEF LeasesStay, TargetsStay, VersionStays, ScopesStay
    <2> QED
      BY <2>1, <2>2, <2>3, RestStep
  <1> QED
    BY <1>1, <1>2, RequestWorks DEF Api

-----------------------------------------------------------------------------
(* The environment.                                                        *)

(* Only the heartbeat of a job whose process died expires.                 *)
LEMMA ExpiryWorks ==
  ASSUME LeasesAreKept, WorkInv, NEW j \in Jobs, HeartbeatExpires(j)
  PROVE  LeaseInv' /\ VectorsInv'
  <1>1. ~Live(j) /\ UNCHANGED <<repo, delivery, worker, vectors>>
    BY DEF HeartbeatExpires, LeasesAreKept
  <1>2. PICK row : row = [job[j] EXCEPT !.fresh = FALSE]
    OBVIOUS
  <1>3. /\ row.status = job[j].status /\ row.attempt = job[j].attempt /\ row.lockedBy = job[j].lockedBy
        /\ row.target = job[j].target
    BY <1>2, WorkTypes DEF StoreTypeOK, JobRow
  <1>4. job'[j] = row /\ \A k \in Jobs : k # j => job'[k] = job[k]
    BY <1>2, WorkTypes DEF StoreTypeOK, HeartbeatExpires
  <1>5. ASSUME NEW x \in Workers, Working(x) PROVE JobOf(x) # j
    BY <1>1, <1>5 DEF Live, Working, WorkInv, LeaseInv
  <1>6. LeaseInv'
    <2>1. \A i, k \in Jobs : job'[i].status = "running" /\ job'[k].status = "running" => i = k
      BY <1>3, <1>4 DEF WorkInv, LeaseInv
    <2>2. \A x \in Workers : worker'[x].pc # "recovering"
      BY <1>1 DEF WorkInv, LeaseInv
    <2>3. ASSUME NEW x \in Workers, Working(x)'
          PROVE  Leased(JobOf(x), x)' /\ job'[JobOf(x)'].fresh /\ worker'[x].attempt = job'[JobOf(x)'].attempt
      <3>1. Working(x) /\ JobOf(x)' = JobOf(x) /\ JobOf(x) \in Jobs
        BY <1>1, <2>3, WorkersHaveJobs DEF Working, JobOf
      <3>2. job'[JobOf(x)] = job[JobOf(x)]
        BY <1>4, <1>5, <3>1
      <3> QED
        BY <1>1, <3>1, <3>2 DEF WorkInv, LeaseInv, Leased
    <2>4. \A k \in Jobs :
            /\ job'[k].attempt <= MaxAttempts
            /\ job'[k].status \in {"queued", "retrying"} => job'[k].attempt < MaxAttempts
      BY <1>3, <1>4 DEF WorkInv, LeaseInv
    <2>5. DeliveryEndsWithJob'
      BY <1>1, <1>3, <1>4 DEF WorkInv, LeaseInv, DeliveryEndsWithJob
    <2> QED
      BY <2>1, <2>2, <2>3, <2>4, <2>5 DEF LeaseInv
  <1>7. VectorsInv'
    BY <1>1, <1>3, <1>4, VectorsStay DEF TargetsStay, VersionStays, ScopesStay
  <1> QED
    BY <1>6, <1>7

(* A row of a job that is not the lease's.                                 *)
LEMMA BeatWorks ==
  ASSUME WorkInv,
         \/ \E w \in Workers : Beat(w)
         \/ \E j \in Jobs : BackoffEnds(j)
  PROVE  LeaseInv' /\ VectorsInv'
  <1>1. UNCHANGED <<repo, delivery, worker, vectors>>
    BY DEF Beat, Heartbeat, BackoffEnds
  <1>2. LeasesStay /\ TargetsStay
    BY WorkTypes
    DEF Beat, Heartbeat, BackoffEnds, LeasesStay, TargetsStay, StoreTypeOK, JobRow
  <1> QED
    BY <1>1, <1>2, RestStep DEF VersionStays, ScopesStay

LEMMA EnvironmentWorks ==
  ASSUME LeasesAreKept, WorkInv, Environment
  PROVE  LeaseInv' /\ VectorsInv'
  <1>1. ASSUME NEW w \in Workers, Crash(w) PROVE LeaseInv' /\ VectorsInv'
    <2>1. worker' = [worker EXCEPT ![w] = Idle] /\ Idle.pc = "idle" /\ UNCHANGED <<store, vectors>>
      BY <1>1 DEF Crash, Idle
    <2>2. \A x \in Workers : worker'[x] = worker[x] \/ worker'[x].pc = "idle"
      BY <2>1, WorkTypes DEF WorkersOK
    <2> QED
      BY <2>1, <2>2, StoreStays, RestStep DEF ScopesStay
  <1>2. ASSUME NEW j \in Jobs, LoseWakeup(j) PROVE LeaseInv' /\ VectorsInv'
    BY <1>2, StoreStays, RestStep DEF LoseWakeup, ScopesStay
  <1>3. CASE AccessChanges
    <2>1. UNCHANGED <<job, delivery, worker, vectors>>
      BY <1>3 DEF AccessChanges, RevokeAccess, MembershipChanges, SynchronizeRepository
    <2>2. Quiet
      BY <1>3, WorkTypes, AccessQuiet DEF AccessChanges
    <2>3. LeasesStay /\ TargetsStay /\ VersionStays /\ ScopesStay
      BY <2>1, <2>2 DEF LeasesStay, TargetsStay, VersionStays, ScopesStay, Quiet
    <2> QED
      BY <2>1, <2>3, RestStep
  <1> QED
    BY <1>1, <1>2, <1>3, ExpiryWorks, BeatWorks DEF Environment

-----------------------------------------------------------------------------
(* The inductive invariant, and what follows.                              *)
LEMMA InitWorkInv == ASSUME ConstantsAssumption, Init PROVE WorkInv
  <1>1. SafetyInv
    BY InitSafetyInv
  <1>2. \A j \in Jobs : job[j].status = "absent" /\ job[j].attempt = 0 /\ delivery[j] = "none"
    BY DEF Init, StoreInit, AbsentJob
  <1>3. \A w \in Workers : worker[w].pc = "idle"
    BY DEF Init, Idle
  <1>4. LeaseInv
    BY <1>2, <1>3
    DEF LeaseInv, Working, IdleSteps, DeliveryEndsWithJob, DeliveryEnded, ConstantsAssumption
  <1>5. VectorsInv
    BY <1>3
    DEF VectorsInv, RunOK, TargetSteps, PreparedSteps, ScopeSteps, ActiveVectorsComplete, Init, StoreInit
  <1> QED
    BY <1>1, <1>4, <1>5 DEF WorkInv

LEMMA NextWorkInv ==
  ASSUME ConstantsAssumption, LeasesAreKept, WorkInv, [Next]_vars PROVE WorkInv'
  <1>1. SafetyInv'
    BY NextSafetyInv DEF WorkInv
  <1>2. ASSUME UNCHANGED vars PROVE LeaseInv' /\ VectorsInv'
    <2>1. UNCHANGED store /\ UNCHANGED <<delivery, worker, vectors>>
      BY <1>2 DEF vars, store
    <2>2. LeasesStay /\ TargetsStay /\ VersionStays /\ ScopesStay
      BY <2>1, StoreStays DEF ScopesStay
    <2> QED
      BY <2>1, <2>2, RestStep
  <1>3. ASSUME Next PROVE LeaseInv' /\ VectorsInv'
    <2>1. ASSUME NEW w \in Workers, Deliveries(w) \/ Build(w) \/ Leave(w) PROVE LeaseInv' /\ VectorsInv'
      BY <2>1, DeliveriesWork, BuildWorks, LeaveWorks
    <2> QED
      BY <1>3, <2>1, ApiWorks, EnvironmentWorks DEF Next
  <1>4. LeaseInv' /\ VectorsInv'
    BY <1>2, <1>3
  <1> QED
    BY <1>1, <1>4 DEF WorkInv

LEMMA WorkCorrect == ASSUME LeasesAreKept PROVE Spec => []WorkInv
  <1>1. Init => WorkInv
    BY InitWorkInv, ConstantsAssumption
  <1>2. WorkInv /\ [Next]_vars => WorkInv'
    BY NextWorkInv, ConstantsAssumption
  <1> QED
    BY <1>1, <1>2, PTL DEF Spec

LEMMA WorkInvCorrect ==
  ASSUME WorkInv
  PROVE  OneWorkerPerRepository /\ AttemptsBounded /\ DeliveryEndsWithJob /\ ActiveVectorsComplete
  <1>1. OneWorkerPerRepository
    BY OnlyOneWorks, WorkersHaveJobs DEF WorkInv, LeaseInv, OneWorkerPerRepository
  <1>2. AttemptsBounded /\ DeliveryEndsWithJob /\ ActiveVectorsComplete
    BY DEF WorkInv, LeaseInv, VectorsInv, AttemptsBounded
  <1> QED
    BY <1>1, <1>2

(* OneWorkerPerRepository: while live workers keep their leases, a process *)
(* at work on a job holds its lease and is the only one, whatever crashes, *)
(* wake-ups lost or doubled, and requests come in between (claim, the      *)
(* partial unique index, recover_abandoned and the acknowledgements).      *)
THEOREM OneWorkerAtATime == ASSUME LeasesAreKept PROVE Spec => []OneWorkerPerRepository
  BY WorkCorrect, WorkInvCorrect, PTL

(* AttemptsBounded: no job is claimed more than WORKER_MAX_ATTEMPTS times, *)
(* counting the attempts that a crash cut short (claim, fail and           *)
(* recover_abandoned).                                                     *)
THEOREM AttemptsAreBounded == ASSUME LeasesAreKept PROVE Spec => []AttemptsBounded
  BY WorkCorrect, WorkInvCorrect, PTL

(* DeliveryEndsWithJob: a webhook delivery is not shown as ended before    *)
(* its job has ended, in the six transactions that write both rows.        *)
THEOREM DeliveriesEndWithJobs == ASSUME LeasesAreKept PROVE Spec => []DeliveryEndsWithJob
  BY WorkCorrect, WorkInvCorrect, PTL

(* ActiveVectorsComplete: the Qdrant scope of the active version holds     *)
(* every batch of the active commit and nothing else, although scopes are  *)
(* cleared, written and dropped outside the transactions.                  *)
THEOREM ActiveVectorsAreComplete == ASSUME LeasesAreKept PROVE Spec => []ActiveVectorsComplete
  BY WorkCorrect, WorkInvCorrect, PTL

(* The vectors change outside the transactions of the store, in one scope: *)
(* that of the next version is written, another than the active is deleted. *)
LEMMA NextScopes ==
  ASSUME WorkInv, [Next]_vars
  PROVE  \/ vectors' = vectors
         \/ /\ UNCHANGED store
            /\ \E v \in Versions :
                  /\ \A x \in Versions : x # v => vectors'[x] = vectors[x]
                  /\ v = repo.version + 1 \/ (v # repo.version /\ vectors'[v] = {})
  <1> DEFINE OneScope == \E v \in Versions :
                            /\ \A x \in Versions : x # v => vectors'[x] = vectors[x]
                            /\ v = repo.version + 1 \/ (v # repo.version /\ vectors'[v] = {})
  <1>t. vectors \in [Versions -> SUBSET (Commits \X Batches)]
    BY WorkTypes
  <1>w. ASSUME NEW w \in Workers PROVE worker[w] \in WorkerRow /\ RowKnows(worker[w])
    BY WorkTypes DEF WorkersOK
  <1>1. ASSUME NEW w \in Workers, Build(w) PROVE vectors' = vectors \/ (UNCHANGED store /\ OneScope)
    <2>1. CASE ClearScope(w) \/ \E b \in Batches : Upsert(w, b)
      <3>1. worker[w].pc \in {"delete", "upsert"} /\ UNCHANGED store
        BY <2>1 DEF ClearScope, Upsert, At
      <3>2. Target(w) = repo.version + 1 /\ Target(w) \in Versions
        BY <3>1, <1>w, WorkTypes DEF RunOK, PreparedSteps, ScopeSteps, Target, RowKnows,
           AuthorizedSteps, PinnedSteps
      <3> QED
        BY <1>t, <2>1, <3>1, <3>2 DEF ClearScope, DeleteScope, Upsert
    <2>2. CASE DropSuperseded(w)
      <3>1. worker[w].previous \in Versions /\ worker[w].previous < repo.version
        BY <2>2, <1>w DEF DropSuperseded, At, RowKnows, PreviousInv, WorkInv, SafetyInv, BuildInv
      <3>2. worker[w].previous # repo.version
        BY <3>1, WorkTypes DEF Versions
      <3> QED
        BY <1>t, <2>2, <3>1, <3>2 DEF DropSuperseded, DeleteScope
    <2>3. CASE \/ CheckCurrent(w) \/ (\E c \in Commits : Clone(w, c)) \/ CheckInactive(w)
               \/ Recheck(w) \/ DropSupersededFails(w)
      BY <2>3 DEF CheckCurrent, Clone, CheckInactive, Recheck, DropSupersededFails
    <2>4. CASE \/ Authorize(w) \/ Reauthorize(w) \/ Analyze(w) \/ Embed(w) \/ ValidateScope(w)
               \/ Activating(w)
      BY <2>4 DEF Authorize, Reauthorize, Analyze, Embed, ValidateScope, Activating
    <2>5. CASE Prepare(w) \/ Count(w) \/ CheckGraph(w) \/ MarkReady(w) \/ DropSupersededRows(w)
               \/ ActivateIndex(w) \/ PublicRepositoryGone(w)
      BY <2>5 DEF Prepare, Count, CheckGraph, MarkReady, DropSupersededRows, ActivateIndex,
         PublicRepositoryGone
    <2> QED
      BY <1>1, <2>1, <2>2, <2>3, <2>4, <2>5 DEF Build
  <1>2. ASSUME NEW w \in Workers, Leave(w) PROVE vectors' = vectors \/ (UNCHANGED store /\ OneScope)
    <2>1. CASE CleanDelete(w)
      <3>1. Target(w) # repo.version /\ Target(w) \in Versions
        BY <2>1, <1>w, WorkTypes DEF CleanDelete, At, RunOK, Target, RowKnows,
           AuthorizedSteps, CleanSteps
      <3> QED
        BY <1>t, <2>1, <3>1 DEF CleanDelete, DeleteScope
    <2>2. CASE \/ \E retryable \in BOOLEAN : StepFails(w, retryable)
               \/ CleanCheck(w) \/ CleanDeleteFails(w) \/ CleanRecord(w)
      BY <2>2 DEF StepFails, CleanCheck, CleanDeleteFails, CleanRecord
    <2>3. CASE FailJob(w) \/ CancelJob(w) \/ SupersedeJob(w) \/ AlreadyActiveJob(w)
      BY <2>3 DEF FailJob, CancelJob, SupersedeJob, AlreadyActiveJob
    <2> QED
      BY <1>2, <2>1, <2>2, <2>3 DEF Leave
  <1>3. ASSUME NEW w \in Workers, Deliveries(w) PROVE vectors' = vectors
    BY <1>3 DEF Deliveries, ClaimDelivery, DropDelivery, RecoverAtOnce, RecoverSelect, RecoverCommit,
       EnqueueDue, Acknowledge
  <1>4. ASSUME NEW j \in Jobs, Api(j) PROVE vectors' = vectors
    BY <1>4
    DEF Api, Request, SelectAgain, PostEnqueue, PostEnqueueFails, PostCrashes, SelectRepository,
        Reindex, ApplyPush, ApplyRepositoryMetadata
  <1>5. CASE Environment
    BY <1>5 DEF Environment, Beat, HeartbeatExpires, BackoffEnds, Crash, LoseWakeup, AccessChanges,
       RevokeAccess, MembershipChanges, SynchronizeRepository
  <1>6. CASE UNCHANGED vars
    BY <1>6 DEF vars
  <1> QED
    BY <1>1, <1>2, <1>3, <1>4, <1>5, <1>6 DEF Next

(* DeletesOnlyInactiveScopes: while live workers keep their leases, the    *)
(* scope that a clean-up, a new attempt or a drop deletes is not the one   *)
(* that readers search, although nothing locks it between the check and    *)
(* the deletion (can_cleanup_inactive, then delete_index_scope).           *)
THEOREM DeletionsInactive == ASSUME LeasesAreKept PROVE Spec => DeletesOnlyInactiveScopes
  <1> DEFINE Spared == \A v \in Versions : vectors'[v] = {} /\ vectors[v] # {} => v # repo.version
  <1>1. ASSUME WorkInv, [Next]_vars PROVE Spared
    BY <1>1, NextScopes, WorkTypes
  <1>2. WorkInv /\ [Next]_vars => [Spared]_vars
    BY <1>1
  <1> QED
    BY <1>2, WorkCorrect, PTL DEF Spec, DeletesOnlyInactiveScopes

-----------------------------------------------------------------------------
(* Refinement: indexing is the repository that QuestionAgent describes.    *)

(* The transactions that change who may read the repository.               *)
AccessMove ==
    \/ RevokeAccess \/ RevokePublicAccess \/ MembershipChanges
    \/ \E b \in Branches : SynchronizeRepository(b)

(* The others, which may change its status.                                *)
LEMMA AccessRests ==
  ASSUME repo \in RepositoryRow, NEW j, NEW w, NEW c,
         \/ Claim(j, w) \/ Stage(j, w) \/ MarkStale(j, w, c) \/ CancelRevoked(j, w)
         \/ Activate(j, w, c) \/ SelectRepository(j) \/ Reindex(j, c)
         \/ (\E before, after, forced : ApplyPush(j, before, after, forced))
         \/ ApplyRepositoryMetadata(j, c)
         \/ (\E attempt, retryable : Fail(j, w, attempt, retryable))
         \/ RecoverAbandoned(j, c)
         \/ UNCHANGED store
  PROVE  repo'.access = repo.access
  BY DEF Claim, Stage, MarkStale, CancelRevoked, Activate, SelectRepository, Reindex, ApplyPush,
         ApplyRepositoryMetadata, Fail, RecoverAbandoned, store, RepositoryRow

(* What each action does to access.                                        *)
LEMMA NextAccess ==
  ASSUME TypeInv, [Next]_vars
  PROVE  repo'.access = repo.access \/ AccessMove
  <1> DEFINE Rests == repo'.access = repo.access
  <1>t. repo \in RepositoryRow
    BY DEF TypeInv, StoreTypeOK
  <1>1. ASSUME NEW w \in Workers, Deliveries(w) PROVE Rests
    BY <1>1, <1>t, AccessRests
    DEF Deliveries, ClaimDelivery, DropDelivery, RecoverAtOnce, RecoverSelect, EnqueueDue, RecoverCommit,
        Acknowledge
  <1>2. ASSUME NEW w \in Workers, Build(w) PROVE Rests \/ AccessMove
    <2>1. CASE PublicRepositoryGone(w)
      BY <2>1 DEF PublicRepositoryGone, AccessMove
    <2>2. CASE \/ CheckCurrent(w) \/ (\E c \in Commits : Clone(w, c)) \/ CheckInactive(w)
               \/ ClearScope(w) \/ (\E b \in Batches : Upsert(w, b)) \/ Recheck(w)
               \/ DropSuperseded(w) \/ DropSupersededFails(w)
      BY <2>2 DEF CheckCurrent, Clone, CheckInactive, ClearScope, Upsert, Recheck, DropSuperseded,
         DropSupersededFails, store
    <2>3. CASE \/ Analyze(w) \/ Embed(w) \/ ValidateScope(w) \/ Activating(w) \/ ActivateIndex(w)
      BY <2>3, <1>t, AccessRests DEF Analyze, Embed, ValidateScope, Activating, ActivateIndex
    <2>4. CASE \/ Prepare(w) \/ Count(w) \/ CheckGraph(w) \/ MarkReady(w) \/ DropSupersededRows(w)
               \/ Authorize(w) \/ Reauthorize(w)
      BY <2>4
      DEF Prepare, PrepareBuild, Count, RecordVectorCounts, CheckGraph, ValidateGraph, MarkReady,
          MarkBuildReady, DropSupersededRows, CompleteSupersededCleanup, store, Authorize, Reauthorize,
          AuthorizedContext
    <2> QED
      BY <1>2, <2>1, <2>2, <2>3, <2>4 DEF Build
  <1>3. ASSUME NEW w \in Workers, Leave(w) PROVE Rests
    <2>1. CASE \/ (\E retryable \in BOOLEAN : StepFails(w, retryable)) \/ CleanCheck(w) \/ CleanDelete(w)
               \/ CleanDeleteFails(w) \/ CleanRecord(w)
      BY <2>1 DEF StepFails, CleanCheck, CleanDelete, CleanDeleteFails, CleanRecord,
         RecordFailedBuildCleanup, store
    <2>2. CASE FailJob(w) \/ CancelJob(w) \/ SupersedeJob(w) \/ AlreadyActiveJob(w)
      BY <2>2, <1>t, AccessRests DEF FailJob, CancelJob, SupersedeJob, AlreadyActiveJob
    <2> QED
      BY <1>3, <2>1, <2>2 DEF Leave
  <1>4. ASSUME NEW j \in Jobs, Api(j) PROVE Rests
    <2>1. CASE Request(j)
      BY <2>1, <1>t, AccessRests DEF Request
    <2> QED
      BY <1>4, <2>1 DEF Api, SelectAgain, PostEnqueue, PostEnqueueFails, PostCrashes, store
  <1>5. CASE Environment
    BY <1>5 DEF Environment, Beat, Heartbeat, HeartbeatExpires, BackoffEnds, Crash, LoseWakeup,
       AccessChanges, AccessMove, store
  <1>6. CASE UNCHANGED vars
    BY <1>6 DEF vars
  <1> QED
    BY <1>1, <1>2, <1>3, <1>4, <1>5, <1>6 DEF Next

(* The transactions leave the symbols of a published version, or drop      *)
(* those of one that is not active and change nothing of the row.          *)
LEMMA SymbolsMove ==
  ASSUME StoreTypeOK, StoreInv, StoreChange
  PROVE  \/ \A v \in 1..repo.version : symbols'[v] = symbols[v]
         \/ \E x \in Versions : /\ x # repo.version /\ repo' = repo /\ symbols'[x] = NoCommit
                                /\ \A v \in Versions : v # x => symbols'[v] = symbols[v]
  <1> DEFINE Stay == \A v \in 1..repo.version : symbols'[v] = symbols[v]
             Drop == \E x \in Versions : /\ x # repo.version /\ repo' = repo /\ symbols'[x] = NoCommit
                                         /\ \A v \in Versions : v # x => symbols'[v] = symbols[v]
  <1>v. repo.version \in Nat /\ 1..repo.version \subseteq Versions
    BY PublishedEntries
  <1>1. ASSUME NEW j \in Jobs, NEW w \in Workers, NEW c \in Commits, PrepareBuild(j, w, c) PROVE Stay
    BY <1>1, <1>v DEF PrepareBuild, CanPrepare, StoreTypeOK
  <1>2. ASSUME NEW x \in Versions, NEW complete \in BOOLEAN, RecordFailedBuildCleanup(x, complete)
        PROVE  Stay \/ Drop
    <2>1. CASE UNCHANGED symbols
      BY <2>1
    <2>2. CASE ~UNCHANGED symbols
      <3>1. MayFailBuild(x) /\ symbols' = [symbols EXCEPT ![x] = NoCommit] /\ repo' = repo
        BY <1>2, <2>2 DEF RecordFailedBuildCleanup, store
      <3>2. x # repo.version
        BY <3>1 DEF MayFailBuild, StoreInv, BuildRowOK
      <3> QED
        BY <3>1, <3>2 DEF StoreTypeOK
    <2> QED
      BY <2>1, <2>2
  <1>3. ASSUME NEW x \in Versions, CompleteSupersededCleanup(x) PROVE Drop
    BY <1>3 DEF CompleteSupersededCleanup, StoreTypeOK
  <1> QED
    BY <1>1, <1>2, <1>3
    DEF StoreChange, Quiet, AuthorizedContext, RecordVectorCounts, ValidateGraph, MarkBuildReady, Activate

(* What readers find whole stays whole, or one version behind the active   *)
(* one is whole no more, in a step that leaves the row alone.              *)
LEMMA KeptMoves ==
  ASSUME WorkInv, StoreChange, [Next]_vars
  PROVE  \/ \A v \in 1..repo.version : Whole(v)' <=> Whole(v)
         \/ /\ repo' = repo
            /\ \E x \in Kept : x # repo.version /\ Kept' = Kept \ {x}
  <1>t. /\ StoreTypeOK /\ StoreInv /\ vectors \in [Versions -> SUBSET (Commits \X Batches)]
        /\ repo.version \in Nat /\ 1..repo.version \subseteq Versions
        /\ \A v \in 1..repo.version : build[v].commit \in Commits
    BY WorkTypes, PublishedEntries DEF WorkInv, SafetyInv, BuildInv
  <1>b. \A v \in 1..repo.version : build'[v].commit = build[v].commit
    BY <1>t, HistoryKept
  <1> SUFFICES ASSUME NEW y \in 1..repo.version, ~(Whole(y)' <=> Whole(y))
               PROVE  repo' = repo /\ \E x \in Kept : x # repo.version /\ Kept' = Kept \ {x}
    OBVIOUS
  <1>1. ASSUME repo' = repo, y # repo.version, ~Whole(y)',
               \A v \in 1..repo.version : v # y => (Whole(v)' <=> Whole(v))
        PROVE  \E x \in Kept : x # repo.version /\ Kept' = Kept \ {x}
    <2>1. Whole(y) /\ y \in Kept
      BY <1>1 DEF Kept
    <2>2. Kept' = Kept \ {y}
      BY <1>1, <2>1 DEF Kept
    <2> QED
      BY <1>1, <2>1, <2>2
  <1>2. CASE vectors' = vectors
    <2>1. symbols'[y] # symbols[y]
      BY <1>2, <1>b DEF Whole, ScopeComplete
    <2>2. PICK x \in Versions : /\ x # repo.version /\ repo' = repo /\ symbols'[x] = NoCommit
                                /\ \A v \in Versions : v # x => symbols'[v] = symbols[v]
      BY <1>t, <2>1, SymbolsMove
    <2>3. x = y /\ ~Whole(y)'
      BY <1>t, <1>b, <2>1, <2>2, ConstantsAssumption DEF Whole, ConstantsAssumption
    <2>4. \A v \in 1..repo.version : v # y => (Whole(v)' <=> Whole(v))
      BY <1>t, <1>b, <1>2, <2>2, <2>3 DEF Whole, ScopeComplete
    <2> QED
      BY <1>1, <2>2, <2>3, <2>4
  <1>3. CASE vectors' # vectors
    <2>1. PICK x \in Versions :
             /\ \A v \in Versions : v # x => vectors'[v] = vectors[v]
             /\ x = repo.version + 1 \/ (x # repo.version /\ vectors'[x] = {})
      BY <1>3, NextScopes
    <2>2. UNCHANGED store
      BY <1>3, NextScopes
    <2>3. repo' = repo /\ build' = build /\ symbols' = symbols
      BY <2>2 DEF store
    <2>4. \A v \in 1..repo.version : v # x => (Whole(v)' <=> Whole(v))
      BY <1>t, <2>1, <2>3 DEF Whole, ScopeComplete
    <2>5. x = y /\ y # repo.version /\ vectors'[y] = {}
      BY <1>t, <2>1, <2>4
    <2>6. ~Whole(y)'
      <3>1. SUFFICES ASSUME Whole(y)' PROVE FALSE
        OBVIOUS
      <3>2. {build[y].commit} \X Batches = {}
        BY <2>3, <2>5, <3>1 DEF Whole, ScopeComplete
      <3>3. Batches = {}
        <4>1. \A b \in Batches : <<build[y].commit, b>> \in {build[y].commit} \X Batches
          OBVIOUS
        <4> QED
          BY <3>2, <4>1
      <3>4. vectors[y] = {}
        BY <1>t, <3>3
      <3> QED
        BY <2>3, <2>5, <3>1, <3>4 DEF Whole, ScopeComplete
    <2> QED
      BY <1>1, <2>3, <2>4, <2>5, <2>6
  <1> QED
    BY <1>2, <1>3

(* No run is under way, so that there is nothing to observe.              *)
LEMMA NoneObserved ==
  ASSUME NoRuns' = NoRuns
  PROVE  Readers!Observe
  BY DEF NoRuns, Readers!Observe

(* A step of the row alone revokes, restores, closes or reopens.           *)
LEMMA RowMoves ==
  ASSUME repo \in RepositoryRow, repo'.access = repo.access \/ AccessMove,
         Published' = Published, Kept' = Kept
  PROVE  [Readers!Next]_Readers!vars
  <1>n. NoRuns' = NoRuns /\ Readers!Observe
    BY NoneObserved DEF NoRuns
  <1>1. CASE Access' = Access /\ Open' = Open
    BY <1>1, <1>n DEF Readers!vars
  <1>2. CASE Access' = Access /\ Open /\ ~Open'
    <2>1. Open' = FALSE
      BY <1>2 DEF Open
    <2>2. Readers!CloseIndex
      BY <1>2, <1>n, <2>1 DEF Readers!CloseIndex
    <2> QED
      BY <1>n, <2>2 DEF Readers!Next, Readers!Change
  <1>3. CASE Access' = Access /\ ~Open /\ Open'
    <2>1. Open' = TRUE
      BY <1>3 DEF Open
    <2>2. Readers!Reopen
      BY <1>3, <1>n, <2>1 DEF Readers!Reopen
    <2> QED
      BY <1>n, <2>2 DEF Readers!Next, Readers!Change
  <1>4. CASE Access = "granted" /\ Access' = "denied" /\ (Open' = Open \/ Open' = FALSE)
    <2>1. Readers!Revoke
      BY <1>4, <1>n DEF Readers!Revoke
    <2> QED
      BY <1>n, <2>1 DEF Readers!Next, Readers!Change
  <1>5. CASE Access = "denied" /\ Access' = "granted" /\ Open' = Open
    <2>1. Readers!Restore
      BY <1>5, <1>n DEF Readers!Restore
    <2> QED
      BY <1>n, <2>1 DEF Readers!Next, Readers!Change
  <1>6. Access \in {"granted", "denied"} /\ Open \in BOOLEAN /\ Open' \in BOOLEAN
    BY DEF Access, Open
  <1>7. CASE repo'.access = repo.access
    BY <1>1, <1>2, <1>3, <1>6, <1>7 DEF Access
  <1>8. CASE RevokeAccess \/ RevokePublicAccess
    <2>1. Access' = "denied" /\ Open' = FALSE
      BY <1>8 DEF RevokeAccess, RevokePublicAccess, Access, Open, RepositoryRow
    <2> QED
      BY <1>1, <1>2, <1>4, <1>6, <2>1
  <1>9. CASE MembershipChanges
    <2>1. Open' = Open /\ Access' # Access /\ Access' \in {"granted", "denied"}
      BY <1>9 DEF MembershipChanges, Access, Open, RepositoryRow
    <2> QED
      BY <1>4, <1>5, <1>6, <2>1
  <1>10. ASSUME NEW b \in Branches, SynchronizeRepository(b) PROVE [Readers!Next]_Readers!vars
    <2>1. Open' = Open /\ Access' = "granted"
      BY <1>10 DEF SynchronizeRepository, Access, Open, RepositoryRow
    <2> QED
      BY <1>1, <1>5, <1>6, <2>1
  <1> QED
    BY <1>7, <1>8, <1>9, <1>10 DEF AccessMove

(* The vectors and symbols of a version are there when it is activated.    *)
LEMMA PublishedWhole ==
  ASSUME WorkInv, WorkInv', StoreChange, [Next]_vars, repo'.version # repo.version
  PROVE  /\ Kept' = Kept \cup {repo.version + 1}
         /\ Open' = TRUE /\ Access' = Access
         /\ \E j \in Jobs, c \in Commits : Index!Publish(j, c)
  <1>t. /\ StoreTypeOK /\ StoreInv /\ StoreTypeOK' /\ StoreInv' /\ ActiveVectorsComplete'
        /\ repo.version \in Nat
    BY WorkTypes DEF WorkInv, SafetyInv, TypeInv, BuildInv, VectorsInv
  <1>1. PICK j \in Jobs, w \in Workers, c \in Commits :
          Activate(j, w, c) /\ repo'.version = repo.version + 1
    BY <1>t, VersionMoves
  <1>2. Index!Publish(j, c)
    BY <1>t, <1>1, ActivatePublishes
  <1>3. repo'.status = "complete" /\ repo'.access = repo.access
    BY <1>1, <1>t DEF Activate, StoreTypeOK, RepositoryRow
  <1>4. \A v \in 1..repo.version : Whole(v)' <=> Whole(v)
    BY KeptMoves
  <1>5. PICK next \in Versions : next = repo.version + 1 /\ next = repo'.version /\ next > 0
    BY <1>t, <1>1 DEF StoreTypeOK, RepositoryRow, Versions
  <1>6. Whole(next)'
    <2>1. build'[next].commit = repo'.commit /\ vectors'[next] = {repo'.commit} \X Batches
      BY <1>t, <1>5 DEF StoreInv, ActiveVectorsComplete, ScopeComplete
    <2>2. symbols'[next] = build'[next].commit
      BY <1>t, <1>5 DEF StoreInv, BuildRowOK
    <2> QED
      BY <2>1, <2>2 DEF Whole, ScopeComplete
  <1>7. Kept' = Kept \cup {repo.version + 1}
    <2>1. 1..repo'.version = (1..repo.version) \cup {next}
      BY <1>t, <1>5
    <2>2. Kept' = {v \in 1..repo'.version : Whole(v)'}
      BY DEF Kept
    <2> QED
      BY <1>4, <1>5, <1>6, <2>1, <2>2 DEF Kept
  <1> QED
    BY <1>2, <1>3, <1>7 DEF Open, Access

(* Every step is one of the environment of the agent, or none.             *)
LEMMA ReadersNext ==
  ASSUME ConstantsAssumption, WorkInv, WorkInv', [Next]_vars
  PROVE  [Readers!Next]_Readers!vars
  <1>t. /\ StoreTypeOK /\ StoreInv /\ StoreChange /\ repo \in RepositoryRow
        /\ Len(Published) = repo.version /\ repo.version \in Nat
    BY NextChanges, PublishedEntries DEF WorkInv, SafetyInv, TypeInv, BuildInv, StoreTypeOK
  <1>n. NoRuns' = NoRuns /\ Readers!Observe
    BY NoneObserved DEF NoRuns
  <1>1. CASE repo'.version # repo.version
    <2>1. PICK j \in Jobs, c \in Commits : Index!Publish(j, c)
      BY <1>t, <1>1, PublishedWhole
    <2>2. Readers!Publish(j, c)
      BY <1>t, <1>n, <1>1, <2>1, PublishedWhole
      DEF Readers!Publish, Readers!Active, Index!Publish, Readers!Index!Publish, Index!HasPublished,
          Readers!Index!HasPublished, Index!ToSet, Readers!Index!ToSet
    <2> QED
      BY <1>n, <2>2 DEF Readers!Next, Readers!Change
  <1>2. CASE repo'.version = repo.version
    <2>1. Published' = Published
      BY <1>t, <1>2, PublishedUnchanged
    <2>2. CASE \A v \in 1..repo.version : Whole(v)' <=> Whole(v)
      <3>1. Kept' = Kept
        BY <1>2, <2>2 DEF Kept
      <3> QED
        BY <1>t, <2>1, <3>1, RowMoves, NextAccess DEF WorkInv, SafetyInv
    <2>3. ASSUME NEW x \in Kept, x # repo.version, Kept' = Kept \ {x}, repo' = repo
          PROVE  [Readers!Next]_Readers!vars
      <3>1. Readers!DropSuperseded(x)
        BY <1>t, <1>n, <2>1, <2>3 DEF Readers!DropSuperseded, Readers!Active, Access, Open
      <3> QED
        BY <1>n, <2>3, <3>1 DEF Readers!Next, Readers!Change
    <2> QED
      BY <1>t, <2>2, <2>3, KeptMoves
  <1> QED
    BY <1>1, <1>2

(* ServesReaders: while live workers keep their leases, the store and its  *)
(* workers are the repository that the agent of QuestionAgent relies on: a *)
(* version is activated with all its vectors and symbols, loses them only  *)
(* when it is superseded, and no claim, failure, revocation or listing     *)
(* changes access or the status in a way the agent does not expect.        *)
THEOREM ReadersServed == ASSUME LeasesAreKept PROVE Spec => ServesReaders
  <1>1. Init => Readers!Init
    <2> SUFFICES ASSUME Init PROVE Readers!Init
      OBVIOUS
    <2>1. repo.version = 0 /\ repo.status = "not_indexed" /\ repo.access = "granted"
      BY DEF Init, StoreInit
    <2>2. Published = << >> /\ Kept = {} /\ Access = "granted" /\ Open = FALSE
      BY <2>1 DEF Published, Kept, Access, Open
    <2> QED
      BY <2>2 DEF Readers!Init, NoRuns
  <1>2. WorkInv /\ WorkInv' /\ [Next]_vars => [Readers!Next]_Readers!vars
    BY ReadersNext, ConstantsAssumption
  <1> QED
    BY <1>1, <1>2, WorkCorrect, PTL DEF Spec, ServesReaders, Readers!Spec
=============================================================================
