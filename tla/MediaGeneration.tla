--------------------------- MODULE MediaGeneration ---------------------------
(***************************************************************************)
(* How a generated image is made: the request (generationsService), the    *)
(* workers that improve its prompt and draw it, the providers, the worker  *)
(* that applies status updates, the user's cancellation, and the two       *)
(* reconcilers of what got stuck.                                          *)
(*                                                                         *)
(* All of them write the same media row, by its id alone, from what they   *)
(* read some awaits earlier. The status updates are jobs, and the unique   *)
(* index on active jobs allows one of them per image at a time.            *)
(*                                                                         *)
(* RunPod, the local inference worker and Redis' expiry are external: they *)
(* do what the code expects of them, in any order and at any time.         *)
(***************************************************************************)
EXTENDS Naturals, FiniteSets

CONSTANTS
  Media,        \* generated images
  Instance,     \* instances of the backend, each with a reconciler
  Deployments,  \* the deployments considered: which provider they are configured for
                \* (IMAGE_INFERENCE_PROVIDER), which one the images are asked of (one that
                \* takes reference images, if there are any), and the instances that are up
  MAX_ATTEMPTS  \* RUNPOD_CONSTANTS.MAX_ATTEMPTS

Configurable == {"runpod", "gemini", "local"}

ASSUME MediaGenerationAssumption ==
  /\ IsFiniteSet(Media) /\ IsFiniteSet(Instance)
  /\ \A d \in Deployments :
       /\ d.configured \in Configurable
       /\ d.provider \in {d.configured, "gemini-pro-image"}
       /\ d.up \subseteq Instance
  /\ MAX_ATTEMPTS \in Nat

VARIABLES
  deployment,  \* the deployment this behaviour is about
  media,       \* the media row
  maker,       \* where the request, then its worker, stands
  activity,    \* status of the image's activity
  update,      \* the active media_status_update job: what it says, and if it is claimed
  applying,    \* the runs of the status worker
  remote,      \* the RunPod job that runpod:job:<media> names (timed out: failed as well)
  redisJob,    \* the hash jobs:<media> that the inference worker writes
  sight,       \* what each reconciler has read of the image and is about to do
  cron,        \* what the two-minute reconciliation has read of it
  cancelling   \* where the cancellation stands

mediaVars == <<deployment, media, maker, activity, update, applying,
               remote, redisJob, sight, cron, cancelling>>

Statuses == {"augmenting", "queued", "processing", "completed", "failed"}
Told == {"processing", "completed", "failed"}
RemoteStates == {"none", "running", "made", "keyless", "failed", "cancelled"}
Makers == {"new", "accepted", "augmentQueued", "augmenting", "submitting", "submitted",
           "imageQueued", "announce", "drawing", "made", "failing", "over"}

NoUpdate == [says |-> "nothing", claimed |-> FALSE]
NotSeen == [at |-> "none", status |-> "queued", attempts |-> 0, found |-> "none"]
NewRow == [exists |-> FALSE, status |-> "queued", key |-> FALSE, cancelled |-> FALSE,
           attempts |-> 0, stale |-> FALSE]

MediaRow == [exists : BOOLEAN, status : Statuses, key : BOOLEAN, cancelled : BOOLEAN,
             attempts : 0..MAX_ATTEMPTS, stale : BOOLEAN]
Activities == {"none", "pending", "running", "completed", "failed"}
Update == [says : Told \cup {"nothing"}, claimed : BOOLEAN]
StatusRun == [says : Told, at : {"claimed", "checked", "tell"}, own : BOOLEAN]
Sight == [at : {"none", "listed", "looked", "resubmit"}, status : {"queued", "processing"},
          attempts : 0..MAX_ATTEMPTS, found : RemoteStates]

MediaTypeOK ==
  /\ deployment \in Deployments
  /\ media \in [Media -> MediaRow]
  /\ maker \in [Media -> Makers]
  /\ activity \in [Media -> Activities]
  /\ update \in [Media -> Update]
  /\ applying \in [Media -> SUBSET StatusRun]
  /\ remote \in [Media -> RemoteStates]
  /\ redisJob \in [Media -> {"none", "completed", "failed"}]
  /\ sight \in [Instance -> [Media -> Sight]]
  /\ cron \in [Media -> {"none", "listed", "completed", "failed"}]
  /\ cancelling \in [Media -> {"none", "begun", "ask", "again", "mark"}]

MediaInit ==
  /\ deployment \in Deployments
  /\ media = [m \in Media |-> NewRow]
  /\ maker = [m \in Media |-> "new"]
  /\ activity = [m \in Media |-> "none"]
  /\ update = [m \in Media |-> NoUpdate]
  /\ applying = [m \in Media |-> {}]
  /\ remote = [m \in Media |-> "none"]
  /\ redisJob = [m \in Media |-> "none"]
  /\ sight = [i \in Instance |-> [m \in Media |-> NotSeen]]
  /\ cron = [m \in Media |-> "none"]
  /\ cancelling = [m \in Media |-> "none"]

--------------------------------------------------------------------------
(* What the steps have in common. *)

\* UPDATE media SET status, updatedAt = now WHERE id.
Write(m, status) ==
  media' = [media EXCEPT ![m].status = status, ![m].stale = FALSE]

KeylessMutant(m) == Write(m, "completed")

\* ... with the key of the stored image.
Store(m) ==
  media' = [media EXCEPT ![m].status = "completed", ![m].key = TRUE, ![m].stale = FALSE]

\* jobService.create of a status update: the unique index refuses a second
\* active one, and the caller gets the error.
CanAnnounce(m) == update[m] = NoUpdate
Announce(m, says) == update' = [update EXCEPT ![m] = [says |-> says, claimed |-> FALSE]]

\* updateActivityStatus; nothing to do if the activity could not be created.
Tell(m, status) ==
  activity' = IF activity[m] = "none" THEN activity ELSE [activity EXCEPT ![m] = status]

Go(m, from, to) == maker[m] = from /\ maker' = [maker EXCEPT ![m] = to]

--------------------------------------------------------------------------
(* The request: GenerationsService.create, and the providers' submitJob. *)

\* A failure to create the activity is logged and forgotten.
CreateFromMedia(m) ==
  \E started \in {"pending", "none"} : activity' = [activity EXCEPT ![m] = started]

\* The row, its link to the document, and the activity.
CreateGeneration(m) ==
  /\ Go(m, "new", "accepted")
  /\ \E status \in {"augmenting", "queued"} :
       media' = [media EXCEPT ![m].exists = TRUE, ![m].status = status]
  /\ CreateFromMedia(m)
  /\ UNCHANGED <<deployment, update, applying, remote, redisJob, sight, cron, cancelling>>

\* Queues the augmentation job, or submits the prompt as it is.
QueueGeneration(m) ==
  /\ maker[m] = "accepted"
  /\ maker' = [maker EXCEPT ![m] = IF media[m].status = "augmenting" THEN "augmentQueued"
                                   ELSE "submitting"]
  /\ UNCHANGED <<deployment, media, activity, update, applying, remote, redisJob,
                 sight, cron, cancelling>>

\* RunPod takes the job, and Redis the mapping to it.
SubmitToRunPod(m) ==
  /\ Go(m, "submitting", "submitted")
  /\ remote' = [remote EXCEPT ![m] = "running"]

\* submitJob of RunPod, of the local worker's stream, of Gemini Imagen (a job) and of Gemini Pro Image (a promise nobody awaits).
SubmitJob(m) ==
  /\ maker[m] = "submitting"
  /\ \/ deployment.provider = "runpod" /\ SubmitToRunPod(m) /\ UNCHANGED media
     \/ deployment.provider = "local" /\ Go(m, "submitting", "submitted") /\ UNCHANGED <<remote, media>>
     \/ deployment.provider = "gemini" /\ Go(m, "submitting", "imageQueued") /\ UNCHANGED <<remote, media>>
     \/ /\ deployment.provider = "gemini-pro-image"
        /\ Go(m, "submitting", "announce") /\ Write(m, "processing") /\ UNCHANGED remote
  /\ UNCHANGED <<deployment, activity, update, applying, redisJob, sight, cron, cancelling>>

\* Anything above that throws marks the row failed: in create, and in the
\* augmentation worker.
SubmitFails(m) ==
  /\ maker[m] \in {"accepted", "augmenting", "submitting"}
  /\ maker' = [maker EXCEPT ![m] = "over"]
  /\ media' = [media EXCEPT ![m].status = "failed"]
  /\ UNCHANGED <<deployment, activity, update, applying, remote, redisJob, sight, cron,
                 cancelling>>

--------------------------------------------------------------------------
(* The workers that improve the prompt and draw the image. *)

StartAugmentation(m) ==
  /\ Go(m, "augmentQueued", "augmenting")
  /\ UNCHANGED <<deployment, media, activity, update, applying, remote, redisJob,
                 sight, cron, cancelling>>

\* The prompt is back: the row is queued, whatever has happened to it meanwhile.
AugmentPrompt(m) ==
  /\ Go(m, "augmenting", "submitting")
  /\ Write(m, "queued")
  /\ UNCHANGED <<deployment, activity, update, applying, remote, redisJob, sight, cron,
                 cancelling>>

StartDrawing(m) ==
  /\ Go(m, "imageQueued", "announce")
  /\ Write(m, "processing")
  /\ Tell(m, "running")
  /\ UNCHANGED <<deployment, update, applying, remote, redisJob, sight, cron, cancelling>>

\* The create of the image_generation worker stands outside its try: the error
\* fails the job and leaves the row processing. The one of Gemini Pro Image is
\* inside.
AnnounceDrawing(m) ==
  /\ IF CanAnnounce(m)
     THEN Announce(m, "processing") /\ Go(m, "announce", "drawing")
     ELSE /\ Go(m, "announce", IF deployment.provider = "gemini" THEN "over" ELSE "failing")
          /\ UNCHANGED update
  /\ IF maker'[m] = "failing" THEN Write(m, "failed") ELSE UNCHANGED media
  /\ UNCHANGED <<deployment, activity, applying, remote, redisJob, sight, cron, cancelling>>

DrawImage(m) ==
  /\ \/ Go(m, "drawing", "made") /\ Store(m)
     \/ Go(m, "drawing", "failing") /\ Write(m, "failed")
  /\ UNCHANGED <<deployment, activity, update, applying, remote, redisJob, sight, cron,
                 cancelling>>

\* After a completed image a refused announcement runs into the catch, which
\* marks the row failed.
AnnounceMade(m) ==
  /\ IF CanAnnounce(m)
     THEN /\ Announce(m, "completed") /\ Go(m, "made", "over")
          /\ IF deployment.provider = "gemini" THEN Tell(m, "completed") ELSE UNCHANGED activity
          /\ UNCHANGED media
     ELSE Go(m, "made", "failing") /\ Write(m, "failed") /\ UNCHANGED <<update, activity>>
  /\ UNCHANGED <<deployment, applying, remote, redisJob, sight, cron, cancelling>>

AnnounceFailed(m) ==
  /\ Go(m, "failing", "over")
  /\ IF CanAnnounce(m)
     THEN /\ Announce(m, "failed")
          /\ IF deployment.provider = "gemini" THEN Tell(m, "failed") ELSE UNCHANGED activity
     ELSE UNCHANGED <<update, activity>>
  /\ UNCHANGED <<deployment, media, applying, remote, redisJob, sight, cron, cancelling>>

\* The process is gone. A stale job runs again from its start; a request and a
\* promise do not.
MakerDies(m) ==
  /\ maker[m] \in {"accepted", "augmenting", "submitting", "announce", "drawing", "made", "failing"}
  /\ maker' = [maker EXCEPT ![m] =
       IF maker[m] = "augmenting" THEN "augmentQueued"
       ELSE IF deployment.provider = "gemini" /\ maker[m] \in {"announce", "drawing", "made", "failing"}
       THEN "imageQueued" ELSE "over"]
  /\ UNCHANGED <<deployment, media, activity, update, applying, remote, redisJob,
                 sight, cron, cancelling>>

--------------------------------------------------------------------------
(* The media-status worker. *)

ClaimUpdate(m) ==
  /\ update[m].says # "nothing" /\ ~update[m].claimed
  /\ update' = [update EXCEPT ![m].claimed = TRUE]
  /\ applying' = [applying EXCEPT ![m] = @ \cup {[says |-> update[m].says, at |-> "claimed", own |-> TRUE]}]
  /\ UNCHANGED <<deployment, media, maker, activity, remote, redisJob, sight, cron, cancelling>>

\* A run ends; its job is over unless a cancellation ended it before.
Ends(m, run) ==
  /\ applying' = [applying EXCEPT ![m] = @ \ {run}]
  /\ update' = IF run.own THEN [update EXCEPT ![m] = NoUpdate] ELSE update

Moves(m, run, at) ==
  applying' = [applying EXCEPT ![m] = (@ \ {run}) \cup {[run EXCEPT !.at = at]}]

\* 'completed' and 'failed' are ignored if the row is cancelled; the write comes
\* after another await. 'processing' is written unseen.
ReadCancelled(m) ==
  /\ \E run \in applying[m] :
       /\ run.at = "claimed" /\ run.says # "processing"
       /\ IF media[m].cancelled THEN Ends(m, run) ELSE Moves(m, run, "checked") /\ UNCHANGED update
  /\ UNCHANGED <<deployment, media, maker, activity, remote, redisJob, sight, cron, cancelling>>

ApplyUpdate(m) ==
  /\ \E run \in applying[m] :
       /\ run.at = IF run.says = "processing" THEN "claimed" ELSE "checked"
       /\ IF run.says = "completed" THEN Store(m) ELSE Write(m, run.says)
       /\ Moves(m, run, "tell")
  /\ UNCHANGED <<deployment, maker, activity, update, remote, redisJob, sight, cron, cancelling>>

TellActivity(m) ==
  /\ \E run \in applying[m] :
       /\ run.at = "tell"
       /\ Tell(m, IF run.says = "processing" THEN "running" ELSE run.says)
       /\ Ends(m, run)
  /\ UNCHANGED <<deployment, media, maker, remote, redisJob, sight, cron, cancelling>>

\* The worker dies; the job, if it still is active, is claimed again.
StatusWorkerDies(m) ==
  /\ \E run \in applying[m] :
       /\ applying' = [applying EXCEPT ![m] = @ \ {run}]
       /\ update' = IF run.own THEN [update EXCEPT ![m].claimed = FALSE] ELSE update
  /\ UNCHANGED <<deployment, media, maker, activity, remote, redisJob, sight, cron, cancelling>>

--------------------------------------------------------------------------
(* GenerationsService.cancel. *)

\* Reads the row, then cancels its active jobs. A running worker goes on.
BeginCancel(m) ==
  /\ cancelling[m] = "none"
  /\ media[m].exists /\ ~media[m].cancelled
  /\ media[m].status \notin {"completed", "failed"}
  /\ cancelling' = [cancelling EXCEPT ![m] = "begun"]
  /\ UNCHANGED <<deployment, media, maker, activity, update, applying, remote, redisJob,
                 sight, cron>>

\* The job a run is about is no longer active.
Disowned(run) == [run EXCEPT !.own = FALSE]

CancelJobs(m) ==
  /\ cancelling[m] = "begun"
  /\ cancelling' = [cancelling EXCEPT ![m] = IF deployment.configured = "runpod" THEN "ask" ELSE "mark"]
  /\ update' = [update EXCEPT ![m] = NoUpdate]
  /\ applying' = [applying EXCEPT ![m] = {Disowned(run) : run \in @}]
  /\ maker' = [maker EXCEPT ![m] = IF @ \in {"augmentQueued", "imageQueued"} THEN "over" ELSE @]
  /\ UNCHANGED <<deployment, media, activity, remote, redisJob, sight, cron>>

\* A job RunPod has completed is not cancelled (409). A query that fails, and a
\* job that ended otherwise, lead to the row's cancellation all the same.
AskRunPod(m) ==
  /\ cancelling[m] = "ask"
  /\ \/ /\ remote[m] \in {"made", "keyless"}
        /\ cancelling' = [cancelling EXCEPT ![m] = "none"]
        /\ UNCHANGED remote
     \/ /\ remote[m] = "running"
        /\ \/ cancelling' = [cancelling EXCEPT ![m] = "mark"]
              /\ remote' = [remote EXCEPT ![m] = "cancelled"]
           \/ cancelling' = [cancelling EXCEPT ![m] = "again"] /\ UNCHANGED remote
     \/ cancelling' = [cancelling EXCEPT ![m] = "mark"] /\ UNCHANGED remote
  /\ UNCHANGED <<deployment, media, maker, activity, update, applying, redisJob, sight, cron>>

\* RunPod refused to cancel. The second query's 'Job completed before
\* cancellation' is not the message the outer catch lets through, so whatever
\* it finds the row is cancelled.
AskRunPodAgain(m) ==
  /\ cancelling[m] = "again"
  /\ cancelling' = [cancelling EXCEPT ![m] = "mark"]
  /\ UNCHANGED <<deployment, media, maker, activity, update, applying, remote, redisJob,
                 sight, cron>>

MarkCancelled(m) ==
  /\ cancelling[m] = "mark"
  /\ cancelling' = [cancelling EXCEPT ![m] = "none"]
  /\ media' = [media EXCEPT ![m].status = "failed", ![m].cancelled = TRUE, ![m].stale = FALSE]
  /\ UNCHANGED <<deployment, maker, activity, update, applying, remote, redisJob, sight, cron>>

--------------------------------------------------------------------------
(* The reconciler of every instance (services/runpod/reconciliation.ts). *)

Stuck(m) ==
  media[m].exists /\ media[m].status \in {"queued", "processing"} /\ ~media[m].cancelled

Broken == {"none", "keyless", "failed"}

\* The rows that are stuck and older than the threshold, as they are now.
ListStuck(i, m) ==
  /\ deployment.configured = "runpod" /\ i \in deployment.up
  /\ sight[i][m].at = "none"
  /\ Stuck(m) /\ media[m].stale
  /\ sight' = [sight EXCEPT ![i][m] = [NotSeen EXCEPT !.at = "listed", !.status = media[m].status,
                                                      !.attempts = media[m].attempts]]
  /\ UNCHANGED <<deployment, media, maker, activity, update, applying, remote, redisJob,
                 cron, cancelling>>

\* redis.get, then getJobStatus: of the listed row only what the answer calls for
\* is used again.
LookUp(i, m) ==
  /\ sight[i][m].at = "listed"
  /\ sight' = [sight EXCEPT ![i][m] =
       [at |-> "looked", found |-> remote[m],
        status |-> IF remote[m] = "running" THEN @.status ELSE "queued",
        attempts |-> IF remote[m] \in Broken THEN @.attempts ELSE 0]]
  /\ UNCHANGED <<deployment, media, maker, activity, update, applying, remote, redisJob,
                 cron, cancelling>>

\* The image is given up until the next round.
QueryFails(i, m) ==
  /\ sight[i][m].at = "listed" /\ remote[m] # "none"
  /\ sight' = [sight EXCEPT ![i][m] = NotSeen]
  /\ UNCHANGED <<deployment, media, maker, activity, update, applying, remote, redisJob,
                 cron, cancelling>>

MayRetry(s) == s.attempts < MAX_ATTEMPTS

\* handleCompleted, handleCancelled, the case of a job still running, and
\* markFailed when no attempt is left. They write over the row by its id.
SettleMutant(i, m) ==
  LET seen == sight[i][m] IN
  /\ seen.at = "looked"
  /\ \/ seen.found = "made" /\ Store(m)
     \/ /\ seen.found = "cancelled"
        /\ media' = [media EXCEPT ![m].status = "failed", ![m].cancelled = TRUE, ![m].stale = FALSE]
     \/ seen.found = "running" /\ IF seen.status # "processing" THEN Write(m, "processing") ELSE UNCHANGED media
     \/ seen.found \in Broken /\ ~MayRetry(seen) /\ Write(m, "queued")
  /\ sight' = [sight EXCEPT ![i][m] = NotSeen]
  /\ UNCHANGED <<deployment, maker, activity, update, applying, remote, redisJob, cron,
                 cancelling>>

HandleRunPodStatus(i, m) ==
  LET seen == sight[i][m] IN
  /\ seen.at = "looked"
  /\ \/ seen.found = "made" /\ Store(m)
     \/ /\ seen.found = "cancelled"
        /\ media' = [media EXCEPT ![m].status = "failed", ![m].cancelled = TRUE, ![m].stale = FALSE]
     \/ seen.found = "running" /\ IF seen.status # "processing" THEN Write(m, "processing") ELSE UNCHANGED media
     \/ seen.found \in Broken /\ ~MayRetry(seen) /\ Write(m, "failed")
  /\ sight' = [sight EXCEPT ![i][m] = NotSeen]
  /\ UNCHANGED <<deployment, maker, activity, update, applying, remote, redisJob, cron,
                 cancelling>>

\* retryJob counts from the row it listed; then it submits a new RunPod job.
RetryJob(i, m) ==
  LET seen == sight[i][m] IN
  /\ seen.at = "looked" /\ seen.found \in Broken /\ MayRetry(seen)
  /\ media' = [media EXCEPT ![m].status = "queued", ![m].attempts = seen.attempts + 1,
                            ![m].stale = FALSE]
  /\ sight' = [sight EXCEPT ![i][m] = [NotSeen EXCEPT !.at = "resubmit"]]
  /\ UNCHANGED <<deployment, maker, activity, update, applying, remote, redisJob, cron,
                 cancelling>>

Resubmit(i, m) ==
  /\ sight[i][m].at = "resubmit"
  /\ \/ remote' = [remote EXCEPT ![m] = "running"] /\ UNCHANGED media
     \/ Write(m, "failed") /\ UNCHANGED remote
  /\ sight' = [sight EXCEPT ![i][m] = NotSeen]
  /\ UNCHANGED <<deployment, maker, activity, update, applying, redisJob, cron, cancelling>>

InstanceDies(i, m) ==
  /\ sight[i][m].at # "none"
  /\ sight' = [sight EXCEPT ![i][m] = NotSeen]
  /\ UNCHANGED <<deployment, media, maker, activity, update, applying, remote, redisJob,
                 cron, cancelling>>

--------------------------------------------------------------------------
(* jobs/reconcileGenerations.ts: every two minutes, from the hash in Redis.  *)
(* Without a hash a row is skipped, so only the local deployment is modelled. *)

CronLists(m) ==
  /\ deployment.configured = "local"
  /\ cron[m] = "none"
  /\ media[m].exists /\ media[m].status \in {"queued", "processing"}
  /\ cron' = [cron EXCEPT ![m] = "listed"]
  /\ UNCHANGED <<deployment, media, maker, activity, update, applying, remote, redisJob,
                 sight, cancelling>>

CronReads(m) ==
  /\ cron[m] = "listed"
  /\ cron' = [cron EXCEPT ![m] = redisJob[m]]
  /\ UNCHANGED <<deployment, media, maker, activity, update, applying, remote, redisJob,
                 sight, cancelling>>

\* The UPDATE sets no updatedAt.
CronRecovers(m) ==
  /\ cron[m] \in {"completed", "failed"}
  /\ media' = [media EXCEPT ![m].status = cron[m], ![m].key = @ \/ cron[m] = "completed"]
  /\ cron' = [cron EXCEPT ![m] = "none"]
  /\ UNCHANGED <<deployment, maker, activity, update, applying, remote, redisJob, sight,
                 cancelling>>

--------------------------------------------------------------------------
(* What lies outside. *)

RunPodEnds(m) ==
  /\ remote[m] = "running"
  /\ \E state \in {"made", "keyless", "failed"} : remote' = [remote EXCEPT ![m] = state]
  /\ UNCHANGED <<deployment, media, maker, activity, update, applying, redisJob, sight,
                 cron, cancelling>>

\* The mapping expires one hour after the submission.
MappingExpires(m) ==
  /\ remote[m] \notin {"none", "running"}
  /\ remote' = [remote EXCEPT ![m] = "none"]
  /\ UNCHANGED <<deployment, media, maker, activity, update, applying, redisJob, sight,
                 cron, cancelling>>

InferenceWorkerEnds(m) ==
  /\ maker[m] = "submitted" /\ deployment.provider = "local" /\ redisJob[m] = "none"
  /\ \E state \in {"completed", "failed"} : redisJob' = [redisJob EXCEPT ![m] = state]
  /\ UNCHANGED <<deployment, media, maker, activity, update, applying, remote, sight,
                 cron, cancelling>>

\* STALENESS_THRESHOLD_MS go by without a write to the row. Only the reconciler
\* asks for it.
GrowsStale(m) ==
  /\ deployment.configured = "runpod" /\ Stuck(m) /\ ~media[m].stale
  /\ media' = [media EXCEPT ![m].stale = TRUE]
  /\ UNCHANGED <<deployment, maker, activity, update, applying, remote, redisJob, sight,
                 cron, cancelling>>

MediaNext ==
  \E m \in Media :
    \/ CreateGeneration(m) \/ QueueGeneration(m) \/ SubmitJob(m) \/ SubmitFails(m)
    \/ StartAugmentation(m) \/ AugmentPrompt(m)
    \/ StartDrawing(m) \/ AnnounceDrawing(m) \/ DrawImage(m) \/ AnnounceMade(m) \/ AnnounceFailed(m)
    \/ MakerDies(m)
    \/ ClaimUpdate(m) \/ ReadCancelled(m) \/ ApplyUpdate(m) \/ TellActivity(m) \/ StatusWorkerDies(m)
    \/ BeginCancel(m) \/ CancelJobs(m) \/ AskRunPod(m) \/ AskRunPodAgain(m) \/ MarkCancelled(m)
    \/ \E i \in Instance :
         \/ ListStuck(i, m) \/ LookUp(i, m) \/ QueryFails(i, m) \/ HandleRunPodStatus(i, m)
         \/ RetryJob(i, m) \/ Resubmit(i, m) \/ InstanceDies(i, m)
    \/ CronLists(m) \/ CronReads(m) \/ CronRecovers(m)
    \/ RunPodEnds(m) \/ MappingExpires(m) \/ InferenceWorkerEnds(m) \/ GrowsStale(m)

MediaSpec == MediaInit /\ [][MediaNext]_mediaVars

\* The rounds of one instance's reconciler begin again for ever; what it asks of
\* Redis and RunPod does not always fail, and the process does not always die. A
\* job of RunPod ends (it has a time limit). The other instances need do nothing.
MediaFairness(i) ==
  \A m \in Media :
    /\ WF_mediaVars(ListStuck(i, m)) /\ SF_mediaVars(LookUp(i, m))
    /\ SF_mediaVars(HandleRunPodStatus(i, m) \/ RetryJob(i, m) \/ Resubmit(i, m))
    /\ WF_mediaVars(RunPodEnds(m)) /\ WF_mediaVars(GrowsStale(m))

--------------------------------------------------------------------------
(* Properties. *)

\* Whoever writes last (the image worker, the status worker, two reconcilers or
\* the cron), an image shown as completed, on its row or by its activity, is
\* stored under a key.
CompletedHasImage ==
  \A m \in Media : media[m].status = "completed" \/ activity[m] = "completed" => media[m].key

\* An image RunPod was asked for does not stay queued or processing: whatever is
\* lost (the request's process, the mapping in Redis, a reconciler in the middle
\* of its round), the attempts run out, although two reconcilers count them from
\* rows they read earlier.
GenerationsSettle ==
  \A m \in Media : deployment.provider = "runpod" /\ Stuck(m) ~> ~Stuck(m)
=============================================================================
