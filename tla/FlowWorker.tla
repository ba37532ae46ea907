----------------------------- MODULE FlowWorker -----------------------------
(***************************************************************************)
(* The virtual try-on worker: one Chrome profile signed in to Flow, which  *)
(* a warm browser, a per-request gflow and an operator want to themselves. *)
(*                                                                         *)
(*   services/flow-worker/flow_worker/server.py      requests, the project *)
(*   services/flow-worker/flow_worker/warm.py        the warm browser      *)
(*   services/flow-worker/flow_worker/warm_child.py  its process           *)
(*   services/flow-worker/flow_worker/policy.py      Pro and its fallback  *)
(*                                                                         *)
(* One request runs at a time, under the generation lock; the warm         *)
(* browser's own lock is held while it starts, stops or runs a job.  Time  *)
(* is choice: a deadline, a pause or a cool-down may end at any moment.    *)
(* gflow, Chrome and Flow are outside; `created` and `spent` count what    *)
(* Flow did and exist for the properties only.                             *)
(***************************************************************************)
EXTENDS Integers, Sequences

CONSTANTS Nobody,
          MaxEpoch,    \* bound: cools and runs of gflow between restarts
          MaxMishaps    \* bound: dead browsers, unfinished kills, failed writes, restarts

ASSUME WorkerAssumption ==
  {MaxEpoch, MaxMishaps} \subseteq Nat /\ Nobody \notin {"request", "hint", "cool"}

VARIABLES generation,  \* holder of _generation_lock
          lock,        \* holder of WarmRunner._lock
          epoch, paused, exclusive,
          child,       \* the installed browser: none, up, or dead with Chrome left behind
          starting,    \* [who, epoch]: the start in progress
          leaked,      \* a kill did not clear its process group
          stray,       \* Chrome of a dead browser that a new one has replaced
          recycle,     \* _recycle_reason is set
          hint,        \* the background start: the epoch it was asked for under
          tryOn,     \* [pc, goal, model, submitted]
          phase,       \* how far the browser is with the job
          inbox,       \* its messages, not read yet
          operator,    \* a cool was answered, and its pause lasts
          cooldown,    \* Pro is left alone for a while
          file,        \* the record of the project in the volume
          known, unrecorded,     \* _project_id and _unrecorded_project_id are set
          created,     \* projects Flow has created
          spent,       \* images Flow has generated for the request
          mishaps

lockVars == <<generation, lock, epoch, paused, exclusive, hint, operator>>
warmVars == <<child, starting, leaked, stray, recycle, phase, inbox>>
projectVars == <<file, known, unrecorded, created>>
workerVars == <<lockVars, warmVars, projectVars, tryOn, cooldown, spent, mishaps>>

NoStart == [who |-> Nobody, epoch |-> 0]
NoTryOn == [pc |-> "away", goal |-> "project", model |-> "pro", submitted |-> FALSE]

WorkerTypeOK ==
  /\ generation \in {Nobody, "request", "cool"} /\ lock \in {Nobody, "request", "hint"}
  /\ epoch \in 0..MaxEpoch
  /\ {paused, exclusive, operator, leaked, stray, recycle} \subseteq BOOLEAN
  /\ {cooldown, known, unrecorded} \subseteq BOOLEAN
  /\ child \in {"none", "up", "dead"}
  /\ starting \in [who : {Nobody, "request", "hint"}, epoch : 0..MaxEpoch]
  /\ starting.who # Nobody => lock = starting.who /\ child # "up"
  /\ hint \in 0..MaxEpoch \cup {Nobody}
  /\ tryOn \in [pc : {"away", "project", "exclusive", "drain", "gflow", "acted", "store",
                        "attempt", "start", "job"},
                  goal : {"project", "image"}, model : {"pro", "nano2"}, submitted : BOOLEAN]
  /\ (tryOn.pc = "away") <=> (generation # "request")
  /\ phase \in {"idle", "working", "submitted", "generated", "answered"}
  /\ inbox \in Seq({"submitted", "ok", "refused", "failed", "eof"})
  /\ file \in {"none", "pending", "recorded"}
  /\ {created, spent} \subseteq Nat /\ mishaps \in 0..MaxMishaps

WorkerInit ==
  /\ generation = Nobody /\ lock = Nobody /\ hint = Nobody
  /\ epoch = 0 /\ paused = FALSE /\ exclusive = FALSE /\ operator = FALSE
  /\ child = "none" /\ starting = NoStart /\ leaked = FALSE /\ stray = FALSE /\ recycle = FALSE
  /\ phase = "idle" /\ inbox = << >>
  /\ tryOn = NoTryOn /\ cooldown = FALSE /\ spent = 0
  /\ file = "none" /\ known = FALSE /\ unrecorded = FALSE /\ created = 0
  /\ mishaps = 0

Stage(places) == tryOn.pc \in places
Go(place) == tryOn' = [tryOn EXCEPT !.pc = place]

(* A bug: an early return that leaves the generation lock taken.           *)
ReplyLocked == tryOn' = NoTryOn /\ generation' = generation /\ spent' = 0

(* The response goes out and the generation lock is released.              *)
Reply == tryOn' = NoTryOn /\ generation' = Nobody /\ spent' = 0

Mishap == mishaps < MaxMishaps /\ mishaps' = mishaps + 1

(* _kill: some of the group may outlive SIGKILL.                           *)
KillGroup == \/ UNCHANGED <<leaked, mishaps>>
             \/ leaked' = TRUE /\ Mishap

(* _stop_locked.                                                           *)
StopBrowser ==
  /\ child' = "none" /\ recycle' = FALSE /\ phase' = "idle" /\ inbox' = << >>
  /\ UNCHANGED stray
  /\ IF child = "none" THEN UNCHANGED <<leaked, mishaps>> ELSE KillGroup

-----------------------------------------------------------------------------
(* Starts of the warm browser, for a request or for a hint.                *)

(* A bug: only the pause is looked at.                                     *)
BlockedByPause(e) == paused

(* _blocked: cooled, paused or exclusive since the start was asked for.    *)
Blocked(e) == epoch # e \/ exclusive \/ paused

(* POST /v1/warm schedules a start, once the project is known.             *)
WarmHint ==
  /\ known /\ child # "up" /\ ~exclusive /\ ~paused /\ hint = Nobody
  /\ hint' = epoch
  /\ UNCHANGED <<generation, lock, epoch, paused, exclusive, operator, warmVars, projectVars,
                 tryOn, cooldown, spent, mishaps>>

(* _warm_in_background, once it has the lock.                              *)
HintStarts ==
  /\ hint # Nobody /\ lock = Nobody
  /\ child # "up" /\ ~Blocked(hint) /\ ~leaked
  /\ starting' = [who |-> "hint", epoch |-> hint]
  /\ lock' = "hint"
  /\ UNCHANGED <<generation, epoch, paused, exclusive, hint, operator, child, leaked, stray, recycle,
                 phase, inbox, projectVars, tryOn, cooldown, spent, mishaps>>

(* Up already, blocked, or no process to be had.                           *)
HintGivesUp ==
  /\ hint # Nobody /\ lock = Nobody
  /\ hint' = Nobody
  /\ UNCHANGED <<generation, lock, epoch, paused, exclusive, operator, warmVars, projectVars,
                 tryOn, cooldown, spent, mishaps>>

(* Chrome is up and signed in.  A dead browser it replaces is forgotten,   *)
(* and what that one left behind in its process group with it.             *)
StartEnds ==
  /\ starting.who # Nobody /\ ~Blocked(starting.epoch)
  /\ stray' = (stray \/ child = "dead")
  /\ child' = "up" /\ starting' = NoStart /\ recycle' = FALSE
  /\ IF starting.who = "request"
       THEN /\ tryOn' = [tryOn EXCEPT !.pc = "job", !.submitted = FALSE]
            /\ phase' = "working" /\ UNCHANGED <<lock, hint>>
       ELSE lock' = Nobody /\ hint' = Nobody /\ UNCHANGED <<tryOn, phase>>
  /\ UNCHANGED <<generation, epoch, paused, exclusive, operator, leaked, inbox, projectVars,
                 cooldown, spent, mishaps>>

(* A bug: a start in the background that fails keeps the lock.             *)
StartFailsLocked ==
  /\ starting.who # Nobody
  /\ KillGroup
  /\ starting' = NoStart
  /\ IF starting.who = "hint"
       THEN hint' = Nobody /\ UNCHANGED <<lock, generation, tryOn, spent>>
       ELSE /\ lock' = Nobody
            /\ IF leaked' THEN Reply ELSE Go("exclusive") /\ UNCHANGED <<generation, spent>>
            /\ UNCHANGED hint
  /\ UNCHANGED <<epoch, paused, exclusive, operator, child, stray, recycle, phase, inbox, projectVars,
                 cooldown>>

(* It exits, is too slow, or was blocked meanwhile: killed.  The request   *)
(* goes on with a gflow of its own, unless the profile may still be held.  *)
StartFails ==
  /\ starting.who # Nobody
  /\ KillGroup
  /\ starting' = NoStart /\ lock' = Nobody
  /\ IF starting.who = "hint"
       THEN hint' = Nobody /\ UNCHANGED <<generation, tryOn, spent>>
       ELSE /\ IF leaked' THEN Reply ELSE Go("exclusive") /\ UNCHANGED <<generation, spent>>
            /\ UNCHANGED hint
  /\ UNCHANGED <<epoch, paused, exclusive, operator, child, stray, recycle, phase, inbox, projectVars,
                 cooldown>>

(* maintain: idle, due for recycling, or dead.                             *)
Maintain ==
  /\ lock = Nobody /\ child # "none"
  /\ StopBrowser
  /\ UNCHANGED <<lockVars, starting, projectVars, tryOn, cooldown, spent>>

-----------------------------------------------------------------------------
(* A request and the project it needs.                                     *)

(* do_POST: the pause is looked at under the generation lock.              *)
Accept ==
  /\ generation = Nobody /\ ~paused
  /\ generation' = "request"
  /\ Go("project")
  /\ UNCHANGED <<lock, epoch, paused, exclusive, hint, operator, warmVars, projectVars,
                 cooldown, spent, mishaps>>

(* _skip_pro.                                                              *)
FirstAttempt == tryOn' = [tryOn EXCEPT !.pc = "attempt", !.goal = "image",
                                           !.model = IF cooldown THEN "nano2" ELSE "pro"]

(* _ensure_project: in memory, or recorded.                                *)
ProjectKnown ==
  /\ Stage({"project"})
  /\ known \/ (~unrecorded /\ file = "recorded")
  /\ known' = TRUE
  /\ FirstAttempt
  /\ UNCHANGED <<lockVars, warmVars, file, unrecorded, created, cooldown, spent, mishaps>>

(* Created earlier by this process, and not recorded yet.                  *)
ProjectUnrecorded ==
  /\ Stage({"project"}) /\ ~known /\ unrecorded
  /\ Go("store")
  /\ UNCHANGED <<lockVars, warmVars, projectVars, cooldown, spent, mishaps>>

(* The marker of an earlier create is still there.                         *)
ProjectRefused ==
  /\ Stage({"project"}) /\ ~known /\ ~unrecorded /\ file = "pending"
  /\ Reply
  /\ UNCHANGED <<lock, epoch, paused, exclusive, hint, operator, warmVars, projectVars, cooldown,
                 mishaps>>

(* Nothing recorded: the marker is written before anything is created.     *)
ProjectMissing ==
  /\ Stage({"project"}) /\ ~known /\ ~unrecorded /\ file = "none"
  /\ file' = "pending"
  /\ tryOn' = [tryOn EXCEPT !.pc = "exclusive", !.goal = "project"]
  /\ UNCHANGED <<lockVars, warmVars, known, unrecorded, created, cooldown, spent, mishaps>>

(* _store_project_id.                                                      *)
StoreProject ==
  /\ Stage({"store"})
  /\ file' = "recorded" /\ known' = TRUE /\ unrecorded' = FALSE
  /\ FirstAttempt
  /\ UNCHANGED <<lockVars, warmVars, created, cooldown, spent, mishaps>>

(* The marker or the id cannot be written.                                 *)
RecordFails ==
  /\ Stage({"store"}) \/ (Stage({"project"}) /\ ~known /\ ~unrecorded /\ file = "none")
  /\ Mishap
  /\ Reply
  /\ UNCHANGED <<lock, epoch, paused, exclusive, hint, operator, warmVars, projectVars, cooldown>>

-----------------------------------------------------------------------------
(* _run_gflow: the profile is taken from the warm browser first.           *)

ExclusiveBegins ==
  /\ Stage({"exclusive"}) /\ epoch < MaxEpoch
  /\ epoch' = epoch + 1 /\ exclusive' = TRUE
  /\ Go("drain")
  /\ UNCHANGED <<generation, lock, paused, hint, operator, warmVars, projectVars, cooldown, spent,
                 mishaps>>

(* The browser is stopped under its lock, and gflow starts if that freed   *)
(* the profile.                                                            *)
GflowStarts ==
  /\ Stage({"drain"}) /\ lock = Nobody
  /\ StopBrowser /\ ~leaked'
  /\ Go("gflow")
  /\ UNCHANGED <<lockVars, starting, projectVars, cooldown, spent>>

(* _failed_before_flow: the marker is withdrawn, if it can be removed.     *)
Withdraw == file' \in (IF tryOn.goal = "project" THEN {"none", "pending"} ELSE {file})

ProfileHeld ==
  /\ Stage({"drain"}) /\ lock = Nobody
  /\ StopBrowser /\ leaked'
  /\ exclusive' = FALSE
  /\ Withdraw
  /\ Reply
  /\ UNCHANGED <<lock, epoch, paused, hint, operator, starting, known, unrecorded, created, cooldown>>

(* Flow creates the project, or generates the image.                       *)
FlowActs ==
  /\ Stage({"gflow"})
  /\ IF tryOn.goal = "project"
       THEN created' = created + 1 /\ UNCHANGED spent
       ELSE spent' = spent + 1 /\ UNCHANGED created
  /\ Go("acted")
  /\ UNCHANGED <<lockVars, warmVars, file, known, unrecorded, cooldown, mishaps>>

(* gflow ends.  With the id of the project:                                *)
ProjectCreated ==
  /\ Stage({"acted"}) /\ tryOn.goal = "project"
  /\ exclusive' = FALSE /\ unrecorded' = TRUE
  /\ Go("store")
  /\ UNCHANGED <<generation, lock, epoch, paused, hint, operator, warmVars, file, known, created,
                 cooldown, spent, mishaps>>

(* Without a session or the profile, before Flow was asked for anything:   *)
EndsBeforeFlow ==
  /\ Stage({"gflow"})
  /\ exclusive' = FALSE
  /\ Withdraw
  /\ Reply
  /\ UNCHANGED <<lock, epoch, paused, hint, operator, warmVars, known, unrecorded, created,
                 cooldown, mishaps>>

(* A bug: every failure withdraws the marker.                              *)
GflowLostWithdraws ==
  /\ Stage({"gflow", "acted"})
  /\ exclusive' = FALSE
  /\ Withdraw
  /\ Reply
  /\ UNCHANGED <<lock, epoch, paused, hint, operator, warmVars, known, unrecorded, created,
                 cooldown, mishaps>>

(* With a failure, an unreadable reply or after its deadline: Flow may     *)
(* have acted.                                                             *)
GflowLost ==
  /\ Stage({"gflow", "acted"})
  /\ exclusive' = FALSE
  /\ Reply
  /\ UNCHANGED <<lock, epoch, paused, hint, operator, warmVars, projectVars, cooldown, mishaps>>

(* With the image.                                                         *)
GflowDone ==
  /\ Stage({"acted"}) /\ tryOn.goal = "image"
  /\ exclusive' = FALSE
  /\ cooldown' = (cooldown /\ tryOn.model # "pro")
  /\ Reply
  /\ UNCHANGED <<lock, epoch, paused, hint, operator, warmVars, projectVars, mishaps>>

(* A quota refusal of Pro starts its cool-down and one attempt with the    *)
(* other model; any other refusal ends the request.                        *)
Refused ==
  IF tryOn.model = "pro"
    THEN /\ cooldown' = TRUE
         /\ tryOn' = [tryOn EXCEPT !.pc = "attempt", !.model = "nano2", !.submitted = FALSE]
         /\ UNCHANGED <<generation, spent>>
    ELSE Reply /\ UNCHANGED cooldown

GflowRefused ==
  /\ Stage({"gflow"}) /\ tryOn.goal = "image"
  /\ exclusive' = FALSE
  /\ Refused
  /\ UNCHANGED <<lock, epoch, paused, hint, operator, warmVars, projectVars, mishaps>>

-----------------------------------------------------------------------------
(* run: a job on the warm browser.                                         *)

(* The lock is not free within the budget.                                 *)
AttemptTimesOut ==
  /\ Stage({"attempt"}) /\ lock # Nobody
  /\ Reply
  /\ UNCHANGED <<lock, epoch, paused, exclusive, hint, operator, warmVars, projectVars, cooldown,
                 mishaps>>

RunWarm ==
  /\ Stage({"attempt"}) /\ lock = Nobody /\ child = "up" /\ ~recycle
  /\ lock' = "request"
  /\ tryOn' = [tryOn EXCEPT !.pc = "job", !.submitted = FALSE]
  /\ phase' = "working" /\ inbox' = << >>
  /\ UNCHANGED <<generation, epoch, paused, exclusive, hint, operator, child, starting, leaked,
                 stray, recycle, projectVars, cooldown, spent, mishaps>>

(* No browser, a dead one, or one to recycle: a new start, if leftovers do *)
(* not hold the profile; without a process, a gflow.                       *)
RunCold ==
  /\ Stage({"attempt"}) /\ lock = Nobody /\ (child # "up" \/ recycle)
  /\ StopBrowser
  /\ \/ leaked' /\ Reply /\ UNCHANGED <<lock, starting>>
     \/ /\ ~leaked' /\ ~Blocked(epoch)
        /\ lock' = "request" /\ starting' = [who |-> "request", epoch |-> epoch]
        /\ Go("start") /\ UNCHANGED <<generation, spent>>
     \/ ~leaked' /\ Go("exclusive") /\ UNCHANGED <<lock, starting, generation, spent>>
  /\ UNCHANGED <<epoch, paused, exclusive, hint, operator, projectVars, cooldown>>

(* warm_child: it announces the submit, submits, and answers.              *)
Announce ==
  /\ Stage({"job"}) /\ child = "up" /\ phase = "working"
  /\ phase' = "submitted" /\ inbox' = Append(inbox, "submitted")
  /\ UNCHANGED <<lockVars, child, starting, leaked, stray, recycle, projectVars, tryOn, cooldown,
                 spent, mishaps>>

Generate ==
  /\ Stage({"job"}) /\ child = "up" /\ phase = "submitted"
  /\ phase' = "generated" /\ spent' = spent + 1
  /\ UNCHANGED <<lockVars, child, starting, leaked, stray, recycle, inbox, projectVars, tryOn,
                 cooldown, mishaps>>

JobEnds ==
  /\ Stage({"job"}) /\ child = "up" /\ phase \in {"working", "submitted", "generated"}
  /\ \E word \in {"ok", "refused", "failed"} :
       /\ word = "ok" => phase = "generated"
       /\ word = "refused" => phase = "submitted"
       /\ inbox' = Append(inbox, word)
  /\ phase' = "answered"
  /\ UNCHANGED <<lockVars, child, starting, leaked, stray, recycle, projectVars, tryOn, cooldown,
                 spent, mishaps>>

(* The browser dies; what it had written is read before the end of file.   *)
BrowserDies ==
  /\ child = "up" /\ Mishap
  /\ child' = "dead"
  /\ inbox' = IF Stage({"job"}) THEN Append(inbox, "eof") ELSE inbox
  /\ UNCHANGED <<lockVars, starting, leaked, stray, recycle, phase, projectVars, tryOn, cooldown,
                 spent>>

Heard(word) == Stage({"job"}) /\ inbox # << >> /\ Head(inbox) = word

(* _run_locked on the messages: the submit is about to go out.             *)
HearSubmit ==
  /\ Heard("submitted")
  /\ inbox' = Tail(inbox)
  /\ tryOn' = [tryOn EXCEPT !.submitted = TRUE]
  /\ UNCHANGED <<lockVars, child, starting, leaked, stray, recycle, phase, projectVars, cooldown,
                 spent, mishaps>>

(* A bug: a dead browser always leads to a gflow.                          *)
HearDeathRetries ==
  /\ Heard("eof")
  /\ StopBrowser
  /\ lock' = Nobody
  /\ Go("exclusive") /\ UNCHANGED <<generation, spent>>
  /\ UNCHANGED <<epoch, paused, exclusive, hint, operator, starting, projectVars, cooldown>>

(* It died: before the submit a gflow may still serve the request.         *)
HearDeath ==
  /\ Heard("eof")
  /\ StopBrowser
  /\ lock' = Nobody
  /\ IF tryOn.submitted THEN Reply ELSE Go("exclusive") /\ UNCHANGED <<generation, spent>>
  /\ UNCHANGED <<epoch, paused, exclusive, hint, operator, starting, projectVars, cooldown>>

(* The CLI's exit code.  Failures recycle the browser, and age may.        *)
HearResult ==
  /\ Stage({"job"}) /\ inbox # << >> /\ Head(inbox) \in {"ok", "refused", "failed"}
  /\ lock' = Nobody
  /\ inbox' = Tail(inbox) /\ phase' = "idle"
  /\ recycle' \in (IF Head(inbox) = "ok" THEN BOOLEAN ELSE {TRUE})
  /\ CASE Head(inbox) = "ok" -> Reply /\ cooldown' = (cooldown /\ tryOn.model # "pro")
       [] Head(inbox) = "refused" -> Refused
       [] Head(inbox) = "failed" -> Reply /\ UNCHANGED cooldown
  /\ UNCHANGED <<epoch, paused, exclusive, hint, operator, child, starting, leaked, stray,
                 projectVars, mishaps>>

JobTimesOut ==
  /\ Stage({"job"})
  /\ StopBrowser
  /\ lock' = Nobody
  /\ Reply
  /\ UNCHANGED <<epoch, paused, exclusive, hint, operator, starting, projectVars, cooldown>>

-----------------------------------------------------------------------------
(* The operator, and the world.                                            *)

(* POST /v1/cool, under the generation lock: first the pause.              *)
CoolBegins ==
  /\ generation = Nobody /\ epoch < MaxEpoch
  /\ generation' = "cool"
  /\ epoch' = epoch + 1 /\ paused' = TRUE
  /\ UNCHANGED <<lock, exclusive, hint, operator, warmVars, projectVars, tryOn, cooldown, spent,
                 mishaps>>

CoolEnds ==
  /\ generation = "cool" /\ lock = Nobody
  /\ StopBrowser
  /\ operator' = (paused /\ ~leaked')
  /\ generation' = Nobody
  /\ UNCHANGED <<lock, epoch, paused, exclusive, hint, starting, projectVars, tryOn, cooldown,
                 spent>>

(* 409: the profile must not be assumed free.                              *)
CoolTimesOut ==
  /\ generation = "cool" /\ lock # Nobody
  /\ generation' = Nobody
  /\ UNCHANGED <<lock, epoch, paused, exclusive, hint, operator, warmVars, projectVars, tryOn,
                 cooldown, spent, mishaps>>

(* Its 900 seconds are over, or somebody resumes: the operator who has the *)
(* profile, or another while it is being released, who has it then no more.*)
PauseEnds ==
  /\ paused
  /\ paused' = FALSE /\ operator' = FALSE
  /\ UNCHANGED <<generation, lock, epoch, exclusive, hint, warmVars, projectVars, tryOn,
                 cooldown, spent, mishaps>>

CooldownEnds ==
  /\ cooldown
  /\ cooldown' = FALSE
  /\ UNCHANGED <<lockVars, warmVars, projectVars, tryOn, spent, mishaps>>

LeftoversExit ==
  /\ leaked \/ stray
  /\ leaked' = FALSE /\ stray' = FALSE
  /\ UNCHANGED <<lockVars, child, starting, recycle, phase, inbox, projectVars, tryOn, cooldown,
                 spent, mishaps>>

(* The container restarts: its processes and its memory are gone.          *)
Restart ==
  /\ Mishap
  /\ generation' = Nobody /\ lock' = Nobody /\ hint' = Nobody
  /\ epoch' = 0 /\ paused' = FALSE /\ exclusive' = FALSE /\ operator' = FALSE
  /\ child' = "none" /\ starting' = NoStart /\ leaked' = FALSE /\ stray' = FALSE /\ recycle' = FALSE
  /\ phase' = "idle" /\ inbox' = << >>
  /\ tryOn' = NoTryOn /\ cooldown' = FALSE /\ spent' = 0
  /\ known' = FALSE /\ unrecorded' = FALSE
  /\ UNCHANGED <<file, created>>

-----------------------------------------------------------------------------
(* What has a deadline of its own in the code.                             *)
Serve ==
  \/ ProjectKnown \/ ProjectUnrecorded \/ ProjectRefused \/ ProjectMissing \/ StoreProject
  \/ ExclusiveBegins \/ GflowStarts \/ ProfileHeld
  \/ ProjectCreated \/ EndsBeforeFlow \/ GflowLost \/ GflowDone \/ GflowRefused
  \/ AttemptTimesOut \/ RunWarm \/ RunCold
  \/ HearSubmit \/ HearDeath \/ HearResult \/ JobTimesOut

Launch == StartEnds \/ StartFails

WorkerNext ==
  \/ Serve \/ Launch \/ RecordFails \/ Accept
  \/ WarmHint \/ HintStarts \/ HintGivesUp \/ Maintain
  \/ FlowActs \/ Announce \/ Generate \/ JobEnds \/ BrowserDies
  \/ CoolBegins \/ CoolEnds \/ CoolTimesOut \/ PauseEnds
  \/ CooldownEnds \/ LeftoversExit \/ Restart

WorkerFairness == WF_workerVars(Serve) /\ WF_workerVars(Launch)

WorkerSpec == WorkerInit /\ [][WorkerNext]_workerVars /\ WorkerFairness

-----------------------------------------------------------------------------
(* A hint, a recycle, a cool and a request race for the profile: while a   *)
(* gflow drives it there is no browser the worker knows of, up, starting,  *)
(* dead with Chrome left behind or surviving its kill, and while an        *)
(* operator has it there is neither (exclusive, cool, _blocked, do_POST).  *)
ProfileExclusive ==
  LET browser == child # "none" \/ starting.who # Nobody \/ leaked
      gflow == Stage({"gflow", "acted"})
  IN  /\ gflow => ~browser
      /\ operator => ~browser /\ ~gflow

(* Replies lost, records that cannot be written, restarts at any moment:   *)
(* Flow is asked for at most one project (_ensure_project).                *)
OneProject == created <= 1

(* The fallbacks from the warm browser to gflow and from Pro to Nano       *)
(* Banana 2.1 never pay twice: one request generates one image at most     *)
(* (_run_locked, _run_model, should_fallback_from_pro).                    *)
PaidOnce == spent <= 1

(* "A crashed child leaves its descendants (Chrome) in its process group;  *)
(* they must not survive" (tests/test_warm.py, ProcessGroupCleanupTest):   *)
(* no browser takes the place of a dead one that was not cleared away.     *)
DeadClearedAway == ~stray

(* The generation lock, the lock of the browser and the exclusive section  *)
(* never wait for each other: every request accepted is answered, unless   *)
(* the counter of cools and gflows has reached the bound (_generate, run). *)
RequestEnds == (generation = "request") ~> (generation = Nobody \/ epoch = MaxEpoch)

=============================================================================
