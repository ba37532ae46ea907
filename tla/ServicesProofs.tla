----------------------------- MODULE ServicesProofs ----------------------------
(***************************************************************************)
(* Proofs about the services beside the checkout: polls and webhooks       *)
(* racing over one order's status never bring an older one back; a change  *)
(* that Pancake announced is not forgotten; and the try-on worker shares   *)
(* its profile with nobody, creates one project and pays once.  Last, the  *)
(* same of the composition that MCServices makes of them.                  *)
(***************************************************************************)
EXTENDS MCServices, TLAPS

-----------------------------------------------------------------------------
(* The status of an order (OrderStatus).                                   *)

(* Whoever stores, stores over the columns it compared with.               *)
LEMMA StoreReplacesOlder ==
  ASSUME NEW r \in Readers, Store(r)
  PROVE  record = NoRecord \/ record'.stamp > record.stamp
BY DEF Store, Newer, Unmoved

(* Nobody else touches the stored status.                                  *)
LEMMA StatusStep ==
  ASSUME [StatusNext]_statusVars
  PROVE  [record' # record => record = NoRecord \/ record'.stamp > record.stamp]_statusVars
<1>1. ASSUME NEW r \in Readers, Store(r)
      PROVE  record = NoRecord \/ record'.stamp > record.stamp
  BY <1>1, StoreReplacesOlder
<1>2. ASSUME NEW r \in Readers,
             \/ Start(r) \/ Answer(r) \/ Reread(r) \/ Compare(r) \/ CheckHook(r)
             \/ Refund(r) \/ Unavailable(r) \/ HookFails(r) \/ Crash(r)
      PROVE  record' = record
  BY <1>2 DEF Start, Answer, Reread, Compare, CheckHook, Refund, Unavailable, HookFails, Crash
<1>3. ASSUME RemoteChange \/ Sync \/ SweepList \/ SweepRefund
      PROVE  record' = record
  BY <1>3 DEF RemoteChange, Sync, SweepList, SweepRefund
<1>4. ASSUME UNCHANGED statusVars PROVE record' = record
  BY <1>4 DEF statusVars
<1> QED BY <1>1, <1>2, <1>3, <1>4 DEF StatusNext, Read

(* However many readers race, answers that overtake each other never bring *)
(* an older status back, and no other step touches the stored status       *)
(* (reconcileStatus).                                                      *)
THEOREM NewestStatusKept == StatusSpec => NewestKept
BY StatusStep, PTL DEF StatusSpec, NewestKept

-----------------------------------------------------------------------------
(* The try-on worker (FlowWorker): its invariant, part by part.            *)

(* Who is using the browser.  A start for a request leaves no message of   *)
(* an earlier browser behind.                                              *)
Using ==
  /\ starting.who = "request" <=> tryOn.pc = "start"
  /\ tryOn.pc \in {"start", "job"} => lock = "request"
  /\ tryOn.pc = "start" => inbox = << >>

NoBrowser == child = "none" /\ starting.who = Nobody /\ ~leaked

(* The exclusive section keeps starts away from a gflow; the pause keeps   *)
(* starts and requests away from an operator.                              *)
Exclusion ==
  /\ Stage({"drain", "gflow", "acted"}) => exclusive
  /\ Stage({"gflow", "acted"}) => NoBrowser
  /\ operator => paused /\ generation # "request" /\ NoBrowser

(* While nothing is recorded nothing was created; a request that is about  *)
(* to create has left its marker, and nothing was created before it.       *)
Project ==
  /\ created <= 1
  /\ file = "none" => created = 0
  /\ Stage({"exclusive", "drain", "gflow"}) /\ tryOn.goal = "project"
       => created = 0 /\ file = "pending"
  /\ Stage({"attempt", "start", "job"}) => tryOn.goal = "image"

(* An attempt begins with nothing paid.                                    *)
Paid ==
  /\ spent <= 1
  /\ ~Stage({"acted", "job"}) => spent = 0
  /\ Stage({"acted"}) /\ tryOn.goal = "project" => spent = 0

(* What the browser has done of the job is known to the request, or in     *)
(* front of what it will read; a refusal is the answer to an unpaid job.   *)
JobHeard ==
  Stage({"job"}) =>
    /\ phase \in {"working", "submitted"} => spent = 0
    /\ phase = "working" /\ child = "up" => inbox = << >>
    /\ phase \in {"submitted", "generated"} \/ spent > 0
         => tryOn.submitted \/ (inbox # << >> /\ Head(inbox) = "submitted")
    /\ \A i \in 1..Len(inbox) : inbox[i] = "refused" => phase = "answered" /\ spent = 0

WorkerInv == WorkerTypeOK /\ Using /\ Exclusion /\ Project /\ Paid /\ JobHeard

(* What the actions are made of.                                           *)
Word == {"submitted", "ok", "refused", "failed", "eof"}
TryOn == [pc : {"away", "project", "exclusive", "drain", "gflow", "acted", "store", "attempt",
                "start", "job"},
          goal : {"project", "image"}, model : {"pro", "nano2"}, submitted : BOOLEAN]

(* The types, apart.                                                       *)
PlacesTyped ==
  /\ generation \in {Nobody, "request", "cool"} /\ lock \in {Nobody, "request", "hint"}
  /\ epoch \in 0..MaxEpoch
  /\ child \in {"none", "up", "dead"}
  /\ starting \in [who : {Nobody, "request", "hint"}, epoch : 0..MaxEpoch]
  /\ starting.who # Nobody => lock = starting.who /\ child # "up"
  /\ hint \in 0..MaxEpoch \cup {Nobody}
FlagsTyped ==
  /\ {paused, exclusive, operator, leaked, stray, recycle} \subseteq BOOLEAN
  /\ {cooldown, known, unrecorded} \subseteq BOOLEAN
TryOnTyped == tryOn \in TryOn /\ ((tryOn.pc = "away") <=> (generation # "request"))
MessagesTyped ==
  /\ phase \in {"idle", "working", "submitted", "generated", "answered"}
  /\ inbox \in Seq(Word)
CountsTyped ==
  /\ file \in {"none", "pending", "recorded"}
  /\ {created, spent} \subseteq Nat /\ mishaps \in 0..MaxMishaps
Typed == PlacesTyped /\ FlagsTyped /\ TryOnTyped /\ MessagesTyped /\ CountsTyped

LEMMA TypedIsTypeOK == Typed <=> WorkerTypeOK
BY DEF Typed, PlacesTyped, FlagsTyped, TryOnTyped, MessagesTyped, CountsTyped, TryOn, Word,
       WorkerTypeOK

(* How a request goes on: to its first attempt, after a refusal, to a job. *)
LEMMA TryOnSteps ==
  ASSUME TryOnTyped
  PROVE  /\ FirstAttempt => /\ tryOn' \in TryOn /\ tryOn'.pc = "attempt"
                            /\ tryOn'.goal = "image" /\ tryOn'.submitted = tryOn.submitted
         /\ Refused => \/ /\ tryOn' \in TryOn /\ tryOn'.pc = "attempt"
                          /\ tryOn'.goal = tryOn.goal /\ tryOn'.submitted = FALSE
                          /\ UNCHANGED <<generation, spent>>
                       \/ Reply
         /\ Refused => cooldown' = TRUE \/ cooldown' = cooldown
         /\ tryOn' = [tryOn EXCEPT !.pc = "job", !.submitted = FALSE] =>
              /\ tryOn' \in TryOn /\ tryOn'.pc = "job"
              /\ tryOn'.goal = tryOn.goal /\ tryOn'.submitted = FALSE
<1>1. ASSUME NEW m \in {"pro", "nano2"}
      PROVE  LET t == [tryOn EXCEPT !.pc = "attempt", !.goal = "image", !.model = m] IN
             t \in TryOn /\ t.pc = "attempt" /\ t.goal = "image" /\ t.submitted = tryOn.submitted
  BY DEF TryOnTyped, TryOn
<1>2. LET t == [tryOn EXCEPT !.pc = "attempt", !.model = "nano2", !.submitted = FALSE] IN
      t \in TryOn /\ t.pc = "attempt" /\ t.goal = tryOn.goal /\ t.submitted = FALSE
  BY DEF TryOnTyped, TryOn
<1>3. LET t == [tryOn EXCEPT !.pc = "job", !.submitted = FALSE] IN
      t \in TryOn /\ t.pc = "job" /\ t.goal = tryOn.goal /\ t.submitted = FALSE
  BY DEF TryOnTyped, TryOn
<1>4. FirstAttempt => /\ tryOn' \in TryOn /\ tryOn'.pc = "attempt"
                      /\ tryOn'.goal = "image" /\ tryOn'.submitted = tryOn.submitted
  BY <1>1 DEF FirstAttempt
<1>5. Refused => \/ /\ tryOn' \in TryOn /\ tryOn'.pc = "attempt"
                    /\ tryOn'.goal = tryOn.goal /\ tryOn'.submitted = FALSE
                    /\ UNCHANGED <<generation, spent>>
                 \/ Reply
  BY <1>2 DEF Refused
<1>6. Refused => cooldown' = TRUE \/ cooldown' = cooldown
  BY DEF Refused
<1> QED BY <1>3, <1>4, <1>5, <1>6

LEMMA Moves ==
  ASSUME TryOnTyped
  PROVE  /\ Reply => tryOn' \in TryOn /\ tryOn'.pc = "away" /\ generation' = Nobody
         /\ \A place \in {"project", "exclusive", "drain", "gflow", "acted", "store", "start"} :
              Go(place) => tryOn' \in TryOn /\ tryOn'.pc = place
<1>1. NoTryOn \in TryOn /\ NoTryOn.pc = "away"
  BY DEF NoTryOn, TryOn
<1>2. ASSUME NEW place \in {"project", "exclusive", "drain", "gflow", "acted", "store", "start"},
             Go(place)
      PROVE  tryOn' \in TryOn /\ tryOn'.pc = place
  BY <1>2 DEF Go, TryOnTyped, TryOn
<1> QED BY <1>1, <1>2 DEF Reply

(* An answer ends the request, or is a refusal it goes on from.            *)
EndsOrGoesOn(refusal) ==
  \/ Reply
  \/ /\ refusal
     /\ tryOn' \in TryOn /\ tryOn'.pc = "attempt"
     /\ tryOn'.goal = tryOn.goal /\ tryOn'.submitted = FALSE
     /\ UNCHANGED <<generation, spent>>

JobAnswered ==
  /\ tryOn.pc = "job" /\ lock' = Nobody /\ phase' = "idle"
  /\ inbox # << >> /\ inbox' = Tail(inbox)
  /\ recycle' \in BOOLEAN /\ cooldown' \in BOOLEAN
  /\ EndsOrGoesOn(Head(inbox) = "refused")
  /\ UNCHANGED <<epoch, paused, exclusive, hint, operator, child, starting, leaked, stray,
                  file, known, unrecorded, created, mishaps>>

GflowAnswered ==
  /\ tryOn.pc = "gflow" /\ tryOn.goal = "image" /\ exclusive' = FALSE
  /\ cooldown' \in BOOLEAN
  /\ EndsOrGoesOn(TRUE)
  /\ UNCHANGED <<lock, epoch, paused, hint, operator, child, starting, leaked, stray, recycle,
                  phase, inbox, file, known, unrecorded, created, mishaps>>

LEMMA HearResultCases ==
  ASSUME TryOnTyped, FlagsTyped, HearResult
  PROVE  JobAnswered
<1>1. /\ tryOn.pc = "job" /\ lock' = Nobody /\ phase' = "idle"
      /\ inbox # << >> /\ inbox' = Tail(inbox)
      /\ Head(inbox) \in {"ok", "refused", "failed"} /\ cooldown \in BOOLEAN
      /\ UNCHANGED <<epoch, paused, exclusive, hint, operator, child, starting, leaked, stray,
                      file, known, unrecorded, created, mishaps>>
  BY DEF HearResult, Stage, FlagsTyped, projectVars
<1>2. recycle' \in BOOLEAN
  BY DEF HearResult
<1>3. CASE Head(inbox) = "ok"
  <2>1. Reply /\ cooldown' = (cooldown /\ tryOn.model # "pro")
    BY <1>3 DEF HearResult
  <2> QED BY <1>1, <1>2, <2>1 DEF JobAnswered, EndsOrGoesOn
<1>4. CASE Head(inbox) = "refused"
  <2>1. Refused
    BY <1>4 DEF HearResult
  <2>2. EndsOrGoesOn(TRUE) /\ cooldown' \in BOOLEAN
    BY <1>1, <2>1, TryOnSteps DEF EndsOrGoesOn
  <2> QED BY <1>1, <1>2, <1>4, <2>2 DEF JobAnswered, EndsOrGoesOn
<1>5. CASE Head(inbox) = "failed"
  <2>1. Reply /\ cooldown' = cooldown
    BY <1>5 DEF HearResult
  <2> QED BY <1>1, <1>2, <2>1 DEF JobAnswered, EndsOrGoesOn
<1> QED BY <1>1, <1>3, <1>4, <1>5

LEMMA GflowRefusedCases ==
  ASSUME TryOnTyped, FlagsTyped, GflowRefused
  PROVE  GflowAnswered
<1>1. Refused /\ cooldown \in BOOLEAN
  BY DEF GflowRefused, FlagsTyped
<1>2. EndsOrGoesOn(TRUE) /\ cooldown' \in BOOLEAN
  BY <1>1, TryOnSteps DEF EndsOrGoesOn
<1> QED BY <1>2 DEF GflowAnswered, GflowRefused, Stage, warmVars, projectVars

(* The words the browser has written.                                      *)
LEMMA Writing ==
  ASSUME MessagesTyped
  PROVE  /\ << >> \in Seq(Word)
         /\ inbox # << >> => Tail(inbox) \in Seq(Word)
         /\ \A w \in Word : LET s == Append(inbox, w) IN
              /\ s \in Seq(Word) /\ s # << >>
              /\ Head(s) = IF inbox = << >> THEN w ELSE Head(inbox)
              /\ \A i \in 1..Len(s) : \/ i \in 1..Len(inbox) /\ s[i] = inbox[i]
                                     \/ s[i] = w
<1>1. inbox \in Seq(Word)
  BY DEF MessagesTyped
<1>2. ASSUME NEW w \in Word
      PROVE  LET s == Append(inbox, w) IN
             /\ s \in Seq(Word) /\ s # << >>
             /\ Head(s) = IF inbox = << >> THEN w ELSE Head(inbox)
             /\ \A i \in 1..Len(s) : \/ i \in 1..Len(inbox) /\ s[i] = inbox[i]
                                    \/ s[i] = w
  BY <1>1
<1> QED BY <1>1, <1>2

(* The locks, the epoch and the browser keep their types.                  *)
LEMMA PlacesKept ==
  ASSUME WorkerAssumption, Typed, Using, [WorkerNext]_workerVars
  PROVE  PlacesTyped'
<1>0. /\ MaxEpoch \in Nat /\ MaxMishaps \in Nat
      /\ Nobody \notin {"request", "hint", "cool"}
      /\ PlacesTyped /\ FlagsTyped /\ TryOnTyped /\ MessagesTyped /\ CountsTyped
  BY DEF WorkerAssumption, Typed
<1>1. ASSUME WarmHint \/ HintStarts \/ HintGivesUp \/ Accept PROVE PlacesTyped'
  BY <1>0, <1>1 DEF WarmHint, HintStarts, HintGivesUp, Accept, Go, Blocked, Stage, PlacesTyped,
     TryOnTyped, Using, lockVars, warmVars, projectVars, TryOn
<1>2. ASSUME StartEnds PROVE PlacesTyped'
  BY <1>0, <1>2, TryOnSteps DEF StartEnds, NoStart, Stage, PlacesTyped, TryOnTyped, Using,
     lockVars, warmVars, projectVars, TryOn
<1>3. ASSUME StartFails PROVE PlacesTyped'
  BY <1>0, <1>3 DEF StartFails, NoStart, KillGroup, Mishap, Reply, NoTryOn, Go, Stage,
     PlacesTyped, TryOnTyped, Using, lockVars, warmVars, projectVars, TryOn
<1>4. ASSUME Maintain PROVE PlacesTyped'
  BY <1>0, <1>4 DEF Maintain, StopBrowser, KillGroup, Mishap, Stage, PlacesTyped, TryOnTyped,
     Using, lockVars, warmVars, projectVars, TryOn
<1>5. ASSUME ProjectUnrecorded \/ ProjectRefused \/ RecordFails PROVE PlacesTyped'
  BY <1>0, <1>5 DEF ProjectUnrecorded, ProjectRefused, RecordFails, Mishap, Reply, NoTryOn, Go,
     Stage, PlacesTyped, TryOnTyped, Using, lockVars, warmVars, projectVars, TryOn
<1>6. ASSUME ProjectMissing PROVE PlacesTyped'
  BY <1>0, <1>6 DEF ProjectMissing, Stage, PlacesTyped, TryOnTyped, Using, lockVars, warmVars,
     projectVars, TryOn
<1>7. ASSUME ProjectKnown PROVE PlacesTyped'
  BY <1>0, <1>7, TryOnSteps DEF ProjectKnown, Stage, PlacesTyped, TryOnTyped, Using, lockVars,
     warmVars, projectVars, TryOn
<1>8. ASSUME StoreProject PROVE PlacesTyped'
  BY <1>0, <1>8, TryOnSteps DEF StoreProject, Stage, PlacesTyped, TryOnTyped, Using, lockVars,
     warmVars, projectVars, TryOn
<1>9. ASSUME ExclusiveBegins \/ GflowStarts \/ ProfileHeld PROVE PlacesTyped'
  BY <1>0, <1>9 DEF ExclusiveBegins, GflowStarts, ProfileHeld, StopBrowser, KillGroup, Mishap,
     Reply, NoTryOn, Withdraw, Go, Stage, PlacesTyped, TryOnTyped, Using, lockVars, warmVars,
     projectVars, TryOn
<1>10. ASSUME FlowActs \/ ProjectCreated \/ EndsBeforeFlow \/ GflowLost PROVE PlacesTyped'
  BY <1>0, <1>10 DEF FlowActs, ProjectCreated, EndsBeforeFlow, GflowLost, Reply, NoTryOn,
     Withdraw, Go, Stage, PlacesTyped, TryOnTyped, Using, lockVars, warmVars, projectVars, TryOn
<1>11. ASSUME GflowDone PROVE PlacesTyped'
  BY <1>0, <1>11 DEF GflowDone, Reply, NoTryOn, Stage, PlacesTyped, TryOnTyped, Using, lockVars,
     warmVars, projectVars, TryOn
<1>12. ASSUME GflowRefused PROVE PlacesTyped'
  <2>1. GflowAnswered
    BY <1>0, <1>12, GflowRefusedCases
  <2> QED BY <1>0, <2>1 DEF GflowAnswered, EndsOrGoesOn, Reply, NoTryOn, Stage, PlacesTyped,
          TryOnTyped, Using, TryOn
<1>13. ASSUME AttemptTimesOut PROVE PlacesTyped'
  BY <1>0, <1>13 DEF AttemptTimesOut, Reply, NoTryOn, Stage, PlacesTyped, TryOnTyped, Using,
     lockVars, warmVars, projectVars, TryOn
<1>14. ASSUME RunWarm PROVE PlacesTyped'
  BY <1>0, <1>14, TryOnSteps DEF RunWarm, Stage, PlacesTyped, TryOnTyped, Using, lockVars,
     warmVars, projectVars, TryOn
<1>15. ASSUME RunCold PROVE PlacesTyped'
  BY <1>0, <1>15 DEF RunCold, StopBrowser, KillGroup, Mishap, Reply, NoTryOn, Blocked, Go,
     Stage, PlacesTyped, TryOnTyped, Using, lockVars, warmVars, projectVars, TryOn
<1>16. ASSUME Announce \/ Generate PROVE PlacesTyped'
  BY <1>0, <1>16 DEF Announce, Generate, Stage, PlacesTyped, TryOnTyped, Using, lockVars,
     warmVars, projectVars, TryOn
<1>17. ASSUME JobEnds PROVE PlacesTyped'
  BY <1>0, <1>17 DEF JobEnds, Stage, PlacesTyped, TryOnTyped, Using, lockVars, warmVars,
     projectVars, TryOn
<1>18. ASSUME BrowserDies PROVE PlacesTyped'
  BY <1>0, <1>18 DEF BrowserDies, Mishap, Stage, PlacesTyped, TryOnTyped, Using, lockVars,
     warmVars, projectVars, TryOn
<1>19. ASSUME HearSubmit PROVE PlacesTyped'
  BY <1>0, <1>19 DEF HearSubmit, Heard, Stage, PlacesTyped, TryOnTyped, Using, lockVars,
     warmVars, projectVars, TryOn
<1>20. ASSUME HearDeath PROVE PlacesTyped'
  BY <1>0, <1>20 DEF HearDeath, Heard, StopBrowser, KillGroup, Mishap, Reply, NoTryOn, Go,
     Stage, PlacesTyped, TryOnTyped, Using, lockVars, warmVars, projectVars, TryOn
<1>21. ASSUME HearResult PROVE PlacesTyped'
  <2>1. JobAnswered
    BY <1>0, <1>21, HearResultCases
  <2> QED BY <1>0, <2>1 DEF JobAnswered, EndsOrGoesOn, Reply, NoTryOn, Stage, PlacesTyped,
          TryOnTyped, Using, TryOn
<1>22. ASSUME JobTimesOut PROVE PlacesTyped'
  BY <1>0, <1>22 DEF JobTimesOut, StopBrowser, KillGroup, Mishap, Reply, NoTryOn, Stage,
     PlacesTyped, TryOnTyped, Using, lockVars, warmVars, projectVars, TryOn
<1>23. ASSUME CoolBegins \/ CoolEnds \/ CoolTimesOut PROVE PlacesTyped'
  BY <1>0, <1>23 DEF CoolBegins, CoolEnds, CoolTimesOut, StopBrowser, KillGroup, Mishap, Stage,
     PlacesTyped, TryOnTyped, Using, lockVars, warmVars, projectVars, TryOn
<1>24. ASSUME PauseEnds \/ CooldownEnds \/ LeftoversExit PROVE PlacesTyped'
  BY <1>0, <1>24 DEF PauseEnds, CooldownEnds, LeftoversExit, Stage, PlacesTyped, TryOnTyped,
     Using, lockVars, warmVars, projectVars, TryOn
<1>25. ASSUME Restart PROVE PlacesTyped'
  BY <1>0, <1>25 DEF Restart, NoStart, NoTryOn, Mishap, Stage, PlacesTyped, TryOnTyped, Using,
     lockVars, warmVars, projectVars, TryOn
<1>26. ASSUME UNCHANGED workerVars PROVE PlacesTyped'
  BY <1>0, <1>26 DEF Stage, PlacesTyped, TryOnTyped, Using, workerVars, lockVars, warmVars,
     projectVars
<1> QED BY <1>1, <1>2, <1>3, <1>4, <1>5, <1>6, <1>7, <1>8, <1>9, <1>10, <1>11, <1>12, <1>13,
     <1>14, <1>15, <1>16, <1>17, <1>18, <1>19, <1>20, <1>21, <1>22, <1>23, <1>24, <1>25, <1>26
     DEF WorkerNext, Serve, Launch

(* The flags stay flags.                                                   *)
LEMMA FlagsKept ==
  ASSUME WorkerAssumption, Typed, [WorkerNext]_workerVars
  PROVE  FlagsTyped'
<1>0. /\ MaxEpoch \in Nat /\ MaxMishaps \in Nat
      /\ Nobody \notin {"request", "hint", "cool"}
      /\ PlacesTyped /\ FlagsTyped /\ TryOnTyped /\ MessagesTyped /\ CountsTyped
  BY DEF WorkerAssumption, Typed
<1>1. ASSUME WarmHint \/ HintStarts \/ HintGivesUp \/ Accept PROVE FlagsTyped'
  BY <1>0, <1>1 DEF WarmHint, HintStarts, HintGivesUp, Accept, Go, Blocked, Stage, FlagsTyped,
     lockVars, warmVars, projectVars
<1>2. ASSUME StartEnds PROVE FlagsTyped'
  BY <1>0, <1>2 DEF StartEnds, NoStart, Stage, FlagsTyped, lockVars, warmVars, projectVars
<1>3. ASSUME StartFails PROVE FlagsTyped'
  BY <1>0, <1>3 DEF StartFails, NoStart, KillGroup, Mishap, Reply, NoTryOn, Go, Stage,
     FlagsTyped, lockVars, warmVars, projectVars
<1>4. ASSUME Maintain PROVE FlagsTyped'
  BY <1>0, <1>4 DEF Maintain, StopBrowser, KillGroup, Mishap, Stage, FlagsTyped, lockVars,
     warmVars, projectVars
<1>5. ASSUME ProjectUnrecorded \/ ProjectRefused \/ RecordFails PROVE FlagsTyped'
  BY <1>0, <1>5 DEF ProjectUnrecorded, ProjectRefused, RecordFails, Mishap, Reply, NoTryOn, Go,
     Stage, FlagsTyped, lockVars, warmVars, projectVars
<1>6. ASSUME ProjectMissing PROVE FlagsTyped'
  BY <1>0, <1>6 DEF ProjectMissing, Stage, FlagsTyped, lockVars, warmVars, projectVars
<1>7. ASSUME ProjectKnown PROVE FlagsTyped'
  BY <1>0, <1>7 DEF ProjectKnown, Stage, FlagsTyped, lockVars, warmVars, projectVars
<1>8. ASSUME StoreProject PROVE FlagsTyped'
  BY <1>0, <1>8 DEF StoreProject, Stage, FlagsTyped, lockVars, warmVars, projectVars
<1>9. ASSUME ExclusiveBegins \/ GflowStarts \/ ProfileHeld PROVE FlagsTyped'
  BY <1>0, <1>9 DEF ExclusiveBegins, GflowStarts, ProfileHeld, StopBrowser, KillGroup, Mishap,
     Reply, NoTryOn, Withdraw, Go, Stage, FlagsTyped, lockVars, warmVars, projectVars
<1>10. ASSUME FlowActs \/ ProjectCreated \/ EndsBeforeFlow \/ GflowLost PROVE FlagsTyped'
  BY <1>0, <1>10 DEF FlowActs, ProjectCreated, EndsBeforeFlow, GflowLost, Reply, NoTryOn,
     Withdraw, Go, Stage, FlagsTyped, lockVars, warmVars, projectVars
<1>11. ASSUME GflowDone PROVE FlagsTyped'
  BY <1>0, <1>11 DEF GflowDone, Reply, NoTryOn, Stage, FlagsTyped, lockVars, warmVars,
     projectVars
<1>12. ASSUME GflowRefused PROVE FlagsTyped'
  <2>1. GflowAnswered
    BY <1>0, <1>12, GflowRefusedCases
  <2> QED BY <1>0, <2>1 DEF GflowAnswered, EndsOrGoesOn, Reply, NoTryOn, Stage, FlagsTyped
<1>13. ASSUME AttemptTimesOut PROVE FlagsTyped'
  BY <1>0, <1>13 DEF AttemptTimesOut, Reply, NoTryOn, Stage, FlagsTyped, lockVars, warmVars,
     projectVars
<1>14. ASSUME RunWarm PROVE FlagsTyped'
  BY <1>0, <1>14 DEF RunWarm, Stage, FlagsTyped, lockVars, warmVars, projectVars
<1>15. ASSUME RunCold PROVE FlagsTyped'
  BY <1>0, <1>15 DEF RunCold, StopBrowser, KillGroup, Mishap, Reply, NoTryOn, Blocked, Go,
     Stage, FlagsTyped, lockVars, warmVars, projectVars
<1>16. ASSUME Announce \/ Generate PROVE FlagsTyped'
  BY <1>0, <1>16 DEF Announce, Generate, Stage, FlagsTyped, lockVars, warmVars, projectVars
<1>17. ASSUME JobEnds PROVE FlagsTyped'
  BY <1>0, <1>17 DEF JobEnds, Stage, FlagsTyped, lockVars, warmVars, projectVars
<1>18. ASSUME BrowserDies PROVE FlagsTyped'
  BY <1>0, <1>18 DEF BrowserDies, Mishap, Stage, FlagsTyped, lockVars, warmVars, projectVars
<1>19. ASSUME HearSubmit PROVE FlagsTyped'
  BY <1>0, <1>19 DEF HearSubmit, Heard, Stage, FlagsTyped, lockVars, warmVars, projectVars
<1>20. ASSUME HearDeath PROVE FlagsTyped'
  BY <1>0, <1>20 DEF HearDeath, Heard, StopBrowser, KillGroup, Mishap, Reply, NoTryOn, Go,
     Stage, FlagsTyped, lockVars, warmVars, projectVars
<1>21. ASSUME HearResult PROVE FlagsTyped'
  <2>1. JobAnswered
    BY <1>0, <1>21, HearResultCases
  <2> QED BY <1>0, <2>1 DEF JobAnswered, EndsOrGoesOn, Reply, NoTryOn, Stage, FlagsTyped
<1>22. ASSUME JobTimesOut PROVE FlagsTyped'
  BY <1>0, <1>22 DEF JobTimesOut, StopBrowser, KillGroup, Mishap, Reply, NoTryOn, Stage,
     FlagsTyped, lockVars, warmVars, projectVars
<1>23. ASSUME CoolBegins \/ CoolEnds \/ CoolTimesOut PROVE FlagsTyped'
  BY <1>0, <1>23 DEF CoolBegins, CoolEnds, CoolTimesOut, StopBrowser, KillGroup, Mishap, Stage,
     FlagsTyped, lockVars, warmVars, projectVars
<1>24. ASSUME PauseEnds \/ CooldownEnds \/ LeftoversExit PROVE FlagsTyped'
  BY <1>0, <1>24 DEF PauseEnds, CooldownEnds, LeftoversExit, Stage, FlagsTyped, lockVars,
     warmVars, projectVars
<1>25. ASSUME Restart PROVE FlagsTyped'
  BY <1>0, <1>25 DEF Restart, NoStart, NoTryOn, Mishap, Stage, FlagsTyped, lockVars, warmVars,
     projectVars
<1>26. ASSUME UNCHANGED workerVars PROVE FlagsTyped'
  BY <1>0, <1>26 DEF Stage, FlagsTyped, workerVars, lockVars, warmVars, projectVars
<1> QED BY <1>1, <1>2, <1>3, <1>4, <1>5, <1>6, <1>7, <1>8, <1>9, <1>10, <1>11, <1>12, <1>13,
     <1>14, <1>15, <1>16, <1>17, <1>18, <1>19, <1>20, <1>21, <1>22, <1>23, <1>24, <1>25, <1>26
     DEF WorkerNext, Serve, Launch

(* The request keeps its type, and the generation lock while it runs.      *)
LEMMA TryOnKept ==
  ASSUME WorkerAssumption, Typed, Using, [WorkerNext]_workerVars
  PROVE  TryOnTyped'
<1>0. /\ MaxEpoch \in Nat /\ MaxMishaps \in Nat
      /\ Nobody \notin {"request", "hint", "cool"}
      /\ PlacesTyped /\ FlagsTyped /\ TryOnTyped /\ MessagesTyped /\ CountsTyped
  BY DEF WorkerAssumption, Typed
<1>1. ASSUME WarmHint \/ HintStarts \/ HintGivesUp \/ Accept PROVE TryOnTyped'
  BY <1>0, <1>1, Moves DEF WarmHint, HintStarts, HintGivesUp, Accept, Blocked, Stage,
     TryOnTyped, lockVars, warmVars, projectVars, TryOn
<1>2. ASSUME StartEnds PROVE TryOnTyped'
  <2>1. CASE starting.who = "request"
    <3>1. tryOn' \in TryOn /\ tryOn'.pc = "job" /\ generation' = generation
      BY <1>0, <1>2, <2>1, TryOnSteps DEF StartEnds
    <3>2. generation = "request"
      BY <1>0, <2>1 DEF Using, TryOnTyped
    <3> QED BY <3>1, <3>2 DEF TryOnTyped
  <2>2. CASE starting.who # "request"
    BY <1>0, <1>2, <2>2 DEF StartEnds, TryOnTyped
  <2> QED BY <2>1, <2>2
<1>3. ASSUME StartFails PROVE TryOnTyped'
  <2>1. CASE starting.who = "hint"
    BY <1>0, <1>3, <2>1 DEF StartFails, TryOnTyped
  <2>2. CASE starting.who # "hint"
    <3>1. Reply \/ (Go("exclusive") /\ generation' = generation)
      BY <1>3, <2>2 DEF StartFails
    <3>2. generation = "request"
      BY <1>0, <1>3, <2>2 DEF StartFails, PlacesTyped, Using, TryOnTyped
    <3> QED BY <1>0, <3>1, <3>2, Moves DEF TryOnTyped
  <2> QED BY <2>1, <2>2
<1>4. ASSUME Maintain PROVE TryOnTyped'
  BY <1>0, <1>4, Moves DEF Maintain, StopBrowser, KillGroup, Mishap, Stage, TryOnTyped,
     lockVars, warmVars, projectVars, TryOn
<1>5. ASSUME ProjectUnrecorded \/ ProjectRefused \/ RecordFails PROVE TryOnTyped'
  BY <1>0, <1>5, Moves DEF ProjectUnrecorded, ProjectRefused, RecordFails, Mishap, Stage,
     TryOnTyped, lockVars, warmVars, projectVars, TryOn
<1>6. ASSUME ProjectMissing PROVE TryOnTyped'
  BY <1>0, <1>6, Moves DEF ProjectMissing, Stage, TryOnTyped, lockVars, warmVars, projectVars,
     TryOn
<1>7. ASSUME ProjectKnown PROVE TryOnTyped'
  BY <1>0, <1>7, TryOnSteps, Moves DEF ProjectKnown, Stage, TryOnTyped, lockVars, warmVars,
     projectVars, TryOn
<1>8. ASSUME StoreProject PROVE TryOnTyped'
  BY <1>0, <1>8, TryOnSteps, Moves DEF StoreProject, Stage, TryOnTyped, lockVars, warmVars,
     projectVars, TryOn
<1>9. ASSUME ExclusiveBegins \/ GflowStarts \/ ProfileHeld PROVE TryOnTyped'
  BY <1>0, <1>9, Moves DEF ExclusiveBegins, GflowStarts, ProfileHeld, StopBrowser, KillGroup,
     Mishap, Withdraw, Stage, TryOnTyped, lockVars, warmVars, projectVars, TryOn
<1>10. ASSUME FlowActs \/ ProjectCreated \/ EndsBeforeFlow \/ GflowLost PROVE TryOnTyped'
  BY <1>0, <1>10, Moves DEF FlowActs, ProjectCreated, EndsBeforeFlow, GflowLost, Withdraw,
     Stage, TryOnTyped, lockVars, warmVars, projectVars, TryOn
<1>11. ASSUME GflowDone PROVE TryOnTyped'
  BY <1>0, <1>11, Moves DEF GflowDone, Stage, TryOnTyped, lockVars, warmVars, projectVars, TryOn
<1>12. ASSUME GflowRefused PROVE TryOnTyped'
  <2>1. GflowAnswered
    BY <1>0, <1>12, GflowRefusedCases
  <2> QED BY <1>0, <2>1, Moves DEF GflowAnswered, EndsOrGoesOn, Stage, TryOnTyped, TryOn
<1>13. ASSUME AttemptTimesOut PROVE TryOnTyped'
  BY <1>0, <1>13, Moves DEF AttemptTimesOut, Stage, TryOnTyped, lockVars, warmVars, projectVars,
     TryOn
<1>14. ASSUME RunWarm PROVE TryOnTyped'
  BY <1>0, <1>14, TryOnSteps, Moves DEF RunWarm, Stage, TryOnTyped, lockVars, warmVars,
     projectVars, TryOn
<1>15. ASSUME RunCold PROVE TryOnTyped'
  BY <1>0, <1>15, Moves DEF RunCold, StopBrowser, KillGroup, Mishap, Blocked, Stage, TryOnTyped,
     lockVars, warmVars, projectVars, TryOn
<1>16. ASSUME Announce \/ Generate PROVE TryOnTyped'
  BY <1>0, <1>16, Moves DEF Announce, Generate, Stage, TryOnTyped, lockVars, warmVars,
     projectVars, TryOn
<1>17. ASSUME JobEnds PROVE TryOnTyped'
  BY <1>0, <1>17, Moves DEF JobEnds, Stage, TryOnTyped, lockVars, warmVars, projectVars, TryOn
<1>18. ASSUME BrowserDies PROVE TryOnTyped'
  BY <1>0, <1>18, Moves DEF BrowserDies, Mishap, Stage, TryOnTyped, lockVars, warmVars,
     projectVars, TryOn
<1>19. ASSUME HearSubmit PROVE TryOnTyped'
  BY <1>0, <1>19, Moves DEF HearSubmit, Heard, Stage, TryOnTyped, lockVars, warmVars,
     projectVars, TryOn
<1>20. ASSUME HearDeath PROVE TryOnTyped'
  BY <1>0, <1>20, Moves DEF HearDeath, Heard, StopBrowser, KillGroup, Mishap, Stage, TryOnTyped,
     lockVars, warmVars, projectVars, TryOn
<1>21. ASSUME HearResult PROVE TryOnTyped'
  <2>1. JobAnswered
    BY <1>0, <1>21, HearResultCases
  <2> QED BY <1>0, <2>1, Moves DEF JobAnswered, EndsOrGoesOn, Stage, TryOnTyped, TryOn
<1>22. ASSUME JobTimesOut PROVE TryOnTyped'
  BY <1>0, <1>22, Moves DEF JobTimesOut, StopBrowser, KillGroup, Mishap, Stage, TryOnTyped,
     lockVars, warmVars, projectVars, TryOn
<1>23. ASSUME CoolBegins \/ CoolEnds \/ CoolTimesOut PROVE TryOnTyped'
  BY <1>0, <1>23, Moves DEF CoolBegins, CoolEnds, CoolTimesOut, StopBrowser, KillGroup, Mishap,
     Stage, TryOnTyped, lockVars, warmVars, projectVars, TryOn
<1>24. ASSUME PauseEnds \/ CooldownEnds \/ LeftoversExit PROVE TryOnTyped'
  BY <1>0, <1>24, Moves DEF PauseEnds, CooldownEnds, LeftoversExit, Stage, TryOnTyped, lockVars,
     warmVars, projectVars, TryOn
<1>25. ASSUME Restart PROVE TryOnTyped'
  <2>1. NoTryOn \in TryOn /\ NoTryOn.pc = "away"
    BY DEF NoTryOn, TryOn
  <2> QED BY <1>0, <1>25, <2>1 DEF Restart, TryOnTyped
<1>26. ASSUME UNCHANGED workerVars PROVE TryOnTyped'
  BY <1>0, <1>26 DEF Stage, TryOnTyped, workerVars, lockVars, warmVars, projectVars
<1> QED BY <1>1, <1>2, <1>3, <1>4, <1>5, <1>6, <1>7, <1>8, <1>9, <1>10, <1>11, <1>12, <1>13,
     <1>14, <1>15, <1>16, <1>17, <1>18, <1>19, <1>20, <1>21, <1>22, <1>23, <1>24, <1>25, <1>26
     DEF WorkerNext, Serve, Launch

(* The browser writes its words and nothing else.                          *)
LEMMA MessagesKept ==
  ASSUME WorkerAssumption, Typed, [WorkerNext]_workerVars
  PROVE  MessagesTyped'
<1>0. /\ MaxEpoch \in Nat /\ MaxMishaps \in Nat
      /\ Nobody \notin {"request", "hint", "cool"}
      /\ PlacesTyped /\ FlagsTyped /\ TryOnTyped /\ MessagesTyped /\ CountsTyped
  BY DEF WorkerAssumption, Typed
<1>1. ASSUME WarmHint \/ HintStarts \/ HintGivesUp \/ Accept PROVE MessagesTyped'
  BY <1>0, <1>1, Writing DEF WarmHint, HintStarts, HintGivesUp, Accept, Go, Blocked, Stage,
     MessagesTyped, lockVars, warmVars, projectVars, Word
<1>2. ASSUME StartEnds PROVE MessagesTyped'
  BY <1>0, <1>2, Writing DEF StartEnds, NoStart, Stage, MessagesTyped, lockVars, warmVars,
     projectVars, Word
<1>3. ASSUME StartFails PROVE MessagesTyped'
  BY <1>0, <1>3, Writing DEF StartFails, NoStart, KillGroup, Mishap, Reply, NoTryOn, Go, Stage,
     MessagesTyped, lockVars, warmVars, projectVars, Word
<1>4. ASSUME Maintain PROVE MessagesTyped'
  BY <1>0, <1>4, Writing DEF Maintain, StopBrowser, KillGroup, Mishap, Stage, MessagesTyped,
     lockVars, warmVars, projectVars, Word
<1>5. ASSUME ProjectUnrecorded \/ ProjectRefused \/ RecordFails PROVE MessagesTyped'
  BY <1>0, <1>5, Writing DEF ProjectUnrecorded, ProjectRefused, RecordFails, Mishap, Reply,
     NoTryOn, Go, Stage, MessagesTyped, lockVars, warmVars, projectVars, Word
<1>6. ASSUME ProjectMissing PROVE MessagesTyped'
  BY <1>0, <1>6, Writing DEF ProjectMissing, Stage, MessagesTyped, lockVars, warmVars,
     projectVars, Word
<1>7. ASSUME ProjectKnown PROVE MessagesTyped'
  BY <1>0, <1>7, Writing DEF ProjectKnown, Stage, MessagesTyped, lockVars, warmVars,
     projectVars, Word
<1>8. ASSUME StoreProject PROVE MessagesTyped'
  BY <1>0, <1>8, Writing DEF StoreProject, Stage, MessagesTyped, lockVars, warmVars,
     projectVars, Word
<1>9. ASSUME ExclusiveBegins \/ GflowStarts \/ ProfileHeld PROVE MessagesTyped'
  BY <1>0, <1>9, Writing DEF ExclusiveBegins, GflowStarts, ProfileHeld, StopBrowser, KillGroup,
     Mishap, Reply, NoTryOn, Withdraw, Go, Stage, MessagesTyped, lockVars, warmVars,
     projectVars, Word
<1>10. ASSUME FlowActs \/ ProjectCreated \/ EndsBeforeFlow \/ GflowLost PROVE MessagesTyped'
  BY <1>0, <1>10, Writing DEF FlowActs, ProjectCreated, EndsBeforeFlow, GflowLost, Reply,
     NoTryOn, Withdraw, Go, Stage, MessagesTyped, lockVars, warmVars, projectVars, Word
<1>11. ASSUME GflowDone PROVE MessagesTyped'
  BY <1>0, <1>11, Writing DEF GflowDone, Reply, NoTryOn, Stage, MessagesTyped, lockVars,
     warmVars, projectVars, Word
<1>12. ASSUME GflowRefused PROVE MessagesTyped'
  <2>1. GflowAnswered
    BY <1>0, <1>12, GflowRefusedCases
  <2> QED BY <1>0, <2>1, Writing DEF GflowAnswered, EndsOrGoesOn, Reply, NoTryOn, Stage,
          MessagesTyped, Word
<1>13. ASSUME AttemptTimesOut PROVE MessagesTyped'
  BY <1>0, <1>13, Writing DEF AttemptTimesOut, Reply, NoTryOn, Stage, MessagesTyped, lockVars,
     warmVars, projectVars, Word
<1>14. ASSUME RunWarm PROVE MessagesTyped'
  BY <1>0, <1>14, Writing DEF RunWarm, Stage, MessagesTyped, lockVars, warmVars, projectVars,
     Word
<1>15. ASSUME RunCold PROVE MessagesTyped'
  BY <1>0, <1>15, Writing DEF RunCold, StopBrowser, KillGroup, Mishap, Reply, NoTryOn, Blocked,
     Go, Stage, MessagesTyped, lockVars, warmVars, projectVars, Word
<1>16. ASSUME Announce \/ Generate PROVE MessagesTyped'
  BY <1>0, <1>16, Writing DEF Announce, Generate, Stage, MessagesTyped, lockVars, warmVars,
     projectVars, Word
<1>17. ASSUME JobEnds PROVE MessagesTyped'
  BY <1>0, <1>17, Writing DEF JobEnds, Stage, MessagesTyped, lockVars, warmVars, projectVars,
     Word
<1>18. ASSUME BrowserDies PROVE MessagesTyped'
  BY <1>0, <1>18, Writing DEF BrowserDies, Mishap, Stage, MessagesTyped, lockVars, warmVars,
     projectVars, Word
<1>19. ASSUME HearSubmit PROVE MessagesTyped'
  BY <1>0, <1>19, Writing DEF HearSubmit, Heard, Stage, MessagesTyped, lockVars, warmVars,
     projectVars, Word
<1>20. ASSUME HearDeath PROVE MessagesTyped'
  BY <1>0, <1>20, Writing DEF HearDeath, Heard, StopBrowser, KillGroup, Mishap, Reply, NoTryOn,
     Go, Stage, MessagesTyped, lockVars, warmVars, projectVars, Word
<1>21. ASSUME HearResult PROVE MessagesTyped'
  <2>1. JobAnswered
    BY <1>0, <1>21, HearResultCases
  <2> QED BY <1>0, <2>1, Writing DEF JobAnswered, EndsOrGoesOn, Reply, NoTryOn, Stage,
          MessagesTyped, Word
<1>22. ASSUME JobTimesOut PROVE MessagesTyped'
  BY <1>0, <1>22, Writing DEF JobTimesOut, StopBrowser, KillGroup, Mishap, Reply, NoTryOn,
     Stage, MessagesTyped, lockVars, warmVars, projectVars, Word
<1>23. ASSUME CoolBegins \/ CoolEnds \/ CoolTimesOut PROVE MessagesTyped'
  BY <1>0, <1>23, Writing DEF CoolBegins, CoolEnds, CoolTimesOut, StopBrowser, KillGroup,
     Mishap, Stage, MessagesTyped, lockVars, warmVars, projectVars, Word
<1>24. ASSUME PauseEnds \/ CooldownEnds \/ LeftoversExit PROVE MessagesTyped'
  BY <1>0, <1>24, Writing DEF PauseEnds, CooldownEnds, LeftoversExit, Stage, MessagesTyped,
     lockVars, warmVars, projectVars, Word
<1>25. ASSUME Restart PROVE MessagesTyped'
  BY <1>0, <1>25, Writing DEF Restart, NoStart, NoTryOn, Mishap, Stage, MessagesTyped, lockVars,
     warmVars, projectVars, Word
<1>26. ASSUME UNCHANGED workerVars PROVE MessagesTyped'
  BY <1>0, <1>26 DEF Stage, MessagesTyped, workerVars, lockVars, warmVars, projectVars
<1> QED BY <1>1, <1>2, <1>3, <1>4, <1>5, <1>6, <1>7, <1>8, <1>9, <1>10, <1>11, <1>12, <1>13,
     <1>14, <1>15, <1>16, <1>17, <1>18, <1>19, <1>20, <1>21, <1>22, <1>23, <1>24, <1>25, <1>26
     DEF WorkerNext, Serve, Launch

(* The record of the project and the counts keep their types.              *)
LEMMA CountsKept ==
  ASSUME WorkerAssumption, Typed, [WorkerNext]_workerVars
  PROVE  CountsTyped'
<1>0. /\ MaxEpoch \in Nat /\ MaxMishaps \in Nat
      /\ Nobody \notin {"request", "hint", "cool"}
      /\ PlacesTyped /\ FlagsTyped /\ TryOnTyped /\ MessagesTyped /\ CountsTyped
  BY DEF WorkerAssumption, Typed
<1>1. ASSUME WarmHint \/ HintStarts \/ HintGivesUp \/ Accept PROVE CountsTyped'
  BY <1>0, <1>1 DEF WarmHint, HintStarts, HintGivesUp, Accept, Go, Blocked, Stage, CountsTyped,
     lockVars, warmVars, projectVars
<1>2. ASSUME StartEnds PROVE CountsTyped'
  BY <1>0, <1>2 DEF StartEnds, NoStart, Stage, CountsTyped, lockVars, warmVars, projectVars
<1>3. ASSUME StartFails PROVE CountsTyped'
  BY <1>0, <1>3 DEF StartFails, NoStart, KillGroup, Mishap, Reply, NoTryOn, Go, Stage,
     CountsTyped, lockVars, warmVars, projectVars
<1>4. ASSUME Maintain PROVE CountsTyped'
  BY <1>0, <1>4 DEF Maintain, StopBrowser, KillGroup, Mishap, Stage, CountsTyped, lockVars,
     warmVars, projectVars
<1>5. ASSUME ProjectUnrecorded \/ ProjectRefused \/ RecordFails PROVE CountsTyped'
  BY <1>0, <1>5 DEF ProjectUnrecorded, ProjectRefused, RecordFails, Mishap, Reply, NoTryOn, Go,
     Stage, CountsTyped, lockVars, warmVars, projectVars
<1>6. ASSUME ProjectMissing PROVE CountsTyped'
  BY <1>0, <1>6 DEF ProjectMissing, Stage, CountsTyped, lockVars, warmVars, projectVars
<1>7. ASSUME ProjectKnown PROVE CountsTyped'
  BY <1>0, <1>7 DEF ProjectKnown, Stage, CountsTyped, lockVars, warmVars, projectVars
<1>8. ASSUME StoreProject PROVE CountsTyped'
  BY <1>0, <1>8 DEF StoreProject, Stage, CountsTyped, lockVars, warmVars, projectVars
<1>9. ASSUME ExclusiveBegins \/ GflowStarts \/ ProfileHeld PROVE CountsTyped'
  BY <1>0, <1>9 DEF ExclusiveBegins, GflowStarts, ProfileHeld, StopBrowser, KillGroup, Mishap,
     Reply, NoTryOn, Withdraw, Go, Stage, CountsTyped, lockVars, warmVars, projectVars
<1>10. ASSUME FlowActs \/ ProjectCreated \/ EndsBeforeFlow \/ GflowLost PROVE CountsTyped'
  BY <1>0, <1>10 DEF FlowActs, ProjectCreated, EndsBeforeFlow, GflowLost, Reply, NoTryOn,
     Withdraw, Go, Stage, CountsTyped, lockVars, warmVars, projectVars
<1>11. ASSUME GflowDone PROVE CountsTyped'
  BY <1>0, <1>11 DEF GflowDone, Reply, NoTryOn, Stage, CountsTyped, lockVars, warmVars,
     projectVars
<1>12. ASSUME GflowRefused PROVE CountsTyped'
  <2>1. GflowAnswered
    BY <1>0, <1>12, GflowRefusedCases
  <2> QED BY <1>0, <2>1 DEF GflowAnswered, EndsOrGoesOn, Reply, NoTryOn, Stage, CountsTyped
<1>13. ASSUME AttemptTimesOut PROVE CountsTyped'
  BY <1>0, <1>13 DEF AttemptTimesOut, Reply, NoTryOn, Stage, CountsTyped, lockVars, warmVars,
     projectVars
<1>14. ASSUME RunWarm PROVE CountsTyped'
  BY <1>0, <1>14 DEF RunWarm, Stage, CountsTyped, lockVars, warmVars, projectVars
<1>15. ASSUME RunCold PROVE CountsTyped'
  BY <1>0, <1>15 DEF RunCold, StopBrowser, KillGroup, Mishap, Reply, NoTryOn, Blocked, Go,
     Stage, CountsTyped, lockVars, warmVars, projectVars
<1>16. ASSUME Announce \/ Generate PROVE CountsTyped'
  BY <1>0, <1>16 DEF Announce, Generate, Stage, CountsTyped, lockVars, warmVars, projectVars
<1>17. ASSUME JobEnds PROVE CountsTyped'
  BY <1>0, <1>17 DEF JobEnds, Stage, CountsTyped, lockVars, warmVars, projectVars
<1>18. ASSUME BrowserDies PROVE CountsTyped'
  BY <1>0, <1>18 DEF BrowserDies, Mishap, Stage, CountsTyped, lockVars, warmVars, projectVars
<1>19. ASSUME HearSubmit PROVE CountsTyped'
  BY <1>0, <1>19 DEF HearSubmit, Heard, Stage, CountsTyped, lockVars, warmVars, projectVars
<1>20. ASSUME HearDeath PROVE CountsTyped'
  BY <1>0, <1>20 DEF HearDeath, Heard, StopBrowser, KillGroup, Mishap, Reply, NoTryOn, Go,
     Stage, CountsTyped, lockVars, warmVars, projectVars
<1>21. ASSUME HearResult PROVE CountsTyped'
  <2>1. JobAnswered
    BY <1>0, <1>21, HearResultCases
  <2> QED BY <1>0, <2>1 DEF JobAnswered, EndsOrGoesOn, Reply, NoTryOn, Stage, CountsTyped
<1>22. ASSUME JobTimesOut PROVE CountsTyped'
  BY <1>0, <1>22 DEF JobTimesOut, StopBrowser, KillGroup, Mishap, Reply, NoTryOn, Stage,
     CountsTyped, lockVars, warmVars, projectVars
<1>23. ASSUME CoolBegins \/ CoolEnds \/ CoolTimesOut PROVE CountsTyped'
  BY <1>0, <1>23 DEF CoolBegins, CoolEnds, CoolTimesOut, StopBrowser, KillGroup, Mishap, Stage,
     CountsTyped, lockVars, warmVars, projectVars
<1>24. ASSUME PauseEnds \/ CooldownEnds \/ LeftoversExit PROVE CountsTyped'
  BY <1>0, <1>24 DEF PauseEnds, CooldownEnds, LeftoversExit, Stage, CountsTyped, lockVars,
     warmVars, projectVars
<1>25. ASSUME Restart PROVE CountsTyped'
  BY <1>0, <1>25 DEF Restart, NoStart, NoTryOn, Mishap, Stage, CountsTyped, lockVars, warmVars,
     projectVars
<1>26. ASSUME UNCHANGED workerVars PROVE CountsTyped'
  BY <1>0, <1>26 DEF Stage, CountsTyped, workerVars, lockVars, warmVars, projectVars
<1> QED BY <1>1, <1>2, <1>3, <1>4, <1>5, <1>6, <1>7, <1>8, <1>9, <1>10, <1>11, <1>12, <1>13,
     <1>14, <1>15, <1>16, <1>17, <1>18, <1>19, <1>20, <1>21, <1>22, <1>23, <1>24, <1>25, <1>26
     DEF WorkerNext, Serve, Launch

(* Only the request that started the browser, or runs on it, has its lock. *)
LEMMA UsingKept ==
  ASSUME WorkerAssumption, Typed, Using, [WorkerNext]_workerVars
  PROVE  Using'
<1>0. /\ MaxEpoch \in Nat /\ MaxMishaps \in Nat
      /\ Nobody \notin {"request", "hint", "cool"}
      /\ PlacesTyped /\ FlagsTyped /\ TryOnTyped /\ MessagesTyped /\ CountsTyped
  BY DEF WorkerAssumption, Typed
<1>1. ASSUME WarmHint \/ HintStarts \/ HintGivesUp \/ Accept PROVE Using'
  BY <1>0, <1>1 DEF WarmHint, HintStarts, HintGivesUp, Accept, Go, Blocked, Stage, PlacesTyped,
     TryOnTyped, Using, lockVars, warmVars, projectVars, TryOn
<1>2. ASSUME StartEnds PROVE Using'
  BY <1>0, <1>2, TryOnSteps DEF StartEnds, NoStart, Stage, PlacesTyped, TryOnTyped, Using,
     lockVars, warmVars, projectVars, TryOn
<1>3. ASSUME StartFails PROVE Using'
  BY <1>0, <1>3 DEF StartFails, NoStart, KillGroup, Mishap, Reply, NoTryOn, Go, Stage,
     PlacesTyped, TryOnTyped, Using, lockVars, warmVars, projectVars, TryOn
<1>4. ASSUME Maintain PROVE Using'
  BY <1>0, <1>4 DEF Maintain, StopBrowser, KillGroup, Mishap, Stage, PlacesTyped, TryOnTyped,
     Using, lockVars, warmVars, projectVars, TryOn
<1>5. ASSUME ProjectUnrecorded \/ ProjectRefused \/ RecordFails PROVE Using'
  BY <1>0, <1>5 DEF ProjectUnrecorded, ProjectRefused, RecordFails, Mishap, Reply, NoTryOn, Go,
     Stage, PlacesTyped, TryOnTyped, Using, lockVars, warmVars, projectVars, TryOn
<1>6. ASSUME ProjectMissing PROVE Using'
  BY <1>0, <1>6 DEF ProjectMissing, Stage, PlacesTyped, TryOnTyped, Using, lockVars, warmVars,
     projectVars, TryOn
<1>7. ASSUME ProjectKnown PROVE Using'
  BY <1>0, <1>7, TryOnSteps DEF ProjectKnown, Stage, PlacesTyped, TryOnTyped, Using, lockVars,
     warmVars, projectVars, TryOn
<1>8. ASSUME StoreProject PROVE Using'
  BY <1>0, <1>8, TryOnSteps DEF StoreProject, Stage, PlacesTyped, TryOnTyped, Using, lockVars,
     warmVars, projectVars, TryOn
<1>9. ASSUME ExclusiveBegins \/ GflowStarts \/ ProfileHeld PROVE Using'
  BY <1>0, <1>9 DEF ExclusiveBegins, GflowStarts, ProfileHeld, StopBrowser, KillGroup, Mishap,
     Reply, NoTryOn, Withdraw, Go, Stage, PlacesTyped, TryOnTyped, Using, lockVars, warmVars,
     projectVars, TryOn
<1>10. ASSUME FlowActs \/ ProjectCreated \/ EndsBeforeFlow \/ GflowLost PROVE Using'
  BY <1>0, <1>10 DEF FlowActs, ProjectCreated, EndsBeforeFlow, GflowLost, Reply, NoTryOn,
     Withdraw, Go, Stage, PlacesTyped, TryOnTyped, Using, lockVars, warmVars, projectVars, TryOn
<1>11. ASSUME GflowDone PROVE Using'
  BY <1>0, <1>11 DEF GflowDone, Reply, NoTryOn, Stage, PlacesTyped, TryOnTyped, Using, lockVars,
     warmVars, projectVars, TryOn
<1>12. ASSUME GflowRefused PROVE Using'
  <2>1. GflowAnswered
    BY <1>0, <1>12, GflowRefusedCases
  <2> QED BY <1>0, <2>1 DEF GflowAnswered, EndsOrGoesOn, Reply, NoTryOn, Stage, PlacesTyped,
          TryOnTyped, Using, TryOn
<1>13. ASSUME AttemptTimesOut PROVE Using'
  BY <1>0, <1>13 DEF AttemptTimesOut, Reply, NoTryOn, Stage, PlacesTyped, TryOnTyped, Using,
     lockVars, warmVars, projectVars, TryOn
<1>14. ASSUME RunWarm PROVE Using'
  BY <1>0, <1>14, TryOnSteps DEF RunWarm, Stage, PlacesTyped, TryOnTyped, Using, lockVars,
     warmVars, projectVars, TryOn
<1>15. ASSUME RunCold PROVE Using'
  BY <1>0, <1>15 DEF RunCold, StopBrowser, KillGroup, Mishap, Reply, NoTryOn, Blocked, Go,
     Stage, PlacesTyped, TryOnTyped, Using, lockVars, warmVars, projectVars, TryOn
<1>16. ASSUME Announce \/ Generate PROVE Using'
  BY <1>0, <1>16 DEF Announce, Generate, Stage, PlacesTyped, TryOnTyped, Using, lockVars,
     warmVars, projectVars, TryOn
<1>17. ASSUME JobEnds PROVE Using'
  BY <1>0, <1>17 DEF JobEnds, Stage, PlacesTyped, TryOnTyped, Using, lockVars, warmVars,
     projectVars, TryOn
<1>18. ASSUME BrowserDies PROVE Using'
  BY <1>0, <1>18 DEF BrowserDies, Mishap, Stage, PlacesTyped, TryOnTyped, Using, lockVars,
     warmVars, projectVars, TryOn
<1>19. ASSUME HearSubmit PROVE Using'
  BY <1>0, <1>19 DEF HearSubmit, Heard, Stage, PlacesTyped, TryOnTyped, Using, lockVars,
     warmVars, projectVars, TryOn
<1>20. ASSUME HearDeath PROVE Using'
  BY <1>0, <1>20 DEF HearDeath, Heard, StopBrowser, KillGroup, Mishap, Reply, NoTryOn, Go,
     Stage, PlacesTyped, TryOnTyped, Using, lockVars, warmVars, projectVars, TryOn
<1>21. ASSUME HearResult PROVE Using'
  <2>1. JobAnswered
    BY <1>0, <1>21, HearResultCases
  <2> QED BY <1>0, <2>1 DEF JobAnswered, EndsOrGoesOn, Reply, NoTryOn, Stage, PlacesTyped,
          TryOnTyped, Using, TryOn
<1>22. ASSUME JobTimesOut PROVE Using'
  BY <1>0, <1>22 DEF JobTimesOut, StopBrowser, KillGroup, Mishap, Reply, NoTryOn, Stage,
     PlacesTyped, TryOnTyped, Using, lockVars, warmVars, projectVars, TryOn
<1>23. ASSUME CoolBegins \/ CoolEnds \/ CoolTimesOut PROVE Using'
  BY <1>0, <1>23 DEF CoolBegins, CoolEnds, CoolTimesOut, StopBrowser, KillGroup, Mishap, Stage,
     PlacesTyped, TryOnTyped, Using, lockVars, warmVars, projectVars, TryOn
<1>24. ASSUME PauseEnds \/ CooldownEnds \/ LeftoversExit PROVE Using'
  BY <1>0, <1>24 DEF PauseEnds, CooldownEnds, LeftoversExit, Stage, PlacesTyped, TryOnTyped,
     Using, lockVars, warmVars, projectVars, TryOn
<1>25. ASSUME Restart PROVE Using'
  BY <1>0, <1>25 DEF Restart, NoStart, NoTryOn, Mishap, Stage, PlacesTyped, TryOnTyped, Using,
     lockVars, warmVars, projectVars, TryOn
<1>26. ASSUME UNCHANGED workerVars PROVE Using'
  BY <1>0, <1>26 DEF Stage, PlacesTyped, TryOnTyped, Using, workerVars, lockVars, warmVars,
     projectVars
<1> QED BY <1>1, <1>2, <1>3, <1>4, <1>5, <1>6, <1>7, <1>8, <1>9, <1>10, <1>11, <1>12, <1>13,
     <1>14, <1>15, <1>16, <1>17, <1>18, <1>19, <1>20, <1>21, <1>22, <1>23, <1>24, <1>25, <1>26
     DEF WorkerNext, Serve, Launch

(* No start comes between a gflow, or an operator, and the profile.        *)
LEMMA ExclusionKept ==
  ASSUME WorkerAssumption, Typed, Using, Exclusion, [WorkerNext]_workerVars
  PROVE  Exclusion'
<1>0. /\ MaxEpoch \in Nat /\ MaxMishaps \in Nat
      /\ Nobody \notin {"request", "hint", "cool"}
      /\ PlacesTyped /\ FlagsTyped /\ TryOnTyped /\ MessagesTyped /\ CountsTyped
  BY DEF WorkerAssumption, Typed
<1>1. ASSUME WarmHint \/ HintStarts \/ HintGivesUp \/ Accept PROVE Exclusion'
  BY <1>0, <1>1 DEF WarmHint, HintStarts, HintGivesUp, Accept, Go, Blocked, Stage, PlacesTyped,
     FlagsTyped, TryOnTyped, Using, Exclusion, NoBrowser, lockVars, warmVars, projectVars, TryOn
<1>2. ASSUME StartEnds PROVE Exclusion'
  BY <1>0, <1>2, TryOnSteps DEF StartEnds, NoStart, Stage, PlacesTyped, FlagsTyped, TryOnTyped,
     Using, Exclusion, NoBrowser, lockVars, warmVars, projectVars, TryOn
<1>3. ASSUME StartFails PROVE Exclusion'
  BY <1>0, <1>3 DEF StartFails, NoStart, KillGroup, Mishap, Reply, NoTryOn, Go, Stage,
     PlacesTyped, FlagsTyped, TryOnTyped, Using, Exclusion, NoBrowser, lockVars, warmVars,
     projectVars, TryOn
<1>4. ASSUME Maintain PROVE Exclusion'
  BY <1>0, <1>4 DEF Maintain, StopBrowser, KillGroup, Mishap, Stage, PlacesTyped, FlagsTyped,
     TryOnTyped, Using, Exclusion, NoBrowser, lockVars, warmVars, projectVars, TryOn
<1>5. ASSUME ProjectUnrecorded \/ ProjectRefused \/ RecordFails PROVE Exclusion'
  BY <1>0, <1>5 DEF ProjectUnrecorded, ProjectRefused, RecordFails, Mishap, Reply, NoTryOn, Go,
     Stage, PlacesTyped, FlagsTyped, TryOnTyped, Using, Exclusion, NoBrowser, lockVars,
     warmVars, projectVars, TryOn
<1>6. ASSUME ProjectMissing PROVE Exclusion'
  BY <1>0, <1>6 DEF ProjectMissing, Stage, PlacesTyped, FlagsTyped, TryOnTyped, Using,
     Exclusion, NoBrowser, lockVars, warmVars, projectVars, TryOn
<1>7. ASSUME ProjectKnown PROVE Exclusion'
  BY <1>0, <1>7, TryOnSteps DEF ProjectKnown, Stage, PlacesTyped, FlagsTyped, TryOnTyped, Using,
     Exclusion, NoBrowser, lockVars, warmVars, projectVars, TryOn
<1>8. ASSUME StoreProject PROVE Exclusion'
  BY <1>0, <1>8, TryOnSteps DEF StoreProject, Stage, PlacesTyped, FlagsTyped, TryOnTyped, Using,
     Exclusion, NoBrowser, lockVars, warmVars, projectVars, TryOn
<1>9. ASSUME ExclusiveBegins \/ GflowStarts \/ ProfileHeld PROVE Exclusion'
  BY <1>0, <1>9 DEF ExclusiveBegins, GflowStarts, ProfileHeld, StopBrowser, KillGroup, Mishap,
     Reply, NoTryOn, Withdraw, Go, Stage, PlacesTyped, FlagsTyped, TryOnTyped, Using, Exclusion,
     NoBrowser, lockVars, warmVars, projectVars, TryOn
<1>10. ASSUME FlowActs \/ ProjectCreated \/ EndsBeforeFlow \/ GflowLost PROVE Exclusion'
  BY <1>0, <1>10 DEF FlowActs, ProjectCreated, EndsBeforeFlow, GflowLost, Reply, NoTryOn,
     Withdraw, Go, Stage, PlacesTyped, FlagsTyped, TryOnTyped, Using, Exclusion, NoBrowser,
     lockVars, warmVars, projectVars, TryOn
<1>11. ASSUME GflowDone PROVE Exclusion'
  BY <1>0, <1>11 DEF GflowDone, Reply, NoTryOn, Stage, PlacesTyped, FlagsTyped, TryOnTyped,
     Using, Exclusion, NoBrowser, lockVars, warmVars, projectVars, TryOn
<1>12. ASSUME GflowRefused PROVE Exclusion'
  <2>1. GflowAnswered
    BY <1>0, <1>12, GflowRefusedCases
  <2> QED BY <1>0, <2>1 DEF GflowAnswered, EndsOrGoesOn, Reply, NoTryOn, Stage, PlacesTyped,
          FlagsTyped, TryOnTyped, Using, Exclusion, NoBrowser, TryOn
<1>13. ASSUME AttemptTimesOut PROVE Exclusion'
  BY <1>0, <1>13 DEF AttemptTimesOut, Reply, NoTryOn, Stage, PlacesTyped, FlagsTyped,
     TryOnTyped, Using, Exclusion, NoBrowser, lockVars, warmVars, projectVars, TryOn
<1>14. ASSUME RunWarm PROVE Exclusion'
  BY <1>0, <1>14, TryOnSteps DEF RunWarm, Stage, PlacesTyped, FlagsTyped, TryOnTyped, Using,
     Exclusion, NoBrowser, lockVars, warmVars, projectVars, TryOn
<1>15. ASSUME RunCold PROVE Exclusion'
  BY <1>0, <1>15 DEF RunCold, StopBrowser, KillGroup, Mishap, Reply, NoTryOn, Blocked, Go,
     Stage, PlacesTyped, FlagsTyped, TryOnTyped, Using, Exclusion, NoBrowser, lockVars,
     warmVars, projectVars, TryOn
<1>16. ASSUME Announce \/ Generate PROVE Exclusion'
  BY <1>0, <1>16 DEF Announce, Generate, Stage, PlacesTyped, FlagsTyped, TryOnTyped, Using,
     Exclusion, NoBrowser, lockVars, warmVars, projectVars, TryOn
<1>17. ASSUME JobEnds PROVE Exclusion'
  BY <1>0, <1>17 DEF JobEnds, Stage, PlacesTyped, FlagsTyped, TryOnTyped, Using, Exclusion,
     NoBrowser, lockVars, warmVars, projectVars, TryOn
<1>18. ASSUME BrowserDies PROVE Exclusion'
  BY <1>0, <1>18 DEF BrowserDies, Mishap, Stage, PlacesTyped, FlagsTyped, TryOnTyped, Using,
     Exclusion, NoBrowser, lockVars, warmVars, projectVars, TryOn
<1>19. ASSUME HearSubmit PROVE Exclusion'
  BY <1>0, <1>19 DEF HearSubmit, Heard, Stage, PlacesTyped, FlagsTyped, TryOnTyped, Using,
     Exclusion, NoBrowser, lockVars, warmVars, projectVars, TryOn
<1>20. ASSUME HearDeath PROVE Exclusion'
  BY <1>0, <1>20 DEF HearDeath, Heard, StopBrowser, KillGroup, Mishap, Reply, NoTryOn, Go,
     Stage, PlacesTyped, FlagsTyped, TryOnTyped, Using, Exclusion, NoBrowser, lockVars,
     warmVars, projectVars, TryOn
<1>21. ASSUME HearResult PROVE Exclusion'
  <2>1. JobAnswered
    BY <1>0, <1>21, HearResultCases
  <2> QED BY <1>0, <2>1 DEF JobAnswered, EndsOrGoesOn, Reply, NoTryOn, Stage, PlacesTyped,
          FlagsTyped, TryOnTyped, Using, Exclusion, NoBrowser, TryOn
<1>22. ASSUME JobTimesOut PROVE Exclusion'
  BY <1>0, <1>22 DEF JobTimesOut, StopBrowser, KillGroup, Mishap, Reply, NoTryOn, Stage,
     PlacesTyped, FlagsTyped, TryOnTyped, Using, Exclusion, NoBrowser, lockVars, warmVars,
     projectVars, TryOn
<1>23. ASSUME CoolBegins \/ CoolEnds \/ CoolTimesOut PROVE Exclusion'
  BY <1>0, <1>23 DEF CoolBegins, CoolEnds, CoolTimesOut, StopBrowser, KillGroup, Mishap, Stage,
     PlacesTyped, FlagsTyped, TryOnTyped, Using, Exclusion, NoBrowser, lockVars, warmVars,
     projectVars, TryOn
<1>24. ASSUME PauseEnds \/ CooldownEnds \/ LeftoversExit PROVE Exclusion'
  BY <1>0, <1>24 DEF PauseEnds, CooldownEnds, LeftoversExit, Stage, PlacesTyped, FlagsTyped,
     TryOnTyped, Using, Exclusion, NoBrowser, lockVars, warmVars, projectVars, TryOn
<1>25. ASSUME Restart PROVE Exclusion'
  BY <1>0, <1>25 DEF Restart, NoStart, NoTryOn, Mishap, Stage, PlacesTyped, FlagsTyped,
     TryOnTyped, Using, Exclusion, NoBrowser, lockVars, warmVars, projectVars, TryOn
<1>26. ASSUME UNCHANGED workerVars PROVE Exclusion'
  BY <1>0, <1>26 DEF Stage, PlacesTyped, FlagsTyped, TryOnTyped, Using, Exclusion, NoBrowser,
     workerVars, lockVars, warmVars, projectVars
<1> QED BY <1>1, <1>2, <1>3, <1>4, <1>5, <1>6, <1>7, <1>8, <1>9, <1>10, <1>11, <1>12, <1>13,
     <1>14, <1>15, <1>16, <1>17, <1>18, <1>19, <1>20, <1>21, <1>22, <1>23, <1>24, <1>25, <1>26
     DEF WorkerNext, Serve, Launch

(* A create leaves its marker first, and nothing takes it away after.      *)
LEMMA ProjectKept ==
  ASSUME WorkerAssumption, Typed, Using, Project, [WorkerNext]_workerVars
  PROVE  Project'
<1>0. /\ MaxEpoch \in Nat /\ MaxMishaps \in Nat
      /\ Nobody \notin {"request", "hint", "cool"}
      /\ PlacesTyped /\ FlagsTyped /\ TryOnTyped /\ MessagesTyped /\ CountsTyped
  BY DEF WorkerAssumption, Typed
<1>1. ASSUME WarmHint \/ HintStarts \/ HintGivesUp \/ Accept PROVE Project'
  BY <1>0, <1>1 DEF WarmHint, HintStarts, HintGivesUp, Accept, Go, Blocked, Stage, PlacesTyped,
     TryOnTyped, CountsTyped, Using, Project, lockVars, warmVars, projectVars, TryOn
<1>2. ASSUME StartEnds PROVE Project'
  BY <1>0, <1>2, TryOnSteps DEF StartEnds, NoStart, Stage, PlacesTyped, TryOnTyped, CountsTyped,
     Using, Project, lockVars, warmVars, projectVars, TryOn
<1>3. ASSUME StartFails PROVE Project'
  BY <1>0, <1>3 DEF StartFails, NoStart, KillGroup, Mishap, Reply, NoTryOn, Go, Stage,
     PlacesTyped, TryOnTyped, CountsTyped, Using, Project, lockVars, warmVars, projectVars,
     TryOn
<1>4. ASSUME Maintain PROVE Project'
  BY <1>0, <1>4 DEF Maintain, StopBrowser, KillGroup, Mishap, Stage, PlacesTyped, TryOnTyped,
     CountsTyped, Using, Project, lockVars, warmVars, projectVars, TryOn
<1>5. ASSUME ProjectUnrecorded \/ ProjectRefused \/ RecordFails PROVE Project'
  BY <1>0, <1>5 DEF ProjectUnrecorded, ProjectRefused, RecordFails, Mishap, Reply, NoTryOn, Go,
     Stage, PlacesTyped, TryOnTyped, CountsTyped, Using, Project, lockVars, warmVars,
     projectVars, TryOn
<1>6. ASSUME ProjectMissing PROVE Project'
  BY <1>0, <1>6 DEF ProjectMissing, Stage, PlacesTyped, TryOnTyped, CountsTyped, Using, Project,
     lockVars, warmVars, projectVars, TryOn
<1>7. ASSUME ProjectKnown PROVE Project'
  BY <1>0, <1>7, TryOnSteps DEF ProjectKnown, Stage, PlacesTyped, TryOnTyped, CountsTyped,
     Using, Project, lockVars, warmVars, projectVars, TryOn
<1>8. ASSUME StoreProject PROVE Project'
  BY <1>0, <1>8, TryOnSteps DEF StoreProject, Stage, PlacesTyped, TryOnTyped, CountsTyped,
     Using, Project, lockVars, warmVars, projectVars, TryOn
<1>9. ASSUME ExclusiveBegins \/ GflowStarts \/ ProfileHeld PROVE Project'
  BY <1>0, <1>9 DEF ExclusiveBegins, GflowStarts, ProfileHeld, StopBrowser, KillGroup, Mishap,
     Reply, NoTryOn, Withdraw, Go, Stage, PlacesTyped, TryOnTyped, CountsTyped, Using, Project,
     lockVars, warmVars, projectVars, TryOn
<1>10. ASSUME FlowActs \/ ProjectCreated \/ EndsBeforeFlow \/ GflowLost PROVE Project'
  BY <1>0, <1>10 DEF FlowActs, ProjectCreated, EndsBeforeFlow, GflowLost, Reply, NoTryOn,
     Withdraw, Go, Stage, PlacesTyped, TryOnTyped, CountsTyped, Using, Project, lockVars,
     warmVars, projectVars, TryOn
<1>11. ASSUME GflowDone PROVE Project'
  BY <1>0, <1>11 DEF GflowDone, Reply, NoTryOn, Stage, PlacesTyped, TryOnTyped, CountsTyped,
     Using, Project, lockVars, warmVars, projectVars, TryOn
<1>12. ASSUME GflowRefused PROVE Project'
  <2>1. GflowAnswered
    BY <1>0, <1>12, GflowRefusedCases
  <2> QED BY <1>0, <2>1 DEF GflowAnswered, EndsOrGoesOn, Reply, NoTryOn, Stage, PlacesTyped,
          TryOnTyped, CountsTyped, Using, Project, TryOn
<1>13. ASSUME AttemptTimesOut PROVE Project'
  BY <1>0, <1>13 DEF AttemptTimesOut, Reply, NoTryOn, Stage, PlacesTyped, TryOnTyped,
     CountsTyped, Using, Project, lockVars, warmVars, projectVars, TryOn
<1>14. ASSUME RunWarm PROVE Project'
  BY <1>0, <1>14, TryOnSteps DEF RunWarm, Stage, PlacesTyped, TryOnTyped, CountsTyped, Using,
     Project, lockVars, warmVars, projectVars, TryOn
<1>15. ASSUME RunCold PROVE Project'
  BY <1>0, <1>15 DEF RunCold, StopBrowser, KillGroup, Mishap, Reply, NoTryOn, Blocked, Go,
     Stage, PlacesTyped, TryOnTyped, CountsTyped, Using, Project, lockVars, warmVars,
     projectVars, TryOn
<1>16. ASSUME Announce \/ Generate PROVE Project'
  BY <1>0, <1>16 DEF Announce, Generate, Stage, PlacesTyped, TryOnTyped, CountsTyped, Using,
     Project, lockVars, warmVars, projectVars, TryOn
<1>17. ASSUME JobEnds PROVE Project'
  BY <1>0, <1>17 DEF JobEnds, Stage, PlacesTyped, TryOnTyped, CountsTyped, Using, Project,
     lockVars, warmVars, projectVars, TryOn
<1>18. ASSUME BrowserDies PROVE Project'
  BY <1>0, <1>18 DEF BrowserDies, Mishap, Stage, PlacesTyped, TryOnTyped, CountsTyped, Using,
     Project, lockVars, warmVars, projectVars, TryOn
<1>19. ASSUME HearSubmit PROVE Project'
  BY <1>0, <1>19 DEF HearSubmit, Heard, Stage, PlacesTyped, TryOnTyped, CountsTyped, Using,
     Project, lockVars, warmVars, projectVars, TryOn
<1>20. ASSUME HearDeath PROVE Project'
  BY <1>0, <1>20 DEF HearDeath, Heard, StopBrowser, KillGroup, Mishap, Reply, NoTryOn, Go,
     Stage, PlacesTyped, TryOnTyped, CountsTyped, Using, Project, lockVars, warmVars,
     projectVars, TryOn
<1>21. ASSUME HearResult PROVE Project'
  <2>1. JobAnswered
    BY <1>0, <1>21, HearResultCases
  <2> QED BY <1>0, <2>1 DEF JobAnswered, EndsOrGoesOn, Reply, NoTryOn, Stage, PlacesTyped,
          TryOnTyped, CountsTyped, Using, Project, TryOn
<1>22. ASSUME JobTimesOut PROVE Project'
  BY <1>0, <1>22 DEF JobTimesOut, StopBrowser, KillGroup, Mishap, Reply, NoTryOn, Stage,
     PlacesTyped, TryOnTyped, CountsTyped, Using, Project, lockVars, warmVars, projectVars,
     TryOn
<1>23. ASSUME CoolBegins \/ CoolEnds \/ CoolTimesOut PROVE Project'
  BY <1>0, <1>23 DEF CoolBegins, CoolEnds, CoolTimesOut, StopBrowser, KillGroup, Mishap, Stage,
     PlacesTyped, TryOnTyped, CountsTyped, Using, Project, lockVars, warmVars, projectVars,
     TryOn
<1>24. ASSUME PauseEnds \/ CooldownEnds \/ LeftoversExit PROVE Project'
  BY <1>0, <1>24 DEF PauseEnds, CooldownEnds, LeftoversExit, Stage, PlacesTyped, TryOnTyped,
     CountsTyped, Using, Project, lockVars, warmVars, projectVars, TryOn
<1>25. ASSUME Restart PROVE Project'
  BY <1>0, <1>25 DEF Restart, NoStart, NoTryOn, Mishap, Stage, PlacesTyped, TryOnTyped,
     CountsTyped, Using, Project, lockVars, warmVars, projectVars, TryOn
<1>26. ASSUME UNCHANGED workerVars PROVE Project'
  BY <1>0, <1>26 DEF Stage, PlacesTyped, TryOnTyped, CountsTyped, Using, Project, workerVars,
     lockVars, warmVars, projectVars
<1> QED BY <1>1, <1>2, <1>3, <1>4, <1>5, <1>6, <1>7, <1>8, <1>9, <1>10, <1>11, <1>12, <1>13,
     <1>14, <1>15, <1>16, <1>17, <1>18, <1>19, <1>20, <1>21, <1>22, <1>23, <1>24, <1>25, <1>26
     DEF WorkerNext, Serve, Launch

(* A second attempt follows only one that paid nothing.                    *)
LEMMA PaidKept ==
  ASSUME WorkerAssumption, Typed, Using, Paid, JobHeard, [WorkerNext]_workerVars
  PROVE  Paid'
<1>0. /\ MaxEpoch \in Nat /\ MaxMishaps \in Nat
      /\ Nobody \notin {"request", "hint", "cool"}
      /\ PlacesTyped /\ FlagsTyped /\ TryOnTyped /\ MessagesTyped /\ CountsTyped
  BY DEF WorkerAssumption, Typed
<1>1. ASSUME WarmHint \/ HintStarts \/ HintGivesUp \/ Accept PROVE Paid'
  BY <1>0, <1>1 DEF WarmHint, HintStarts, HintGivesUp, Accept, Go, Blocked, Stage, PlacesTyped,
     TryOnTyped, MessagesTyped, CountsTyped, Using, Paid, JobHeard, lockVars, warmVars,
     projectVars, TryOn
<1>2. ASSUME StartEnds PROVE Paid'
  BY <1>0, <1>2, TryOnSteps DEF StartEnds, NoStart, Stage, PlacesTyped, TryOnTyped,
     MessagesTyped, CountsTyped, Using, Paid, JobHeard, lockVars, warmVars, projectVars, TryOn
<1>3. ASSUME StartFails PROVE Paid'
  BY <1>0, <1>3 DEF StartFails, NoStart, KillGroup, Mishap, Reply, NoTryOn, Go, Stage,
     PlacesTyped, TryOnTyped, MessagesTyped, CountsTyped, Using, Paid, JobHeard, lockVars,
     warmVars, projectVars, TryOn
<1>4. ASSUME Maintain PROVE Paid'
  BY <1>0, <1>4 DEF Maintain, StopBrowser, KillGroup, Mishap, Stage, PlacesTyped, TryOnTyped,
     MessagesTyped, CountsTyped, Using, Paid, JobHeard, lockVars, warmVars, projectVars, TryOn
<1>5. ASSUME ProjectUnrecorded \/ ProjectRefused \/ RecordFails PROVE Paid'
  BY <1>0, <1>5 DEF ProjectUnrecorded, ProjectRefused, RecordFails, Mishap, Reply, NoTryOn, Go,
     Stage, PlacesTyped, TryOnTyped, MessagesTyped, CountsTyped, Using, Paid, JobHeard,
     lockVars, warmVars, projectVars, TryOn
<1>6. ASSUME ProjectMissing PROVE Paid'
  BY <1>0, <1>6 DEF ProjectMissing, Stage, PlacesTyped, TryOnTyped, MessagesTyped, CountsTyped,
     Using, Paid, JobHeard, lockVars, warmVars, projectVars, TryOn
<1>7. ASSUME ProjectKnown PROVE Paid'
  BY <1>0, <1>7, TryOnSteps DEF ProjectKnown, Stage, PlacesTyped, TryOnTyped, MessagesTyped,
     CountsTyped, Using, Paid, JobHeard, lockVars, warmVars, projectVars, TryOn
<1>8. ASSUME StoreProject PROVE Paid'
  BY <1>0, <1>8, TryOnSteps DEF StoreProject, Stage, PlacesTyped, TryOnTyped, MessagesTyped,
     CountsTyped, Using, Paid, JobHeard, lockVars, warmVars, projectVars, TryOn
<1>9. ASSUME ExclusiveBegins \/ GflowStarts \/ ProfileHeld PROVE Paid'
  BY <1>0, <1>9 DEF ExclusiveBegins, GflowStarts, ProfileHeld, StopBrowser, KillGroup, Mishap,
     Reply, NoTryOn, Withdraw, Go, Stage, PlacesTyped, TryOnTyped, MessagesTyped, CountsTyped,
     Using, Paid, JobHeard, lockVars, warmVars, projectVars, TryOn
<1>10. ASSUME FlowActs \/ ProjectCreated \/ EndsBeforeFlow \/ GflowLost PROVE Paid'
  BY <1>0, <1>10 DEF FlowActs, ProjectCreated, EndsBeforeFlow, GflowLost, Reply, NoTryOn,
     Withdraw, Go, Stage, PlacesTyped, TryOnTyped, MessagesTyped, CountsTyped, Using, Paid,
     JobHeard, lockVars, warmVars, projectVars, TryOn
<1>11. ASSUME GflowDone PROVE Paid'
  BY <1>0, <1>11 DEF GflowDone, Reply, NoTryOn, Stage, PlacesTyped, TryOnTyped, MessagesTyped,
     CountsTyped, Using, Paid, JobHeard, lockVars, warmVars, projectVars, TryOn
<1>12. ASSUME GflowRefused PROVE Paid'
  <2>1. GflowAnswered
    BY <1>0, <1>12, GflowRefusedCases
  <2> QED BY <1>0, <2>1 DEF GflowAnswered, EndsOrGoesOn, Reply, NoTryOn, Stage, PlacesTyped,
          TryOnTyped, MessagesTyped, CountsTyped, Using, Paid, JobHeard, TryOn
<1>13. ASSUME AttemptTimesOut PROVE Paid'
  BY <1>0, <1>13 DEF AttemptTimesOut, Reply, NoTryOn, Stage, PlacesTyped, TryOnTyped,
     MessagesTyped, CountsTyped, Using, Paid, JobHeard, lockVars, warmVars, projectVars, TryOn
<1>14. ASSUME RunWarm PROVE Paid'
  BY <1>0, <1>14, TryOnSteps DEF RunWarm, Stage, PlacesTyped, TryOnTyped, MessagesTyped,
     CountsTyped, Using, Paid, JobHeard, lockVars, warmVars, projectVars, TryOn
<1>15. ASSUME RunCold PROVE Paid'
  BY <1>0, <1>15 DEF RunCold, StopBrowser, KillGroup, Mishap, Reply, NoTryOn, Blocked, Go,
     Stage, PlacesTyped, TryOnTyped, MessagesTyped, CountsTyped, Using, Paid, JobHeard,
     lockVars, warmVars, projectVars, TryOn
<1>16. ASSUME Announce \/ Generate PROVE Paid'
  BY <1>0, <1>16 DEF Announce, Generate, Stage, PlacesTyped, TryOnTyped, MessagesTyped,
     CountsTyped, Using, Paid, JobHeard, lockVars, warmVars, projectVars, TryOn
<1>17. ASSUME JobEnds PROVE Paid'
  BY <1>0, <1>17 DEF JobEnds, Stage, PlacesTyped, TryOnTyped, MessagesTyped, CountsTyped, Using,
     Paid, JobHeard, lockVars, warmVars, projectVars, TryOn
<1>18. ASSUME BrowserDies PROVE Paid'
  BY <1>0, <1>18 DEF BrowserDies, Mishap, Stage, PlacesTyped, TryOnTyped, MessagesTyped,
     CountsTyped, Using, Paid, JobHeard, lockVars, warmVars, projectVars, TryOn
<1>19. ASSUME HearSubmit PROVE Paid'
  BY <1>0, <1>19 DEF HearSubmit, Heard, Stage, PlacesTyped, TryOnTyped, MessagesTyped,
     CountsTyped, Using, Paid, JobHeard, lockVars, warmVars, projectVars, TryOn
<1>20. ASSUME HearDeath PROVE Paid'
  BY <1>0, <1>20 DEF HearDeath, Heard, StopBrowser, KillGroup, Mishap, Reply, NoTryOn, Go,
     Stage, PlacesTyped, TryOnTyped, MessagesTyped, CountsTyped, Using, Paid, JobHeard,
     lockVars, warmVars, projectVars, TryOn
<1>21. ASSUME HearResult PROVE Paid'
  <2>1. JobAnswered
    BY <1>0, <1>21, HearResultCases
  <2> QED BY <1>0, <2>1 DEF JobAnswered, EndsOrGoesOn, Reply, NoTryOn, Stage, PlacesTyped,
          TryOnTyped, MessagesTyped, CountsTyped, Using, Paid, JobHeard, TryOn
<1>22. ASSUME JobTimesOut PROVE Paid'
  BY <1>0, <1>22 DEF JobTimesOut, StopBrowser, KillGroup, Mishap, Reply, NoTryOn, Stage,
     PlacesTyped, TryOnTyped, MessagesTyped, CountsTyped, Using, Paid, JobHeard, lockVars,
     warmVars, projectVars, TryOn
<1>23. ASSUME CoolBegins \/ CoolEnds \/ CoolTimesOut PROVE Paid'
  BY <1>0, <1>23 DEF CoolBegins, CoolEnds, CoolTimesOut, StopBrowser, KillGroup, Mishap, Stage,
     PlacesTyped, TryOnTyped, MessagesTyped, CountsTyped, Using, Paid, JobHeard, lockVars,
     warmVars, projectVars, TryOn
<1>24. ASSUME PauseEnds \/ CooldownEnds \/ LeftoversExit PROVE Paid'
  BY <1>0, <1>24 DEF PauseEnds, CooldownEnds, LeftoversExit, Stage, PlacesTyped, TryOnTyped,
     MessagesTyped, CountsTyped, Using, Paid, JobHeard, lockVars, warmVars, projectVars, TryOn
<1>25. ASSUME Restart PROVE Paid'
  BY <1>0, <1>25 DEF Restart, NoStart, NoTryOn, Mishap, Stage, PlacesTyped, TryOnTyped,
     MessagesTyped, CountsTyped, Using, Paid, JobHeard, lockVars, warmVars, projectVars, TryOn
<1>26. ASSUME UNCHANGED workerVars PROVE Paid'
  BY <1>0, <1>26 DEF Stage, PlacesTyped, TryOnTyped, MessagesTyped, CountsTyped, Using, Paid,
     JobHeard, workerVars, lockVars, warmVars, projectVars
<1> QED BY <1>1, <1>2, <1>3, <1>4, <1>5, <1>6, <1>7, <1>8, <1>9, <1>10, <1>11, <1>12, <1>13,
     <1>14, <1>15, <1>16, <1>17, <1>18, <1>19, <1>20, <1>21, <1>22, <1>23, <1>24, <1>25, <1>26
     DEF WorkerNext, Serve, Launch

(* What the browser did arrives in order.                                  *)
LEMMA JobHeardKept ==
  ASSUME WorkerAssumption, Typed, Using, Paid, JobHeard, [WorkerNext]_workerVars
  PROVE  JobHeard'
<1>0. /\ MaxEpoch \in Nat /\ MaxMishaps \in Nat
      /\ Nobody \notin {"request", "hint", "cool"}
      /\ PlacesTyped /\ FlagsTyped /\ TryOnTyped /\ MessagesTyped /\ CountsTyped
  BY DEF WorkerAssumption, Typed
<1>1. ASSUME WarmHint \/ HintStarts \/ HintGivesUp \/ Accept PROVE JobHeard'
  BY <1>0, <1>1 DEF WarmHint, HintStarts, HintGivesUp, Accept, Go, Blocked, Stage, PlacesTyped,
     TryOnTyped, MessagesTyped, CountsTyped, Using, Paid, JobHeard, lockVars, warmVars,
     projectVars, TryOn
<1>2. ASSUME StartEnds PROVE JobHeard'
  BY <1>0, <1>2, TryOnSteps DEF StartEnds, NoStart, Stage, PlacesTyped, TryOnTyped,
     MessagesTyped, CountsTyped, Using, Paid, JobHeard, lockVars, warmVars, projectVars, TryOn
<1>3. ASSUME StartFails PROVE JobHeard'
  BY <1>0, <1>3 DEF StartFails, NoStart, KillGroup, Mishap, Reply, NoTryOn, Go, Stage,
     PlacesTyped, TryOnTyped, MessagesTyped, CountsTyped, Using, Paid, JobHeard, lockVars,
     warmVars, projectVars, TryOn
<1>4. ASSUME Maintain PROVE JobHeard'
  BY <1>0, <1>4 DEF Maintain, StopBrowser, KillGroup, Mishap, Stage, PlacesTyped, TryOnTyped,
     MessagesTyped, CountsTyped, Using, Paid, JobHeard, lockVars, warmVars, projectVars, TryOn
<1>5. ASSUME ProjectUnrecorded \/ ProjectRefused \/ RecordFails PROVE JobHeard'
  BY <1>0, <1>5 DEF ProjectUnrecorded, ProjectRefused, RecordFails, Mishap, Reply, NoTryOn, Go,
     Stage, PlacesTyped, TryOnTyped, MessagesTyped, CountsTyped, Using, Paid, JobHeard,
     lockVars, warmVars, projectVars, TryOn
<1>6. ASSUME ProjectMissing PROVE JobHeard'
  BY <1>0, <1>6 DEF ProjectMissing, Stage, PlacesTyped, TryOnTyped, MessagesTyped, CountsTyped,
     Using, Paid, JobHeard, lockVars, warmVars, projectVars, TryOn
<1>7. ASSUME ProjectKnown PROVE JobHeard'
  BY <1>0, <1>7, TryOnSteps DEF ProjectKnown, Stage, PlacesTyped, TryOnTyped, MessagesTyped,
     CountsTyped, Using, Paid, JobHeard, lockVars, warmVars, projectVars, TryOn
<1>8. ASSUME StoreProject PROVE JobHeard'
  BY <1>0, <1>8, TryOnSteps DEF StoreProject, Stage, PlacesTyped, TryOnTyped, MessagesTyped,
     CountsTyped, Using, Paid, JobHeard, lockVars, warmVars, projectVars, TryOn
<1>9. ASSUME ExclusiveBegins \/ GflowStarts \/ ProfileHeld PROVE JobHeard'
  BY <1>0, <1>9 DEF ExclusiveBegins, GflowStarts, ProfileHeld, StopBrowser, KillGroup, Mishap,
     Reply, NoTryOn, Withdraw, Go, Stage, PlacesTyped, TryOnTyped, MessagesTyped, CountsTyped,
     Using, Paid, JobHeard, lockVars, warmVars, projectVars, TryOn
<1>10. ASSUME FlowActs \/ ProjectCreated \/ EndsBeforeFlow \/ GflowLost PROVE JobHeard'
  BY <1>0, <1>10 DEF FlowActs, ProjectCreated, EndsBeforeFlow, GflowLost, Reply, NoTryOn,
     Withdraw, Go, Stage, PlacesTyped, TryOnTyped, MessagesTyped, CountsTyped, Using, Paid,
     JobHeard, lockVars, warmVars, projectVars, TryOn
<1>11. ASSUME GflowDone PROVE JobHeard'
  BY <1>0, <1>11 DEF GflowDone, Reply, NoTryOn, Stage, PlacesTyped, TryOnTyped, MessagesTyped,
     CountsTyped, Using, Paid, JobHeard, lockVars, warmVars, projectVars, TryOn
<1>12. ASSUME GflowRefused PROVE JobHeard'
  <2>1. GflowAnswered
    BY <1>0, <1>12, GflowRefusedCases
  <2> QED BY <1>0, <2>1 DEF GflowAnswered, EndsOrGoesOn, Reply, NoTryOn, Stage, PlacesTyped,
          TryOnTyped, MessagesTyped, CountsTyped, Using, Paid, JobHeard, TryOn
<1>13. ASSUME AttemptTimesOut PROVE JobHeard'
  BY <1>0, <1>13 DEF AttemptTimesOut, Reply, NoTryOn, Stage, PlacesTyped, TryOnTyped,
     MessagesTyped, CountsTyped, Using, Paid, JobHeard, lockVars, warmVars, projectVars, TryOn
<1>14. ASSUME RunWarm PROVE JobHeard'
  BY <1>0, <1>14, TryOnSteps DEF RunWarm, Stage, PlacesTyped, TryOnTyped, MessagesTyped,
     CountsTyped, Using, Paid, JobHeard, lockVars, warmVars, projectVars, TryOn
<1>15. ASSUME RunCold PROVE JobHeard'
  BY <1>0, <1>15 DEF RunCold, StopBrowser, KillGroup, Mishap, Reply, NoTryOn, Blocked, Go,
     Stage, PlacesTyped, TryOnTyped, MessagesTyped, CountsTyped, Using, Paid, JobHeard,
     lockVars, warmVars, projectVars, TryOn
<1>16. ASSUME Announce \/ Generate PROVE JobHeard'
  BY <1>0, <1>16 DEF Announce, Generate, Stage, PlacesTyped, TryOnTyped, MessagesTyped,
     CountsTyped, Using, Paid, JobHeard, lockVars, warmVars, projectVars, TryOn
<1>17. ASSUME JobEnds PROVE JobHeard'
  <2>0. PICK word \in {"ok", "refused", "failed"} :
          (word = "refused" => phase = "submitted") /\ inbox' = Append(inbox, word)
    BY <1>17 DEF JobEnds
  <2>1. word \in Word /\ MessagesTyped
    BY DEF Word, Typed
  <2>2. /\ inbox' # << >> /\ (inbox # << >> => Head(inbox') = Head(inbox))
        /\ \A i \in 1..Len(inbox') : (inbox'[i] = inbox[i] /\ i \in 1..Len(inbox)) \/ inbox'[i] = word
    BY <2>0, <2>1, Writing
  <2>3. /\ tryOn.pc = "job" /\ phase' = "answered" /\ UNCHANGED <<spent, tryOn>>
        /\ phase \in {"working", "submitted", "generated"}
    BY <1>17 DEF JobEnds, Stage
  <2>4. \A i \in 1..Len(inbox) : inbox[i] # "refused"
    BY <2>3 DEF JobHeard, Stage
  <2>5. phase = "submitted" => spent = 0
    BY <2>3 DEF JobHeard, Stage
  <2>6. spent > 0 => tryOn.submitted \/ (inbox # << >> /\ Head(inbox) = "submitted")
    BY <2>3 DEF JobHeard, Stage
  <2>7. \A i \in 1..Len(inbox') : inbox'[i] = "refused" => spent = 0
    BY <2>0, <2>2, <2>4, <2>5
  <2> QED BY <2>2, <2>3, <2>6, <2>7 DEF JobHeard, Stage
<1>18. ASSUME BrowserDies PROVE JobHeard'
  <2>0. /\ child' = "dead" /\ UNCHANGED <<phase, spent, tryOn>>
        /\ inbox' = IF Stage({"job"}) THEN Append(inbox, "eof") ELSE inbox
    BY <1>18 DEF BrowserDies
  <2>1. "eof" \in Word /\ MessagesTyped
    BY DEF Word, Typed
  <2>2. CASE Stage({"job"})
    <3>1. /\ inbox' # << >> /\ (inbox # << >> => Head(inbox') = Head(inbox))
          /\ \A i \in 1..Len(inbox') : (inbox'[i] = inbox[i] /\ i \in 1..Len(inbox)) \/ inbox'[i] = "eof"
      BY <2>0, <2>1, <2>2, Writing
    <3> QED BY <2>0, <2>2, <3>1 DEF JobHeard, Stage
  <2>3. CASE ~Stage({"job"})
    BY <2>0, <2>3 DEF JobHeard, Stage
  <2> QED BY <2>2, <2>3
<1>19. ASSUME HearSubmit PROVE JobHeard'
  <2>1. /\ Stage({"job"}) /\ inbox # << >> /\ inbox' = Tail(inbox)
        /\ tryOn' = [tryOn EXCEPT !.submitted = TRUE] /\ UNCHANGED <<phase, spent, child>>
    BY <1>19 DEF HearSubmit, Heard
  <2>2. tryOn'.pc = tryOn.pc /\ tryOn'.submitted
    BY <1>0, <2>1 DEF TryOnTyped, TryOn
  <2>3. \A i \in 1..Len(inbox') : i + 1 \in 1..Len(inbox) /\ inbox'[i] = inbox[i + 1]
    BY <1>0, <2>1 DEF MessagesTyped
  <2>4. /\ phase \in {"working", "submitted"} => spent = 0
        /\ ~(phase = "working" /\ child = "up")
        /\ \A i \in 1..Len(inbox) : inbox[i] = "refused" => phase = "answered" /\ spent = 0
    BY <2>1 DEF JobHeard
  <2> QED BY <2>1, <2>2, <2>3, <2>4 DEF JobHeard, Stage
<1>20. ASSUME HearDeath PROVE JobHeard'
  BY <1>0, <1>20 DEF HearDeath, Heard, StopBrowser, KillGroup, Mishap, Reply, NoTryOn, Go,
     Stage, PlacesTyped, TryOnTyped, MessagesTyped, CountsTyped, Using, Paid, JobHeard,
     lockVars, warmVars, projectVars, TryOn
<1>21. ASSUME HearResult PROVE JobHeard'
  <2>1. JobAnswered
    BY <1>0, <1>21, HearResultCases
  <2> QED BY <1>0, <2>1 DEF JobAnswered, EndsOrGoesOn, Reply, NoTryOn, Stage, PlacesTyped,
          TryOnTyped, MessagesTyped, CountsTyped, Using, Paid, JobHeard, TryOn
<1>22. ASSUME JobTimesOut PROVE JobHeard'
  BY <1>0, <1>22 DEF JobTimesOut, StopBrowser, KillGroup, Mishap, Reply, NoTryOn, Stage,
     PlacesTyped, TryOnTyped, MessagesTyped, CountsTyped, Using, Paid, JobHeard, lockVars,
     warmVars, projectVars, TryOn
<1>23. ASSUME CoolBegins \/ CoolEnds \/ CoolTimesOut PROVE JobHeard'
  BY <1>0, <1>23 DEF CoolBegins, CoolEnds, CoolTimesOut, StopBrowser, KillGroup, Mishap, Stage,
     PlacesTyped, TryOnTyped, MessagesTyped, CountsTyped, Using, Paid, JobHeard, lockVars,
     warmVars, projectVars, TryOn
<1>24. ASSUME PauseEnds \/ CooldownEnds \/ LeftoversExit PROVE JobHeard'
  BY <1>0, <1>24 DEF PauseEnds, CooldownEnds, LeftoversExit, Stage, PlacesTyped, TryOnTyped,
     MessagesTyped, CountsTyped, Using, Paid, JobHeard, lockVars, warmVars, projectVars, TryOn
<1>25. ASSUME Restart PROVE JobHeard'
  BY <1>0, <1>25 DEF Restart, NoStart, NoTryOn, Mishap, Stage, PlacesTyped, TryOnTyped,
     MessagesTyped, CountsTyped, Using, Paid, JobHeard, lockVars, warmVars, projectVars, TryOn
<1>26. ASSUME UNCHANGED workerVars PROVE JobHeard'
  BY <1>0, <1>26 DEF Stage, PlacesTyped, TryOnTyped, MessagesTyped, CountsTyped, Using, Paid,
     JobHeard, workerVars, lockVars, warmVars, projectVars
<1> QED BY <1>1, <1>2, <1>3, <1>4, <1>5, <1>6, <1>7, <1>8, <1>9, <1>10, <1>11, <1>12, <1>13,
     <1>14, <1>15, <1>16, <1>17, <1>18, <1>19, <1>20, <1>21, <1>22, <1>23, <1>24, <1>25, <1>26
     DEF WorkerNext, Serve, Launch

LEMMA InitWorker == WorkerAssumption /\ WorkerInit => WorkerInv
<1> SUFFICES ASSUME WorkerAssumption, WorkerInit PROVE WorkerInv
  OBVIOUS
<1>1. /\ MaxEpoch \in Nat /\ MaxMishaps \in Nat
      /\ Nobody \notin {"request", "hint", "cool"}
  BY DEF WorkerAssumption
<1>2. PlacesTyped
  <2>1. NoStart \in [who : {Nobody, "request", "hint"}, epoch : 0..MaxEpoch] /\ NoStart.who = Nobody
    BY <1>1 DEF NoStart
  <2> QED BY <1>1, <2>1 DEF WorkerInit, PlacesTyped
<1>3. TryOnTyped
  BY <1>1 DEF WorkerInit, NoTryOn, TryOnTyped, TryOn
<1>4. FlagsTyped /\ CountsTyped
  <2>1. /\ created = 0 /\ spent = 0 /\ mishaps = 0 /\ file = "none"
        /\ 0 \in 0..MaxMishaps /\ 0 \in Nat
    BY <1>1 DEF WorkerInit
  <2>2. CountsTyped
    BY <2>1 DEF CountsTyped
  <2>3. FlagsTyped
    BY DEF WorkerInit, FlagsTyped
  <2> QED BY <2>2, <2>3
<1>5. MessagesTyped
  BY DEF WorkerInit, MessagesTyped, Word
<1>6. Using /\ Exclusion
  BY <1>1 DEF WorkerInit, NoStart, NoTryOn, Using, Exclusion, Stage
<1>7. Project /\ Paid /\ JobHeard
  BY DEF WorkerInit, NoTryOn, Project, Paid, JobHeard, Stage
<1> QED BY <1>2, <1>3, <1>4, <1>5, <1>6, <1>7, TypedIsTypeOK DEF WorkerInv, Typed

LEMMA NextWorker ==
  ASSUME WorkerAssumption, WorkerInv, [WorkerNext]_workerVars
  PROVE  WorkerInv'
<1>1. Typed /\ Using /\ Exclusion /\ Project /\ Paid /\ JobHeard
  BY TypedIsTypeOK DEF WorkerInv
<1>2. Typed'
  BY <1>1, PlacesKept, FlagsKept, TryOnKept, MessagesKept, CountsKept DEF Typed
<1>3. WorkerTypeOK'
  BY <1>2, TypedIsTypeOK, PTL
<1>4. /\ Using'
      /\ Exclusion'
      /\ Project'
      /\ Paid'
      /\ JobHeard'
  BY <1>1, UsingKept, ExclusionKept, ProjectKept, PaidKept, JobHeardKept
<1> QED BY <1>3, <1>4 DEF WorkerInv

(* Every reachable state of the worker is well typed and keeps the parts   *)
(* of the invariant: the browser's lock and the request's place agree, a   *)
(* gflow holds the exclusive section, a request about to create a project  *)
(* has left its marker first, and an image that was paid for is announced  *)
(* before any message the request can still read (server.py, warm.py).     *)
THEOREM WorkerCorrect == ASSUME WorkerAssumption PROVE WorkerSpec => []WorkerInv
<1>1. WorkerInit => WorkerInv
  BY InitWorker
<1>2. WorkerInv /\ [WorkerNext]_workerVars => WorkerInv'
  BY NextWorker
<1> QED BY <1>1, <1>2, PTL DEF WorkerSpec

LEMMA WorkerSafe ==
  ASSUME WorkerInv
  PROVE  ProfileExclusive /\ OneProject /\ PaidOnce
<1>1. Stage({"gflow", "acted"}) => NoBrowser
  BY DEF WorkerInv, Exclusion
<1>2. operator => NoBrowser /\ ~Stage({"gflow", "acted"})
  BY DEF WorkerInv, Exclusion, WorkerTypeOK, Stage
<1>3. ProfileExclusive
  BY <1>1, <1>2 DEF ProfileExclusive, NoBrowser
<1>4. OneProject
  BY DEF WorkerInv, Project, OneProject
<1>5. PaidOnce
  BY DEF WorkerInv, Paid, PaidOnce
<1> QED BY <1>3, <1>4, <1>5

(* However hints, recycles, cools, deaths and requests interleave: while a *)
(* gflow drives the profile no browser the worker knows of holds it, and   *)
(* while an operator has it neither does (_run_gflow, cool, _blocked).     *)
THEOREM ProfileStaysExclusive == ASSUME WorkerAssumption PROVE WorkerSpec => []ProfileExclusive
BY WorkerSafe, WorkerCorrect, PTL

(* Replies lost, records that cannot be written, restarts at any moment:   *)
(* Flow is asked for one project at most (_ensure_project and its marker). *)
THEOREM ProjectOnce == ASSUME WorkerAssumption PROVE WorkerSpec => []OneProject
BY WorkerSafe, WorkerCorrect, PTL

(* One request pays for one image at most, over every fallback from the    *)
(* browser to gflow and from Pro to the other model (_run_locked,          *)
(* _run_model, should_fallback_from_pro).                                  *)
THEOREM ImagePaidOnce == ASSUME WorkerAssumption PROVE WorkerSpec => []PaidOnce
BY WorkerSafe, WorkerCorrect, PTL

-----------------------------------------------------------------------------
(* Inventory signals (InventorySignals): why none is forgotten.            *)

Row == [last : Nat, attempts : Nat, count : Nat]
Item == [of : Variations, row : Row]

MarkersTyped ==
  /\ truth \in [Variations -> Nat] /\ mirror \in [Variations -> Nat]
  /\ accepted \in [Variations -> Nat] /\ owed \in [Variations -> Nat]
  /\ marker \in [Variations -> Row \cup {NoMarker}]
  /\ arriving \subseteq [of : Variations, version : Nat, at : Nat]
  /\ stamps \in Nat
  /\ listed \subseteq Variations
  /\ variant \in [Variations -> {"unknown", "present", "withdrawn"}]
BatchType ==
  [pc : {"asleep", "dead", "claimed", "reading", "applying", "clearing", "charging"},
   claimed : Nat, rows : Seq(Item), next : Nat \ {0}, got : [Variations -> Nat],
   found : SUBSET Variations, beaten : SUBSET Variations, failed : SUBSET Variations]
BatchTyped ==
  /\ batch \in BatchType
  /\ batch.pc \in {"reading", "applying", "clearing", "charging"} => batch.next <= Len(batch.rows)
  /\ batch.pc = "claimed" => batch.next = 1 /\ batch.found = {}
FullType ==
  [pc : {"asleep", "reading", "applying"}, got : [Variations -> Nat], listed : SUBSET Variations,
   due : [Variations -> Nat], beaten : SUBSET Variations, later : BOOLEAN]
FullTyped ==
  /\ full \in FullType
  /\ full.pc = "asleep" => ~full.later /\ full.beaten = {}
SignalsTyped == MarkersTyped /\ BatchTyped /\ FullTyped

(* Whatever is newer than figure n was announced after the batch's claim,  *)
(* and its marker, once it has one, says so.                               *)
Covers(v, n) ==
  /\ accepted[v] > n => marker[v] # NoMarker /\ marker[v].last > batch.claimed
  /\ \A d \in arriving : d.of = v /\ d.version > n => d.at > batch.claimed

Safe(v, n) == accepted[v] > n => marker[v] # NoMarker \/ owed[v] >= accepted[v]

(* Nothing is announced before it is so, or stamped ahead of the clock.    *)
Announced ==
  /\ \A v \in Variations : accepted[v] <= truth[v] /\ owed[v] <= accepted[v]
  /\ \A d \in arriving : d.version <= truth[d.of] /\ d.at <= stamps
  /\ batch.claimed <= stamps

(* Which of two overlapping reads gives way to the other.                  *)
Overlap ==
  /\ full.later => full.beaten = {}
  /\ batch.beaten # {} => Reading
  /\ batch.beaten # {} /\ full.pc # "asleep" => full.later

(* A figure the storefront sells by, or will once the full read under way  *)
(* has given its variation a row; and one that this full read will store.  *)
Sold(v) == variant[v] = "present" \/ v \in full.beaten
Stores(v) == full.pc = "applying" /\ v \in full.listed \ full.beaten

(* Either may stand without loss.                                          *)
Remembered ==
  \A v \in Variations :
    /\ Sold(v) => Safe(v, mirror[v])
    /\ Stores(v) => Safe(v, full.got[v])

(* What was owed when the full read under way began, no figure it stores   *)
(* or gives way to is older than.                                          *)
Brings ==
  \A v \in Variations :
    /\ full.pc # "asleep" => full.due[v] <= truth[v]
    /\ full.pc = "applying" => full.due[v] <= full.got[v]
    /\ v \in full.beaten => full.due[v] <= mirror[v]
    /\ Reading /\ full.pc # "asleep" /\ ~full.later /\ v \in batch.found =>
         full.due[v] <= batch.got[v]

(* The figures a batch reads, or leaves to a later full read, and those it *)
(* clears its markers on, cover its claim.                                 *)
LaterCovers == full.later /\ full.pc = "applying" => \A v \in Variations : Covers(v, full.got[v])
BeatenCovered == \A v \in batch.beaten : variant[v] = "present" => Covers(v, mirror[v])
GotCovers == \A v \in batch.found : Covers(v, batch.got[v])
StoredCovers ==
  batch.pc = "clearing" =>
    \A v \in batch.found :
      /\ Sold(v) => Covers(v, mirror[v])
      /\ Stores(v) => Covers(v, full.got[v])
ReadsCover == (Reading => LaterCovers /\ BeatenCovered /\ GotCovers) /\ StoredCovers

SignalsInv == SignalsTyped /\ Announced /\ Overlap /\ Remembered /\ Brings /\ ReadsCover

(* What the steps of a batch and of a full read leave of it.               *)
BatchIs(pc, claimed, rows, found, beaten) ==
  /\ batch' \in BatchType
  /\ batch'.pc = pc /\ batch'.claimed = claimed /\ batch'.rows = rows
  /\ batch'.found = found /\ batch'.beaten = beaten

BatchWalks(after, found) ==
  /\ \/ BatchIs(batch.pc, batch.claimed, batch.rows, found, batch.beaten)
     \/ BatchIs(after, batch.claimed, batch.rows, found, batch.beaten)
  /\ batch'.next <= Len(batch'.rows)

FullIs(pc, seen, beaten, later) ==
  /\ full' \in FullType
  /\ full'.pc = pc /\ full'.listed = seen /\ full'.beaten = beaten /\ full'.later = later

(* What a batch writes, and what a full read does.                         *)
BatchKept == (batch.found \cap Known) \ batch.beaten
FullKept == full.listed \ full.beaten

LEMMA NoBatchTyped ==
  /\ batch' = NoBatch =>
       BatchIs("asleep", 0, << >>, {}, {}) /\ batch'.next = 1
  /\ batch' = [NoBatch EXCEPT !.pc = "dead"] =>
       BatchIs("dead", 0, << >>, {}, {}) /\ batch'.next = 1
  /\ stamps \in Nat /\ batch' = [NoBatch EXCEPT !.pc = "claimed", !.claimed = stamps] =>
       BatchIs("claimed", stamps, << >>, {}, {}) /\ batch'.next = 1
<1>1. Unread \in [Variations -> Nat] /\ << >> \in Seq(Item) /\ 1 \in Nat \ {0} /\ 0 \in Nat
  BY DEF Unread
<1>2. batch' = NoBatch => BatchIs("asleep", 0, << >>, {}, {}) /\ batch'.next = 1
  BY <1>1 DEF NoBatch, BatchIs, BatchType
<1>3. batch' = [NoBatch EXCEPT !.pc = "dead"] => BatchIs("dead", 0, << >>, {}, {}) /\ batch'.next = 1
  BY <1>1 DEF NoBatch, BatchIs, BatchType
<1>4. stamps \in Nat /\ batch' = [NoBatch EXCEPT !.pc = "claimed", !.claimed = stamps] =>
        BatchIs("claimed", stamps, << >>, {}, {}) /\ batch'.next = 1
  BY <1>1 DEF NoBatch, BatchIs, BatchType
<1> QED BY <1>2, <1>3, <1>4

LEMMA NoFullTyped ==
  ASSUME full' = NoFull
  PROVE  FullIs("asleep", {}, {}, FALSE)
BY DEF NoFull, Unread, FullIs, FullType

LEMMA ListPendingRows ==
  ASSUME SignalAssumption, MarkersTyped, NEW s \in BoundedSeq(Pending, BatchLimit)
  PROVE  /\ [i \in DOMAIN s |-> [of |-> s[i], row |-> marker[s[i]]]] \in Seq(Item)
         /\ s # << >> => Len([i \in DOMAIN s |-> [of |-> s[i], row |-> marker[s[i]]]]) >= 1
<1>1. PICK n \in 0..BatchLimit : s \in [1..n -> Pending]
  BY DEF BoundedSeq, SeqOf
<1>2. n \in Nat /\ DOMAIN s = 1..n
  BY <1>1 DEF SignalAssumption
<1>3. ASSUME NEW v \in Pending PROVE [of |-> v, row |-> marker[v]] \in Item
  BY DEF Pending, MarkersTyped, Item
<1>4. [i \in 1..n |-> [of |-> s[i], row |-> marker[s[i]]]] \in [1..n -> Item]
  BY <1>1, <1>3
<1>5. Len([i \in 1..n |-> [of |-> s[i], row |-> marker[s[i]]]]) = n
  BY <1>2
<1>6. n = 0 => s = << >>
  BY <1>1
<1> QED BY <1>2, <1>4, <1>5, <1>6

LEMMA RowsTyped ==
  ASSUME BatchTyped
  PROVE  /\ Listed \subseteq Variations /\ Chunk \subseteq Variations
         /\ \A i \in DOMAIN batch.rows : batch.rows[i] \in Item
         /\ batch.pc \in {"clearing", "charging"} =>
              /\ batch.next \in DOMAIN batch.rows
              /\ batch.rows[batch.next].of \in Variations /\ batch.rows[batch.next].row \in Row
<1>1. batch.rows \in Seq(Item) /\ batch.next \in Nat \ {0} /\ Len(batch.rows) \in Nat
      /\ DOMAIN batch.rows = 1..Len(batch.rows)
  BY DEF BatchTyped, BatchType
<1>2. \A i \in DOMAIN batch.rows : batch.rows[i] \in Item
  BY <1>1
<1>3. Listed \subseteq Variations /\ Chunk \subseteq Variations
  BY <1>2 DEF Listed, Chunk, Item
<1>4. batch.pc \in {"clearing", "charging"} => batch.next \in DOMAIN batch.rows
  BY <1>1 DEF BatchTyped
<1> QED BY <1>2, <1>3, <1>4 DEF Item

LEMMA WalkedSteps ==
  ASSUME BatchTyped, batch.next <= Len(batch.rows), NEW n \in Nat \ {0},
         NEW after \in {"applying", "charging"},
         NEW b \in BatchType, b.rows = batch.rows, b.next = batch.next, b.pc = batch.pc,
         b.claimed = batch.claimed, b.beaten = batch.beaten, batch' = Walked(b, n, after)
  PROVE  BatchWalks(after, b.found) /\ batch'.got = b.got
<1>1. /\ b.next \in Nat \ {0} /\ Len(b.rows) \in Nat /\ b.next + n \in Nat \ {0}
      /\ 1 <= Len(b.rows)
  BY DEF BatchType
<1>2. CASE b.next + n <= Len(b.rows)
  <2>1. ASSUME NEW k \in Nat \ {0}, batch' = [b EXCEPT !.next = k]
        PROVE  /\ batch' \in BatchType /\ batch'.next = k /\ batch'.pc = b.pc
               /\ batch'.claimed = b.claimed /\ batch'.rows = b.rows /\ batch'.got = b.got
               /\ batch'.found = b.found /\ batch'.beaten = b.beaten
    <3>1. b \in BatchType
      OBVIOUS
    <3> QED BY <2>1, <3>1 DEF BatchType
  <2>2. batch' = [b EXCEPT !.next = b.next + n]
    BY <1>2 DEF Walked
  <2> QED BY <1>1, <1>2, <2>1, <2>2 DEF BatchWalks, BatchIs
<1>3. CASE ~(b.next + n <= Len(b.rows))
  <2>1. batch' = [b EXCEPT !.next = 1, !.pc = after]
    BY <1>3 DEF Walked
  <2>2. /\ batch' \in BatchType /\ batch'.next = 1 /\ batch'.pc = after
        /\ batch'.claimed = b.claimed /\ batch'.rows = b.rows /\ batch'.got = b.got
        /\ batch'.found = b.found /\ batch'.beaten = b.beaten
    <3>1. b \in BatchType /\ 1 \in Nat \ {0}
      OBVIOUS
    <3> QED BY <2>1, <3>1 DEF BatchType
  <2> QED BY <1>1, <2>2 DEF BatchWalks, BatchIs
<1> QED BY <1>2, <1>3

LEMMA BatchSteps ==
  ASSUME SignalAssumption, SignalsTyped
  PROVE  /\ Claim => BatchIs("claimed", stamps, << >>, {}, {}) /\ batch'.next = 1
         /\ ListPending => batch' = NoBatch \/ \E rows \in Seq(Item) :
              /\ BatchIs("reading", batch.claimed, rows, {}, batch.beaten)
              /\ batch'.next <= Len(batch'.rows)
         /\ ReadChunk => /\ BatchWalks("applying", batch.found \cup (Chunk \cap listed))
                         /\ batch'.got = [v \in Variations |-> IF v \in Chunk \cap listed
                                                                 THEN truth[v] ELSE batch.got[v]]
         /\ ChunkFails => BatchWalks("applying", batch.found) /\ batch'.got = batch.got
         /\ ApplyStocks => /\ BatchIs("clearing", batch.claimed, batch.rows, batch.found \cap Known, {})
                           /\ batch'.next = batch.next
         /\ ApplyFails => /\ BatchIs("clearing", batch.claimed, batch.rows, {}, {})
                          /\ batch'.next = batch.next
         /\ Resolve => BatchWalks("charging", batch.found)
         /\ RecordFailure =>
              \/ batch' = NoBatch
              \/ /\ BatchIs("charging", batch.claimed, batch.rows, batch.found, batch.beaten)
                 /\ batch'.next <= Len(batch'.rows)
<1>1. /\ stamps \in Nat /\ listed \subseteq Variations /\ truth \in [Variations -> Nat]
      /\ MarkersTyped /\ BatchTyped /\ ChunkSize \in Nat \ {0} /\ 1 \in Nat \ {0}
  BY DEF SignalsTyped, MarkersTyped, SignalAssumption
<1>2. batch \in BatchType
  BY <1>1 DEF BatchTyped
<1>3. Claim => BatchIs("claimed", stamps, << >>, {}, {}) /\ batch'.next = 1
  BY <1>1, NoBatchTyped DEF Claim
<1>4. ASSUME ListPending
      PROVE  batch' = NoBatch \/ \E rows \in Seq(Item) :
               /\ BatchIs("reading", batch.claimed, rows, {}, batch.beaten)
               /\ batch'.next <= Len(batch'.rows)
  <2>1. PICK s \in BoundedSeq(Pending, BatchLimit) :
          batch' = IF s = << >> THEN NoBatch
                   ELSE [batch EXCEPT !.pc = "reading",
                                      !.rows = [i \in DOMAIN s |-> [of |-> s[i], row |-> marker[s[i]]]]]
    BY <1>4 DEF ListPending
  <2>2. /\ [i \in DOMAIN s |-> [of |-> s[i], row |-> marker[s[i]]]] \in Seq(Item)
        /\ s # << >> => Len([i \in DOMAIN s |-> [of |-> s[i], row |-> marker[s[i]]]]) >= 1
    BY <1>1, ListPendingRows
  <2>3. batch.next = 1 /\ batch.found = {}
    BY <1>1, <1>4 DEF ListPending, BatchTyped
  <2>4. ASSUME NEW rows \in Seq(Item), batch' = [batch EXCEPT !.pc = "reading", !.rows = rows],
               Len(rows) >= 1
        PROVE  /\ BatchIs("reading", batch.claimed, rows, {}, batch.beaten)
               /\ batch'.next <= Len(batch'.rows)
    BY <1>2, <2>3, <2>4 DEF BatchIs, BatchType
  <2> QED BY <2>1, <2>2, <2>4
<1>5. ASSUME ReadChunk
      PROVE  /\ BatchWalks("applying", batch.found \cup (Chunk \cap listed))
             /\ batch'.got = [v \in Variations |-> IF v \in Chunk \cap listed
                                                     THEN truth[v] ELSE batch.got[v]]
  <2> DEFINE got == [v \in Variations |-> IF v \in Chunk \cap listed THEN truth[v] ELSE batch.got[v]]
             found == batch.found \cup (Chunk \cap listed)
             b == [batch EXCEPT !.got = got, !.found = found]
  <2>1. got \in [Variations -> Nat] /\ found \in SUBSET Variations
    BY <1>1, <1>2, RowsTyped DEF BatchType
  <2>2. batch' = Walked(b, ChunkSize, "applying") /\ batch.next <= Len(batch.rows)
    BY <1>1, <1>5 DEF ReadChunk, BatchTyped
  <2> HIDE DEF got, found
  <2>3. /\ b \in BatchType /\ b.rows = batch.rows /\ b.next = batch.next /\ b.pc = batch.pc
        /\ b.claimed = batch.claimed /\ b.beaten = batch.beaten /\ b.found = found /\ b.got = got
    BY <1>2, <2>1 DEF BatchType
  <2> HIDE DEF b
  <2>4. BatchWalks("applying", found) /\ batch'.got = got
    BY <1>1, <2>2, <2>3, WalkedSteps
  <2> QED BY <2>4 DEF got, found
<1>6. ASSUME ChunkFails PROVE BatchWalks("applying", batch.found) /\ batch'.got = batch.got
  <2> DEFINE b == [batch EXCEPT !.failed = @ \cup Chunk]
  <2>1. batch' = Walked(b, ChunkSize, "applying") /\ batch.next <= Len(batch.rows)
    BY <1>1, <1>6 DEF ChunkFails, BatchTyped
  <2>2. /\ b \in BatchType /\ b.rows = batch.rows /\ b.next = batch.next /\ b.pc = batch.pc
        /\ b.claimed = batch.claimed /\ b.beaten = batch.beaten /\ b.found = batch.found
        /\ b.got = batch.got
    BY <1>1, <1>2, RowsTyped DEF BatchType
  <2> HIDE DEF b
  <2> QED BY <1>1, <2>1, <2>2, WalkedSteps
<1>7. ApplyStocks => /\ BatchIs("clearing", batch.claimed, batch.rows, batch.found \cap Known, {})
                     /\ batch'.next = batch.next
  <2>1. Unread \in [Variations -> Nat] /\ batch.found \cap Known \in SUBSET Variations
    BY <1>2 DEF Unread, BatchType
  <2>2. ASSUME NEW found \in SUBSET Variations,
               batch' = [batch EXCEPT !.pc = "clearing", !.got = Unread, !.found = found, !.beaten = {}]
        PROVE  /\ BatchIs("clearing", batch.claimed, batch.rows, found, {})
               /\ batch'.next = batch.next
    BY <1>2, <2>1, <2>2 DEF BatchIs, BatchType
  <2> QED BY <2>1, <2>2 DEF ApplyStocks
<1>8. ApplyFails => /\ BatchIs("clearing", batch.claimed, batch.rows, {}, {})
                    /\ batch'.next = batch.next
  <2>1. Unread \in [Variations -> Nat] /\ Listed \in SUBSET Variations
    BY <1>1, RowsTyped DEF Unread
  <2>2. ASSUME NEW failed \in SUBSET Variations,
               batch' = [batch EXCEPT !.pc = "clearing", !.got = Unread, !.found = {}, !.beaten = {},
                                      !.failed = failed]
        PROVE  /\ BatchIs("clearing", batch.claimed, batch.rows, {}, {})
               /\ batch'.next = batch.next
    BY <1>2, <2>1, <2>2 DEF BatchIs, BatchType
  <2> QED BY <2>1, <2>2 DEF ApplyFails
<1>9. ASSUME Resolve PROVE BatchWalks("charging", batch.found)
  <2>1. batch' = Walked(batch, 1, "charging") /\ batch.next <= Len(batch.rows)
    BY <1>1, <1>9 DEF Resolve, BatchTyped
  <2> QED BY <1>1, <1>2, <2>1, WalkedSteps
<1>10. ASSUME RecordFailure, batch' # NoBatch
       PROVE  /\ BatchIs("charging", batch.claimed, batch.rows, batch.found, batch.beaten)
              /\ batch'.next <= Len(batch'.rows)
  <2>1. /\ batch' = [batch EXCEPT !.next = batch.next + 1] /\ batch.pc = "charging"
        /\ batch.next # Len(batch.rows)
    BY <1>10 DEF RecordFailure
  <2>2. batch.next \in Nat \ {0} /\ Len(batch.rows) \in Nat /\ batch.next <= Len(batch.rows)
    BY <1>1, <1>2, <2>1 DEF BatchTyped, BatchType
  <2>3. ASSUME NEW k \in Nat \ {0}, batch' = [batch EXCEPT !.next = k]
        PROVE  /\ BatchIs(batch.pc, batch.claimed, batch.rows, batch.found, batch.beaten)
               /\ batch'.next = k
    BY <1>2, <2>3 DEF BatchIs, BatchType
  <2>4. batch.next + 1 \in Nat \ {0} /\ batch.next + 1 <= Len(batch.rows)
    BY <2>1, <2>2
  <2> QED BY <2>1, <2>3, <2>4 DEF BatchIs
<1> QED BY <1>3, <1>4, <1>5, <1>6, <1>7, <1>8, <1>9, <1>10

LEMMA FullSteps ==
  ASSUME SignalsTyped
  PROVE  /\ ListPending => /\ FullIs(full.pc, full.listed, full.beaten, FALSE)
                           /\ full'.got = full.got /\ full'.due = full.due
         /\ FullBegins => FullIs("reading", {}, {}, Reading) /\ full'.due = owed
         /\ FullReads => /\ FullIs("applying", listed, full.beaten, full.later)
                         /\ full'.got = truth /\ full'.due = full.due /\ full.pc # "asleep"
         /\ ApplyStocks => \/ full.pc = "asleep" /\ full' = full
                           \/ /\ full.pc # "asleep" /\ full.later
                              /\ full'.got = full.got /\ full'.due = full.due
                              /\ FullIs(full.pc, full.listed, full.beaten, FALSE)
                           \/ /\ full.pc # "asleep" /\ ~full.later
                              /\ full'.got = full.got /\ full'.due = full.due
                              /\ FullIs(full.pc, full.listed, full.beaten \cup BatchKept, FALSE)
         /\ FullApplies =>
              /\ full.pc = "applying" /\ FullIs("asleep", {}, {}, FALSE)
              /\ \/ /\ full.later /\ Reading /\ batch'.got = batch.got /\ batch'.next = batch.next
                    /\ BatchIs(batch.pc, batch.claimed, batch.rows, batch.found, batch.beaten \cup FullKept)
                 \/ ~(full.later /\ Reading) /\ batch' = batch
<1>1. full \in FullType /\ owed \in [Variations -> Nat] /\ truth \in [Variations -> Nat]
      /\ listed \in SUBSET Variations
  BY DEF SignalsTyped, FullTyped, MarkersTyped
<1>2. batch \in BatchType
  BY DEF SignalsTyped, BatchTyped
<1>3. ListPending => /\ FullIs(full.pc, full.listed, full.beaten, FALSE)
                     /\ full'.got = full.got /\ full'.due = full.due
  BY <1>1 DEF ListPending, FullIs, FullType
<1>4. FullBegins => FullIs("reading", {}, {}, Reading) /\ full'.due = owed
  <2>1. ASSUME NEW later \in BOOLEAN,
               full' = [NoFull EXCEPT !.pc = "reading", !.due = owed, !.later = later]
        PROVE  FullIs("reading", {}, {}, later) /\ full'.due = owed
    BY <1>1, <2>1 DEF NoFull, Unread, FullIs, FullType
  <2>2. Reading \in BOOLEAN
    BY DEF Reading
  <2> QED BY <2>1, <2>2 DEF FullBegins
<1>5. FullReads => /\ FullIs("applying", listed, full.beaten, full.later)
                   /\ full'.got = truth /\ full'.due = full.due /\ full.pc # "asleep"
  BY <1>1 DEF FullReads, FullIs, FullType
<1>6. ASSUME ApplyStocks
      PROVE  \/ full.pc = "asleep" /\ full' = full
             \/ /\ full.pc # "asleep" /\ full.later
                /\ full'.got = full.got /\ full'.due = full.due
                /\ FullIs(full.pc, full.listed, full.beaten, FALSE)
             \/ /\ full.pc # "asleep" /\ ~full.later
                /\ full'.got = full.got /\ full'.due = full.due
                /\ FullIs(full.pc, full.listed, full.beaten \cup BatchKept, FALSE)
  <2>1. CASE full.pc = "asleep"
    BY <1>6, <2>1 DEF ApplyStocks, SignalsTyped, FullTyped
  <2>2. CASE full.pc # "asleep" /\ full.later
    BY <1>1, <1>6, <2>2 DEF ApplyStocks, FullIs, FullType
  <2>3. CASE full.pc # "asleep" /\ ~full.later
    <3>1. BatchKept \subseteq Variations
      BY <1>2 DEF BatchKept, BatchType
    <3>2. full' = [full EXCEPT !.beaten = @ \cup BatchKept]
      BY <1>6, <2>3 DEF ApplyStocks, BatchKept
    <3> QED BY <1>1, <2>3, <3>1, <3>2 DEF FullIs, FullType
  <2> QED BY <2>1, <2>2, <2>3
<1>7. ASSUME FullApplies
      PROVE  /\ full.pc = "applying" /\ FullIs("asleep", {}, {}, FALSE)
             /\ \/ /\ full.later /\ Reading /\ batch'.got = batch.got /\ batch'.next = batch.next
                   /\ BatchIs(batch.pc, batch.claimed, batch.rows, batch.found, batch.beaten \cup FullKept)
                \/ ~(full.later /\ Reading) /\ batch' = batch
  <2>1. full.pc = "applying" /\ FullIs("asleep", {}, {}, FALSE)
    BY <1>7, NoFullTyped DEF FullApplies
  <2>2. FullKept \subseteq Variations
    BY <1>1 DEF FullKept, FullType
  <2>3. CASE full.later /\ Reading
    <3>1. batch' = [batch EXCEPT !.beaten = @ \cup FullKept]
      BY <1>7, <2>3 DEF FullApplies, FullKept
    <3> QED BY <1>2, <2>1, <2>2, <2>3, <3>1 DEF BatchIs, BatchType
  <2>4. CASE ~(full.later /\ Reading)
    BY <1>7, <2>1, <2>4 DEF FullApplies
  <2> QED BY <2>3, <2>4
<1> QED BY <1>3, <1>4, <1>5, <1>6, <1>7

(* The steps on a marker: a delivery, the end of a row.                    *)
LEMMA MarkSteps ==
  ASSUME SignalAssumption, MarkersTyped, NEW d \in arriving, Mark(d)
  PROVE  /\ MarkersTyped' /\ d.of \in Variations
         /\ \A v \in Variations : v # d.of => marker'[v] = marker[v] /\ accepted'[v] = accepted[v]
         /\ marker'[d.of] # NoMarker /\ marker'[d.of].last >= d.at
         /\ marker[d.of] # NoMarker => marker'[d.of].last >= marker[d.of].last
         /\ accepted'[d.of] = AtLeast(accepted[d.of], d.version)
<1>1. d.of \in Variations /\ d.version \in Nat /\ d.at \in Nat
  BY DEF MarkersTyped
<1>2. ASSUME NEW old \in Row \cup {NoMarker}
      PROVE  /\ Marked(old, d) \in Row /\ Marked(old, d).last >= d.at
             /\ old # NoMarker => Marked(old, d).last >= old.last
  <2>1. CASE old = NoMarker
    BY <1>1, <2>1 DEF Marked, Row
  <2>2. CASE old # NoMarker
    BY <1>1, <2>2 DEF Marked, AtLeast, Row
  <2> QED BY <2>1, <2>2
<1>3. /\ marker' = [marker EXCEPT ![d.of] = Marked(marker[d.of], d)]
      /\ accepted' = [accepted EXCEPT ![d.of] = AtLeast(accepted[d.of], d.version)]
      /\ arriving' = arriving \ {d}
      /\ UNCHANGED <<truth, listed, mirror, variant, stamps, owed>>
  BY DEF Mark
<1>4. Marked(marker[d.of], d) \in Row /\ AtLeast(accepted[d.of], d.version) \in Nat
  BY <1>1, <1>2 DEF MarkersTyped, AtLeast
<1>5. MarkersTyped'
  BY <1>1, <1>3, <1>4 DEF MarkersTyped
<1>6. /\ marker'[d.of] = Marked(marker[d.of], d)
      /\ accepted'[d.of] = AtLeast(accepted[d.of], d.version)
      /\ \A v \in Variations : v # d.of => marker'[v] = marker[v] /\ accepted'[v] = accepted[v]
  BY <1>1, <1>3 DEF MarkersTyped
<1>7. NoMarker \notin Row
  BY DEF SignalAssumption, Row
<1> QED BY <1>1, <1>2, <1>4, <1>5, <1>6, <1>7 DEF MarkersTyped

LEMMA ResolveSteps ==
  ASSUME SignalAssumption, MarkersTyped, BatchTyped, Resolve
  PROVE  /\ MarkersTyped'
         /\ \A v \in Variations :
              \/ marker'[v] = marker[v] /\ owed'[v] = owed[v]
              \/ /\ marker'[v] = NoMarker /\ marker[v] # NoMarker
                 /\ marker[v].last <= batch.claimed
                 /\ IF v \in batch.found THEN owed'[v] = owed[v] ELSE owed'[v] = accepted[v]
<1> DEFINE u == batch.rows[batch.next].of
<1>1. u \in Variations
  BY RowsTyped DEF Resolve
<1>2. UNCHANGED <<truth, listed, mirror, variant, arriving, stamps, accepted>>
  BY DEF Resolve
<1>3. \/ marker' = marker /\ owed' = owed
      \/ /\ marker' = [marker EXCEPT ![u] = NoMarker]
         /\ marker[u] # NoMarker /\ marker[u].last <= batch.claimed
         /\ owed' = IF u \in batch.found THEN owed ELSE [owed EXCEPT ![u] = accepted[u]]
  BY DEF Resolve, Covered
<1> HIDE DEF u
<1>4. MarkersTyped'
  BY <1>1, <1>2, <1>3 DEF MarkersTyped
<1>5. ASSUME NEW v \in Variations
      PROVE  \/ marker'[v] = marker[v] /\ owed'[v] = owed[v]
             \/ /\ marker'[v] = NoMarker /\ marker[v] # NoMarker
                /\ marker[v].last <= batch.claimed
                /\ IF v \in batch.found THEN owed'[v] = owed[v] ELSE owed'[v] = accepted[v]
  <2>1. CASE v = u
    BY <1>1, <1>3, <2>1 DEF MarkersTyped
  <2>2. CASE v # u
    BY <1>1, <1>3, <2>2 DEF MarkersTyped
  <2> QED BY <2>1, <2>2
<1> QED BY <1>4, <1>5

LEMMA FailureSteps ==
  ASSUME SignalAssumption, MarkersTyped, BatchTyped, RecordFailure
  PROVE  /\ MarkersTyped'
         /\ \A v \in Variations :
              \/ marker'[v] = marker[v] /\ owed'[v] = owed[v]
              \/ marker'[v] = NoMarker /\ owed'[v] = accepted[v]
              \/ /\ marker'[v] # NoMarker /\ marker[v] # NoMarker
                 /\ marker'[v].last = marker[v].last /\ owed'[v] = owed[v]
<1> DEFINE u == batch.rows[batch.next].of
           row == batch.rows[batch.next].row
<1>1. u \in Variations /\ row \in Row
  BY RowsTyped DEF RecordFailure
<1>2. UNCHANGED <<truth, listed, mirror, variant, arriving, stamps, accepted>>
  BY DEF RecordFailure
<1>3. \/ marker' = marker /\ owed' = owed
      \/ marker' = [marker EXCEPT ![u] = NoMarker] /\ owed' = [owed EXCEPT ![u] = accepted[u]]
      \/ /\ marker' = [marker EXCEPT ![u] = Charged(row)] /\ marker[u] = row
         /\ owed' = owed
  BY DEF RecordFailure
<1> HIDE DEF u, row
<1>4. Charged(row) \in Row /\ Charged(row).last = row.last /\ NoMarker \notin Row
  BY <1>1 DEF Charged, Row, SignalAssumption
<1>5. MarkersTyped'
  BY <1>1, <1>2, <1>3, <1>4 DEF MarkersTyped
<1>6. ASSUME NEW v \in Variations
      PROVE  \/ marker'[v] = marker[v] /\ owed'[v] = owed[v]
             \/ marker'[v] = NoMarker /\ owed'[v] = accepted[v]
             \/ /\ marker'[v] # NoMarker /\ marker[v] # NoMarker
                /\ marker'[v].last = marker[v].last /\ owed'[v] = owed[v]
  <2>1. CASE v = u
    BY <1>1, <1>3, <1>4, <2>1 DEF MarkersTyped
  <2>2. CASE v # u
    BY <1>1, <1>3, <2>2 DEF MarkersTyped
  <2> QED BY <2>1, <2>2
<1> QED BY <1>5, <1>6

(* The steps on the figures.                                               *)
LEMMA StoreSteps ==
  ASSUME SignalsTyped
  PROVE  /\ ApplyStocks =>
              /\ batch.pc = "applying" /\ MarkersTyped'
              /\ \A v \in Variations : mirror'[v] = IF v \in BatchKept THEN batch.got[v] ELSE mirror[v]
         /\ FullApplies =>
              /\ MarkersTyped'
              /\ \A v \in Variations :
                   /\ v \in FullKept => mirror'[v] = full.got[v]
                   /\ v \in full.beaten /\ v \in full.listed => mirror'[v] = mirror[v]
                   /\ variant'[v] = "present" => v \in full.listed
                   /\ owed'[v] = IF owed[v] = full.due[v] THEN 0 ELSE owed[v]
<1>1. /\ MarkersTyped /\ batch.got \in [Variations -> Nat] /\ full.got \in [Variations -> Nat]
  BY DEF SignalsTyped, BatchTyped, BatchType, FullTyped, FullType
<1>2. ASSUME ApplyStocks
      PROVE  /\ batch.pc = "applying" /\ MarkersTyped'
             /\ \A v \in Variations : mirror'[v] = IF v \in BatchKept THEN batch.got[v] ELSE mirror[v]
  <2>1. /\ batch.pc = "applying"
        /\ mirror' = [v \in Variations |-> IF v \in BatchKept THEN batch.got[v] ELSE mirror[v]]
        /\ UNCHANGED <<truth, listed, variant, marker, arriving, stamps, accepted, owed>>
    BY <1>2 DEF ApplyStocks, BatchKept
  <2>2. mirror' \in [Variations -> Nat]
    BY <1>1, <2>1 DEF MarkersTyped
  <2> QED BY <1>1, <2>1, <2>2 DEF MarkersTyped
<1>3. ASSUME FullApplies
      PROVE  /\ MarkersTyped'
             /\ \A v \in Variations :
                  /\ v \in FullKept => mirror'[v] = full.got[v]
                  /\ v \in full.beaten /\ v \in full.listed => mirror'[v] = mirror[v]
                  /\ variant'[v] = "present" => v \in full.listed
                  /\ owed'[v] = IF owed[v] = full.due[v] THEN 0 ELSE owed[v]
  <2>1. /\ mirror' = [v \in Variations |-> IF v \in FullKept THEN full.got[v]
                                           ELSE IF v \in Known \ full.listed THEN 0 ELSE mirror[v]]
        /\ variant' = [v \in Variations |-> IF v \in full.listed THEN "present"
                                            ELSE IF v \in Known \ full.listed THEN "withdrawn"
                                            ELSE variant[v]]
        /\ owed' = [v \in Variations |-> IF owed[v] = full.due[v] THEN 0 ELSE owed[v]]
        /\ UNCHANGED <<truth, listed, marker, arriving, stamps, accepted>>
    BY <1>3 DEF FullApplies, FullKept
  <2>2. mirror' \in [Variations -> Nat]
    BY <1>1, <2>1 DEF MarkersTyped
  <2>3. variant' \in [Variations -> {"unknown", "present", "withdrawn"}]
    BY <1>1, <2>1 DEF MarkersTyped
  <2>4. owed' \in [Variations -> Nat]
    BY <1>1, <2>1 DEF MarkersTyped
  <2>5. MarkersTyped'
    BY <1>1, <2>1, <2>2, <2>3, <2>4 DEF MarkersTyped
  <2>6. ASSUME NEW v \in Variations, variant'[v] = "present" PROVE v \in full.listed
    BY <2>1, <2>6 DEF Known
  <2>7. ASSUME NEW v \in Variations
        PROVE  /\ v \in FullKept => mirror'[v] = full.got[v]
               /\ v \in full.beaten /\ v \in full.listed => mirror'[v] = mirror[v]
               /\ owed'[v] = IF owed[v] = full.due[v] THEN 0 ELSE owed[v]
    BY <2>1 DEF FullKept
  <2> QED BY <2>5, <2>6, <2>7
<1> QED BY <1>2, <1>3

LEMMA SignalsTypedKept ==
  ASSUME SignalAssumption, SignalsTyped, [SignalsNext]_signalVars
  PROVE  SignalsTyped'
<1>0. MarkersTyped /\ BatchTyped /\ FullTyped
  BY DEF SignalsTyped
<1>1. UNCHANGED batch => BatchTyped'
  BY <1>0 DEF BatchTyped
<1>2. UNCHANGED full => FullTyped'
  BY <1>0 DEF FullTyped
<1>3. UNCHANGED <<truth, listed, mirror, variant, marker, arriving, stamps, accepted, owed>> =>
        MarkersTyped'
  BY <1>0 DEF MarkersTyped
<1>4. ASSUME NEW pc \in {"asleep", "dead"}, NEW claimed, NEW rows, NEW found, NEW beaten,
             BatchIs(pc, claimed, rows, found, beaten)
      PROVE  BatchTyped'
  BY <1>4 DEF BatchIs, BatchTyped
<1>5. batch' = NoBatch => BatchTyped'
  BY <1>4, NoBatchTyped
<1>6. ASSUME NEW pc, NEW claimed, NEW rows, NEW found, NEW beaten,
             BatchIs(pc, claimed, rows, found, beaten), pc # "claimed",
             batch'.next <= Len(batch'.rows)
      PROVE  BatchTyped'
  BY <1>6 DEF BatchIs, BatchTyped
<1>7. ASSUME NEW after, NEW found, BatchWalks(after, found),
             batch.pc # "claimed", after # "claimed"
      PROVE  BatchTyped'
  BY <1>6, <1>7 DEF BatchWalks
<1>8. full' = NoFull => FullTyped'
  BY NoFullTyped DEF FullIs, FullTyped
<1>9. ASSUME NEW v \in Variations, Change(v) \/ Deliver(v) PROVE SignalsTyped'
  <2>1. CASE Change(v)
    <3>1. listed' \subseteq Variations /\ truth' \in [Variations -> Nat]
      BY <1>0, <2>1 DEF Change, MarkersTyped
    <3>2. MarkersTyped'
      BY <1>0, <2>1, <3>1 DEF Change, MarkersTyped
    <3> QED BY <1>1, <1>2, <2>1, <3>2 DEF Change, SignalsTyped
  <2>2. CASE Deliver(v)
    <3>1. PICK n \in 1..truth[v] :
            arriving' = arriving \cup {[of |-> v, version |-> n, at |-> stamps + 1]}
      BY <2>2 DEF Deliver
    <3>2. n \in Nat /\ stamps + 1 \in Nat
      BY <1>0, <3>1 DEF MarkersTyped
    <3>3. MarkersTyped'
      BY <1>0, <2>2, <3>1, <3>2 DEF Deliver, MarkersTyped
    <3> QED BY <1>1, <1>2, <2>2, <3>3 DEF Deliver, SignalsTyped
  <2> QED BY <1>9, <2>1, <2>2
<1>10. ASSUME NEW d \in arriving, Mark(d) \/ MarkFails(d) PROVE SignalsTyped'
  <2>1. CASE Mark(d)
    BY <1>0, <1>1, <1>2, <2>1, MarkSteps DEF Mark, SignalsTyped
  <2>2. CASE MarkFails(d)
    BY <1>0, <1>1, <1>2, <2>2 DEF MarkFails, MarkersTyped, SignalsTyped
  <2> QED BY <1>10, <2>1, <2>2
<1>11. CASE Claim
  <2>1. BatchTyped'
    BY <1>11, BatchSteps DEF BatchIs, BatchTyped
  <2> QED BY <1>2, <1>3, <1>11, <2>1 DEF Claim, SignalsTyped
<1>12. CASE ListPending
  <2>1. BatchTyped'
    BY <1>5, <1>6, <1>12, BatchSteps
  <2>2. FullTyped'
    BY <1>0, <1>12, FullSteps DEF FullIs, FullTyped
  <2> QED BY <1>3, <1>12, <2>1, <2>2 DEF ListPending, SignalsTyped
<1>13. CASE ReadChunk \/ ChunkFails
  <2>1. /\ BatchTyped' /\ UNCHANGED full
        /\ UNCHANGED <<truth, listed, mirror, variant, marker, arriving, stamps, accepted, owed>>
    BY <1>7, <1>13, BatchSteps DEF ReadChunk, ChunkFails
  <2> QED BY <1>2, <1>3, <2>1 DEF SignalsTyped
<1>14. CASE ApplyStocks
  <2>1. batch'.next = batch.next /\ batch'.rows = batch.rows /\ batch.next <= Len(batch.rows)
    BY <1>0, <1>14, BatchSteps DEF ApplyStocks, BatchIs, BatchTyped
  <2>2. BatchTyped'
    BY <1>6, <1>14, <2>1, BatchSteps
  <2>3. FullTyped'
    BY <1>0, <1>14, FullSteps DEF FullIs, FullTyped
  <2> QED BY <1>14, <2>2, <2>3, StoreSteps DEF SignalsTyped
<1>15. CASE ApplyFails
  <2>1. batch'.next = batch.next /\ batch'.rows = batch.rows /\ batch.next <= Len(batch.rows)
    BY <1>0, <1>15, BatchSteps DEF ApplyFails, BatchIs, BatchTyped
  <2>2. BatchTyped'
    BY <1>6, <1>15, <2>1, BatchSteps
  <2> QED BY <1>2, <1>3, <1>15, <2>2 DEF ApplyFails, SignalsTyped
<1>16. CASE Resolve
  <2>1. BatchTyped' /\ UNCHANGED full
    BY <1>7, <1>16, BatchSteps DEF Resolve
  <2> QED BY <1>0, <1>2, <1>16, <2>1, ResolveSteps DEF SignalsTyped
<1>17. CASE RecordFailure
  <2>1. BatchTyped' /\ UNCHANGED full
    BY <1>5, <1>6, <1>17, BatchSteps DEF RecordFailure
  <2> QED BY <1>0, <1>2, <1>17, <2>1, FailureSteps DEF SignalsTyped
<1>18. CASE BatchDies
  BY <1>2, <1>3, <1>4, <1>18, NoBatchTyped DEF BatchDies, SignalsTyped
<1>19. CASE FullBegins \/ FullReads
  <2>1. FullTyped'
    BY <1>0, <1>19, FullSteps DEF FullIs, FullTyped
  <2> QED BY <1>1, <1>3, <1>19, <2>1 DEF FullBegins, FullReads, SignalsTyped
<1>20. CASE FullApplies
  <2>1. BatchTyped'
    <3>1. ASSUME BatchIs(batch.pc, batch.claimed, batch.rows, batch.found, batch.beaten \cup FullKept),
                 batch'.next = batch.next
          PROVE  BatchTyped'
      BY <1>0, <3>1 DEF BatchIs, BatchTyped
    <3> QED BY <1>1, <1>20, <3>1, FullSteps
  <2>2. FullTyped'
    BY <1>8, <1>20 DEF FullApplies
  <2> QED BY <1>20, <2>1, <2>2, StoreSteps DEF SignalsTyped
<1>21. CASE FullFails
  BY <1>1, <1>3, <1>8, <1>21 DEF FullFails, SignalsTyped
<1>22. CASE UNCHANGED signalVars
  BY <1>1, <1>2, <1>3, <1>22 DEF signalVars, SignalsTyped
<1> QED BY <1>9, <1>10, <1>11, <1>12, <1>13, <1>14, <1>15, <1>16, <1>17, <1>18,
           <1>19, <1>20, <1>21, <1>22 DEF SignalsNext, Batch

(* Versions and stamps.                                                    *)
LEMMA AnnouncedKept ==
  ASSUME SignalAssumption, SignalsTyped, Announced, [SignalsNext]_signalVars
  PROVE  Announced'
<1>0. MarkersTyped /\ BatchTyped /\ FullTyped
  BY DEF SignalsTyped
<1>1. batch.claimed \in Nat /\ stamps \in Nat
  BY <1>0 DEF MarkersTyped, BatchTyped, BatchType
<1>2. ASSUME UNCHANGED <<truth, accepted, arriving, stamps, owed>>,
             batch'.claimed \in {batch.claimed, stamps, 0}
      PROVE  Announced'
  BY <1>1, <1>2 DEF Announced
<1>3. ASSUME UNCHANGED <<truth, accepted, arriving, stamps>>,
             batch'.claimed \in {batch.claimed, 0},
             \A v \in Variations : owed'[v] \in {owed[v], accepted[v], 0}
      PROVE  Announced'
  BY <1>0, <1>1, <1>3 DEF Announced, MarkersTyped
<1>4. ASSUME NEW v \in Variations, Change(v) PROVE Announced'
  BY <1>0, <1>4 DEF Change, MarkersTyped, Announced
<1>5. ASSUME NEW v \in Variations, Deliver(v) PROVE Announced'
  <2>1. PICK n \in 1..truth[v] :
          arriving' = arriving \cup {[of |-> v, version |-> n, at |-> stamps + 1]}
    BY <1>5 DEF Deliver
  <2>2. n <= truth[v] /\ stamps' = stamps + 1 /\ UNCHANGED <<truth, accepted, owed, batch>>
    BY <1>0, <1>5, <2>1 DEF Deliver, MarkersTyped
  <2>3. ASSUME NEW d \in arriving' PROVE d.version <= truth[d.of] /\ d.at <= stamps + 1
    <3>1. CASE d \in arriving
      <4>1. d.at \in Nat
        BY <1>0, <3>1 DEF MarkersTyped
      <4> QED BY <1>1, <3>1, <4>1 DEF Announced
    <3>2. CASE d = [of |-> v, version |-> n, at |-> stamps + 1]
      BY <1>1, <2>2, <3>2
    <3> QED BY <2>1, <3>1, <3>2
  <2> QED BY <1>1, <2>2, <2>3 DEF Announced
<1>6. ASSUME NEW d \in arriving, Mark(d) PROVE Announced'
  <2>1. /\ d.of \in Variations /\ d.version <= truth[d.of]
        /\ accepted'[d.of] = AtLeast(accepted[d.of], d.version)
        /\ \A v \in Variations : v # d.of => accepted'[v] = accepted[v]
    BY <1>0, <1>6, MarkSteps DEF Announced
  <2>2. arriving' \subseteq arriving /\ UNCHANGED <<truth, owed, stamps, batch>>
    BY <1>6 DEF Mark
  <2>3. accepted[d.of] \in Nat /\ owed[d.of] \in Nat /\ d.version \in Nat
    BY <1>0, <2>1 DEF MarkersTyped
  <2>4. accepted'[d.of] <= truth[d.of] /\ owed[d.of] <= accepted'[d.of]
    BY <2>1, <2>3 DEF Announced, AtLeast
  <2> QED BY <2>1, <2>2, <2>4 DEF Announced
<1>7. ASSUME NEW d \in arriving, MarkFails(d) PROVE Announced'
  BY <1>7 DEF MarkFails, Announced
<1>8. CASE Claim \/ ListPending \/ ApplyStocks \/ ApplyFails
  BY <1>2, <1>8, BatchSteps, NoBatchTyped
  DEF BatchIs, Claim, ListPending, ApplyStocks, ApplyFails
<1>9. CASE ReadChunk \/ ChunkFails
  BY <1>2, <1>9, BatchSteps DEF BatchWalks, BatchIs, ReadChunk, ChunkFails
<1>10. CASE Resolve
  <2>1. \A v \in Variations : owed'[v] \in {owed[v], accepted[v]}
    BY <1>0, <1>10, ResolveSteps
  <2>2. batch'.claimed = batch.claimed
    BY <1>10, BatchSteps DEF BatchWalks, BatchIs
  <2> QED BY <1>3, <1>10, <2>1, <2>2 DEF Resolve
<1>11. CASE RecordFailure
  <2>1. \A v \in Variations : owed'[v] \in {owed[v], accepted[v]}
    BY <1>0, <1>11, FailureSteps
  <2>2. batch'.claimed \in {batch.claimed, 0}
    BY <1>11, BatchSteps, NoBatchTyped DEF BatchIs
  <2> QED BY <1>3, <1>11, <2>1, <2>2 DEF RecordFailure
<1>12. CASE BatchDies
  BY <1>2, <1>12, NoBatchTyped DEF BatchDies, BatchIs
<1>13. CASE FullApplies
  <2>1. \A v \in Variations : owed'[v] \in {owed[v], 0}
    BY <1>13, StoreSteps
  <2>2. batch'.claimed = batch.claimed
    BY <1>13, FullSteps DEF BatchIs
  <2> QED BY <1>3, <1>13, <2>1, <2>2 DEF FullApplies
<1>14. CASE FullBegins \/ FullReads \/ FullFails \/ UNCHANGED signalVars
  BY <1>2, <1>14 DEF FullBegins, FullReads, FullFails, signalVars
<1> QED BY <1>4, <1>5, <1>6, <1>7, <1>8, <1>9, <1>10, <1>11, <1>12, <1>13, <1>14
        DEF SignalsNext, Batch

LEMMA OverlapKept ==
  ASSUME SignalAssumption, SignalsTyped, Overlap, [SignalsNext]_signalVars
  PROVE  Overlap'
<1>0. MarkersTyped /\ BatchTyped /\ FullTyped
  BY DEF SignalsTyped
<1>1. ASSUME UNCHANGED <<batch, full>> PROVE Overlap'
  BY <1>1 DEF Overlap, Reading
<1>2. ASSUME UNCHANGED full, batch'.beaten = {} PROVE Overlap'
  BY <1>2 DEF Overlap
<1>3. batch' = NoBatch => batch'.beaten = {}
  BY NoBatchTyped DEF BatchIs
<1>4. full' = NoFull => full'.pc = "asleep" /\ ~full'.later
  BY NoFullTyped DEF FullIs
<1>5. CASE Claim \/ ApplyFails \/ BatchDies
  BY <1>2, <1>5, BatchSteps, NoBatchTyped DEF BatchIs, Claim, ApplyFails, BatchDies
<1>6. CASE ListPending
  <2>1. batch.beaten = {}
    BY <1>6 DEF ListPending, Overlap, Reading
  <2>2. batch'.beaten = {} /\ ~full'.later
    BY <1>3, <1>6, <2>1, BatchSteps, FullSteps DEF BatchIs, FullIs
  <2> QED BY <2>2 DEF Overlap
<1>7. CASE ReadChunk \/ ChunkFails
  <2>1. /\ UNCHANGED full /\ batch'.pc \in {"reading", "applying"}
        /\ batch'.beaten = batch.beaten
    BY <1>7, BatchSteps DEF BatchWalks, BatchIs, ReadChunk, ChunkFails
  <2> QED BY <2>1 DEF Overlap, Reading
<1>8. CASE ApplyStocks
  <2>1. batch'.beaten = {}
    BY <1>8, BatchSteps DEF BatchIs
  <2>2. full' = full \/ ~full'.later
    BY <1>8, FullSteps DEF FullIs
  <2> QED BY <2>1, <2>2 DEF Overlap
<1>9. CASE Resolve \/ RecordFailure
  <2>1. batch.beaten = {} /\ UNCHANGED full
    BY <1>9 DEF Resolve, RecordFailure, Overlap, Reading
  <2>2. batch'.beaten = {}
    BY <1>3, <1>9, <2>1, BatchSteps DEF BatchWalks, BatchIs
  <2> QED BY <1>2, <2>1, <2>2
<1>10. CASE FullBegins
  <2>1. UNCHANGED batch /\ full'.beaten = {} /\ full'.later = Reading
    BY <1>10, FullSteps DEF FullIs, FullBegins
  <2>2. CASE Reading
    BY <2>1, <2>2 DEF Overlap, Reading
  <2>3. CASE ~Reading
    BY <2>1, <2>3 DEF Overlap, Reading
  <2> QED BY <2>2, <2>3
<1>11. CASE FullReads
  <2>1. /\ UNCHANGED batch /\ full.pc # "asleep"
        /\ full'.beaten = full.beaten /\ full'.later = full.later
    BY <1>11, FullSteps DEF FullIs, FullReads
  <2> QED BY <2>1 DEF Overlap, Reading
<1>12. CASE FullApplies
  <2>1. full'.pc = "asleep" /\ ~full'.later
    BY <1>12, FullSteps DEF FullIs
  <2>2. batch' = batch \/ (Reading /\ batch'.pc = batch.pc)
    BY <1>12, FullSteps DEF BatchIs
  <2> QED BY <2>1, <2>2 DEF Overlap, Reading
<1>13. CASE FullFails
  BY <1>4, <1>13 DEF FullFails, Overlap, Reading
<1>14. ASSUME NEW v \in Variations, Change(v) \/ Deliver(v) PROVE Overlap'
  BY <1>1, <1>14 DEF Change, Deliver
<1>15. ASSUME NEW d \in arriving, Mark(d) \/ MarkFails(d) PROVE Overlap'
  BY <1>1, <1>15 DEF Mark, MarkFails
<1>16. CASE UNCHANGED signalVars
  BY <1>1, <1>16 DEF signalVars
<1> QED BY <1>5, <1>6, <1>7, <1>8, <1>9, <1>10, <1>11, <1>12, <1>13, <1>14, <1>15, <1>16
        DEF SignalsNext, Batch

(* What is read now covers every delivery stamped so far.                  *)
LEMMA TruthCovers ==
  ASSUME Announced, MarkersTyped, NEW v \in Variations
  PROVE  Covers(v, truth[v]) /\ Safe(v, truth[v])
BY DEF Announced, MarkersTyped, Covers, Safe

(* A figure that covers the claim goes on covering it while deliveries     *)
(* arrive: they are stamped after the claim.                               *)
StillCovers(v, n) ==
  /\ accepted'[v] > n => marker'[v] # NoMarker /\ marker'[v].last > batch'.claimed
  /\ \A d \in arriving' : d.of = v /\ d.version > n => d.at > batch'.claimed

Endpoint ==
  \/ \E v \in Variations : Change(v) \/ Deliver(v)
  \/ \E d \in arriving : Mark(d) \/ MarkFails(d)

LEMMA CoversKept ==
  ASSUME SignalAssumption, SignalsTyped, Announced, batch'.claimed = batch.claimed,
         Endpoint \/ UNCHANGED <<marker, arriving, accepted>>,
         NEW v \in Variations, NEW n \in Nat, Covers(v, n)
  PROVE  StillCovers(v, n)
<1>1. MarkersTyped /\ batch.claimed \in Nat /\ stamps \in Nat
  BY DEF SignalsTyped, MarkersTyped, BatchTyped, BatchType
<1>2. CASE UNCHANGED <<marker, arriving, accepted>>
  BY <1>2 DEF Covers, StillCovers
<1>3. ASSUME NEW u \in Variations, Change(u) PROVE StillCovers(v, n)
  BY <1>3 DEF Change, Covers, StillCovers
<1>4. ASSUME NEW u \in Variations, Deliver(u) PROVE StillCovers(v, n)
  <2>1. PICK m \in 1..truth[u] :
          arriving' = arriving \cup {[of |-> u, version |-> m, at |-> stamps + 1]}
    BY <1>4 DEF Deliver
  <2>2. UNCHANGED <<marker, accepted>> /\ batch.claimed <= stamps
    BY <1>4 DEF Deliver, Announced
  <2>3. ASSUME NEW d \in arriving', d.of = v, d.version > n PROVE d.at > batch.claimed
    <3>1. CASE d \in arriving
      BY <2>3, <3>1 DEF Covers
    <3>2. CASE d = [of |-> u, version |-> m, at |-> stamps + 1]
      BY <1>1, <2>2, <3>2
    <3> QED BY <2>1, <3>1, <3>2
  <2> QED BY <2>2, <2>3 DEF Covers, StillCovers
<1>5. ASSUME NEW d \in arriving, Mark(d) PROVE StillCovers(v, n)
  <2>1. arriving' \subseteq arriving
    BY <1>5 DEF Mark
  <2>2. CASE v # d.of
    BY <1>1, <1>5, <2>1, <2>2, MarkSteps DEF Covers, StillCovers
  <2>3. CASE v = d.of
    <3>1. /\ marker'[v] # NoMarker /\ marker'[v].last >= d.at /\ marker'[v] \in Row \cup {NoMarker}
          /\ marker[v] # NoMarker => marker'[v].last >= marker[v].last
          /\ marker[v] \in Row \cup {NoMarker}
          /\ accepted'[v] = accepted[v] \/ accepted'[v] = d.version
      BY <1>1, <1>5, <2>3, MarkSteps DEF MarkersTyped, AtLeast
    <3>2. d.version > n => d.at > batch.claimed
      BY <2>3 DEF Covers
    <3>3. d.at \in Nat /\ marker'[v].last \in Nat /\ (marker[v] # NoMarker => marker[v].last \in Nat)
      BY <1>1, <3>1 DEF MarkersTyped, Row
    <3>4. accepted'[v] > n => marker'[v].last > batch.claimed
      BY <1>1, <3>1, <3>2, <3>3 DEF Covers
    <3> QED BY <2>1, <3>1, <3>4 DEF Covers, StillCovers
  <2> QED BY <2>2, <2>3
<1>6. ASSUME NEW d \in arriving, MarkFails(d) PROVE StillCovers(v, n)
  BY <1>6 DEF MarkFails, Covers, StillCovers
<1> QED BY <1>2, <1>3, <1>4, <1>5, <1>6 DEF Endpoint

LEMMA RememberedKept ==
  ASSUME SignalAssumption, SignalsInv, [SignalsNext]_signalVars
  PROVE  Remembered'
<1>0. /\ MarkersTyped /\ BatchTyped /\ FullTyped /\ SignalsTyped
      /\ Announced /\ Remembered /\ Brings /\ ReadsCover
  BY DEF SignalsInv, SignalsTyped
<1>1. ASSUME UNCHANGED <<mirror, variant, marker, accepted, owed>>,
             full'.beaten \subseteq full.beaten,
             \A v \in Variations : Stores(v)' => Stores(v) /\ full'.got = full.got
      PROVE  Remembered'
  BY <1>0, <1>1 DEF Remembered, Sold, Safe
<1>2. ASSUME UNCHANGED full PROVE /\ full'.beaten \subseteq full.beaten
                                  /\ \A v \in Variations : Stores(v)' => Stores(v) /\ full'.got = full.got
  BY <1>2 DEF Stores
<1>3. ASSUME NEW v \in Variations, Change(v) \/ Deliver(v) PROVE Remembered'
  BY <1>1, <1>2, <1>3 DEF Change, Deliver
<1>4. ASSUME NEW d \in arriving, MarkFails(d) PROVE Remembered'
  BY <1>1, <1>2, <1>4 DEF MarkFails
<1>5. ASSUME NEW d \in arriving, Mark(d) PROVE Remembered'
  <2>1. UNCHANGED <<mirror, variant, owed, full>>
    BY <1>5 DEF Mark
  <2>2. /\ marker'[d.of] # NoMarker
        /\ \A v \in Variations : v # d.of => marker'[v] = marker[v] /\ accepted'[v] = accepted[v]
    BY <1>0, <1>5, MarkSteps
  <2>3. ASSUME NEW v \in Variations
        PROVE  /\ Sold(v) => Safe(v, mirror[v])'
               /\ Stores(v) => Safe(v, full.got[v])'
    BY <1>0, <2>1, <2>2 DEF Remembered, Safe
  <2> QED BY <2>1, <2>3 DEF Remembered, Sold, Stores
<1>6. CASE Claim \/ ReadChunk \/ ChunkFails \/ ApplyFails \/ BatchDies
  BY <1>1, <1>2, <1>6 DEF Claim, ReadChunk, ChunkFails, ApplyFails, BatchDies
<1>7. CASE ListPending
  <2>1. /\ full'.pc = full.pc /\ full'.beaten = full.beaten
        /\ full'.listed = full.listed /\ full'.got = full.got
    BY <1>0, <1>7, FullSteps DEF FullIs
  <2> QED BY <1>1, <1>7, <2>1 DEF ListPending, Stores
<1>8. CASE ApplyStocks
  <2>1. /\ batch.pc = "applying" /\ UNCHANGED <<variant, marker, accepted, owed>>
        /\ \A v \in Variations : mirror'[v] = IF v \in BatchKept THEN batch.got[v] ELSE mirror[v]
    BY <1>0, <1>8, StoreSteps DEF ApplyStocks
  <2>2. /\ full'.pc = full.pc /\ full'.listed = full.listed /\ full'.got = full.got
        /\ full.beaten \subseteq full'.beaten /\ full'.beaten \subseteq full.beaten \cup BatchKept
    BY <1>0, <1>8, FullSteps DEF FullIs
  <2>3. \A v \in BatchKept : Safe(v, batch.got[v])
    BY <1>0, <2>1 DEF BatchKept, ReadsCover, Reading, GotCovers, Covers, Safe
  <2>4. ASSUME NEW v \in Variations, Sold(v)' PROVE Safe(v, mirror'[v])
    <3>1. CASE v \in BatchKept
      BY <2>1, <2>3, <3>1
    <3>2. CASE v \notin BatchKept
      BY <1>0, <2>1, <2>2, <2>4, <3>2 DEF Remembered, Sold
    <3> QED BY <3>1, <3>2
  <2>5. ASSUME NEW v \in Variations, Stores(v)' PROVE Safe(v, full'.got[v])
    BY <1>0, <2>2, <2>5 DEF Remembered, Stores
  <2> QED BY <2>1, <2>4, <2>5 DEF Remembered, Safe
<1>9. CASE Resolve
  <2>1. UNCHANGED <<mirror, variant, accepted, full>> /\ batch.pc = "clearing"
    BY <1>9 DEF Resolve
  <2>2. ASSUME NEW v \in Variations
        PROVE  /\ Sold(v) => Safe(v, mirror[v])'
               /\ Stores(v) => Safe(v, full.got[v])'
    <3>1. CASE marker'[v] = marker[v] /\ owed'[v] = owed[v]
      BY <1>0, <2>1, <3>1 DEF Remembered, Safe
    <3>2. CASE v \notin batch.found /\ owed'[v] = accepted[v]
      BY <1>0, <2>1, <3>2 DEF Safe, MarkersTyped
    <3>3. CASE /\ v \in batch.found /\ marker[v] # NoMarker
               /\ marker[v].last <= batch.claimed
      <4>1. marker[v].last \in Nat /\ batch.claimed \in Nat
        BY <1>0, <3>3 DEF MarkersTyped, BatchTyped, BatchType, Row
      <4>2. /\ Sold(v) => Covers(v, mirror[v])
            /\ Stores(v) => Covers(v, full.got[v])
        BY <1>0, <2>1, <3>3 DEF ReadsCover, StoredCovers
      <4>3. /\ Sold(v) => ~(accepted[v] > mirror[v])
            /\ Stores(v) => ~(accepted[v] > full.got[v])
        BY <3>3, <4>1, <4>2 DEF Covers
      <4> QED BY <2>1, <4>3 DEF Safe
    <3> QED BY <1>0, <1>9, <3>1, <3>2, <3>3, ResolveSteps
  <2> QED BY <2>1, <2>2 DEF Remembered, Sold, Stores
<1>10. CASE RecordFailure
  <2>1. UNCHANGED <<mirror, variant, accepted, full>>
    BY <1>10 DEF RecordFailure
  <2>2. ASSUME NEW v \in Variations
        PROVE  /\ Sold(v) => Safe(v, mirror[v])'
               /\ Stores(v) => Safe(v, full.got[v])'
    <3>1. \/ marker'[v] = marker[v] /\ owed'[v] = owed[v]
          \/ owed'[v] = accepted[v] /\ accepted[v] \in Nat
          \/ marker'[v] # NoMarker
      BY <1>0, <1>10, FailureSteps DEF MarkersTyped
    <3> QED BY <1>0, <2>1, <3>1 DEF Remembered, Safe
  <2> QED BY <2>1, <2>2 DEF Remembered, Sold, Stores
<1>11. CASE FullBegins
  <2>1. full'.pc = "reading" /\ full'.beaten = {}
    BY <1>0, <1>11, FullSteps DEF FullIs
  <2> QED BY <1>1, <1>11, <2>1 DEF FullBegins, Stores
<1>12. CASE FullReads
  <2>1. /\ UNCHANGED <<mirror, variant, marker, accepted, owed>>
        /\ full'.got = truth /\ full'.beaten = full.beaten
    BY <1>0, <1>12, FullSteps DEF FullReads, FullIs
  <2>2. \A v \in Variations : Safe(v, truth[v])
    BY <1>0, TruthCovers
  <2>3. ASSUME NEW v \in Variations
        PROVE  (Sold(v) => Safe(v, mirror[v])) /\ Safe(v, truth[v])
    BY <1>0, <2>2 DEF Remembered
  <2> QED BY <2>1, <2>3 DEF Remembered, Sold, Safe
<1>13. CASE FullApplies
  <2>1. /\ full.pc = "applying" /\ UNCHANGED <<marker, accepted>>
        /\ full'.pc = "asleep" /\ full'.beaten = {}
    BY <1>0, <1>13, FullSteps DEF FullApplies, FullIs
  <2>2. \A v \in Variations : ~Stores(v)' /\ (Sold(v)' => variant'[v] = "present")
    BY <2>1 DEF Stores, Sold
  <2>3. ASSUME NEW v \in Variations, variant'[v] = "present"
        PROVE  Safe(v, mirror[v])'
    <3>1. /\ v \in full.listed /\ (v \in FullKept => mirror'[v] = full.got[v])
          /\ v \in full.beaten => mirror'[v] = mirror[v]
          /\ owed'[v] = IF owed[v] = full.due[v] THEN 0 ELSE owed[v]
      BY <1>0, <1>13, <2>3, StoreSteps
    <3>2. Safe(v, mirror'[v]) /\ full.due[v] <= mirror'[v]
      <4>1. CASE v \in full.beaten
        BY <1>0, <3>1, <4>1 DEF Remembered, Brings, Sold
      <4>2. CASE v \notin full.beaten
        BY <1>0, <2>1, <3>1, <4>2 DEF FullKept, Remembered, Brings, Stores
      <4> QED BY <4>1, <4>2
    <3>3. full.due[v] \in Nat /\ owed[v] \in Nat /\ accepted[v] \in Nat
      BY <1>0 DEF MarkersTyped, FullTyped, FullType
    <3>4. mirror'[v] \in Nat
      <4>1. MarkersTyped'
        BY <1>0, <1>13, StoreSteps
      <4> QED BY <4>1 DEF MarkersTyped
    <3>5. ASSUME accepted[v] > mirror'[v], marker[v] = NoMarker PROVE owed'[v] >= accepted[v]
      BY <3>1, <3>2, <3>3, <3>4, <3>5 DEF Safe
    <3> QED BY <2>1, <3>5 DEF Safe
  <2> QED BY <2>2, <2>3 DEF Remembered, Safe
<1>14. CASE FullFails
  <2>1. full'.pc = "asleep" /\ full'.beaten = {}
    BY <1>14, NoFullTyped DEF FullFails, FullIs
  <2> QED BY <1>1, <1>14, <2>1 DEF FullFails, Stores
<1>15. CASE UNCHANGED signalVars
  BY <1>1, <1>2, <1>15 DEF signalVars
<1> QED BY <1>3, <1>4, <1>5, <1>6, <1>7, <1>8, <1>9, <1>10, <1>11, <1>12, <1>13, <1>14, <1>15
        DEF SignalsNext, Batch

LEMMA BringsKept ==
  ASSUME SignalAssumption, SignalsInv, [SignalsNext]_signalVars
  PROVE  Brings'
<1>0. /\ MarkersTyped /\ BatchTyped /\ FullTyped /\ SignalsTyped
      /\ Announced /\ Brings /\ Overlap
  BY DEF SignalsInv, SignalsTyped
<1> DEFINE Old(v) == /\ full.pc # "asleep" => full.due[v] <= truth[v]
                     /\ full.pc = "applying" => full.due[v] <= full.got[v]
                     /\ v \in full.beaten => full.due[v] <= mirror[v]
<1>1. \A v \in Variations : Old(v)
  BY <1>0 DEF Brings
<1>2. ASSUME UNCHANGED <<truth, mirror, full>>,
             \/ batch'.pc \notin {"reading", "applying"}
             \/ UNCHANGED batch
      PROVE  Brings'
  BY <1>0, <1>2 DEF Brings, Reading
<1>3. batch' = NoBatch => batch'.pc = "asleep"
  BY NoBatchTyped DEF BatchIs
<1>4. full'.pc = "asleep" /\ full'.beaten = {} => Brings'
  BY DEF Brings
<1>5. ASSUME NEW u \in Variations, Change(u) PROVE Brings'
  <2>1. UNCHANGED <<mirror, full, batch>>
    BY <1>5 DEF Change
  <2>2. ASSUME NEW v \in Variations PROVE truth[v] <= truth'[v] /\ truth'[v] \in Nat /\ truth[v] \in Nat
    BY <1>0, <1>5 DEF Change, MarkersTyped
  <2>3. \A v \in Variations : full.due[v] \in Nat
    BY <1>0 DEF FullTyped, FullType
  <2>4. ASSUME NEW v \in Variations PROVE full.pc # "asleep" => full.due[v] <= truth'[v]
    BY <1>1, <2>2, <2>3
  <2> QED BY <1>0, <2>1, <2>4 DEF Brings, Reading
<1>6. ASSUME NEW u \in Variations, Deliver(u) PROVE Brings'
  BY <1>2, <1>6 DEF Deliver
<1>7. ASSUME NEW d \in arriving, Mark(d) \/ MarkFails(d) PROVE Brings'
  BY <1>2, <1>7 DEF Mark, MarkFails
<1>8. CASE Claim \/ ApplyFails \/ BatchDies
  BY <1>0, <1>2, <1>8, BatchSteps, NoBatchTyped DEF BatchIs, Claim, ApplyFails, BatchDies
<1>9. CASE ListPending
  <2>1. batch'.pc = "asleep" \/ batch'.found = {}
    BY <1>0, <1>3, <1>9, BatchSteps DEF BatchIs
  <2>2. /\ full'.pc = full.pc /\ full'.beaten = full.beaten /\ full'.got = full.got
        /\ full'.due = full.due /\ UNCHANGED <<truth, mirror>>
    BY <1>0, <1>9, FullSteps DEF FullIs, ListPending
  <2> QED BY <1>1, <2>1, <2>2 DEF Brings, Reading
<1>10. CASE ReadChunk
  <2>1. /\ batch'.found = batch.found \cup (Chunk \cap listed) /\ batch.pc = "reading"
        /\ batch'.got = [v \in Variations |-> IF v \in Chunk \cap listed THEN truth[v] ELSE batch.got[v]]
        /\ UNCHANGED <<truth, mirror, full>>
    BY <1>0, <1>10, BatchSteps DEF ReadChunk, BatchWalks, BatchIs
  <2>2. ASSUME NEW v \in Variations, v \in batch'.found, full.pc # "asleep", ~full.later
        PROVE  full.due[v] <= batch'.got[v]
    <3>1. CASE v \in Chunk \cap listed
      BY <1>1, <2>1, <2>2, <3>1
    <3>2. CASE v \notin Chunk \cap listed
      BY <1>0, <2>1, <2>2, <3>2 DEF Brings, Reading
    <3> QED BY <3>1, <3>2
  <2> QED BY <1>1, <2>1, <2>2 DEF Brings
<1>11. CASE ChunkFails
  <2>1. /\ batch'.found = batch.found /\ batch.pc = "reading" /\ batch'.got = batch.got
        /\ UNCHANGED <<truth, mirror, full>>
    BY <1>0, <1>11, BatchSteps DEF ChunkFails, BatchWalks, BatchIs
  <2> QED BY <1>0, <2>1 DEF Brings, Reading
<1>12. CASE ApplyStocks
  <2>1. batch'.pc = "clearing" /\ UNCHANGED truth
    BY <1>0, <1>12, BatchSteps DEF BatchIs, ApplyStocks
  <2>2. /\ full'.pc = full.pc /\ full'.got = full.got /\ full'.due = full.due
        /\ \/ full'.beaten = full.beaten
           \/ /\ full'.beaten = full.beaten \cup BatchKept
              /\ full.pc # "asleep" /\ ~full.later
    BY <1>0, <1>12, FullSteps DEF FullIs
  <2>3. /\ batch.pc = "applying"
        /\ \A v \in Variations : mirror'[v] = IF v \in BatchKept THEN batch.got[v] ELSE mirror[v]
    BY <1>0, <1>12, StoreSteps
  <2>4. ASSUME NEW v \in Variations, v \in full'.beaten PROVE full.due[v] <= mirror'[v]
    <3>1. CASE v \in BatchKept /\ full.pc # "asleep" /\ ~full.later
      BY <1>0, <2>3, <3>1 DEF BatchKept, Brings, Reading
    <3>2. CASE v \in BatchKept /\ ~(full.pc # "asleep" /\ ~full.later)
      BY <1>0, <2>2, <2>4, <3>2 DEF Overlap, FullTyped
    <3>3. CASE v \notin BatchKept
      BY <1>1, <2>2, <2>3, <2>4, <3>3
    <3> QED BY <3>1, <3>2, <3>3
  <2> QED BY <1>1, <2>1, <2>2, <2>4 DEF Brings, Reading
<1>13. CASE Resolve
  <2>1. batch'.pc \in {"clearing", "charging"}
    BY <1>0, <1>13, BatchSteps DEF BatchWalks, BatchIs, Resolve
  <2> QED BY <1>2, <1>13, <2>1 DEF Resolve
<1>14. CASE RecordFailure
  <2>1. batch'.pc \in {"asleep", "charging"}
    BY <1>0, <1>3, <1>14, BatchSteps DEF BatchIs
  <2> QED BY <1>2, <1>14, <2>1 DEF RecordFailure
<1>15. CASE FullBegins
  <2>1. /\ full'.pc = "reading" /\ full'.beaten = {} /\ full'.later = Reading
        /\ full'.due = owed /\ UNCHANGED <<truth, batch>>
    BY <1>0, <1>15, FullSteps DEF FullIs, FullBegins
  <2>2. ASSUME NEW v \in Variations PROVE owed[v] <= truth[v]
    <3>1. owed[v] \in Nat /\ accepted[v] \in Nat /\ truth[v] \in Nat
      BY <1>0 DEF MarkersTyped
    <3> QED BY <1>0, <3>1 DEF Announced
  <2> QED BY <2>1, <2>2 DEF Brings, Reading
<1>16. CASE FullReads
  <2>1. /\ full'.pc = "applying" /\ full'.beaten = full.beaten /\ full'.later = full.later
        /\ full'.due = full.due /\ full'.got = truth /\ full.pc # "asleep"
        /\ UNCHANGED <<truth, mirror, batch>>
    BY <1>0, <1>16, FullSteps DEF FullIs, FullReads
  <2> QED BY <1>0, <2>1 DEF Brings, Reading
<1>17. CASE FullApplies
  BY <1>0, <1>4, <1>17, FullSteps DEF FullIs
<1>18. CASE FullFails
  BY <1>4, <1>18, NoFullTyped DEF FullFails, FullIs
<1>19. CASE UNCHANGED signalVars
  BY <1>2, <1>19 DEF signalVars
<1> QED BY <1>5, <1>6, <1>7, <1>8, <1>9, <1>10, <1>11, <1>12, <1>13, <1>14, <1>15, <1>16, <1>17,
           <1>18, <1>19 DEF SignalsNext, Batch

LEMMA ReadsCoverKept ==
  ASSUME SignalAssumption, SignalsInv, [SignalsNext]_signalVars
  PROVE  ReadsCover'
<1>0. /\ MarkersTyped /\ BatchTyped /\ FullTyped /\ SignalsTyped
      /\ Announced /\ Overlap /\ ReadsCover
      /\ batch.found \subseteq Variations /\ batch.beaten \subseteq Variations
  BY DEF SignalsInv, SignalsTyped, BatchTyped, BatchType
<1>1. \A v \in Variations : mirror[v] \in Nat /\ truth[v] \in Nat /\ full.got[v] \in Nat /\ batch.got[v] \in Nat
  BY <1>0 DEF MarkersTyped, FullTyped, FullType, BatchTyped, BatchType
<1>2. batch' = NoBatch => batch'.pc = "asleep"
  BY NoBatchTyped DEF BatchIs
<1>3. full' = NoFull => full'.pc = "asleep" /\ full'.beaten = {}
  BY NoFullTyped DEF FullIs
<1>4. ASSUME batch'.pc \in {"asleep", "dead", "claimed", "charging"} PROVE ReadsCover'
  BY <1>4 DEF ReadsCover, Reading, StoredCovers
<1>5. ASSUME Endpoint \/ UNCHANGED <<marker, arriving, accepted>>, UNCHANGED <<batch, mirror, variant>>,
             full' = full \/ (full'.pc # "applying" /\ full'.beaten \subseteq full.beaten)
      PROVE  ReadsCover'
  <2>1. \A v \in Variations, n \in Nat : Covers(v, n) => StillCovers(v, n)
    BY <1>0, <1>5, CoversKept
  <2>2. Reading' = Reading
    BY <1>5 DEF Reading
  <2>3. LaterCovers => LaterCovers'
    <3>1. CASE full' = full
      BY <1>1, <2>1, <3>1 DEF LaterCovers, Covers, StillCovers
    <3>2. CASE full'.pc # "applying"
      BY <3>2 DEF LaterCovers
    <3> QED BY <1>5, <3>1, <3>2
  <2>4. BeatenCovered => BeatenCovered'
    BY <1>0, <1>1, <1>5, <2>1 DEF BeatenCovered, Covers, StillCovers
  <2>5. GotCovers => GotCovers'
    BY <1>0, <1>1, <1>5, <2>1 DEF GotCovers, Covers, StillCovers
  <2>6. StoredCovers'
    <3>1. ASSUME NEW v \in Variations
          PROVE  (Sold(v)' => Sold(v)) /\ (Stores(v)' => Stores(v) /\ full'.got = full.got)
      BY <1>5 DEF Sold, Stores
    <3>2. ASSUME batch.pc = "clearing", NEW v \in batch.found
          PROVE  /\ Sold(v)' => StillCovers(v, mirror[v])
                 /\ Stores(v)' => StillCovers(v, full'.got[v])
      BY <1>0, <1>1, <2>1, <3>1, <3>2 DEF ReadsCover, StoredCovers
    <3>3. ASSUME batch.pc = "clearing", NEW v \in batch.found
          PROVE  (Sold(v) => Covers(v, mirror[v]))' /\ (Stores(v) => Covers(v, full.got[v]))'
      BY <1>5, <3>2, <3>3 DEF Covers, StillCovers
    <3> QED BY <1>5, <3>3 DEF StoredCovers
  <2> QED BY <1>0, <2>2, <2>3, <2>4, <2>5, <2>6 DEF ReadsCover
<1>6. ASSUME NEW v \in Variations, Change(v) \/ Deliver(v) PROVE ReadsCover'
  BY <1>5, <1>6 DEF Change, Deliver, Endpoint
<1>7. ASSUME NEW d \in arriving, Mark(d) \/ MarkFails(d) PROVE ReadsCover'
  BY <1>5, <1>7 DEF Mark, MarkFails, Endpoint
<1>8. CASE Claim \/ BatchDies
  BY <1>0, <1>4, <1>8, BatchSteps, NoBatchTyped DEF BatchIs, BatchDies
<1>9. CASE ListPending
  <2>1. CASE batch' = NoBatch
    BY <1>2, <1>4, <2>1
  <2>2. CASE batch' # NoBatch
    <3>1. /\ batch'.pc = "reading" /\ batch'.beaten = batch.beaten /\ batch'.found = {}
          /\ ~full'.later
      BY <1>0, <1>9, <2>2, BatchSteps, FullSteps DEF BatchIs, FullIs
    <3>2. batch.beaten = {}
      BY <1>0, <1>9 DEF ListPending, Overlap, Reading
    <3> QED BY <3>1, <3>2 DEF ReadsCover, LaterCovers, BeatenCovered, GotCovers, StoredCovers
  <2> QED BY <2>1, <2>2
<1>10. ASSUME NEW found \in SUBSET Variations, BatchWalks("applying", found), batch.pc = "reading",
              UNCHANGED <<mirror, variant, marker, arriving, accepted, full>>,
              \A v \in found : Covers(v, batch'.got[v])
       PROVE  ReadsCover'
  <2>1. /\ batch'.pc \in {"reading", "applying"} /\ batch'.claimed = batch.claimed
        /\ batch'.found = found /\ batch'.beaten = batch.beaten
    BY <1>10 DEF BatchWalks, BatchIs
  <2>2. LaterCovers /\ BeatenCovered
    BY <1>0, <1>10 DEF ReadsCover, Reading
  <2>3. LaterCovers' /\ BeatenCovered'
    BY <1>10, <2>1, <2>2 DEF LaterCovers, BeatenCovered, Covers
  <2>4. GotCovers'
    BY <1>10, <2>1 DEF GotCovers, Covers
  <2> QED BY <2>1, <2>3, <2>4 DEF ReadsCover, StoredCovers
<1>11. CASE ReadChunk
  <2>1. /\ BatchWalks("applying", batch.found \cup (Chunk \cap listed)) /\ batch.pc = "reading"
        /\ batch'.got = [v \in Variations |-> IF v \in Chunk \cap listed THEN truth[v] ELSE batch.got[v]]
        /\ UNCHANGED <<mirror, variant, marker, arriving, accepted, full>>
    BY <1>0, <1>11, BatchSteps DEF ReadChunk
  <2>2. GotCovers /\ batch.found \cup (Chunk \cap listed) \in SUBSET Variations
    BY <1>0, <2>1, RowsTyped DEF ReadsCover, Reading
  <2>3. ASSUME NEW v \in batch.found \cup (Chunk \cap listed) PROVE Covers(v, batch'.got[v])
    <3>1. v \in Variations
      BY <2>2
    <3>2. CASE v \in Chunk \cap listed
      BY <1>0, <2>1, <3>1, <3>2, TruthCovers
    <3>3. CASE v \notin Chunk \cap listed
      BY <2>1, <2>2, <2>3, <3>1, <3>3 DEF GotCovers
    <3> QED BY <3>2, <3>3
  <2> QED BY <1>10, <2>1, <2>2, <2>3
<1>12. CASE ChunkFails
  <2>1. /\ BatchWalks("applying", batch.found) /\ batch.pc = "reading" /\ batch'.got = batch.got
        /\ UNCHANGED <<mirror, variant, marker, arriving, accepted, full>>
    BY <1>0, <1>12, BatchSteps DEF ChunkFails
  <2>2. GotCovers
    BY <1>0, <2>1 DEF ReadsCover, Reading
  <2> QED BY <1>0, <1>10, <2>1, <2>2 DEF GotCovers
<1>13. CASE ApplyStocks
  <2>1. /\ batch.pc = "applying" /\ UNCHANGED <<variant, marker, accepted, arriving>>
        /\ \A v \in Variations : mirror'[v] = IF v \in BatchKept THEN batch.got[v] ELSE mirror[v]
    BY <1>0, <1>13, StoreSteps DEF ApplyStocks
  <2>2. /\ batch'.pc = "clearing" /\ batch'.claimed = batch.claimed
        /\ batch'.found = batch.found \cap Known
    BY <1>0, <1>13, BatchSteps DEF BatchIs
  <2>3. LaterCovers /\ BeatenCovered /\ GotCovers
    BY <1>0, <2>1 DEF ReadsCover, Reading
  <2>4. /\ full'.pc = full.pc /\ full'.listed = full.listed /\ full'.got = full.got
        /\ \/ full'.beaten = full.beaten
           \/ full'.beaten = full.beaten \cup BatchKept /\ full.pc # "asleep"
        /\ full.pc = "applying" /\ ~full.later => BatchKept \subseteq full'.beaten
    BY <1>0, <1>13, FullSteps DEF FullIs
  <2>5. ASSUME NEW v \in batch.found \cap Known, Sold(v)' PROVE Covers(v, mirror'[v])
    <3>1. CASE v \in BatchKept
      BY <1>0, <2>1, <2>3, <3>1 DEF GotCovers, BatchKept
    <3>2. CASE v \notin BatchKept
      <4>1. v \in batch.beaten /\ v \notin full.beaten
        BY <1>0, <3>2 DEF BatchKept, Overlap, FullTyped
      <4>2. variant[v] = "present"
        BY <2>1, <2>4, <2>5, <3>2, <4>1 DEF Sold
      <4> QED BY <1>0, <2>1, <2>3, <3>2, <4>1, <4>2 DEF BeatenCovered
    <3> QED BY <3>1, <3>2
  <2>6. ASSUME NEW v \in batch.found \cap Known, Stores(v)' PROVE Covers(v, full.got[v])
    <3>1. full.pc = "applying" /\ v \notin full'.beaten
      BY <2>4, <2>6 DEF Stores
    <3>2. CASE full.later
      BY <1>0, <2>3, <3>1, <3>2 DEF LaterCovers
    <3>3. CASE ~full.later
      <4>1. v \notin BatchKept
        BY <2>4, <3>1, <3>3
      <4>2. batch.beaten = {}
        BY <1>0, <3>1, <3>3 DEF Overlap
      <4> QED BY <4>1, <4>2 DEF BatchKept
    <3> QED BY <3>2, <3>3
  <2>7. ASSUME NEW v \in batch'.found
        PROVE  (Sold(v) => Covers(v, mirror[v]))' /\ (Stores(v) => Covers(v, full.got[v]))'
    BY <2>1, <2>2, <2>4, <2>5, <2>6 DEF Covers
  <2> QED BY <2>2, <2>7 DEF ReadsCover, Reading, StoredCovers
<1>14. CASE ApplyFails
  <2>1. batch'.pc = "clearing" /\ batch'.found = {}
    BY <1>0, <1>14, BatchSteps DEF BatchIs
  <2> QED BY <2>1 DEF ReadsCover, Reading, StoredCovers
<1>15. CASE Resolve
  <2>1. /\ batch.pc = "clearing" /\ UNCHANGED <<mirror, variant, arriving, accepted, full>>
        /\ batch'.pc \in {"clearing", "charging"} /\ batch'.claimed = batch.claimed
        /\ batch'.found = batch.found
    BY <1>0, <1>15, BatchSteps DEF BatchWalks, BatchIs, Resolve
  <2>2. ASSUME NEW v \in Variations, NEW n \in Nat, Covers(v, n) PROVE StillCovers(v, n)
    <3>1. CASE marker'[v] = marker[v]
      BY <2>1, <2>2, <3>1 DEF Covers, StillCovers
    <3>2. CASE marker'[v] # marker[v]
      <4>1. marker[v] # NoMarker /\ marker[v].last <= batch.claimed
        BY <1>0, <1>15, <3>2, ResolveSteps
      <4>2. marker[v].last \in Nat /\ batch.claimed \in Nat
        BY <1>0, <4>1 DEF MarkersTyped, BatchTyped, BatchType, Row
      <4>3. ~(accepted[v] > n)
        BY <2>2, <4>1, <4>2 DEF Covers
      <4> QED BY <2>1, <2>2, <4>3 DEF Covers, StillCovers
    <3> QED BY <3>1, <3>2
  <2>3. ASSUME NEW v \in batch.found
        PROVE  /\ Sold(v) => StillCovers(v, mirror[v])
               /\ Stores(v) => StillCovers(v, full.got[v])
    BY <1>0, <1>1, <2>1, <2>2 DEF ReadsCover, StoredCovers
  <2>4. ASSUME NEW v \in batch.found
        PROVE  (Sold(v) => Covers(v, mirror[v]))' /\ (Stores(v) => Covers(v, full.got[v]))'
    BY <2>1, <2>3 DEF Sold, Stores, Covers, StillCovers
  <2> QED BY <2>1, <2>4 DEF ReadsCover, Reading, StoredCovers
<1>16. CASE RecordFailure
  BY <1>0, <1>2, <1>4, <1>16, BatchSteps DEF BatchIs
<1>17. CASE FullBegins
  <2>1. full'.pc # "applying" /\ full'.beaten = {}
    BY <1>0, <1>17, FullSteps DEF FullIs
  <2> QED BY <1>5, <1>17, <2>1 DEF FullBegins
<1>18. CASE FullReads
  <2>1. /\ UNCHANGED <<mirror, variant, marker, arriving, accepted, batch>> /\ full'.got = truth
        /\ full'.beaten = full.beaten
    BY <1>0, <1>18, FullSteps DEF FullReads, FullIs
  <2>2. \A v \in Variations : Covers(v, truth[v])
    BY <1>0, TruthCovers
  <2>3. LaterCovers'
    BY <2>1, <2>2 DEF LaterCovers, Covers
  <2>4. (BeatenCovered => BeatenCovered') /\ (GotCovers => GotCovers') /\ Reading' = Reading
    BY <2>1 DEF BeatenCovered, GotCovers, Covers, Reading
  <2>5. ASSUME batch.pc = "clearing", NEW v \in batch.found
        PROVE  (Sold(v) => Covers(v, mirror[v]))' /\ (Stores(v) => Covers(v, full.got[v]))'
    BY <1>0, <2>1, <2>2, <2>5 DEF ReadsCover, StoredCovers, Sold, Covers
  <2> QED BY <1>0, <2>1, <2>3, <2>4, <2>5 DEF ReadsCover, StoredCovers
<1>19. CASE FullApplies
  <2>1. /\ full.pc = "applying" /\ UNCHANGED <<marker, accepted, arriving>>
        /\ full'.pc = "asleep" /\ full'.beaten = {}
    BY <1>0, <1>19, FullSteps DEF FullApplies, FullIs
  <2>2. /\ batch'.pc = batch.pc /\ batch'.claimed = batch.claimed
        /\ batch'.found = batch.found /\ batch'.got = batch.got
        /\ IF full.later /\ Reading THEN batch'.beaten = batch.beaten \cup FullKept
                                    ELSE batch'.beaten = batch.beaten
    BY <1>0, <1>19, FullSteps DEF BatchIs
  <2>3. ASSUME NEW v \in Variations, variant'[v] = "present"
        PROVE  /\ v \in full.listed /\ (v \in FullKept => mirror'[v] = full.got[v])
               /\ v \in full.beaten => mirror'[v] = mirror[v]
    BY <1>0, <1>19, <2>3, StoreSteps
  <2>4. Reading' = Reading /\ LaterCovers' /\ (\A v \in Variations : ~Stores(v)')
    BY <2>1, <2>2 DEF Reading, LaterCovers, Stores
  <2>5. GotCovers => GotCovers'
    BY <1>0, <2>1, <2>2 DEF GotCovers, Covers
  <2>6. ASSUME Reading, NEW v \in Variations, v \in batch'.beaten, variant'[v] = "present"
        PROVE  Covers(v, mirror'[v])
    <3>1. CASE full.later
      <4>1. full.beaten = {} /\ LaterCovers
        BY <1>0, <2>6, <3>1 DEF Overlap, ReadsCover
      <4>2. mirror'[v] = full.got[v]
        BY <2>3, <2>6, <4>1 DEF FullKept
      <4> QED BY <2>1, <3>1, <4>1, <4>2 DEF LaterCovers
    <3>2. CASE ~full.later
      BY <1>0, <2>1, <2>2, <2>6, <3>2 DEF Overlap
    <3> QED BY <3>1, <3>2
  <2>7. Reading => BeatenCovered'
    <3>1. batch'.beaten \subseteq Variations
      BY <1>0, <2>2 DEF FullKept, FullTyped, FullType
    <3> QED BY <2>1, <2>2, <2>6, <3>1 DEF BeatenCovered, Covers
  <2>8. ASSUME batch.pc = "clearing", NEW v \in batch.found, variant'[v] = "present"
        PROVE  Covers(v, mirror'[v])
    <3>1. CASE v \in full.beaten
      BY <1>0, <2>3, <2>8, <3>1 DEF ReadsCover, StoredCovers, Sold
    <3>2. CASE v \notin full.beaten
      BY <1>0, <2>1, <2>3, <2>8, <3>2 DEF ReadsCover, StoredCovers, Stores, FullKept
    <3> QED BY <3>1, <3>2
  <2>9. StoredCovers'
    <3>1. \A v \in batch.found : ~Stores(v)' /\ (Sold(v)' => variant'[v] = "present")
      BY <1>0, <2>1, <2>4 DEF Sold
    <3>2. ASSUME batch.pc = "clearing", NEW v \in batch.found
          PROVE  (Sold(v) => Covers(v, mirror[v]))'
      BY <2>1, <2>2, <2>8, <3>1, <3>2 DEF Covers
    <3> QED BY <2>2, <3>1, <3>2 DEF StoredCovers
  <2> QED BY <1>0, <2>4, <2>5, <2>7, <2>9 DEF ReadsCover
<1>20. CASE FullFails
  BY <1>3, <1>5, <1>20 DEF FullFails
<1>21. CASE UNCHANGED signalVars
  BY <1>5, <1>21 DEF signalVars
<1> QED BY <1>6, <1>7, <1>8, <1>9, <1>11, <1>12, <1>13, <1>14, <1>15, <1>16, <1>17, <1>18,
           <1>19, <1>20, <1>21 DEF SignalsNext, Batch

LEMMA SignalsInitInv == SignalAssumption /\ SignalsInit => SignalsInv
<1> SUFFICES ASSUME SignalAssumption, SignalsInit PROVE SignalsInv
  OBVIOUS
<1>1. batch = NoBatch /\ full = NoFull
  BY DEF SignalsInit
<1>2. /\ batch.pc = "asleep" /\ batch.claimed = 0 /\ batch.found = {} /\ batch.beaten = {}
      /\ batch \in BatchType
  BY <1>1 DEF NoBatch, Unread, BatchType
<1>3. /\ full.pc = "asleep" /\ ~full.later /\ full.beaten = {} /\ full \in FullType
  BY <1>1 DEF NoFull, Unread, FullType
<1>4. MarkersTyped
  BY DEF SignalsInit, Unread, MarkersTyped
<1>5. SignalsTyped
  BY <1>2, <1>3, <1>4 DEF SignalsTyped, BatchTyped, FullTyped
<1>6. Announced /\ Remembered
  BY <1>2, <1>3 DEF SignalsInit, Unread, Announced, Remembered, Safe, Stores
<1>7. Overlap /\ Brings
  BY <1>2, <1>3 DEF Overlap, Brings, Reading
<1>8. ReadsCover
  BY <1>2 DEF ReadsCover, Reading, StoredCovers
<1> QED BY <1>5, <1>6, <1>7, <1>8 DEF SignalsInv

LEMMA SignalsKept ==
  ASSUME SignalAssumption, SignalsInv, [SignalsNext]_signalVars
  PROVE  SignalsInv'
<1>1. SignalsTyped /\ Announced /\ Overlap
  BY DEF SignalsInv
<1>2. SignalsTyped' /\ Announced' /\ Overlap'
  BY <1>1, SignalsTypedKept, AnnouncedKept, OverlapKept
<1>3. Remembered' /\ Brings' /\ ReadsCover'
  BY RememberedKept, BringsKept, ReadsCoverKept
<1> QED BY <1>2, <1>3 DEF SignalsInv

(* Whatever a batch clears its markers on, or an overlapping full read     *)
(* leaves behind, covers every delivery stamped before the claim; a        *)
(* variation for which there is nothing to write is owed to a full read    *)
(* that begins afterwards, and no figure that one stores or gives way to   *)
(* is older (resolve, writeObservedWarehouseStocks, syncSnapshot).         *)
THEOREM SignalsCorrect == ASSUME SignalAssumption PROVE SignalsSpec => []SignalsInv
<1>1. SignalsInit => SignalsInv
  BY SignalsInitInv
<1>2. SignalsInv /\ [SignalsNext]_signalVars => SignalsInv'
  BY SignalsKept
<1> QED BY <1>1, <1>2, PTL DEF SignalsSpec

(* For any number of variations, chunks and failed reads, deliveries late, *)
(* lost or repeated, variations Pancake stops listing or the mirror has no *)
(* row of, batches cut short and full reads across them: a change Pancake  *)
(* was told is accepted of a variation on the storefront is in the mirror, *)
(* still marked, or left to the next full read (record, resolve,           *)
(* recordFailure).                                                         *)
THEOREM NoneForgotten == ASSUME SignalAssumption PROVE SignalsSpec => []NothingForgotten
<1>1. SignalsInv => NothingForgotten
  BY DEF SignalsInv, Remembered, Sold, Safe, NothingForgotten
<1> QED BY <1>1, SignalsCorrect, PTL

-----------------------------------------------------------------------------
(* Type correctness of the three, and of the run that composes them.       *)

(* A reader's memory is updated at one place.                              *)
LEMMA ReaderTyped ==
  ASSUME StatusTypeOK, NEW r \in Readers,
         NEW j \in [pc : {"idle", "fetching", "deciding", "hook", "refunding"},
                    cur : Record, got : Record, tries : 0..(MaxAttempts - 1)],
         j.pc = "deciding" => j.got \in Version,
         reads' = [reads EXCEPT ![r] = j]
  PROVE  /\ reads' \in [Readers -> [pc : {"idle", "fetching", "deciding", "hook", "refunding"},
                                    cur : Record, got : Record, tries : 0..(MaxAttempts - 1)]]
         /\ \A q \in Readers : reads'[q].pc = "deciding" => reads'[q].got \in Version
BY DEF StatusTypeOK

LEMMA IdleTyped ==
  ASSUME StatusAssumption
  PROVE  Idle \in [pc : {"idle", "fetching", "deciding", "hook", "refunding"},
                   cur : Record, got : Record, tries : 0..(MaxAttempts - 1)]
BY DEF StatusAssumption, Idle, Record

(* What each step of a reader makes of its memory, and of the record.      *)
LEMMA ReadTyped ==
  ASSUME StatusAssumption, StatusTypeOK, NEW r \in Readers,
         Start(r) \/ Read(r) \/ Unavailable(r) \/ HookFails(r) \/ Crash(r)
  PROVE  StatusTypeOK'
<1> DEFINE ReadType == [pc : {"idle", "fetching", "deciding", "hook", "refunding"},
                        cur : Record, got : Record, tries : 0..(MaxAttempts - 1)]
           Keeps == /\ reads' \in [Readers -> ReadType]
                    /\ \A q \in Readers : reads'[q].pc = "deciding" => reads'[q].got \in Version
<1>0. /\ reads[r] \in ReadType /\ (reads[r].pc = "deciding" => reads[r].got \in Version)
      /\ remote \in Version /\ record \in Record /\ faults \in 0..MaxFaults
      /\ {twin, synced, refunded, sweep} \subseteq BOOLEAN
      /\ MaxAttempts \in Nat \ {0} /\ MaxFaults \in Nat
  BY DEF StatusTypeOK, StatusAssumption
<1>1. ASSUME NEW j \in ReadType, j.pc = "deciding" => j.got \in Version,
             reads' = [reads EXCEPT ![r] = j]
      PROVE  Keeps
  BY <1>1, ReaderTyped
<1>2. ASSUME Keeps, record' \in Record, faults' \in 0..MaxFaults,
             {twin', synced', refunded', sweep'} \subseteq BOOLEAN, remote' = remote
      PROVE  StatusTypeOK'
  BY <1>0, <1>2 DEF StatusTypeOK
<1>3. ASSUME Finish(r) PROVE Keeps
  <2>1. Idle \in ReadType /\ Idle.pc # "deciding"
    BY IdleTyped DEF Idle
  <2> QED BY <1>1, <1>3, <2>1 DEF Finish
<1>4. ASSUME NEW place \in {"hook", "refunding"}, Goto(r, place) PROVE Keeps
  <2>1. [reads[r] EXCEPT !.pc = place] \in ReadType
        /\ [reads[r] EXCEPT !.pc = place].pc # "deciding"
    BY <1>0
  <2>2. reads' = [reads EXCEPT ![r] = [reads[r] EXCEPT !.pc = place]]
    BY <1>4 DEF Goto
  <2> QED BY <1>1, <2>1, <2>2
<1>5. CASE Start(r)
  <2>1. [Idle EXCEPT !.pc = "fetching", !.cur = record] \in ReadType
        /\ [Idle EXCEPT !.pc = "fetching", !.cur = record].pc = "fetching"
    BY <1>0, IdleTyped DEF Idle
  <2>2. Keeps
    BY <1>1, <1>5, <2>1 DEF Start
  <2> QED BY <1>0, <1>2, <1>5, <2>2 DEF Start
<1>6. CASE Answer(r)
  <2>1. [reads[r] EXCEPT !.pc = "deciding", !.got = remote] \in ReadType
        /\ [reads[r] EXCEPT !.pc = "deciding", !.got = remote].got = remote
    BY <1>0 DEF Record
  <2>2. reads' = [reads EXCEPT ![r] = [reads[r] EXCEPT !.pc = "deciding", !.got = remote]]
    BY <1>6 DEF Answer, StatusTypeOK
  <2>3. Keeps
    BY <1>0, <1>1, <2>1, <2>2
  <2> QED BY <1>0, <1>2, <1>6, <2>3 DEF Answer
<1>7. CASE Store(r)
  <2>1. Keeps
    BY <1>4, <1>7 DEF Store
  <2>2. record' \in Record
    BY <1>0, <1>7 DEF Store, Record
  <2> QED BY <1>0, <1>2, <1>7, <2>1, <2>2 DEF Store
<1>8. CASE Reread(r)
  <2>1. Keeps
    <3>1. CASE reads[r].tries + 1 = MaxAttempts
      BY <1>3, <1>8, <3>1 DEF Reread
    <3>2. CASE reads[r].tries + 1 # MaxAttempts /\ reads[r].tries + 1 \in 0..(MaxAttempts - 1)
      <4>1. [reads[r] EXCEPT !.cur = record, !.tries = reads[r].tries + 1] \in ReadType
            /\ [reads[r] EXCEPT !.cur = record, !.tries = reads[r].tries + 1].pc = reads[r].pc
            /\ [reads[r] EXCEPT !.cur = record, !.tries = reads[r].tries + 1].got = reads[r].got
        BY <1>0, <3>2
      <4>2. reads' = [reads EXCEPT ![r] =
                        [reads[r] EXCEPT !.cur = record, !.tries = reads[r].tries + 1]]
        BY <1>8, <3>2 DEF Reread, StatusTypeOK
      <4> QED BY <1>0, <1>1, <4>1, <4>2
    <3> QED BY <1>0, <3>1, <3>2
  <2> QED BY <1>0, <1>2, <1>8, <2>1 DEF Reread
<1>9. CASE Compare(r)
  <2>1. Keeps
    BY <1>3, <1>4, <1>9 DEF Compare
  <2> QED BY <1>0, <1>2, <1>9, <2>1 DEF Compare
<1>10. CASE CheckHook(r)
  <2>1. Keeps
    BY <1>3, <1>4, <1>10 DEF CheckHook
  <2> QED BY <1>0, <1>2, <1>10, <2>1 DEF CheckHook
<1>11. CASE Refund(r)
  <2>1. Keeps /\ refunded' \in BOOLEAN
    BY <1>0, <1>3, <1>11 DEF Refund, Cancelled
  <2> QED BY <1>0, <1>2, <1>11, <2>1 DEF Refund
<1>12. CASE Unavailable(r)
  <2>1. Keeps
    BY <1>3, <1>12 DEF Unavailable
  <2> QED BY <1>0, <1>2, <1>12, <2>1 DEF Unavailable
<1>13. CASE HookFails(r) \/ Crash(r)
  <2>1. Keeps
    BY <1>3, <1>13 DEF HookFails, Crash
  <2>2. faults' \in 0..MaxFaults
    BY <1>0, <1>13 DEF HookFails, Crash
  <2> QED BY <1>0, <1>2, <1>13, <2>1, <2>2 DEF HookFails, Crash
<1> QED BY <1>5, <1>6, <1>7, <1>8, <1>9, <1>10, <1>11, <1>12, <1>13 DEF Read

LEMMA StatusTyped ==
  ASSUME StatusAssumption, StatusTypeOK, [StatusNext]_statusVars
  PROVE  StatusTypeOK'
<1>1. CASE RemoteChange
  <2>1. PICK status \in {"OPEN", "CANCELLED"}, s \in {remote.stamp, remote.stamp + 1} :
          /\ s <= MaxRevisions
          /\ remote' = [stamp |-> s, status |-> status]
          /\ twin' = (twin \/ s = remote.stamp)
          /\ UNCHANGED <<synced, record, reads, refunded, sweep, faults>>
    BY <1>1 DEF RemoteChange
  <2>2. s \in 0..MaxRevisions
    BY <2>1 DEF StatusTypeOK, Version, StatusAssumption
  <2>3. remote' \in Version /\ twin' \in BOOLEAN
    BY <2>1, <2>2 DEF Version, StatusTypeOK
  <2> QED BY <2>1, <2>3 DEF StatusTypeOK
<1>2. CASE Sync
  BY <1>2 DEF Sync, StatusTypeOK
<1>3. CASE SweepList \/ SweepRefund
  BY <1>3 DEF SweepList, SweepRefund, Cancelled, StatusTypeOK
<1>4. CASE UNCHANGED statusVars
  BY <1>4 DEF statusVars, StatusTypeOK
<1> QED BY <1>1, <1>2, <1>3, <1>4, ReadTyped DEF StatusNext

LEMMA StatusInitTyped == StatusAssumption /\ StatusInit => StatusTypeOK
<1> SUFFICES ASSUME StatusAssumption, StatusInit PROVE StatusTypeOK
  OBVIOUS
<1>1. remote \in Version /\ record \in Record /\ faults \in 0..MaxFaults
  BY DEF StatusAssumption, StatusInit, Version, Record
<1>2. Idle.pc = "idle"
  BY DEF Idle
<1> QED BY <1>1, <1>2, IdleTyped DEF StatusInit, StatusTypeOK

(* The bounds on markers and stamps.  A marker at its last attempt is      *)
(* dropped, never charged.                                                 *)
SignalsBounded ==
  /\ stamps <= MaxDeliveries /\ batch.claimed <= stamps
  /\ \A d \in arriving : d.at \in 1..stamps
  /\ \A v \in Variations : marker[v] # NoMarker => marker[v] \in Marker
  /\ \A i \in DOMAIN batch.rows : batch.rows[i].row \in Marker

LEMMA SignalsWithin ==
  ASSUME SignalAssumption, SignalsTyped, SignalsBounded
  PROVE  SignalsTypeOK
<1>0. MaxDeliveries \in Nat
  BY DEF SignalAssumption
<1>1. /\ MarkersTyped /\ BatchTyped /\ FullTyped
      /\ batch \in BatchType /\ full \in FullType
  BY DEF SignalsTyped, BatchTyped, FullTyped
<1>2. \A i \in DOMAIN batch.rows : batch.rows[i].of \in Variations /\ batch.rows[i].row \in Marker
  BY <1>1, RowsTyped DEF SignalsBounded, Item
<1>3. marker \in [Variations -> Marker \cup {NoMarker}]
  BY <1>1 DEF MarkersTyped, SignalsBounded
<1>4. arriving \subseteq Delivery
  <2> SUFFICES ASSUME NEW d \in arriving PROVE d \in Delivery
    OBVIOUS
  <2>1. d \in [of : Variations, version : Nat, at : Nat] /\ stamps \in Nat
    BY <1>1 DEF MarkersTyped
  <2>2. d.at \in 1..stamps /\ stamps <= MaxDeliveries
    BY DEF SignalsBounded
  <2>3. d.at \in 1..MaxDeliveries
    BY <1>0, <2>1, <2>2
  <2> QED BY <2>1, <2>3 DEF Delivery
<1>5. batch.claimed \in Nat /\ stamps \in Nat
  BY <1>1 DEF MarkersTyped, BatchType
<1>6. batch.claimed \in 0..MaxDeliveries /\ stamps \in 0..MaxDeliveries
  BY <1>0, <1>5 DEF SignalsBounded
<1>7. /\ batch.pc \in {"asleep", "dead", "claimed", "reading", "applying", "clearing", "charging"}
      /\ {batch.found, batch.beaten, batch.failed} \subseteq SUBSET Variations
      /\ batch.rows \in Seq(Item) /\ batch.next \in Nat \ {0}
  BY <1>1 DEF BatchType
<1>8. /\ full.pc \in {"asleep", "reading", "applying"}
      /\ {full.listed, full.beaten} \subseteq SUBSET Variations
  BY <1>1 DEF FullType
<1>9. batch.pc \in {"reading", "clearing", "charging"} => batch.next \in DOMAIN batch.rows
  BY <1>1, <1>7 DEF BatchTyped
<1>10. /\ {truth, mirror, accepted, owed} \subseteq [Variations -> Nat]
       /\ listed \subseteq Variations
       /\ variant \in [Variations -> {"unknown", "present", "withdrawn"}]
  BY <1>1 DEF MarkersTyped
<1> QED BY <1>2, <1>3, <1>4, <1>6, <1>7, <1>8, <1>9, <1>10 DEF SignalsTypeOK

(* A marker that is recorded, and one that is charged and kept.            *)
LEMMA MarkedWithin ==
  ASSUME SignalAssumption, stamps \in Nat, stamps <= MaxDeliveries,
         NEW d, d.at \in 1..stamps, NEW old \in Marker \cup {NoMarker}
  PROVE  Marked(old, d) \in Marker
<1>0. MaxFailures \in Nat \ {0} /\ MaxDeliveries \in Nat
  BY DEF SignalAssumption
<1>1. d.at \in 1..MaxDeliveries /\ 0 \in 0..(MaxFailures - 1)
  BY <1>0
<1>2. CASE old = NoMarker
  BY <1>1, <1>2 DEF Marked, Marker
<1>3. CASE old # NoMarker
  <2>1. /\ old.last \in 1..MaxDeliveries /\ old.count + 1 \in Nat \ {0}
    BY <1>3 DEF Marker
  <2>2. AtLeast(old.last, d.at) \in 1..MaxDeliveries
    BY <1>1, <2>1 DEF AtLeast
  <2> QED BY <1>1, <1>3, <2>1, <2>2 DEF Marked, Marker
<1> QED BY <1>2, <1>3

LEMMA ChargedWithin ==
  ASSUME SignalAssumption, NEW row \in Marker, ~GivesUp(row)
  PROVE  Charged(row) \in Marker
<1>1. row.attempts + 1 \in 0..(MaxFailures - 1)
  BY DEF SignalAssumption, GivesUp, Marker
<1> QED BY <1>1 DEF Charged, Marker
LEMMA BoundsKept ==
  ASSUME SignalAssumption, SignalsTyped, SignalsBounded, [SignalsNext]_signalVars
  PROVE  SignalsBounded'
<1> USE DEF SignalsBounded
<1>0. /\ MarkersTyped /\ BatchTyped /\ FullTyped /\ stamps \in Nat /\ batch.claimed \in Nat
      /\ marker \in [Variations -> Row \cup {NoMarker}] /\ MaxDeliveries \in Nat
  BY DEF SignalsTyped, MarkersTyped, BatchTyped, BatchType, SignalAssumption
<1>1. ASSUME NEW v \in Variations, Change(v) PROVE SignalsBounded'
  BY <1>1 DEF Change
<1>2. ASSUME NEW v \in Variations, Deliver(v) PROVE SignalsBounded'
  <2>1. PICK n \in 1..truth[v] :
          arriving' = arriving \cup {[of |-> v, version |-> n, at |-> stamps + 1]}
    BY <1>2 DEF Deliver
  <2>2. stamps' = stamps + 1 /\ stamps < MaxDeliveries /\ UNCHANGED <<marker, batch>>
    BY <1>2 DEF Deliver
  <2>3. stamps' <= MaxDeliveries /\ stamps + 1 \in 1..stamps'
    BY <1>0, <2>2
  <2>4. \A d \in arriving : d.at \in 1..stamps'
    BY <1>0, <2>2
  <2>5. \A d \in arriving' : d.at \in 1..stamps'
    BY <2>1, <2>3, <2>4
  <2>6. batch.claimed <= stamps'
    BY <1>0, <2>2
  <2> QED BY <2>2, <2>3, <2>5, <2>6
<1>3. ASSUME NEW d \in arriving, Mark(d) PROVE SignalsBounded'
  <2>1. /\ marker' = [marker EXCEPT ![d.of] = Marked(marker[d.of], d)]
        /\ arriving' = arriving \ {d} /\ UNCHANGED <<stamps, batch>>
    BY <1>3 DEF Mark
  <2>2. d.of \in Variations
    BY <1>0 DEF MarkersTyped
  <2>3. Marked(marker[d.of], d) \in Marker
    BY <1>0, <2>2, MarkedWithin
  <2>4. \A v \in Variations : marker'[v] = IF v = d.of THEN Marked(marker[d.of], d) ELSE marker[v]
    BY <1>0, <2>1
  <2>5. \A v \in Variations : marker'[v] # NoMarker => marker'[v] \in Marker
    BY <2>3, <2>4
  <2> QED BY <2>1, <2>5
<1>4. ASSUME NEW d \in arriving, MarkFails(d) PROVE SignalsBounded'
  BY <1>4 DEF MarkFails
<1>5. ASSUME UNCHANGED <<stamps, arriving>>,
             \A v \in Variations : marker'[v] # NoMarker => marker'[v] \in Marker,
             \/ batch'.claimed \in {0, stamps} /\ batch'.rows = << >>
             \/ batch'.claimed = batch.claimed /\ batch'.rows = batch.rows
      PROVE  SignalsBounded'
  BY <1>0, <1>5
<1>6. batch' = NoBatch => batch'.claimed \in {0, stamps} /\ batch'.rows = << >>
  BY NoBatchTyped DEF BatchIs
<1>7. CASE Claim \/ BatchDies
  BY <1>0, <1>5, <1>7, NoBatchTyped DEF Claim, BatchDies, BatchIs
<1>8. CASE ListPending
  <2>1. PICK s \in BoundedSeq(Pending, BatchLimit) :
          batch' = IF s = << >> THEN NoBatch
                   ELSE [batch EXCEPT !.pc = "reading",
                                      !.rows = [i \in DOMAIN s |-> [of |-> s[i], row |-> marker[s[i]]]]]
    BY <1>8 DEF ListPending
  <2>2. \A i \in DOMAIN s : s[i] \in Pending
    BY <2>1 DEF BoundedSeq, SeqOf
  <2>3. \A i \in DOMAIN s : marker[s[i]] \in Marker
    BY <2>2 DEF Pending
  <2>4. UNCHANGED <<stamps, marker, arriving>>
    BY <1>8 DEF ListPending
  <2>5. CASE batch' = NoBatch
    BY <1>5, <1>6, <2>4, <2>5
  <2>6. CASE batch' # NoBatch
    <3>1. /\ batch'.claimed = batch.claimed
          /\ batch'.rows = [i \in DOMAIN s |-> [of |-> s[i], row |-> marker[s[i]]]]
      BY <1>0, <2>1, <2>6 DEF BatchTyped, BatchType
    <3>2. \A i \in DOMAIN batch'.rows : batch'.rows[i].row \in Marker
      BY <2>3, <3>1
    <3> QED BY <2>4, <3>1, <3>2
  <2> QED BY <2>5, <2>6
<1>9. CASE ReadChunk \/ ChunkFails \/ ApplyStocks \/ ApplyFails
  <2>1. batch'.claimed = batch.claimed /\ batch'.rows = batch.rows
    BY <1>9, BatchSteps DEF BatchWalks, BatchIs
  <2> QED BY <1>5, <1>9, <2>1 DEF ReadChunk, ChunkFails, ApplyStocks, ApplyFails
<1>10. CASE Resolve
  <2>1. batch'.claimed = batch.claimed /\ batch'.rows = batch.rows
    BY <1>10, BatchSteps DEF BatchWalks, BatchIs
  <2>2. \A v \in Variations : marker'[v] = marker[v] \/ marker'[v] = NoMarker
    BY <1>0, <1>10, ResolveSteps
  <2> QED BY <1>5, <1>10, <2>1, <2>2 DEF Resolve
<1>11. CASE RecordFailure
  <2>1. \/ batch' = NoBatch
        \/ batch'.claimed = batch.claimed /\ batch'.rows = batch.rows
    BY <1>11, BatchSteps DEF BatchIs
  <2> DEFINE u == batch.rows[batch.next].of
             row == batch.rows[batch.next].row
  <2>2. u \in Variations /\ row \in Marker
    BY <1>0, <1>11, RowsTyped DEF RecordFailure
  <2>3. \/ marker' = marker
        \/ marker' = [marker EXCEPT ![u] = NoMarker]
        \/ marker' = [marker EXCEPT ![u] = Charged(row)] /\ ~GivesUp(row)
    BY <1>11 DEF RecordFailure
  <2> HIDE DEF u, row
  <2>4. ~GivesUp(row) => Charged(row) \in Marker
    BY <2>2, ChargedWithin
  <2>5. \A v \in Variations : marker'[v] # NoMarker => marker'[v] \in Marker
    BY <1>0, <2>2, <2>3, <2>4
  <2> QED BY <1>5, <1>6, <1>11, <2>1, <2>5 DEF RecordFailure
<1>12. CASE FullApplies
  <2>1. batch'.claimed = batch.claimed /\ batch'.rows = batch.rows
    BY <1>12, FullSteps DEF BatchIs
  <2> QED BY <1>5, <1>12, <2>1 DEF FullApplies
<1>13. CASE FullBegins \/ FullReads \/ FullFails
  BY <1>13 DEF FullBegins, FullReads, FullFails
<1>14. CASE UNCHANGED signalVars
  BY <1>14 DEF signalVars
<1> QED BY <1>1, <1>2, <1>3, <1>4, <1>7, <1>8, <1>9, <1>10, <1>11, <1>12, <1>13, <1>14
        DEF SignalsNext, Batch

LEMMA SignalsInitBounded == SignalAssumption /\ SignalsInit => SignalsBounded
BY DEF SignalAssumption, SignalsInit, SignalsBounded, NoBatch

-----------------------------------------------------------------------------
(* The composition.                                                        *)

(* The invariants of all three hold whichever service a behaviour is of.   *)
ServicesInv == StatusTypeOK /\ SignalsInv /\ SignalsBounded /\ WorkerInv

LEMMA ServicesStep ==
  ASSUME StatusAssumption, SignalAssumption, WorkerAssumption, ServicesInv, [Next]_vars
  PROVE  ServicesInv'
<1>1. /\ [StatusNext]_statusVars
      /\ [SignalsNext]_signalVars
      /\ [WorkerNext]_workerVars
  BY DEF Next, vars
<1>2. StatusTypeOK'
  BY <1>1, StatusTyped DEF ServicesInv
<1>3. SignalsInv'
  BY <1>1, SignalsKept DEF ServicesInv
<1>4. SignalsBounded'
  BY <1>1, BoundsKept DEF ServicesInv, SignalsInv
<1>5. WorkerInv'
  BY <1>1, NextWorker DEF ServicesInv
<1> QED BY <1>2, <1>3, <1>4, <1>5 DEF ServicesInv

(* Type correctness of the three services as the run composes them: the    *)
(* stored status and each reader's memory, a marker that never stands at   *)
(* its last attempt, the worker's locks, messages and record.              *)
THEOREM ServicesTyped ==
  ASSUME StatusAssumption, SignalAssumption, WorkerAssumption
  PROVE  Spec => []ServicesTypesOK
<1>1. Init => ServicesInv
  BY StatusInitTyped, SignalsInitInv, SignalsInitBounded, InitWorker DEF Init, ServicesInv
<1>2. ServicesInv /\ [Next]_vars => ServicesInv'
  BY ServicesStep
<1>3. ServicesInv => ServicesTypesOK
  BY SignalsWithin DEF ServicesInv, SignalsInv, WorkerInv, ServicesTypesOK
<1> QED BY <1>1, <1>2, <1>3, PTL DEF Spec

(* So each safety property proved of one service holds of the composition  *)
(* that TLC checks.                                                        *)
THEOREM ServicesSafe ==
  ASSUME StatusAssumption, SignalAssumption, WorkerAssumption
  PROVE  Spec => [](NothingForgotten /\ ProfileExclusive /\ OneProject /\ PaidOnce)
<1>1. Init => ServicesInv
  BY StatusInitTyped, SignalsInitInv, SignalsInitBounded, InitWorker DEF Init, ServicesInv
<1>2. ServicesInv /\ [Next]_vars => ServicesInv'
  BY ServicesStep
<1>3. ServicesInv => NothingForgotten
  BY DEF ServicesInv, SignalsInv, Remembered, Sold, Safe, NothingForgotten
<1>4. ServicesInv => ProfileExclusive /\ OneProject /\ PaidOnce
  BY WorkerSafe DEF ServicesInv
<1> QED BY <1>1, <1>2, <1>3, <1>4, PTL DEF Spec

(* ... and the action property of the order's status.                      *)
THEOREM ServicesNewest == Spec => NewestKept
<1>1. [Next]_vars => [record' # record => record = NoRecord \/ record'.stamp > record.stamp]_statusVars
  <2> SUFFICES ASSUME [Next]_vars
               PROVE  [record' # record => record = NoRecord \/ record'.stamp > record.stamp]_statusVars
    OBVIOUS
  <2>1. [StatusNext]_statusVars
    BY DEF Next, vars
  <2> QED BY <2>1, StatusStep
<1> QED BY <1>1, PTL DEF Spec, NewestKept

=============================================================================
