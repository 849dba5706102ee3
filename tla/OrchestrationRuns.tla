-------------------------- MODULE OrchestrationRuns -------------------------
(***************************************************************************)
(* prediction.orchestration_runs, the queue of risk and prediction runs,   *)
(* and everyone who works on it: API requests that enqueue a run, claim    *)
(* the oldest queued one and execute it, or set a status by hand; and the  *)
(* prediction generator, which every 30 minutes, and as a step of the      *)
(* analyst pipeline, enqueues and executes a run for every instrument with *)
(* enough signal.                                                          *)
(*                                                                         *)
(* The requests claim with FOR UPDATE SKIP LOCKED and change a status by   *)
(* compare-and-swap; the generator does neither.  Every statement commits  *)
(* on its own.                                                             *)
(***************************************************************************)
EXTENDS Naturals, FiniteSets

CONSTANTS
  Instruments,  \* the active instruments whose signal is above the threshold
  UserKeys,     \* the <<instrument, run type>> pairs that users enqueue
  RunIds,       \* bound: run rows that matter at a time (ids are recycled)
  Callers,      \* API requests in flight
  NoInst,       \* "no instrument"
  NoId,         \* "no run"
  MaxFaults,    \* bound: failed statements
  MaxCrashes,   \* bound: deaths of the API process
  MaxManual     \* bound: statuses set by hand

RunTypes == {"risk", "prediction"}

ASSUME ConstantsAssumption ==
  /\ UserKeys \subseteq Instruments \X RunTypes
  /\ NoInst \notin Instruments
  /\ NoId \notin RunIds
  /\ MaxFaults \in Nat
  /\ MaxCrashes \in Nat
  /\ MaxManual \in Nat

VARIABLES
  runs,     \* the row of each run id
  before,   \* creation order: <<q, r>> if q was created before r
  caller,   \* what each API request is doing
  gen,      \* the prediction generator; its isRunning is gen.pc # "idle"
  spent     \* faults, crashes and manual updates so far

vars == <<runs, before, caller, gen, spent>>

-----------------------------------------------------------------------------
(* Data *)

Status == {"queued", "running", "completed", "failed"}

Row == [status : Status \cup {"none"},          \* "none": no row
        inst   : Instruments \cup {NoInst},
        type   : RunTypes,
        by     : {"user", "pipeline"},           \* requested_by
        recent : BOOLEAN]     \* created within maxRunAgeMinutes

NoRow == [status |-> "none", inst |-> NoInst, type |-> "risk", by |-> "user",
          recent |-> FALSE]

Caller == [pc   : {"idle", "insert", "execute", "read", "cas"},
           key  : (Instruments \X RunTypes) \cup {<<NoInst, "risk">>},
           run  : RunIds \cup {NoId},
           from : Status \cup {"none"},      \* the status read before the CAS
           to   : Status \cup {"none"},
           owns : BOOLEAN]                   \* it claimed the run

Idle == [pc |-> "idle", key |-> <<NoInst, "risk">>, run |-> NoId,
         from |-> "none", to |-> "none", owns |-> FALSE]

Gen == [pc   : {"idle", "check", "insert", "start", "execute", "finish", "fail"},
        todo : SUBSET Instruments,
        inst : Instruments \cup {NoInst},
        run  : RunIds \cup {NoId}]

GenIdle == [pc |-> "idle", todo |-> {}, inst |-> NoInst, run |-> NoId]

Live == {r \in RunIds : runs[r].status # "none"}

(* Mutant: a failed run may be queued again. *)
TransitionsWithRetry ==
  [queued |-> {"running", "failed"}, running |-> {"completed", "failed"},
   completed |-> {}, failed |-> {"queued"}]

(* The transitions updateRunStatus allows. *)
allowedTransitions ==
  [queued |-> {"running", "failed"}, running |-> {"completed", "failed"},
   completed |-> {}, failed |-> {}]

(* The unique index orchestration_runs_queued_triple_idx. *)
QueuedFor(inst, type) ==
  {r \in Live : runs[r].status = "queued" /\ runs[r].inst = inst
                                          /\ runs[r].type = type}

(* Mutant: the row is inserted with a status the schema does not have. *)
InsertPendingRow(r, inst, type, by) ==
  /\ runs' = [runs EXCEPT ![r] = [status |-> "pending", inst |-> inst,
                                  type |-> type, by |-> by, recent |-> TRUE]]
  /\ before' = before \cup (Live \X {r})

(* An INSERT of a queued row under a fresh id r. *)
InsertRow(r, inst, type, by) ==
  /\ runs' = [runs EXCEPT ![r] = [status |-> "queued", inst |-> inst,
                                  type |-> type, by |-> by, recent |-> TRUE]]
  /\ before' = before \cup (Live \X {r})

SetStatus(r, s) ==
  /\ runs' = [runs EXCEPT ![r].status = s]
  /\ UNCHANGED before

Fault ==
  /\ spent.faults < MaxFaults
  /\ spent' = [spent EXCEPT !.faults = @ + 1]

Init ==
  /\ runs = [r \in RunIds |-> NoRow]
  /\ before = {}
  /\ caller = [c \in Callers |-> Idle]
  /\ gen = GenIdle
  /\ spent = [faults |-> 0, crashes |-> 0, manual |-> 0]

-----------------------------------------------------------------------------
(* POST /runs: enqueueRun *)

(* A queued run of the key is answered as it is; otherwise one is inserted. *)
EnqueueSelect(c, k) ==
  /\ caller[c].pc = "idle"
  /\ QueuedFor(k[1], k[2]) = {}
  /\ caller' = [caller EXCEPT ![c] = [Idle EXCEPT !.pc = "insert", !.key = k]]
  /\ UNCHANGED <<runs, before, gen, spent>>

(* Bound: the last free id is left to the generator. *)
Spare == IF Cardinality(RunIds \ Live) > 1 THEN RunIds \ Live ELSE {}

(* Against the index the request answers the run that won, or an error if
   that run has been claimed meanwhile. *)
EnqueueInsert(c) ==
  LET inst == caller[c].key[1]
      type == caller[c].key[2]
  IN /\ caller[c].pc = "insert"
     /\ IF QueuedFor(inst, type) = {}
          THEN \E r \in Spare : InsertRow(r, inst, type, "user")
          ELSE UNCHANGED <<runs, before>>
     /\ caller' = [caller EXCEPT ![c] = Idle]
     /\ UNCHANGED <<gen, spent>>

-----------------------------------------------------------------------------
(* POST /runs/process-next and /runs/process: processNextQueuedRun *)

Queued == {r \in Live : runs[r].status = "queued"}
Oldest(S) == {r \in S : \A q \in S : <<q, r>> \notin before}

(* One statement: select the oldest queued run, skipping locked rows, and
   set it to running. *)
ClaimRun(c) ==
  /\ caller[c].pc = "idle"
  /\ \E r \in Oldest(Queued) :
       /\ SetStatus(r, "running")
       /\ caller' = [caller EXCEPT ![c] =
            [Idle EXCEPT !.pc = "execute", !.run = r, !.owns = TRUE]]
  /\ UNCHANGED <<gen, spent>>

(* executeRiskRun or executePredictionRun returns or throws. *)
ExecuteRun(c) ==
  /\ caller[c].pc = "execute"
  /\ \E s \in {"completed", "failed"} :
       caller' = [caller EXCEPT ![c].pc = "read", ![c].to = s]
  /\ UNCHANGED <<runs, before, gen, spent>>

-----------------------------------------------------------------------------
(* updateRunStatus, called by a processor or through POST /runs/:id/status *)

(* Mutant: the processor has no catch block. *)
RefusedForGood(c) == caller' = [caller EXCEPT ![c] = Idle]

(* A processor that may not complete its run enters the catch block and
   tries to fail it; a failure there is only thrown.  A request by hand is
   answered 400 or 404. *)
Refused(c) ==
  caller' = [caller EXCEPT ![c] =
    IF @.owns /\ @.to = "completed"
      THEN [@ EXCEPT !.pc = "read", !.to = "failed", !.from = "none"]
      ELSE Idle]

SetByHand(c, r, s) ==
  /\ caller[c].pc = "idle"
  /\ r \in Live
  /\ spent.manual < MaxManual
  /\ spent' = [spent EXCEPT !.manual = @ + 1]
  /\ caller' = [caller EXCEPT ![c] =
       [Idle EXCEPT !.pc = "read", !.run = r, !.to = s]]
  /\ UNCHANGED <<runs, before, gen>>

(* Mutant: the UPDATE is by id alone. *)
TransitionWithoutCompare(c) ==
  /\ caller[c].pc = "cas"
  /\ SetStatus(caller[c].run, caller[c].to)
  /\ caller' = [caller EXCEPT ![c] = Idle]
  /\ UNCHANGED <<gen, spent>>

ReadStatus(c) ==
  LET status == runs[caller[c].run].status
  IN /\ caller[c].pc = "read"
     /\ IF caller[c].to \in allowedTransitions[status]
          THEN caller' = [caller EXCEPT ![c].pc = "cas", ![c].from = status]
          ELSE Refused(c)
     /\ UNCHANGED <<runs, before, gen, spent>>

TransitionStatus(c) ==
  LET r == caller[c].run
  IN /\ caller[c].pc = "cas"
     /\ IF runs[r].status = caller[c].from
          THEN /\ SetStatus(r, caller[c].to)
               /\ caller' = [caller EXCEPT ![c] = Idle]
          ELSE /\ UNCHANGED <<runs, before>>
               /\ Refused(c)
     /\ UNCHANGED <<gen, spent>>

TransitionStatusFails(c) ==
  /\ caller[c].pc \in {"read", "cas"}
  /\ Fault
  /\ Refused(c)
  /\ UNCHANGED <<runs, before, gen>>

-----------------------------------------------------------------------------
(* PredictionGeneratorService.runGeneration *)

GenUnchanged == UNCHANGED <<caller, spent>>

NextInstrument(g) == [g EXCEPT !.pc = "check", !.inst = NoInst, !.run = NoId]

(* Mutant: completed runs are not counted. *)
UnfinishedRun(i) ==
  \E r \in Live : /\ runs[r].inst = i
                  /\ runs[r].type = "prediction"
                  /\ runs[r].status \in {"queued", "running"}
                  /\ runs[r].recent

(* The cron or the pipeline calls; a call during a generation is skipped. *)
StartGeneration ==
  /\ gen.pc = "idle"
  /\ gen' = [GenIdle EXCEPT !.pc = "check", !.todo = Instruments]
  /\ UNCHANGED <<runs, before>>
  /\ GenUnchanged

RecentRun(i) ==
  \E r \in Live : /\ runs[r].inst = i
                  /\ runs[r].type = "prediction"
                  /\ runs[r].status \in {"queued", "running", "completed"}
                  /\ runs[r].recent

CheckRecentRun(i) ==
  /\ gen.pc = "check"
  /\ i \in gen.todo
  /\ gen' = IF RecentRun(i)
              THEN [gen EXCEPT !.todo = @ \ {i}]
              ELSE [gen EXCEPT !.todo = @ \ {i}, !.pc = "insert", !.inst = i]
  /\ UNCHANGED <<runs, before>>
  /\ GenUnchanged

(* hasRecentRun answers false when its query fails. *)
CheckRecentRunFails(i) ==
  /\ gen.pc = "check"
  /\ i \in gen.todo
  /\ Fault
  /\ gen' = [gen EXCEPT !.todo = @ \ {i}, !.pc = "insert", !.inst = i]
  /\ UNCHANGED <<runs, before, caller>>

(* Mutant: an insert the index refuses is tried until it succeeds. *)
EnqueueUntilAccepted ==
  /\ gen.pc = "insert"
  /\ QueuedFor(gen.inst, "prediction") = {}
  /\ \E r \in RunIds \ Live :
       /\ InsertRow(r, gen.inst, "prediction", "pipeline")
       /\ gen' = [gen EXCEPT !.pc = "start", !.run = r]
  /\ GenUnchanged

(* An insert the index refuses, or one that fails, is logged and the
   instrument is passed over. *)
EnqueuePipelineRun ==
  /\ gen.pc = "insert"
  /\ IF QueuedFor(gen.inst, "prediction") = {}
       THEN \E r \in RunIds \ Live :
              /\ InsertRow(r, gen.inst, "prediction", "pipeline")
              /\ gen' = [gen EXCEPT !.pc = "start", !.run = r]
       ELSE /\ UNCHANGED <<runs, before>>
            /\ gen' = NextInstrument(gen)
  /\ GenUnchanged

EnqueuePipelineRunFails ==
  /\ gen.pc = "insert"
  /\ Fault
  /\ gen' = NextInstrument(gen)
  /\ UNCHANGED <<runs, before, caller>>

(* processRun reads the run and its instrument and sets it to running,
   whatever its status is by now. *)
StartPipelineRun ==
  /\ gen.pc = "start"
  /\ SetStatus(gen.run, "running")
  /\ gen' = [gen EXCEPT !.pc = "execute"]
  /\ GenUnchanged

(* A failed read is thrown and leaves the run queued; a failed UPDATE is
   not looked at. *)
StartPipelineRunFails ==
  /\ gen.pc = "start"
  /\ Fault
  /\ \/ gen' = NextInstrument(gen)
     \/ gen' = [gen EXCEPT !.pc = "execute"]
  /\ UNCHANGED <<runs, before, caller>>

ExecutePipelineRun ==
  /\ gen.pc = "execute"
  /\ \E pc \in {"finish", "fail"} : gen' = [gen EXCEPT !.pc = pc]
  /\ UNCHANGED <<runs, before>>
  /\ GenUnchanged

EndPipelineRun ==
  /\ gen.pc \in {"finish", "fail"}
  /\ SetStatus(gen.run, IF gen.pc = "finish" THEN "completed" ELSE "failed")
  /\ gen' = NextInstrument(gen)
  /\ GenUnchanged

EndPipelineRunFails ==
  /\ gen.pc \in {"finish", "fail"}
  /\ Fault
  /\ gen' = NextInstrument(gen)
  /\ UNCHANGED <<runs, before, caller>>

EndGeneration ==
  /\ gen.pc = "check"
  /\ gen.todo = {}
  /\ gen' = GenIdle
  /\ UNCHANGED <<runs, before>>
  /\ GenUnchanged

-----------------------------------------------------------------------------
(* The environment *)

(* A run leaves the window of hasRecentRun, older runs first. *)
GrowOld(r) ==
  /\ runs[r].recent
  /\ \A q \in RunIds : runs[q].recent => <<q, r>> \notin before
  /\ runs' = [runs EXCEPT ![r].recent = FALSE]
  /\ UNCHANGED <<before, caller, gen, spent>>

(* Bookkeeping of the model: an old run that has left the queue and that
   nobody holds affects nothing any more: its id may stand for another run.
   A user's run left running is kept to be seen, unless a crash orphaned it. *)
Forget(r) ==
  /\ \/ runs[r].status \in {"completed", "failed"}
     \/ /\ runs[r].status = "running"
        /\ runs[r].by = "pipeline" \/ spent.crashes > 0
  /\ ~ runs[r].recent
  /\ gen.run # r
  /\ \A c \in Callers : caller[c].run # r
  /\ runs' = [runs EXCEPT ![r] = NoRow]
  /\ before' = {p \in before : r \notin {p[1], p[2]}}
  /\ UNCHANGED <<caller, gen, spent>>

(* The API process dies: requests and the generator's lock are gone. *)
Crash ==
  /\ spent.crashes < MaxCrashes
  /\ spent' = [spent EXCEPT !.crashes = @ + 1]
  /\ caller' = [c \in Callers |-> Idle]
  /\ gen' = GenIdle
  /\ UNCHANGED <<runs, before>>

CallerStep(c) ==
  EnqueueInsert(c) \/ ExecuteRun(c) \/ ReadStatus(c) \/ TransitionStatus(c)

GeneratorStep ==
  \/ StartGeneration
  \/ \E i \in Instruments : CheckRecentRun(i)
  \/ EnqueuePipelineRun \/ StartPipelineRun
  \/ ExecutePipelineRun \/ EndPipelineRun \/ EndGeneration

GeneratorFault ==
  \/ \E i \in Instruments : CheckRecentRunFails(i)
  \/ EnqueuePipelineRunFails \/ StartPipelineRunFails \/ EndPipelineRunFails

Next ==
  \/ \E c \in Callers :
       \/ \E k \in UserKeys : EnqueueSelect(c, k)
       \/ \E r \in RunIds, s \in Status : SetByHand(c, r, s)
       \/ ClaimRun(c)
       \/ CallerStep(c)
       \/ TransitionStatusFails(c)
  \/ GeneratorStep
  \/ GeneratorFault
  \/ \E r \in RunIds : GrowOld(r) \/ Forget(r)
  \/ Crash

Spec == Init /\ [][Next]_vars

(* The scheduler calls the generator every 30 minutes, the event loop goes on
   with every request and with the generation, and time passes.  Nothing is
   assumed of users, of faults or of requests to process the queue.         *)
Fairness ==
  /\ WF_vars(GeneratorStep)
  /\ \A c \in Callers : WF_vars(CallerStep(c))
  /\ \A r \in RunIds : WF_vars(GrowOld(r)) /\ WF_vars(Forget(r))

FairSpec == Spec /\ Fairness

-----------------------------------------------------------------------------
(* Properties *)

TypeOK ==
  /\ runs \in [RunIds -> Row]
  /\ before \subseteq RunIds \X RunIds
  /\ caller \in [Callers -> Caller]
  /\ gen \in Gen
  /\ spent \in [faults : 0..MaxFaults, crashes : 0..MaxCrashes,
                manual : 0..MaxManual]

(* Two requests that process the queue at once, with statuses set by hand and
   the generator in between, never execute the same run: once claimed, a run
   is not queued again.                                                     *)
ClaimedOnce ==
  \A c, d \in Callers :
    caller[c].owns /\ caller[d].owns /\ caller[c].run = caller[d].run => c = d

(* The table as its readers see it. *)
View(row) == [status |-> row.status, inst |-> row.inst, type |-> row.type]

Table == INSTANCE RunTable WITH table <- [r \in RunIds |-> View(runs[r])],
                                held <- gen.run,
                                NoRow <- View(NoRow)

(* Statement by statement, with stale reads, failures and restarts, requests
   and generator keep the promise of RunTable: of several writers that read
   the same status only one moves the run on, statuses follow each other as
   allowedTransitions says, and two runs of one key never wait together;
   only the generator, which updates by id alone, writes over what others
   did, and only to the run in its hands.                                  *)
ImplementsRunTable == Table!Spec

(* However often the generator is called, dies and is called again, whoever
   claims or fails its runs meanwhile: unless a query fails, an instrument
   has at most one pipeline run per window that was not a failure.          *)
OnePipelineRunPerWindow ==
  spent.faults = 0 =>
    \A q, r \in Live :
      /\ \A x \in {q, r} : /\ runs[x].by = "pipeline"
                           /\ runs[x].recent
                           /\ runs[x].status # "failed"
      /\ runs[q].inst = runs[r].inst
      => q = r

(* A claimed run whose execution succeeded does not stay running because one
   statement failed: the catch block of the processor fails the run.        *)
ExecutedRunEnds ==
  \A r \in RunIds :
    (\E c \in Callers :
       caller[c].owns /\ caller[c].run = r /\ caller[c].to = "completed")
      ~> \/ runs[r].status # "running"
         \/ spent.faults > 1 \/ spent.crashes > 0

Executing(i) ==
  \/ gen.pc = "execute" /\ gen.inst = i
  \/ \E c \in Callers : /\ caller[c].pc = "execute"
                        /\ runs[caller[c].run].inst = i
                        /\ runs[caller[c].run].type = "prediction"

(* An instrument with signal gets its predictions again and again, whatever
   becomes of other instruments' runs, of failed statements and of a restart,
   unless a queued run of its own stays in the way for ever.                *)
PredictionsReturn ==
  \A i \in Instruments :
    \/ []<>Executing(i)
    \/ <>[](QueuedFor(i, "prediction") # {})

=============================================================================
