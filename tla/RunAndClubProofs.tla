-------------------------- MODULE RunAndClubProofs --------------------------
(***************************************************************************)
(* Theorems about OrchestrationRuns for every set of instruments, requests *)
(* and run ids, and every bound on faults, crashes and manual updates: its *)
(* type invariant, that no two requests work on the same claimed run, that *)
(* an instrument has one pipeline run per window, and that requests and    *)
(* generator together implement RunTable.                                  *)
(*                                                                         *)
(* Theorems about Club for any number of users, invites, requests and      *)
(* failures: its type invariant, that channel and membership agree, that a *)
(* club is whole, and that an invite makes one member.                     *)
(*                                                                         *)
(* The two share no state and no definition.                               *)
(***************************************************************************)
EXTENDS OrchestrationRuns, Club, FiniteSetTheorems, TLAPS

USE ConstantsAssumption

(* A request works on a row that exists; one it has claimed is out of the
   queue; and what it is about to write follows what it read.              *)
Sound(c) ==
  /\ caller[c].pc \in {"execute", "read", "cas"} => caller[c].run \in RunIds
  /\ caller[c].run \in RunIds => runs[caller[c].run].status # "none"
  /\ caller[c].owns => /\ caller[c].run \in RunIds
                       /\ runs[caller[c].run].status # "queued"
  /\ caller[c].pc = "cas" => /\ caller[c].from \in Status
                             /\ caller[c].to \in
                                  allowedTransitions[caller[c].from]

CallerInv == \A c \in Callers : Sound(c)

IInv == TypeOK /\ CallerInv /\ ClaimedOnce

LeftQueue == {"running", "completed", "failed"}

-----------------------------------------------------------------------------
(* Facts about the data *)

LEMMA IdleType ==
  /\ Idle \in Caller /\ GenIdle \in Gen /\ NoRow \in Row
  /\ Idle.pc = "idle" /\ Idle.run = NoId /\ Idle.owns = FALSE
BY DEF Idle, Caller, GenIdle, Gen, NoRow, Row, Status, RunTypes

(* Nothing the table allows puts a run back into the queue. *)
LEMMA TableLeavesQueue ==
  ASSUME NEW s \in Status
  PROVE  allowedTransitions[s] \subseteq LeftQueue
BY DEF allowedTransitions, Status, LeftQueue

LEMMA InsertKeepsType ==
  ASSUME TypeOK, NEW r \in RunIds \ Live, NEW i \in Instruments \cup {NoInst},
         NEW t \in RunTypes, NEW by \in {"user", "pipeline"},
         InsertRow(r, i, t, by)
  PROVE  /\ runs' \in [RunIds -> Row]
         /\ before' \subseteq RunIds \X RunIds
         /\ runs[r].status = "none"
         /\ \A q \in RunIds \ {r} : runs'[q] = runs[q]
         /\ runs'[r].status = "queued"
BY DEF TypeOK, InsertRow, Row, Status, RunTypes, Live

LEMMA SetKeepsType ==
  ASSUME TypeOK, NEW r, NEW s \in Status, SetStatus(r, s)
  PROVE  /\ runs' \in [RunIds -> Row]
         /\ before' \subseteq RunIds \X RunIds
         /\ r \in RunIds => runs'[r].status = s
         /\ \A q \in RunIds \ {r} : runs'[q] = runs[q]
<1>1. CASE r \in RunIds
  <2>1. [runs[r] EXCEPT !.status = s] \in Row
    BY <1>1 DEF TypeOK, Row
  <2>2. [runs[r] EXCEPT !.status = s].status = s
    BY <1>1 DEF TypeOK, Row
  <2>3. runs' = [runs EXCEPT ![r] = [runs[r] EXCEPT !.status = s]]
    BY DEF SetStatus
  <2> QED BY <1>1, <2>1, <2>2, <2>3 DEF TypeOK, SetStatus
<1>2. CASE r \notin RunIds
  BY <1>2 DEF TypeOK, SetStatus
<1> QED BY <1>1, <1>2

(* A failed statement is counted up to its bound. *)
LEMMA CountKeepsType ==
  ASSUME TypeOK
  PROVE  /\ Fault => spent' \in [faults : 0..MaxFaults, crashes : 0..MaxCrashes,
                                 manual : 0..MaxManual]
         /\ \A c \in Callers, r \in RunIds, s \in Status :
              SetByHand(c, r, s) =>
                spent' \in [faults : 0..MaxFaults, crashes : 0..MaxCrashes,
                            manual : 0..MaxManual]
         /\ Crash => spent' \in [faults : 0..MaxFaults,
                                 crashes : 0..MaxCrashes,
                                 manual : 0..MaxManual]
<1> DEFINE Counters == [faults : 0..MaxFaults, crashes : 0..MaxCrashes,
                        manual : 0..MaxManual]
<1>1. /\ spent \in Counters
      /\ spent.faults \in 0..MaxFaults
      /\ spent.crashes \in 0..MaxCrashes
      /\ spent.manual \in 0..MaxManual
  BY DEF TypeOK
<1>2. Fault => spent' \in Counters
  BY <1>1 DEF Fault
<1>3. ASSUME NEW c \in Callers, NEW r \in RunIds, NEW s \in Status,
             SetByHand(c, r, s)
      PROVE  spent' \in Counters
  BY <1>1, <1>3 DEF SetByHand
<1>4. Crash => spent' \in Counters
  BY <1>1 DEF Crash
<1> QED BY <1>2, <1>3, <1>4

(* A request that is refused goes idle or on to fail its own run. *)
LEMMA RefusedKeepsType ==
  ASSUME TypeOK, NEW c \in Callers, Refused(c)
  PROVE  /\ caller' \in [Callers -> Caller]
         /\ \A d \in Callers \ {c} : caller'[d] = caller[d]
         /\ \/ caller'[c] = Idle
            \/ /\ caller'[c].pc = "read"
               /\ caller'[c].run = caller[c].run
               /\ caller'[c].owns = caller[c].owns /\ caller[c].owns
<1>1. caller[c] \in Caller
  BY DEF TypeOK
<1>2. [caller[c] EXCEPT !.pc = "read", !.to = "failed", !.from = "none"]
        \in Caller
  BY <1>1 DEF Caller, Status
<1>3. CASE caller[c].owns /\ caller[c].to = "completed"
  <2>1. caller' = [caller EXCEPT ![c] =
          [caller[c] EXCEPT !.pc = "read", !.to = "failed", !.from = "none"]]
    BY <1>3 DEF Refused
  <2>2. caller'[c] =
          [caller[c] EXCEPT !.pc = "read", !.to = "failed", !.from = "none"]
    BY <2>1 DEF TypeOK
  <2>3. /\ caller'[c].pc = "read"
        /\ caller'[c].run = caller[c].run
        /\ caller'[c].owns = caller[c].owns
    BY <1>1, <2>2 DEF Caller
  <2> QED BY <1>2, <1>3, <2>1, <2>3 DEF TypeOK
<1>4. CASE ~(caller[c].owns /\ caller[c].to = "completed")
  BY <1>4, IdleType DEF TypeOK, Refused
<1> QED BY <1>3, <1>4

-----------------------------------------------------------------------------
(* Types *)

LEMMA InitType == Init => TypeOK
BY IdleType DEF Init, TypeOK, Status

LEMMA CallerType ==
  ASSUME TypeOK, NEW c \in Callers, Sound(c),
         \/ \E k \in UserKeys : EnqueueSelect(c, k)
         \/ \E r \in RunIds, s \in Status : SetByHand(c, r, s)
         \/ ClaimRun(c)
         \/ CallerStep(c)
         \/ TransitionStatusFails(c)
  PROVE  TypeOK'
<1> USE DEF TypeOK
<1>0. caller[c] \in Caller
  OBVIOUS
<1>1. ASSUME NEW k \in UserKeys, EnqueueSelect(c, k) PROVE TypeOK'
  BY <1>1, IdleType DEF EnqueueSelect, Caller, Status, Idle
<1>2. ASSUME NEW r \in RunIds, NEW s \in Status, SetByHand(c, r, s)
      PROVE  TypeOK'
  <2>1. caller' \in [Callers -> Caller]
    BY <1>2, IdleType DEF SetByHand, Caller
  <2> QED BY <1>2, <2>1, CountKeepsType DEF SetByHand
<1>3. CASE ClaimRun(c)
  <2>1. PICK r \in Oldest(Queued) :
          /\ SetStatus(r, "running")
          /\ caller' = [caller EXCEPT ![c] =
               [Idle EXCEPT !.pc = "execute", !.run = r, !.owns = TRUE]]
    BY <1>3 DEF ClaimRun
  <2>2. r \in RunIds
    BY DEF Oldest, Queued, Live
  <2>3. caller' \in [Callers -> Caller]
    BY <2>1, <2>2, IdleType DEF Caller
  <2>4. runs' \in [RunIds -> Row] /\ before' \subseteq RunIds \X RunIds
    BY <2>1, SetKeepsType DEF Status
  <2>5. gen' \in Gen /\ spent' = spent
    BY <1>3 DEF ClaimRun
  <2> QED BY <2>3, <2>4, <2>5
<1>4. CASE EnqueueInsert(c)
  <2>1. caller' \in [Callers -> Caller]
    BY <1>4, IdleType DEF EnqueueInsert
  <2>2. /\ caller[c].key[1] \in Instruments \cup {NoInst}
        /\ caller[c].key[2] \in RunTypes
    BY DEF Caller, RunTypes
  <2>3. CASE UNCHANGED <<runs, before>>
    BY <1>4, <2>1, <2>3 DEF EnqueueInsert
  <2>4. CASE \E r \in Spare :
               InsertRow(r, caller[c].key[1], caller[c].key[2], "user")
    <3>1. PICK r \in RunIds \ Live :
            InsertRow(r, caller[c].key[1], caller[c].key[2], "user")
      BY <2>4 DEF Spare
    <3>2. runs' \in [RunIds -> Row] /\ before' \subseteq RunIds \X RunIds
      BY <2>2, <3>1, InsertKeepsType
    <3> QED BY <1>4, <2>1, <3>2 DEF EnqueueInsert
  <2> QED BY <1>4, <2>3, <2>4 DEF EnqueueInsert
<1>5. CASE ExecuteRun(c)
  <2>1. PICK s \in {"completed", "failed"} :
          caller' = [caller EXCEPT ![c].pc = "read", ![c].to = s]
    BY <1>5 DEF ExecuteRun
  <2>2. [caller[c] EXCEPT !.pc = "read", !.to = s] \in Caller
    BY <1>0 DEF Caller, Status
  <2>3. caller' = [caller EXCEPT ![c] =
                     [caller[c] EXCEPT !.pc = "read", !.to = s]]
    BY <2>1
  <2> QED BY <1>5, <2>2, <2>3 DEF ExecuteRun
<1>6. CASE ReadStatus(c)
  <2>1. CASE Refused(c)
    BY <1>6, <2>1, RefusedKeepsType DEF ReadStatus
  <2>2. CASE ~Refused(c)
    <3>1. caller' = [caller EXCEPT ![c].pc = "cas",
                       ![c].from = runs[caller[c].run].status]
          /\ caller[c].to \in allowedTransitions[runs[caller[c].run].status]
      BY <1>6, <2>2 DEF ReadStatus
    <3>2. runs[caller[c].run].status \in Status \cup {"none"}
      BY <1>6 DEF ReadStatus, Sound, Row
    <3>3. [caller[c] EXCEPT !.pc = "cas",
                            !.from = runs[caller[c].run].status] \in Caller
      BY <1>0, <3>2 DEF Caller
    <3>4. caller' = [caller EXCEPT ![c] =
            [caller[c] EXCEPT !.pc = "cas",
                              !.from = runs[caller[c].run].status]]
      BY <3>1
    <3> QED BY <1>6, <3>3, <3>4 DEF ReadStatus
  <2> QED BY <2>1, <2>2
<1>7. CASE TransitionStatus(c)
  <2>1. CASE Refused(c) /\ UNCHANGED <<runs, before>>
    BY <1>7, <2>1, RefusedKeepsType DEF TransitionStatus
  <2>2. CASE /\ SetStatus(caller[c].run, caller[c].to)
             /\ caller' = [caller EXCEPT ![c] = Idle]
    <3>1. caller[c].to \in Status
      BY <1>7, TableLeavesQueue DEF TransitionStatus, Sound, LeftQueue, Status
    <3>2. runs' \in [RunIds -> Row] /\ before' \subseteq RunIds \X RunIds
      BY <2>2, <3>1, SetKeepsType
    <3> QED BY <1>7, <2>2, <3>2, IdleType DEF TransitionStatus
  <2> QED BY <1>7, <2>1, <2>2 DEF TransitionStatus
<1>8. CASE TransitionStatusFails(c)
  BY <1>8, RefusedKeepsType, CountKeepsType DEF TransitionStatusFails
<1> QED
  BY <1>1, <1>2, <1>3, <1>4, <1>5, <1>6, <1>7, <1>8 DEF CallerStep

LEMMA GeneratorType ==
  ASSUME TypeOK, GeneratorStep \/ GeneratorFault
  PROVE  TypeOK'
<1> USE DEF TypeOK
<1>1. gen \in Gen /\ NextInstrument(gen) \in Gen
  BY DEF NextInstrument, Gen
<1>2. ASSUME NEW s \in Status, SetStatus(gen.run, s)
      PROVE  runs' \in [RunIds -> Row] /\ before' \subseteq RunIds \X RunIds
  BY <1>2, SetKeepsType
<1>3. ASSUME NEW i \in Instruments,
             CheckRecentRun(i) \/ CheckRecentRunFails(i)
      PROVE  TypeOK'
  <2>1. /\ [gen EXCEPT !.todo = @ \ {i}] \in Gen
        /\ [gen EXCEPT !.todo = @ \ {i}, !.pc = "insert", !.inst = i] \in Gen
    BY DEF Gen
  <2> QED BY <1>3, <2>1, CountKeepsType
       DEF CheckRecentRun, CheckRecentRunFails, GenUnchanged
<1>4. CASE StartGeneration
  <2>1. [GenIdle EXCEPT !.pc = "check", !.todo = Instruments] \in Gen
    BY DEF GenIdle, Gen
  <2> QED BY <1>4, <2>1 DEF StartGeneration, GenUnchanged
<1>5. CASE EnqueuePipelineRun
  <2>1. CASE UNCHANGED <<runs, before>> /\ gen' = NextInstrument(gen)
    BY <1>1, <1>5, <2>1 DEF EnqueuePipelineRun, GenUnchanged
  <2>2. ASSUME NEW r \in RunIds \ Live,
               InsertRow(r, gen.inst, "prediction", "pipeline"),
               gen' = [gen EXCEPT !.pc = "start", !.run = r]
        PROVE  TypeOK'
    <3>1. gen.inst \in Instruments \cup {NoInst} /\ gen' \in Gen
      BY <2>2 DEF Gen
    <3>2. runs' \in [RunIds -> Row] /\ before' \subseteq RunIds \X RunIds
      BY <2>2, <3>1, InsertKeepsType DEF RunTypes
    <3> QED BY <1>5, <3>1, <3>2 DEF EnqueuePipelineRun, GenUnchanged
  <2> QED BY <1>5, <2>1, <2>2 DEF EnqueuePipelineRun
<1>6. CASE StartPipelineRun
  <2>1. [gen EXCEPT !.pc = "execute"] \in Gen
    BY DEF Gen
  <2>2. runs' \in [RunIds -> Row] /\ before' \subseteq RunIds \X RunIds
    BY <1>2, <1>6 DEF StartPipelineRun, Status
  <2> QED BY <1>6, <2>1, <2>2 DEF StartPipelineRun, GenUnchanged
<1>7. CASE StartPipelineRunFails
  <2>1. [gen EXCEPT !.pc = "execute"] \in Gen
    BY DEF Gen
  <2> QED BY <1>1, <1>7, <2>1, CountKeepsType DEF StartPipelineRunFails
<1>8. CASE ExecutePipelineRun
  <2>1. \A pc \in {"finish", "fail"} : [gen EXCEPT !.pc = pc] \in Gen
    BY DEF Gen
  <2> QED BY <1>8, <2>1 DEF ExecutePipelineRun, GenUnchanged
<1>9. CASE EndPipelineRun
  <2>1. runs' \in [RunIds -> Row] /\ before' \subseteq RunIds \X RunIds
    BY <1>2, <1>9 DEF EndPipelineRun, Status
  <2> QED BY <1>1, <1>9, <2>1 DEF EndPipelineRun, GenUnchanged
<1>10. CASE EnqueuePipelineRunFails \/ EndPipelineRunFails
  BY <1>1, <1>10, CountKeepsType
     DEF EnqueuePipelineRunFails, EndPipelineRunFails
<1>11. CASE EndGeneration
  BY <1>11, IdleType DEF EndGeneration, GenUnchanged
<1> QED
  BY <1>3, <1>4, <1>5, <1>6, <1>7, <1>8, <1>9, <1>10, <1>11
     DEF GeneratorStep, GeneratorFault

LEMMA EnvironmentType ==
  ASSUME TypeOK, Crash \/ \E r \in RunIds : GrowOld(r) \/ Forget(r)
  PROVE  TypeOK'
<1> USE DEF TypeOK
<1>1. CASE Crash
  BY <1>1, IdleType, CountKeepsType DEF Crash
<1>2. ASSUME NEW r \in RunIds, GrowOld(r) PROVE TypeOK'
  <2>1. [runs[r] EXCEPT !.recent = FALSE] \in Row
    BY DEF Row
  <2> QED BY <1>2, <2>1 DEF GrowOld
<1>3. ASSUME NEW r \in RunIds, Forget(r) PROVE TypeOK'
  BY <1>3, IdleType DEF Forget
<1> QED BY <1>1, <1>2, <1>3

LEMMA NextType == TypeOK /\ CallerInv /\ [Next]_vars => TypeOK'
<1>1. ASSUME TypeOK, CallerInv, Next PROVE TypeOK'
  BY <1>1, CallerType, GeneratorType, EnvironmentType DEF Next, CallerInv
<1>2. ASSUME TypeOK, UNCHANGED vars PROVE TypeOK'
  BY <1>2 DEF TypeOK, vars
<1> QED BY <1>1, <1>2

-----------------------------------------------------------------------------
(* Claims *)

(* No row that a request holds is removed or put back into the queue. *)
Onward ==
  \A q \in RunIds :
    /\ runs[q].status # "none"
    /\ \E d \in Callers : caller[d].run = q
    => /\ runs'[q].status # "none"
       /\ runs'[q].status = "queued" => runs[q].status = "queued"

LEMMA InsertIsOnward ==
  ASSUME TypeOK, NEW r \in RunIds \ Live, NEW i \in Instruments \cup {NoInst},
         NEW t \in RunTypes, NEW by \in {"user", "pipeline"},
         InsertRow(r, i, t, by)
  PROVE  Onward
BY InsertKeepsType DEF Onward

LEMMA SetIsOnward ==
  ASSUME TypeOK, NEW r, NEW s \in LeftQueue, SetStatus(r, s)
  PROVE  Onward
<1>1. s \in Status /\ s # "queued" /\ s # "none"
  BY DEF LeftQueue, Status
<1> QED BY <1>1, SetKeepsType DEF Onward

(* A request that does not move stays sound; so does one that goes idle. *)
LEMMA BystanderSound ==
  ASSUME TypeOK, NEW d \in Callers, Sound(d), Onward, caller'[d] = caller[d]
  PROVE  Sound(d)'
BY DEF Sound, Onward

LEMMA IdleSound ==
  ASSUME NEW c \in Callers, caller'[c] = Idle
  PROVE  Sound(c)' /\ ~caller'[c].owns
BY IdleType DEF Sound

LEMMA CallerMoves ==
  ASSUME TypeOK, CallerInv, NEW c \in Callers,
         \/ \E k \in UserKeys : EnqueueSelect(c, k)
         \/ \E r \in RunIds, s \in Status : SetByHand(c, r, s)
         \/ CallerStep(c)
         \/ TransitionStatusFails(c)
  PROVE  /\ Onward
         /\ \A d \in Callers \ {c} : caller'[d] = caller[d]
         /\ Sound(c)'
         /\ caller'[c].owns => caller[c].owns /\ caller'[c].run = caller[c].run
<1>1. caller \in [Callers -> Caller] /\ caller[c] \in Caller /\ Sound(c)
  BY DEF TypeOK, CallerInv
<1>2. UNCHANGED runs => Onward
  BY DEF Onward
<1>3. ASSUME Refused(c), UNCHANGED runs
      PROVE  /\ \A d \in Callers \ {c} : caller'[d] = caller[d]
             /\ Sound(c)'
             /\ caller'[c].owns =>
                  caller[c].owns /\ caller'[c].run = caller[c].run
  <2>1. CASE caller'[c] = Idle
    BY <1>3, <2>1, RefusedKeepsType, IdleSound
  <2>2. CASE /\ caller'[c].pc = "read"
             /\ caller'[c].run = caller[c].run
             /\ caller'[c].owns = caller[c].owns /\ caller[c].owns
    <3>1. Sound(c)'
      BY <1>1, <1>3, <2>2 DEF Sound
    <3> QED BY <1>3, <2>2, <3>1, RefusedKeepsType
  <2> QED BY <1>3, <2>1, <2>2, RefusedKeepsType
<1>4. ASSUME NEW k \in UserKeys, EnqueueSelect(c, k)
      PROVE  /\ \A d \in Callers \ {c} : caller'[d] = caller[d]
             /\ Sound(c)' /\ ~caller'[c].owns /\ UNCHANGED runs
  <2>1. caller'[c] = [Idle EXCEPT !.pc = "insert", !.key = k]
    BY <1>1, <1>4 DEF EnqueueSelect
  <2>2. caller'[c].pc = "insert" /\ caller'[c].run = NoId /\ ~caller'[c].owns
    BY <2>1 DEF Idle
  <2> QED BY <1>1, <1>4, <2>2 DEF EnqueueSelect, Sound
<1>5. ASSUME NEW r \in RunIds, NEW s \in Status, SetByHand(c, r, s)
      PROVE  /\ \A d \in Callers \ {c} : caller'[d] = caller[d]
             /\ Sound(c)' /\ ~caller'[c].owns /\ UNCHANGED runs
  <2>1. caller'[c] = [Idle EXCEPT !.pc = "read", !.run = r, !.to = s]
    BY <1>1, <1>5 DEF SetByHand
  <2>2. caller'[c].pc = "read" /\ caller'[c].run = r /\ ~caller'[c].owns
    BY <2>1 DEF Idle
  <2> QED BY <1>1, <1>5, <2>2 DEF SetByHand, Sound, Live
<1>6. CASE EnqueueInsert(c)
  <2>1. Onward
    <3>1. /\ caller[c].key[1] \in Instruments \cup {NoInst}
          /\ caller[c].key[2] \in RunTypes
      BY <1>1 DEF Caller, RunTypes
    <3>2. CASE UNCHANGED <<runs, before>>
      BY <1>2, <3>2
    <3>3. CASE \E r \in Spare :
                 InsertRow(r, caller[c].key[1], caller[c].key[2], "user")
      <4>1. PICK r \in RunIds \ Live :
              InsertRow(r, caller[c].key[1], caller[c].key[2], "user")
        BY <3>3 DEF Spare
      <4> QED BY <3>1, <4>1, InsertIsOnward
    <3> QED BY <1>6, <3>2, <3>3 DEF EnqueueInsert
  <2>2. caller' = [caller EXCEPT ![c] = Idle]
    BY <1>6 DEF EnqueueInsert
  <2> QED BY <1>1, <2>1, <2>2, IdleSound
<1>7. CASE ExecuteRun(c)
  <2>1. PICK s \in {"completed", "failed"} :
          caller' = [caller EXCEPT ![c].pc = "read", ![c].to = s]
    BY <1>7 DEF ExecuteRun
  <2>2. caller'[c] = [caller[c] EXCEPT !.pc = "read", !.to = s]
    BY <1>1, <2>1
  <2>3. /\ caller'[c].pc = "read" /\ caller'[c].run = caller[c].run
        /\ caller'[c].owns = caller[c].owns
    BY <1>1, <2>2 DEF Caller
  <2>4. UNCHANGED runs /\ caller[c].pc = "execute"
    BY <1>7 DEF ExecuteRun
  <2>5. Sound(c)'
    BY <1>1, <2>3, <2>4 DEF Sound
  <2> QED BY <1>1, <1>2, <2>1, <2>3, <2>4, <2>5
<1>8. CASE ReadStatus(c)
  <2>1. CASE Refused(c)
    BY <1>2, <1>3, <1>8, <2>1 DEF ReadStatus
  <2>2. CASE ~Refused(c)
    <3> DEFINE status == runs[caller[c].run].status
    <3>1. /\ caller' = [caller EXCEPT ![c].pc = "cas", ![c].from = status]
          /\ caller[c].to \in allowedTransitions[status]
          /\ caller[c].pc = "read"
          /\ UNCHANGED runs
      BY <1>8, <2>2 DEF ReadStatus
    <3>2. caller'[c] = [caller[c] EXCEPT !.pc = "cas", !.from = status]
      BY <1>1, <3>1
    <3>3. /\ caller'[c].pc = "cas" /\ caller'[c].run = caller[c].run
          /\ caller'[c].from = status /\ caller'[c].to = caller[c].to
          /\ caller'[c].owns = caller[c].owns
      BY <1>1, <3>2 DEF Caller
    <3>4. caller[c].run \in RunIds /\ status # "none"
      BY <1>1, <3>1 DEF Sound
    <3>5. status \in Status
      BY <3>4 DEF TypeOK, Row
    <3>6. Sound(c)'
      BY <1>1, <3>1, <3>3, <3>4, <3>5 DEF Sound
    <3> QED BY <1>1, <1>2, <3>1, <3>3, <3>6
  <2> QED BY <2>1, <2>2
<1>9. CASE TransitionStatus(c)
  <2>1. CASE Refused(c) /\ UNCHANGED <<runs, before>>
    BY <1>2, <1>3, <2>1
  <2>2. CASE /\ SetStatus(caller[c].run, caller[c].to)
             /\ caller' = [caller EXCEPT ![c] = Idle]
    <3>1. caller[c].to \in LeftQueue
      BY <1>1, <1>9, TableLeavesQueue DEF TransitionStatus, Sound
    <3>2. Onward
      BY <2>2, <3>1, SetIsOnward
    <3> QED BY <1>1, <2>2, <3>2, IdleSound
  <2> QED BY <1>9, <2>1, <2>2 DEF TransitionStatus
<1>10. CASE TransitionStatusFails(c)
  BY <1>2, <1>3, <1>10 DEF TransitionStatusFails
<1> QED
  BY <1>2, <1>4, <1>5, <1>6, <1>7, <1>8, <1>9, <1>10 DEF CallerStep

LEMMA OthersMove ==
  ASSUME TypeOK, GeneratorStep \/ GeneratorFault
                   \/ \E r \in RunIds : GrowOld(r) \/ Forget(r)
  PROVE  Onward /\ UNCHANGED caller
<1>1. UNCHANGED runs => Onward
  BY DEF Onward
<1>2. CASE EnqueuePipelineRun
  <2>1. CASE UNCHANGED <<runs, before>>
    BY <1>1, <1>2, <2>1 DEF EnqueuePipelineRun, GenUnchanged
  <2>2. ASSUME NEW r \in RunIds \ Live,
               InsertRow(r, gen.inst, "prediction", "pipeline")
        PROVE  Onward
    <3>1. gen.inst \in Instruments \cup {NoInst} /\ "prediction" \in RunTypes
      BY DEF TypeOK, Gen, RunTypes
    <3> QED BY <2>2, <3>1, InsertIsOnward
  <2> QED BY <1>2, <2>1, <2>2 DEF EnqueuePipelineRun, GenUnchanged
<1>3. CASE StartPipelineRun
  BY <1>3, SetIsOnward DEF StartPipelineRun, GenUnchanged, LeftQueue
<1>4. CASE EndPipelineRun
  BY <1>4, SetIsOnward DEF EndPipelineRun, GenUnchanged, LeftQueue
<1>5. CASE \E i \in Instruments : CheckRecentRun(i) \/ CheckRecentRunFails(i)
  BY <1>1, <1>5 DEF CheckRecentRun, CheckRecentRunFails, GenUnchanged
<1>6. CASE StartGeneration \/ ExecutePipelineRun \/ EndGeneration
  BY <1>1, <1>6
     DEF StartGeneration, ExecutePipelineRun, EndGeneration, GenUnchanged
<1>7. CASE EnqueuePipelineRunFails \/ StartPipelineRunFails \/ EndPipelineRunFails
  BY <1>1, <1>7
     DEF EnqueuePipelineRunFails, StartPipelineRunFails, EndPipelineRunFails
<1>8. ASSUME NEW r \in RunIds, GrowOld(r) PROVE Onward /\ UNCHANGED caller
  <2>1. \A q \in RunIds : runs'[q].status = runs[q].status
    BY <1>8 DEF GrowOld, TypeOK, Row
  <2> QED BY <1>8, <2>1 DEF GrowOld, Onward
<1>9. ASSUME NEW r \in RunIds, Forget(r) PROVE Onward /\ UNCHANGED caller
  <2>1. \A q \in RunIds \ {r} : runs'[q] = runs[q]
    BY <1>9 DEF Forget, TypeOK
  <2>2. \A d \in Callers : caller[d].run # r
    BY <1>9 DEF Forget
  <2> QED BY <1>9, <2>1, <2>2 DEF Forget, Onward
<1> QED
  BY <1>2, <1>3, <1>4, <1>5, <1>6, <1>7, <1>8, <1>9
     DEF GeneratorStep, GeneratorFault

LEMMA ClaimMoves ==
  ASSUME IInv, NEW c \in Callers, ClaimRun(c)
  PROVE  CallerInv' /\ ClaimedOnce'
<1> USE DEF IInv
<1>1. PICK r \in Oldest(Queued) :
        /\ SetStatus(r, "running")
        /\ caller' = [caller EXCEPT ![c] =
             [Idle EXCEPT !.pc = "execute", !.run = r, !.owns = TRUE]]
  BY DEF ClaimRun
<1>2. r \in RunIds /\ runs[r].status = "queued"
  BY DEF Oldest, Queued, Live
<1>3. caller'[c] = [Idle EXCEPT !.pc = "execute", !.run = r, !.owns = TRUE]
  BY <1>1 DEF TypeOK
<1>4. caller'[c].pc = "execute" /\ caller'[c].run = r /\ caller'[c].owns
  BY <1>3 DEF Idle
<1>5. \A d \in Callers \ {c} : caller'[d] = caller[d]
  BY <1>1 DEF TypeOK
<1>6. runs'[r].status = "running"
  BY <1>1, <1>2, SetKeepsType DEF Status
<1>7. Onward
  BY <1>1, SetIsOnward DEF LeftQueue
<1>8. Sound(c)'
  BY <1>2, <1>4, <1>6 DEF Sound
<1>9. \A d \in Callers \ {c} : Sound(d)'
  BY <1>5, <1>7, BystanderSound DEF CallerInv
<1>10. \A d \in Callers \ {c} : caller'[d].owns => caller'[d].run # r
  BY <1>2, <1>5 DEF CallerInv, Sound
<1>11. ClaimedOnce'
  BY <1>4, <1>5, <1>10 DEF ClaimedOnce
<1> QED BY <1>8, <1>9, <1>11 DEF CallerInv

LEMMA NextClaims == IInv /\ [Next]_vars => CallerInv' /\ ClaimedOnce'
<1> SUFFICES ASSUME IInv, [Next]_vars PROVE CallerInv' /\ ClaimedOnce'
  OBVIOUS
<1> USE DEF IInv
<1>1. ASSUME NEW c \in Callers,
             \/ \E k \in UserKeys : EnqueueSelect(c, k)
             \/ \E r \in RunIds, s \in Status : SetByHand(c, r, s)
             \/ CallerStep(c)
             \/ TransitionStatusFails(c)
      PROVE  CallerInv' /\ ClaimedOnce'
  <2>1. /\ Onward
        /\ \A d \in Callers \ {c} : caller'[d] = caller[d]
        /\ Sound(c)'
        /\ caller'[c].owns =>
             caller[c].owns /\ caller'[c].run = caller[c].run
    BY <1>1, CallerMoves
  <2>2. CallerInv'
    BY <2>1, BystanderSound DEF CallerInv
  <2>3. ClaimedOnce'
    BY <2>1 DEF ClaimedOnce
  <2> QED BY <2>2, <2>3
<1>2. ASSUME Onward, UNCHANGED caller PROVE CallerInv' /\ ClaimedOnce'
  <2>1. CallerInv'
    BY <1>2, BystanderSound DEF CallerInv
  <2>2. ClaimedOnce'
    BY <1>2 DEF ClaimedOnce
  <2> QED BY <2>1, <2>2
<1>3. CASE Crash
  <2>1. \A d \in Callers : caller'[d] = Idle
    BY <1>3 DEF Crash
  <2>2. ClaimedOnce'
    BY <2>1, IdleSound DEF ClaimedOnce
  <2> QED BY <2>1, <2>2, IdleSound DEF CallerInv
<1>4. CASE UNCHANGED vars
  BY <1>2, <1>4 DEF vars, Onward
<1> QED
  BY <1>1, <1>2, <1>3, <1>4, ClaimMoves, OthersMove DEF Next

-----------------------------------------------------------------------------
(* The theorems *)

LEMMA InitInv == Init => IInv
BY InitType, IdleType DEF Init, IInv, CallerInv, Sound, ClaimedOnce

(* The invariant the others follow from: rows, requests and the generator
   keep their types, every request holds an existing row it may still write
   to, and claims are exclusive.                                            *)
THEOREM Inductive == Spec => []IInv
<1>1. IInv /\ [Next]_vars => IInv'
  BY NextType, NextClaims DEF IInv
<1> QED BY InitInv, <1>1, PTL DEF Spec

(* Every variable of the queue, the requests and the generator keeps to the
   values the schema and the code give it.                                  *)
THEOREM TypeCorrect == Spec => []TypeOK
BY Inductive, PTL DEF IInv

(* Any number of requests that process the queue at once, with statuses set
   by hand, the generator and crashes in between, claim distinct runs.      *)
THEOREM DistinctClaims == Spec => []ClaimedOnce
BY Inductive, PTL DEF IInv

-----------------------------------------------------------------------------
(* One pipeline run per window *)

Holding == {"start", "execute", "finish", "fail"}

(* A pipeline run of the window that was not a failure. *)
Counts(r) ==
  /\ r \in Live
  /\ runs[r].by = "pipeline" /\ runs[r].recent /\ runs[r].status # "failed"

(* The generator holds a row from its INSERT to its last UPDATE, and what it
   inserts are prediction runs, the ones hasRecentRun looks for.            *)
GenInv ==
  /\ IF gen.pc \in Holding THEN gen.run \in Live ELSE gen.run = NoId
  /\ \A r \in Live : runs[r].by = "pipeline" => runs[r].type = "prediction"

(* Once hasRecentRun has answered false no run of the instrument counts, and
   then only the one the generator holds does, even if somebody failed it.  *)
WindowInv ==
  spent.faults = 0 =>
    /\ \A q, r \in RunIds :
         Counts(q) /\ Counts(r) /\ runs[q].inst = runs[r].inst => q = r
    /\ gen.pc = "insert" =>
         \A r \in RunIds : Counts(r) => runs[r].inst # gen.inst
    /\ gen.pc \in Holding =>
         \A r \in RunIds :
           Counts(r) /\ runs[r].inst = runs[gen.run].inst => r = gen.run

(* What every step but the generator's INSERT does to pipeline runs. *)
Kept ==
  /\ \A r \in RunIds :
       runs'[r].status # "none" /\ runs'[r].by = "pipeline" =>
         /\ r \in Live /\ runs[r].by = "pipeline"
         /\ runs'[r].inst = runs[r].inst /\ runs'[r].type = runs[r].type
         /\ runs'[r].recent => runs[r].recent
         /\ r # gen.run /\ runs'[r].status # "failed" =>
              runs[r].status # "failed"
  /\ gen.run \in Live => /\ runs'[gen.run].status # "none"
                         /\ runs'[gen.run].inst = runs[gen.run].inst

LEMMA KeptWindow ==
  ASSUME TypeOK, GenInv, WindowInv, Kept, spent.faults = 0
  PROVE  /\ \A q, r \in RunIds :
              Counts(q)' /\ Counts(r)' /\ runs'[q].inst = runs'[r].inst => q = r
         /\ \A r \in RunIds :
              Counts(r)' /\ r # gen.run =>
                Counts(r) /\ runs'[r].inst = runs[r].inst
         /\ gen.pc \in Holding =>
              \A r \in RunIds :
                Counts(r)' /\ runs'[r].inst = runs'[gen.run].inst => r = gen.run
<1>1. ASSUME NEW r \in RunIds, Counts(r)', r # gen.run
      PROVE  Counts(r) /\ runs'[r].inst = runs[r].inst
  BY <1>1 DEF Counts, Kept, Live
<1>2. gen.pc \in Holding =>
        \A r \in RunIds :
          Counts(r)' /\ runs'[r].inst = runs'[gen.run].inst => r = gen.run
  BY <1>1 DEF WindowInv, Kept, GenInv
<1>3. gen.run \in RunIds => gen.pc \in Holding
  BY DEF GenInv
<1>4. \A q, r \in RunIds :
        Counts(q)' /\ Counts(r)' /\ runs'[q].inst = runs'[r].inst => q = r
  BY <1>1, <1>2, <1>3 DEF WindowInv
<1> QED BY <1>1, <1>2, <1>4

LEMMA KeptRows ==
  ASSUME TypeOK, GenInv, Kept
  PROVE  /\ \A r \in Live' :
              runs'[r].by = "pipeline" => runs'[r].type = "prediction"
         /\ gen.pc \in Holding => gen.run \in Live'
BY DEF GenInv, Kept, Live

(* A step that leaves the generator where it is. *)
LEMMA OtherKeepsWindow ==
  ASSUME TypeOK, GenInv, WindowInv, Kept, gen' = gen,
         spent'.faults = 0 => spent.faults = 0
  PROVE  GenInv' /\ WindowInv'
<1>1. GenInv'
  BY KeptRows DEF GenInv, Live
<1>2. ASSUME spent'.faults = 0, gen.pc = "insert"
      PROVE  \A r \in RunIds : Counts(r)' => runs'[r].inst # gen.inst
  <2>1. gen.run = NoId
    BY <1>2 DEF GenInv, Holding
  <2> QED BY <1>2, <2>1, KeptWindow DEF WindowInv
<1>3. WindowInv'
  BY <1>2, KeptWindow DEF WindowInv
<1> QED BY <1>1, <1>3

(* Steps of the generator that leave it between two instruments. *)
LEMMA PausedWindow ==
  ASSUME TypeOK, GenInv, WindowInv, Kept,
         gen'.run = NoId, gen'.pc \in {"idle", "check"},
         spent'.faults = 0 => spent.faults = 0
  PROVE  GenInv' /\ WindowInv'
BY KeptRows, KeptWindow DEF GenInv, WindowInv, Holding

(* A change of status keeps the rows, if the generator makes it or the run
   has not failed.                                                          *)
LEMMA SetIsKept ==
  ASSUME TypeOK, NEW r \in Live, NEW s \in LeftQueue, SetStatus(r, s),
         r = gen.run \/ runs[r].status # "failed"
  PROVE  Kept
<1>1. s \in Status /\ s # "none" /\ r \in RunIds
  BY DEF LeftQueue, Status, Live
<1>2. runs' = [runs EXCEPT ![r] = [runs[r] EXCEPT !.status = s]]
  BY DEF SetStatus
<1>3. runs'[r] = [runs[r] EXCEPT !.status = s]
  BY <1>1, <1>2 DEF TypeOK
<1>4. /\ runs'[r].status = s
      /\ runs'[r].inst = runs[r].inst
      /\ runs'[r].by = runs[r].by
      /\ runs'[r].type = runs[r].type
      /\ runs'[r].recent = runs[r].recent
  BY <1>1, <1>3 DEF TypeOK, Row
<1>5. \A q \in RunIds \ {r} : runs'[q] = runs[q]
  BY <1>2 DEF TypeOK
<1> QED BY <1>1, <1>4, <1>5 DEF Kept, Live

LEMMA CallerKeeps ==
  ASSUME IInv, NEW c \in Callers,
         \/ \E k \in UserKeys : EnqueueSelect(c, k)
         \/ \E r \in RunIds, s \in Status : SetByHand(c, r, s)
         \/ ClaimRun(c)
         \/ CallerStep(c)
         \/ TransitionStatusFails(c)
  PROVE  Kept /\ gen' = gen /\ (spent'.faults = 0 => spent.faults = 0)
<1> USE DEF IInv
<1>1. UNCHANGED runs => Kept
  BY DEF Kept, Live
<1>2. spent.faults \in Nat /\ spent = [spent EXCEPT !.faults = @]
  BY DEF TypeOK
<1>3. CASE ClaimRun(c)
  <2>1. PICK r \in Oldest(Queued) : SetStatus(r, "running")
    BY <1>3 DEF ClaimRun
  <2>2. r \in Live /\ runs[r].status = "queued"
    BY DEF Oldest, Queued
  <2> QED BY <1>3, <2>1, <2>2, SetIsKept DEF LeftQueue, ClaimRun
<1>4. CASE EnqueueInsert(c)
  <2>1. CASE UNCHANGED <<runs, before>>
    BY <1>1, <1>4, <2>1 DEF EnqueueInsert
  <2>2. CASE \E r \in Spare :
               InsertRow(r, caller[c].key[1], caller[c].key[2], "user")
    <3>1. PICK r \in RunIds \ Live :
            InsertRow(r, caller[c].key[1], caller[c].key[2], "user")
      BY <2>2 DEF Spare
    <3>2. /\ \A q \in RunIds \ {r} : runs'[q] = runs[q]
          /\ runs'[r].by = "user"
      BY <3>1 DEF InsertRow, TypeOK
    <3>3. Kept
      BY <3>1, <3>2 DEF Kept, Live
    <3> QED BY <1>4, <3>3 DEF EnqueueInsert
  <2> QED BY <1>4, <2>1, <2>2 DEF EnqueueInsert
<1>5. CASE TransitionStatus(c)
  <2>1. CASE UNCHANGED <<runs, before>>
    BY <1>1, <1>5, <2>1 DEF TransitionStatus
  <2>2. CASE /\ runs[caller[c].run].status = caller[c].from
             /\ SetStatus(caller[c].run, caller[c].to)
    <3>1. /\ caller[c].run \in Live /\ caller[c].from \in Status
          /\ caller[c].to \in allowedTransitions[caller[c].from]
      BY <1>5 DEF TransitionStatus, CallerInv, Sound, Live
    <3>2. caller[c].to \in LeftQueue /\ caller[c].from # "failed"
      BY <3>1, TableLeavesQueue DEF allowedTransitions
    <3> QED BY <1>5, <2>2, <3>1, <3>2, SetIsKept DEF TransitionStatus
  <2> QED BY <1>5, <2>1, <2>2 DEF TransitionStatus
<1>6. CASE \/ \E k \in UserKeys : EnqueueSelect(c, k)
           \/ ExecuteRun(c) \/ ReadStatus(c)
  BY <1>1, <1>6 DEF EnqueueSelect, ExecuteRun, ReadStatus
<1>7. ASSUME NEW r \in RunIds, NEW s \in Status, SetByHand(c, r, s)
      PROVE  Kept /\ gen' = gen /\ spent'.faults = spent.faults
  BY <1>1, <1>7 DEF SetByHand, TypeOK
<1>8. CASE TransitionStatusFails(c)
  <2>1. spent'.faults = spent.faults + 1
    BY <1>8 DEF TransitionStatusFails, Fault, TypeOK
  <2> QED BY <1>1, <1>2, <1>8, <2>1 DEF TransitionStatusFails
<1> QED BY <1>3, <1>4, <1>5, <1>6, <1>7, <1>8 DEF CallerStep

LEMMA TimeKeeps ==
  ASSUME TypeOK, GenInv, NEW r \in RunIds, GrowOld(r) \/ Forget(r)
  PROVE  Kept /\ gen' = gen /\ spent' = spent
<1>1. CASE GrowOld(r)
  <2>1. runs' = [runs EXCEPT ![r] = [runs[r] EXCEPT !.recent = FALSE]]
    BY <1>1 DEF GrowOld
  <2>2. /\ runs'[r] = [runs[r] EXCEPT !.recent = FALSE]
        /\ \A q \in RunIds \ {r} : runs'[q] = runs[q]
    BY <2>1 DEF TypeOK
  <2>3. /\ runs'[r].status = runs[r].status /\ runs'[r].inst = runs[r].inst
        /\ runs'[r].by = runs[r].by /\ runs'[r].type = runs[r].type
        /\ runs'[r].recent = FALSE
    BY <2>2 DEF TypeOK, Row
  <2>4. Kept
    BY <2>2, <2>3 DEF Kept, Live
  <2> QED BY <1>1, <2>4 DEF GrowOld
<1>2. CASE Forget(r)
  <2>1. /\ runs'[r].status = "none" /\ gen.run # r
        /\ \A q \in RunIds \ {r} : runs'[q] = runs[q]
    BY <1>2 DEF Forget, TypeOK, NoRow
  <2>2. Kept
    BY <2>1 DEF Kept, Live
  <2> QED BY <1>2, <2>2 DEF Forget
<1> QED BY <1>1, <1>2

(* The generator's own steps. *)
LEMMA GeneratorKeepsWindow ==
  ASSUME TypeOK, GenInv, WindowInv, GeneratorStep \/ GeneratorFault
  PROVE  GenInv' /\ WindowInv'
<1>1. UNCHANGED runs => Kept
  BY DEF Kept, Live
<1>2. /\ NextInstrument(gen).run = NoId /\ NextInstrument(gen).pc = "check"
      /\ GenIdle.run = NoId /\ GenIdle.pc = "idle"
  BY DEF NextInstrument, GenIdle, TypeOK, Gen
<1>3. ASSUME Fault PROVE spent'.faults # 0
  BY <1>3 DEF Fault, TypeOK
<1>4. CASE StartGeneration \/ EndGeneration
  <2>1. gen'.run = NoId /\ gen'.pc \in {"idle", "check"}
    <3>1. CASE StartGeneration
      BY <3>1 DEF StartGeneration, GenIdle
    <3>2. CASE EndGeneration
      BY <1>2, <3>2 DEF EndGeneration
    <3> QED BY <1>4, <3>1, <3>2
  <2> QED BY <1>1, <1>4, <2>1, PausedWindow
       DEF StartGeneration, EndGeneration, GenUnchanged
<1>5. ASSUME NEW i \in Instruments, CheckRecentRun(i)
      PROVE  GenInv' /\ WindowInv'
  <2>1. gen.pc = "check" /\ gen.run = NoId /\ UNCHANGED <<runs, spent>>
    BY <1>5 DEF CheckRecentRun, GenUnchanged, GenInv, Holding
  <2>2. CASE RecentRun(i)
    <3>1. gen'.run = NoId /\ gen'.pc = "check"
      BY <1>5, <2>1, <2>2 DEF CheckRecentRun, TypeOK, Gen
    <3> QED BY <1>1, <2>1, <3>1, PausedWindow
  <2>3. CASE ~RecentRun(i)
    <3>1. gen'.run = NoId /\ gen'.pc = "insert" /\ gen'.inst = i
      BY <1>5, <2>1, <2>3 DEF CheckRecentRun, TypeOK, Gen
    <3>2. \A r \in RunIds : Counts(r) => runs[r].inst # i
      <4>1. SUFFICES ASSUME NEW r \in RunIds, Counts(r), runs[r].inst = i
                     PROVE  RecentRun(i)
        BY <2>3
      <4>2. runs[r].type = "prediction"
        BY <4>1 DEF Counts, GenInv
      <4>3. runs[r].status \in {"queued", "running", "completed"}
        BY <4>1 DEF Counts, Live, TypeOK, Row, Status
      <4> QED BY <4>1, <4>2, <4>3 DEF Counts, RecentRun
    <3>3. \A r \in RunIds : Counts(r)' <=> Counts(r)
      BY <2>1 DEF Counts, Live
    <3>4. GenInv'
      BY <2>1, <3>1 DEF GenInv, Holding, Live
    <3>5. WindowInv'
      BY <2>1, <3>1, <3>2, <3>3 DEF WindowInv, Holding
    <3> QED BY <3>4, <3>5
  <2> QED BY <2>2, <2>3
<1>6. ASSUME NEW i \in Instruments, CheckRecentRunFails(i)
      PROVE  GenInv' /\ WindowInv'
  <2>1. gen.run = NoId /\ UNCHANGED runs /\ spent'.faults # 0
    BY <1>3, <1>6 DEF CheckRecentRunFails, GenInv, Holding
  <2>2. gen'.pc = "insert" /\ gen'.run = NoId
    BY <1>6, <2>1 DEF CheckRecentRunFails, TypeOK, Gen
  <2> QED BY <2>1, <2>2 DEF GenInv, WindowInv, Holding, Live
<1>7. ASSUME NEW r \in RunIds \ Live, gen.pc = "insert",
             InsertRow(r, gen.inst, "prediction", "pipeline"),
             gen' = [gen EXCEPT !.pc = "start", !.run = r],
             spent' = spent
      PROVE  GenInv' /\ WindowInv'
  <2>1. gen'.pc = "start" /\ gen'.run = r
    BY <1>7 DEF TypeOK, Gen
  <2>2. /\ runs'[r] = [status |-> "queued", inst |-> gen.inst,
                       type |-> "prediction", by |-> "pipeline",
                       recent |-> TRUE]
        /\ \A q \in RunIds \ {r} : runs'[q] = runs[q]
    BY <1>7 DEF InsertRow, TypeOK
  <2>3. \A q \in RunIds \ {r} : Counts(q)' => Counts(q)
    BY <2>2 DEF Counts, Live
  <2>4. GenInv'
    BY <2>1, <2>2 DEF GenInv, Holding, Live
  <2>5. WindowInv'
    BY <1>7, <2>1, <2>2, <2>3 DEF WindowInv, Holding
  <2> QED BY <2>4, <2>5
<1>8. CASE EnqueuePipelineRun
  <2>1. CASE UNCHANGED <<runs, before>> /\ gen' = NextInstrument(gen)
    BY <1>1, <1>2, <1>8, <2>1, PausedWindow
       DEF EnqueuePipelineRun, GenUnchanged
  <2> QED BY <1>7, <1>8, <2>1 DEF EnqueuePipelineRun, GenUnchanged
<1>9. ASSUME Kept, gen.pc \in Holding, gen'.pc \in Holding,
             gen'.run = gen.run, spent'.faults = 0 => spent.faults = 0
      PROVE  GenInv' /\ WindowInv'
  <2>1. GenInv'
    BY <1>9, KeptRows DEF GenInv
  <2>2. gen'.pc # "insert"
    BY <1>9 DEF Holding
  <2>3. WindowInv'
    BY <1>9, <2>2, KeptWindow DEF WindowInv
  <2> QED BY <2>1, <2>3
<1>10. CASE StartPipelineRun
  <2>1. gen.pc \in Holding /\ gen'.pc \in Holding /\ gen'.run = gen.run
    BY <1>10 DEF StartPipelineRun, Holding, TypeOK, Gen
  <2>2. Kept
    BY <1>10, <2>1, SetIsKept DEF StartPipelineRun, LeftQueue, GenInv
  <2> QED BY <1>9, <1>10, <2>1, <2>2 DEF StartPipelineRun, GenUnchanged
<1>11. CASE ExecutePipelineRun
  <2>1. gen.pc \in Holding /\ gen'.pc \in Holding /\ gen'.run = gen.run
    BY <1>11 DEF ExecutePipelineRun, Holding, TypeOK, Gen
  <2> QED BY <1>1, <1>9, <1>11, <2>1 DEF ExecutePipelineRun, GenUnchanged
<1>12. CASE StartPipelineRunFails
  <2>1. CASE gen' = NextInstrument(gen)
    BY <1>1, <1>2, <1>3, <1>12, <2>1, PausedWindow DEF StartPipelineRunFails
  <2>2. CASE gen' = [gen EXCEPT !.pc = "execute"]
    <3>1. gen.pc \in Holding /\ gen'.pc \in Holding /\ gen'.run = gen.run
      BY <1>12, <2>2 DEF StartPipelineRunFails, Holding, TypeOK, Gen
    <3> QED BY <1>1, <1>3, <1>9, <1>12, <3>1 DEF StartPipelineRunFails
  <2> QED BY <1>12, <2>1, <2>2 DEF StartPipelineRunFails
<1>13. CASE EndPipelineRun
  <2>1. gen.run \in Live
    BY <1>13 DEF EndPipelineRun, GenInv, Holding
  <2>2. Kept
    BY <1>13, <2>1, SetIsKept DEF EndPipelineRun, LeftQueue
  <2> QED BY <1>2, <1>13, <2>2, PausedWindow DEF EndPipelineRun, GenUnchanged
<1>14. CASE EnqueuePipelineRunFails \/ EndPipelineRunFails
  BY <1>1, <1>2, <1>3, <1>14, PausedWindow
     DEF EnqueuePipelineRunFails, EndPipelineRunFails
<1> QED
  BY <1>4, <1>5, <1>6, <1>8, <1>10, <1>11, <1>12, <1>13, <1>14
     DEF GeneratorStep, GeneratorFault

LEMMA NextWindow ==
  IInv /\ GenInv /\ WindowInv /\ [Next]_vars => GenInv' /\ WindowInv'
<1> SUFFICES ASSUME IInv, GenInv, WindowInv, [Next]_vars
             PROVE  GenInv' /\ WindowInv'
  OBVIOUS
<1> USE DEF IInv
<1>1. CASE Crash
  <2>1. UNCHANGED runs /\ gen'.run = NoId /\ gen'.pc = "idle"
    BY <1>1 DEF Crash, GenIdle
  <2>2. spent'.faults = spent.faults
    BY <1>1 DEF Crash, TypeOK
  <2> QED BY <2>1, <2>2, PausedWindow DEF Kept, Live
<1>2. CASE UNCHANGED vars
  BY <1>2, OtherKeepsWindow DEF vars, Kept, Live
<1>3. CASE \E c \in Callers :
             \/ \E k \in UserKeys : EnqueueSelect(c, k)
             \/ \E r \in RunIds, s \in Status : SetByHand(c, r, s)
             \/ ClaimRun(c)
             \/ CallerStep(c)
             \/ TransitionStatusFails(c)
  BY <1>3, CallerKeeps, OtherKeepsWindow
<1>4. CASE \E r \in RunIds : GrowOld(r) \/ Forget(r)
  BY <1>4, TimeKeeps, OtherKeepsWindow
<1> QED BY <1>1, <1>2, <1>3, <1>4, GeneratorKeepsWindow DEF Next

(* However often the generator is called, dies and is called again, and
   whatever requests do to its runs meanwhile: while no statement fails, an
   instrument has at most one pipeline run in a window that did not fail.   *)
THEOREM OneRunPerWindow == Spec => []OnePipelineRunPerWindow
<1>1. Init => GenInv /\ WindowInv
  BY DEF Init, GenInv, WindowInv, Counts, Live, NoRow, GenIdle, Holding
<1>2. IInv /\ WindowInv => OnePipelineRunPerWindow
  BY DEF IInv, TypeOK, WindowInv, Counts, OnePipelineRunPerWindow, Live
<1> QED BY Inductive, NextWindow, <1>1, <1>2, PTL DEF Spec

-----------------------------------------------------------------------------
(* The promise of RunTable *)

(* What is about to be inserted is of an instrument and a type. *)
KeyInv ==
  /\ \A c \in Callers : caller[c].pc = "insert" => caller[c].key \in UserKeys
  /\ gen.pc = "insert" => gen.inst \in Instruments

LEMMA CallerKeepsKeys ==
  ASSUME TypeOK, KeyInv, NEW c \in Callers,
         \/ \E k \in UserKeys : EnqueueSelect(c, k)
         \/ \E r \in RunIds, s \in Status : SetByHand(c, r, s)
         \/ ClaimRun(c)
         \/ CallerStep(c)
         \/ TransitionStatusFails(c)
  PROVE  KeyInv'
<1>1. caller \in [Callers -> Caller] /\ caller[c] \in Caller
  BY DEF TypeOK
<1>2. SUFFICES /\ \A d \in Callers \ {c} : caller'[d] = caller[d]
               /\ caller'[c].pc = "insert" => caller'[c].key \in UserKeys
               /\ gen' = gen
  BY DEF KeyInv
<1>3. ASSUME Refused(c)
      PROVE  /\ \A d \in Callers \ {c} : caller'[d] = caller[d]
             /\ caller'[c].pc # "insert"
  BY <1>3, RefusedKeepsType, IdleType
<1>4. CASE \E k \in UserKeys : EnqueueSelect(c, k)
  <2>1. PICK k \in UserKeys : EnqueueSelect(c, k)
    BY <1>4
  <2>2. caller'[c] = [Idle EXCEPT !.pc = "insert", !.key = k]
    BY <1>1, <2>1 DEF EnqueueSelect
  <2>3. caller'[c].key = k
    BY <2>2 DEF Idle
  <2> QED BY <1>1, <2>1, <2>3 DEF EnqueueSelect
<1>5. CASE \E r \in RunIds, s \in Status : SetByHand(c, r, s)
  <2>1. PICK r \in RunIds, s \in Status : SetByHand(c, r, s)
    BY <1>5
  <2>2. caller'[c] = [Idle EXCEPT !.pc = "read", !.run = r, !.to = s]
    BY <1>1, <2>1 DEF SetByHand
  <2>3. caller'[c].pc = "read"
    BY <2>2 DEF Idle
  <2> QED BY <1>1, <2>1, <2>3 DEF SetByHand
<1>6. CASE ClaimRun(c)
  <2>1. PICK r \in RunIds : caller' = [caller EXCEPT ![c] =
          [Idle EXCEPT !.pc = "execute", !.run = r, !.owns = TRUE]]
    BY <1>6 DEF ClaimRun, Oldest, Queued, Live
  <2>2. caller'[c] = [Idle EXCEPT !.pc = "execute", !.run = r, !.owns = TRUE]
    BY <1>1, <2>1
  <2>3. caller'[c].pc = "execute"
    BY <2>2 DEF Idle
  <2> QED BY <1>1, <1>6, <2>1, <2>3 DEF ClaimRun
<1>7. CASE EnqueueInsert(c)
  BY <1>1, <1>7, IdleType DEF EnqueueInsert
<1>8. CASE ExecuteRun(c)
  <2>1. PICK s \in {"completed", "failed"} :
          caller' = [caller EXCEPT ![c] = [caller[c] EXCEPT !.pc = "read", !.to = s]]
    BY <1>8 DEF ExecuteRun
  <2>2. caller'[c] = [caller[c] EXCEPT !.pc = "read", !.to = s]
    BY <1>1, <2>1
  <2>3. caller'[c].pc = "read"
    BY <1>1, <2>2 DEF Caller
  <2> QED BY <1>1, <1>8, <2>1, <2>3 DEF ExecuteRun
<1>9. CASE ReadStatus(c)
  <2>1. CASE Refused(c)
    BY <1>3, <1>9, <2>1 DEF ReadStatus
  <2>2. CASE ~Refused(c)
    <3>1. PICK s : caller' = [caller EXCEPT ![c] =
                     [caller[c] EXCEPT !.pc = "cas", !.from = s]]
      BY <1>9, <2>2 DEF ReadStatus
    <3>2. caller'[c] = [caller[c] EXCEPT !.pc = "cas", !.from = s]
      BY <1>1, <3>1
    <3>3. caller'[c].pc = "cas"
      BY <1>1, <3>2 DEF Caller
    <3> QED BY <1>1, <1>9, <3>1, <3>3 DEF ReadStatus
  <2> QED BY <2>1, <2>2
<1>10. CASE TransitionStatus(c)
  BY <1>1, <1>3, <1>10, IdleType DEF TransitionStatus
<1>11. CASE TransitionStatusFails(c)
  BY <1>3, <1>11 DEF TransitionStatusFails
<1> QED
  BY <1>4, <1>5, <1>6, <1>7, <1>8, <1>9, <1>10, <1>11 DEF CallerStep

LEMMA NextKeys == TypeOK /\ KeyInv /\ [Next]_vars => KeyInv'
<1> SUFFICES ASSUME TypeOK, KeyInv, [Next]_vars PROVE KeyInv'
  OBVIOUS
<1>1. gen \in Gen /\ NextInstrument(gen).pc = "check" /\ GenIdle.pc = "idle"
  BY DEF TypeOK, NextInstrument, Gen, GenIdle
<1>2. ASSUME UNCHANGED caller, gen'.pc # "insert" PROVE KeyInv'
  BY <1>2 DEF KeyInv
<1>3. ASSUME NEW i \in Instruments, CheckRecentRun(i) \/ CheckRecentRunFails(i)
      PROVE  KeyInv'
  <2>1. gen.pc = "check" /\ UNCHANGED caller
    BY <1>3 DEF CheckRecentRun, CheckRecentRunFails, GenUnchanged
  <2>2. CASE gen' = [gen EXCEPT !.todo = @ \ {i}]
    BY <1>1, <1>2, <2>1, <2>2 DEF Gen
  <2>3. CASE gen' = [gen EXCEPT !.todo = @ \ {i}, !.pc = "insert", !.inst = i]
    <3>1. gen'.inst = i
      BY <1>1, <2>3 DEF Gen
    <3> QED BY <2>1, <3>1 DEF KeyInv
  <2> QED BY <1>3, <2>2, <2>3 DEF CheckRecentRun, CheckRecentRunFails
<1>4. CASE EnqueuePipelineRun \/ EnqueuePipelineRunFails
  <2>1. UNCHANGED caller
    BY <1>4 DEF EnqueuePipelineRun, EnqueuePipelineRunFails, GenUnchanged
  <2>2. gen'.pc # "insert"
    BY <1>1, <1>4 DEF EnqueuePipelineRun, EnqueuePipelineRunFails, Gen
  <2> QED BY <1>2, <2>1, <2>2
<1>5. CASE StartGeneration \/ EndGeneration
  <2>1. CASE StartGeneration
    BY <1>2, <2>1 DEF StartGeneration, GenIdle, GenUnchanged
  <2>2. CASE EndGeneration
    BY <1>1, <1>2, <2>2 DEF EndGeneration, GenUnchanged
  <2> QED BY <1>5, <2>1, <2>2
<1>6. CASE StartPipelineRun \/ StartPipelineRunFails \/ ExecutePipelineRun
  <2>1. gen'.pc # "insert"
    BY <1>1, <1>6
       DEF StartPipelineRun, StartPipelineRunFails, ExecutePipelineRun, Gen
  <2> QED BY <1>2, <1>6, <2>1
       DEF StartPipelineRun, StartPipelineRunFails, ExecutePipelineRun, GenUnchanged
<1>7. CASE EndPipelineRun \/ EndPipelineRunFails
  BY <1>1, <1>2, <1>7 DEF EndPipelineRun, EndPipelineRunFails, GenUnchanged
<1>8. CASE Crash
  BY <1>8, IdleType DEF Crash, KeyInv, GenIdle
<1>9. CASE UNCHANGED vars \/ \E r \in RunIds : GrowOld(r) \/ Forget(r)
  BY <1>9 DEF vars, GrowOld, Forget, KeyInv
<1> QED
  BY <1>3, <1>4, <1>5, <1>6, <1>7, <1>8, <1>9, CallerKeepsKeys
     DEF Next, GeneratorStep, GeneratorFault

-----------------------------------------------------------------------------
(* Each step in the eyes of the table's readers *)

Seen == [r \in RunIds |-> View(runs[r])]

TableStep == [Table!Next]_(Table!vars)

(* Nothing seen changes, and the generator keeps its run or lets go of it. *)
LEMMA UnseenStep ==
  ASSUME \A r \in RunIds : View(runs'[r]) = View(runs[r]), gen'.run \in {gen.run, NoId}
  PROVE  TableStep
<1>1. Table!LetGo
  BY DEF Table!LetGo
<1> QED BY <1>1 DEF TableStep, Table!Next

(* A run moves as the table says. *)
LEMMA MoveStep ==
  ASSUME TypeOK, NEW r \in Live, NEW s \in allowedTransitions[runs[r].status],
         SetStatus(r, s), gen' = gen
  PROVE  TableStep
<1>1. r \in RunIds /\ runs[r].status \in Status
  BY DEF Live, TypeOK, Row
<1>2. runs' = [runs EXCEPT ![r] = [runs[r] EXCEPT !.status = s]]
  BY DEF SetStatus
<1>3. View(runs'[r]) = [View(runs[r]) EXCEPT !.status = s]
  BY <1>1, <1>2 DEF View, TypeOK, Row
<1>4. \A q \in RunIds \ {r} : runs'[q] = runs[q]
  BY <1>2 DEF TypeOK
<1>5. Seen' = [Seen EXCEPT ![r] = [Seen[r] EXCEPT !.status = s]]
  BY <1>1, <1>3, <1>4 DEF Seen
<1>6. Seen[r].status = runs[r].status
  BY <1>1 DEF Seen, View
<1>7. Table!Move(r)
  BY <1>1, <1>5, <1>6 DEF Table!Move, Table!Rows, Seen, Live
<1> QED BY <1>1, <1>7 DEF TableStep, Table!Next

(* The generator writes its run over. *)
LEMMA OverwriteStep ==
  ASSUME TypeOK, gen.run \in Live, NEW s \in LeftQueue,
         SetStatus(gen.run, s), gen'.run \in {gen.run, NoId}
  PROVE  TableStep
<1> DEFINE r == gen.run
<1>1. r \in RunIds /\ runs[r].status # "none"
  BY DEF Live
<1>2. runs' = [runs EXCEPT ![r] = [runs[r] EXCEPT !.status = s]]
  BY DEF SetStatus
<1>3. View(runs'[r]) = [View(runs[r]) EXCEPT !.status = s]
  BY <1>1, <1>2 DEF View, TypeOK, Row
<1>4. \A q \in RunIds \ {r} : runs'[q] = runs[q]
  BY <1>2 DEF TypeOK
<1>5. Seen' = [Seen EXCEPT ![r] = [Seen[r] EXCEPT !.status = s]]
  BY <1>1, <1>3, <1>4 DEF Seen
<1>6. Seen[r].status = runs[r].status
  BY <1>1 DEF Seen, View
<1>7. r \in Table!Rows
  BY <1>1, <1>6 DEF Table!Rows, Seen
<1>8. Table!Overwrite
  BY <1>5, <1>7 DEF Table!Overwrite, Seen, LeftQueue
<1> QED BY <1>8 DEF TableStep, Table!Next

(* A run is inserted; the index has refused it if another one waits. *)
LEMMA InsertStep ==
  ASSUME TypeOK, NEW r \in RunIds \ Live, NEW i \in Instruments,
         NEW t \in RunTypes, NEW by \in {"user", "pipeline"},
         InsertRow(r, i, t, by), QueuedFor(i, t) = {},
         gen'.run \in {gen.run, r}
  PROVE  TableStep
<1>1. /\ runs'[r] = [status |-> "queued", inst |-> i, type |-> t, by |-> by,
                     recent |-> TRUE]
      /\ \A q \in RunIds \ {r} : runs'[q] = runs[q]
  BY DEF InsertRow, TypeOK
<1>2. Seen' = [Seen EXCEPT ![r] = [status |-> "queued", inst |-> i, type |-> t]]
  <2>1. View(runs'[r]) = [status |-> "queued", inst |-> i, type |-> t]
    BY <1>1 DEF View
  <2> QED BY <1>1, <2>1 DEF Seen
<1>3. \A q \in RunIds : /\ Seen[q].status = runs[q].status
                        /\ Seen[q].inst = runs[q].inst
                        /\ Seen[q].type = runs[q].type
  BY DEF Seen, View
<1>4. r \notin Table!Rows
  BY <1>3 DEF Table!Rows, Seen, Live
<1>5. Table!Queued(i, t) = {}
  BY <1>3 DEF Table!Queued, Table!Rows, Seen, QueuedFor, Live
<1>6. Table!Insert(r, i, t)
  BY <1>2, <1>4, <1>5 DEF Table!Insert, Seen
<1> QED BY <1>6 DEF TableStep, Table!Next

LEMMA RemoveStep ==
  ASSUME TypeOK, NEW r \in RunIds, Forget(r)
  PROVE  TableStep
<1>1. /\ runs'[r] = NoRow
      /\ \A q \in RunIds \ {r} : runs'[q] = runs[q]
      /\ runs[r].status \in LeftQueue /\ gen.run # r /\ gen' = gen
  BY DEF Forget, TypeOK, LeftQueue
<1>2. Seen' = [Seen EXCEPT ![r] = View(NoRow)]
  BY <1>1 DEF Seen
<1>3. Seen[r].status = runs[r].status
  BY DEF Seen, View
<1>4. Table!Remove(r)
  BY <1>1, <1>2, <1>3 DEF Table!Remove, Table!Rows, Seen, LeftQueue
<1> QED BY <1>4 DEF TableStep, Table!Next

LEMMA CallerImplements ==
  ASSUME IInv, KeyInv, NEW c \in Callers,
         \/ \E k \in UserKeys : EnqueueSelect(c, k)
         \/ \E r \in RunIds, s \in Status : SetByHand(c, r, s)
         \/ ClaimRun(c)
         \/ CallerStep(c)
         \/ TransitionStatusFails(c)
  PROVE  TableStep
<1> USE DEF IInv
<1>1. CASE ClaimRun(c)
  <2>1. PICK r \in Oldest(Queued) : SetStatus(r, "running")
    BY <1>1 DEF ClaimRun
  <2>2. r \in Live /\ runs[r].status = "queued"
    BY DEF Oldest, Queued
  <2>3. "running" \in allowedTransitions[runs[r].status]
    BY <2>2 DEF allowedTransitions
  <2> QED BY <1>1, <2>1, <2>2, <2>3, MoveStep DEF ClaimRun
<1>2. CASE EnqueueInsert(c)
  <2> DEFINE i == caller[c].key[1]
             t == caller[c].key[2]
  <2>1. i \in Instruments /\ t \in RunTypes
    BY <1>2 DEF EnqueueInsert, KeyInv
  <2>2. CASE QueuedFor(i, t) = {}
    <3>1. PICK r \in RunIds \ Live : InsertRow(r, i, t, "user")
      BY <1>2, <2>2 DEF EnqueueInsert, Spare
    <3> QED BY <1>2, <2>1, <2>2, <3>1, InsertStep DEF EnqueueInsert
  <2>3. CASE QueuedFor(i, t) # {}
    BY <1>2, <2>3, UnseenStep DEF EnqueueInsert
  <2> QED BY <2>2, <2>3
<1>3. CASE TransitionStatus(c)
  <2>1. CASE UNCHANGED <<runs, before>>
    BY <1>3, <2>1, UnseenStep DEF TransitionStatus
  <2>2. CASE /\ runs[caller[c].run].status = caller[c].from
             /\ SetStatus(caller[c].run, caller[c].to)
    <3>1. /\ caller[c].run \in Live
          /\ caller[c].to \in allowedTransitions[caller[c].from]
      BY <1>3 DEF TransitionStatus, CallerInv, Sound, Live
    <3> QED BY <1>3, <2>2, <3>1, MoveStep DEF TransitionStatus
  <2> QED BY <1>3, <2>1, <2>2 DEF TransitionStatus
<1>4. CASE \/ \E k \in UserKeys : EnqueueSelect(c, k)
           \/ \E r \in RunIds, s \in Status : SetByHand(c, r, s)
           \/ ExecuteRun(c) \/ ReadStatus(c) \/ TransitionStatusFails(c)
  BY <1>4, UnseenStep
     DEF EnqueueSelect, SetByHand, ExecuteRun, ReadStatus, TransitionStatusFails
<1> QED BY <1>1, <1>2, <1>3, <1>4 DEF CallerStep

LEMMA GeneratorImplements ==
  ASSUME IInv, GenInv, KeyInv, GeneratorStep \/ GeneratorFault
  PROVE  TableStep
<1> USE DEF IInv
<1>1. /\ gen \in Gen /\ NextInstrument(gen).run = NoId /\ GenIdle.run = NoId
      /\ gen.pc \notin Holding => gen.run = NoId
      /\ gen.pc \in Holding => gen.run \in Live
  BY DEF TypeOK, NextInstrument, Gen, GenIdle, GenInv
<1>2. CASE EnqueuePipelineRun
  <2>1. CASE QueuedFor(gen.inst, "prediction") = {}
    <3>1. PICK r \in RunIds \ Live :
            /\ InsertRow(r, gen.inst, "prediction", "pipeline")
            /\ gen' = [gen EXCEPT !.pc = "start", !.run = r]
      BY <1>2, <2>1 DEF EnqueuePipelineRun
    <3>2. gen'.run = r
      BY <1>1, <3>1 DEF Gen
    <3>3. gen.inst \in Instruments /\ "prediction" \in RunTypes
      BY <1>2 DEF EnqueuePipelineRun, KeyInv, RunTypes
    <3> QED BY <2>1, <3>1, <3>2, <3>3, InsertStep
  <2>2. CASE QueuedFor(gen.inst, "prediction") # {}
    BY <1>1, <1>2, <2>2, UnseenStep DEF EnqueuePipelineRun
  <2> QED BY <2>1, <2>2
<1>3. CASE StartPipelineRun
  <2>1. gen'.run = gen.run
    BY <1>1, <1>3 DEF StartPipelineRun, Gen
  <2> QED BY <1>1, <1>3, <2>1, OverwriteStep
       DEF StartPipelineRun, Holding, LeftQueue
<1>4. CASE EndPipelineRun
  <2>1. gen'.run = NoId
    BY <1>1, <1>4 DEF EndPipelineRun
  <2> QED BY <1>1, <1>4, <2>1, OverwriteStep
       DEF EndPipelineRun, Holding, LeftQueue
<1>5. ASSUME NEW i \in Instruments, CheckRecentRun(i) \/ CheckRecentRunFails(i)
      PROVE  TableStep
  <2>1. gen'.run = gen.run /\ UNCHANGED runs
    BY <1>1, <1>5 DEF CheckRecentRun, CheckRecentRunFails, Gen
  <2> QED BY <2>1, UnseenStep
<1>6. CASE StartGeneration \/ EndGeneration
  <2>1. UNCHANGED runs
    BY <1>6 DEF StartGeneration, EndGeneration
  <2>2. CASE StartGeneration
    BY <2>1, <2>2, UnseenStep DEF StartGeneration, GenIdle
  <2>3. CASE EndGeneration
    BY <1>1, <2>1, <2>3, UnseenStep DEF EndGeneration
  <2> QED BY <1>6, <2>2, <2>3
<1>7. CASE ExecutePipelineRun
  <2>1. gen'.run = gen.run /\ UNCHANGED runs
    BY <1>1, <1>7 DEF ExecutePipelineRun, Gen
  <2> QED BY <2>1, UnseenStep
<1>8. CASE StartPipelineRunFails
  <2>1. gen'.run \in {gen.run, NoId} /\ UNCHANGED runs
    BY <1>1, <1>8 DEF StartPipelineRunFails, Gen
  <2> QED BY <2>1, UnseenStep
<1>9. CASE EnqueuePipelineRunFails \/ EndPipelineRunFails
  <2>1. gen'.run = NoId /\ UNCHANGED runs
    BY <1>1, <1>9 DEF EnqueuePipelineRunFails, EndPipelineRunFails
  <2> QED BY <2>1, UnseenStep
<1> QED
  BY <1>2, <1>3, <1>4, <1>5, <1>6, <1>7, <1>8, <1>9
     DEF GeneratorStep, GeneratorFault

LEMMA NextImplements ==
  IInv /\ GenInv /\ KeyInv /\ [Next]_vars => TableStep
<1> SUFFICES ASSUME IInv, GenInv, KeyInv, [Next]_vars PROVE TableStep
  OBVIOUS
<1>1. CASE Crash
  BY <1>1, UnseenStep DEF Crash, GenIdle
<1>2. ASSUME NEW r \in RunIds, GrowOld(r) PROVE TableStep
  <2>1. \A q \in RunIds : View(runs'[q]) = View(runs[q])
    BY <1>2 DEF GrowOld, View, IInv, TypeOK, Row
  <2> QED BY <1>2, <2>1, UnseenStep DEF GrowOld
<1>3. CASE UNCHANGED vars
  BY <1>3, UnseenStep DEF vars
<1> QED
  BY <1>1, <1>2, <1>3, CallerImplements, GeneratorImplements, RemoveStep
     DEF Next, IInv

(* For any number of requests, runs, instruments, failures and restarts the
   service keeps the promise of RunTable: its readers see one waiting run of
   a key, runs that keep to their key, and statuses that follow each other as
   allowedTransitions says, but for the one the generator writes over.      *)
THEOREM Refinement == Spec => ImplementsRunTable
<1>1. Init => GenInv /\ WindowInv /\ KeyInv /\ Table!Init
  BY DEF Init, GenInv, WindowInv, KeyInv, Counts, Live, NoRow, GenIdle, Holding,
         Idle, Table!Init
<1>2. IInv => TypeOK
  BY DEF IInv
<1>3. IInv /\ GenInv /\ KeyInv /\ [Next]_vars => [Table!Next]_(Table!vars)
  BY NextImplements DEF TableStep
<1> QED BY Inductive, NextWindow, NextKeys, <1>1, <1>2, <1>3,
           PTL DEF Spec, ImplementsRunTable, Table!Spec

-----------------------------------------------------------------------------
(* The club *)

HIDE ConstantsAssumption
USE ClubAssumption

Request ==
  [op : {"idle", "create", "join", "signup", "leave", "remove", "promote", "demote",
         "accept", "invite", "delete"},
   pc : {"idle", "club", "owner", "channel", "insert", "delete", "unchannel",
         "target", "update", "mark", "invites", "members", "archive"},
   user : Users \cup {NoOne}, invite : Invites \cup {NoInvite}]

(* Which states of a request there are, and whom and what it is about. *)
RequestOK(p) ==
  \/ p = NoRequest
  \/ /\ p.user \in Users /\ p.invite = NoInvite
     /\ \/ p.op = "create" /\ p.pc \in {"club", "owner", "channel"}
        \/ p.op = "join" /\ p.pc \in {"insert", "channel"}
        \/ p.op = "signup" /\ p.pc = "insert"
        \/ p.op = "leave" /\ p.pc \in {"delete", "unchannel"}
        \/ p.op = "remove" /\ p.pc \in {"target", "delete", "unchannel"}
        \/ p.op = "promote" /\ p.pc = "update"
        \/ p.op = "demote" /\ p.pc \in {"target", "update"}
  \/ /\ p.user \in Users /\ p.invite \in Invites
     /\ p.op = "accept" /\ p.pc \in {"mark", "insert", "channel"}
  \/ /\ p.user = NoOne /\ p.invite \in Invites
     /\ p.op = "invite" /\ p.pc = "insert"
  \/ /\ p.user = NoOne /\ p.invite = NoInvite
     /\ p.op = "delete" /\ p.pc \in {"invites", "members", "club", "archive"}

RequestsOK ==
  /\ request \in [Requests -> Request]
  /\ \A r \in Requests : RequestOK(request[r])
  /\ admitted \in [Invites -> SUBSET Users]
  /\ shared \subseteq Invites

(* The creation has not inserted the owner. *)
Newborn(r) == request[r].op = "create" /\ request[r].pc \in {"club", "owner"}

(* Until the owner is in, there is nobody and nothing but the creation. *)
BirthInv ==
  /\ channel = "none" => Quiet /\ club = "none"
  /\ club = "none" => /\ roll = {}
                      /\ \A i \in Invites : invites[i] = "none"
                      /\ \A r \in Requests : request[r] = NoRequest \/ At(r, "create", "club")
  /\ \A r \in Requests : Newborn(r) =>
       /\ channel = "open" /\ roll = {} /\ Members = {}
       /\ club = IF request[r].pc = "club" THEN "none" ELSE "open"
       /\ \A i \in Invites : invites[i] = "none"
       /\ \A s \in Requests \ {r} : request[s] = NoRequest

(* What a deletion has deleted is gone. *)
DeletionInv ==
  ~undone => \A d \in Requests :
    /\ At(d, "delete", "members") => Invited = {}
    /\ At(d, "delete", "club") => Invited = {} /\ Members = {}
    /\ At(d, "delete", "archive") => club = "deleted"

Owners == {u \in Users : roles[u] = "owner"}

(* A deletion has deleted the members and not tried the club. *)
Emptied == \E d \in Requests : At(d, "delete", "club")

(* Nobody is about to dismiss or demote the owner. *)
OwnerStays ==
  \A r \in Requests :
    request[r].pc = "delete" \/ At(r, "demote", "update")
      => roles[request[r].user] # "owner"

WholeInv ==
  ~undone =>
    /\ club = "open" => channel = "open"
    /\ club = "deleted" => \/ channel = "archived"
                           \/ \E d \in Requests : At(d, "delete", "archive")
    /\ /\ club = "open" /\ ~Emptied
       /\ \A r \in Requests : ~Newborn(r)
       => \E u \in Users : Owners = {u}

(* A request has written one of the two rows of the user. *)
Half(r, u) == request[r].user = u /\ request[r].pc \in {"channel", "unchannel"}

(* One request at a time is half way with a user, and knows what it wrote. *)
Agree(u) ==
  /\ \A r, s \in Requests : Half(r, u) /\ Half(s, u) => r = s
  /\ \A r \in Requests : Half(r, u) =>
       (request[r].pc = "channel" <=> roles[u] # "none")
  /\ (\A r \in Requests : ~Half(r, u)) => (u \in roll <=> roles[u] # "none")

RollInv ==
  ~undone /\ club = "open" /\ ~Emptied => \A u \in Users \ crossed : Agree(u)

(* A row inserted is a row that was not there. *)
InviteInv ==
  \A r \in Requests : At(r, "invite", "insert") =>
    /\ invites[request[r].invite] = "none"
    /\ \A s \in Requests \ {r} : request[s].invite # request[r].invite

Accepting(r, i, pc) == At(r, "accept", pc) /\ request[r].invite = i

(* One acceptance at a time reads an invite, and none once it is used. *)
AcceptInv ==
  \A i \in Invites \ shared :
    /\ \A r \in Requests : request[r].op = "accept" /\ request[r].invite = i
                             => invites[i] # "none"
    /\ \A r, s \in Requests : Accepting(r, i, "mark") /\ Accepting(s, i, "mark") => r = s
    /\ \A r, s \in Requests : Accepting(r, i, "insert") /\ Accepting(s, i, "insert") => r = s
    /\ \A r \in Requests : Accepting(r, i, "insert") => admitted[i] = {}
    /\ admitted[i] # {} \/ (\E r \in Requests : Accepting(r, i, "insert"))
         => /\ invites[i] \in {"accepted", "deleted"}
            /\ \A r \in Requests : ~Accepting(r, i, "mark")
    /\ \A u, v \in admitted[i] : u = v

ClubInv ==
  /\ ClubTypeOK /\ RequestsOK /\ BirthInv /\ DeletionInv /\ OwnerStays
  /\ WholeInv /\ RollInv /\ InviteInv /\ AcceptInv

-----------------------------------------------------------------------------
(* Facts about requests *)

LEMMA IdleRequest ==
  /\ NoRequest \in Request
  /\ NoRequest.op = "idle" /\ NoRequest.pc = "idle"
  /\ NoRequest.user = NoOne /\ NoRequest.invite = NoInvite
BY DEF NoRequest, Request

(* The request goes on with p, the others stay where they are. *)
Becomes(r, p) ==
  /\ request' \in [Requests -> Request]
  /\ request'[r] = p
  /\ \A s \in Requests \ {r} : request'[s] = request[s]

LEMMA SetBecomes ==
  ASSUME RequestsOK, NEW r \in Requests, NEW p \in Request, Set(r, p)
  PROVE  Becomes(r, p)
BY DEF RequestsOK, Set, Becomes

LEMMA EndBecomes ==
  ASSUME RequestsOK, NEW r \in Requests, End(r)
  PROVE  Becomes(r, NoRequest)
BY SetBecomes, IdleRequest DEF End

LEMMA GoBecomes ==
  ASSUME RequestsOK, NEW r \in Requests,
         NEW pc \in {"owner", "channel", "insert", "delete", "unchannel", "update",
                     "members", "club", "archive"},
         Go(r, pc)
  PROVE  /\ Becomes(r, [request[r] EXCEPT !.pc = pc])
         /\ request'[r].op = request[r].op /\ request'[r].pc = pc
         /\ request'[r].user = request[r].user
         /\ request'[r].invite = request[r].invite
<1>1. request[r] \in Request
  BY DEF RequestsOK
<1>2. [request[r] EXCEPT !.pc = pc] \in Request
  BY <1>1 DEF Request
<1>3. Becomes(r, [request[r] EXCEPT !.pc = pc])
  BY <1>2, SetBecomes DEF Go
<1> QED BY <1>1, <1>3 DEF Becomes, Request

LEMMA StartBecomes ==
  ASSUME RequestsOK, NEW r \in Requests, NEW op, NEW pc, NEW user, NEW invite,
         [op |-> op, pc |-> pc, user |-> user, invite |-> invite] \in Request,
         Start(r, op, pc, user, invite)
  PROVE  /\ request[r] = NoRequest
         /\ Becomes(r, [op |-> op, pc |-> pc, user |-> user, invite |-> invite])
         /\ request'[r].op = op /\ request'[r].pc = pc
         /\ request'[r].user = user /\ request'[r].invite = invite
BY SetBecomes DEF Start, Becomes

(* Once a request other than the creation is at work, the club has its owner. *)
LEMMA Grown ==
  ASSUME ClubInv, NEW r \in Requests, request[r] # NoRequest, ~Newborn(r)
  PROVE  /\ club # "none" /\ channel # "none"
         /\ \A s \in Requests : ~Newborn(s)
BY IdleRequest DEF ClubInv, BirthInv, Newborn, Quiet, At

-----------------------------------------------------------------------------
(* Initially *)

LEMMA ClubInvInit == ClubInit => ClubInv
BY IdleRequest DEF ClubInit, ClubInv, ClubTypeOK, RequestsOK, RequestOK, BirthInv, DeletionInv,
  OwnerStays, WholeInv, RollInv, InviteInv, AcceptInv, Members, Invited, Quiet, At,
  Newborn, Emptied, Accepting, Roles

-----------------------------------------------------------------------------
(* Requests that start *)

(* A request starts, with no row of its own written, when the club has its
   owner.                                                                  *)
LEMMA StartStep ==
  ASSUME ClubInv, NEW r \in Requests, NEW p \in Request, RequestOK(p),
         request[r] = NoRequest, Becomes(r, p),
         club # "none", \A s \in Requests : ~Newborn(s),
         p # NoRequest, p.op # "create", p.pc \notin {"channel", "unchannel"},
         p.pc = "delete" => roles[p.user] # "owner",
         p.op = "demote" => p.pc = "target",
         p.op = "delete" => p.pc = "invites",
         p.op = "invite" => /\ invites[p.invite] = "none"
                            /\ \A s \in Requests : request[s].invite # p.invite,
         p.op = "accept" =>
           /\ p.pc = "mark" /\ invites[p.invite] = "pending"
           /\ p.invite \in shared' \/ \A s \in Requests : ~Accepting(s, p.invite, "mark"),
         shared \subseteq shared', shared' \subseteq Invites,
         UNCHANGED <<tables, crossed, undone, admitted>>
  PROVE  ClubInv'
<1>1. ClubTypeOK'
  BY DEF ClubInv, ClubTypeOK, tables, Members, Invited
<1>2. RequestsOK'
  BY DEF ClubInv, RequestsOK, RequestOK, Becomes
<1>3. BirthInv' /\ \A s \in Requests : ~Newborn(s)'
  BY IdleRequest DEF ClubInv, BirthInv, Newborn, Quiet, At, Members, tables, Becomes
<1>4. DeletionInv'
  BY DEF ClubInv, DeletionInv, At, Members, Invited, tables, Becomes
<1>5. OwnerStays'
  BY DEF ClubInv, OwnerStays, At, tables, Becomes
<1>6. WholeInv' /\ RollInv'
  <2>1. /\ Emptied' <=> Emptied
        /\ (\E d \in Requests : At(d, "delete", "archive"))'
             <=> \E d \in Requests : At(d, "delete", "archive")
    BY IdleRequest DEF Emptied, At, Becomes
  <2>2. WholeInv'
    BY <2>1 DEF ClubInv, WholeInv, Owners, tables
  <2>3. ASSUME NEW s \in Requests, NEW u \in Users
        PROVE  /\ Half(s, u)' <=> Half(s, u)
               /\ Half(s, u) => s # r /\ request'[s] = request[s]
    BY IdleRequest DEF Half, Becomes
  <2>4. ASSUME NEW u \in Users, Agree(u)
        PROVE  Agree(u)'
    BY <2>3, <2>4 DEF Agree, tables
  <2> QED BY <2>1, <2>2, <2>4 DEF ClubInv, RollInv, tables
<1>7. InviteInv'
  <2> SUFFICES ASSUME NEW s \in Requests, At(s, "invite", "insert")'
               PROVE  /\ invites'[request'[s].invite] = "none"
                      /\ \A q \in Requests \ {s} :
                           request'[q].invite # request'[s].invite
    BY DEF InviteInv
  <2>1. CASE s = r
    BY <2>1 DEF At, Becomes, tables
  <2>2. CASE s # r
    <3>1. /\ request'[s] = request[s] /\ request[s].invite \in Invites
          /\ invites[request[s].invite] = "none"
          /\ \A q \in Requests \ {s} : request[q].invite # request[s].invite
      BY <2>2, IdleRequest DEF At, Becomes, ClubInv, InviteInv, RequestsOK, RequestOK
    <3>2. p.invite # request[s].invite
      BY <3>1, <2>2 DEF RequestOK
    <3> QED BY <3>1, <3>2, <2>2 DEF Becomes, tables
  <2> QED BY <2>1, <2>2
<1>8. AcceptInv'
  <2>1. ASSUME NEW s \in Requests, NEW i \in Invites, NEW pc \in {"mark", "insert"}
        PROVE  /\ s # r => (Accepting(s, i, pc)' <=> Accepting(s, i, pc))
               /\ ~Accepting(r, i, pc)
               /\ Accepting(r, i, pc)' =>
                    /\ pc = "mark" /\ invites[i] = "pending"
                    /\ i \in shared' \/ \A q \in Requests : ~Accepting(q, i, "mark")
    BY IdleRequest DEF Accepting, At, Becomes
  <2>2. ASSUME NEW s \in Requests, NEW i \in Invites, i \notin shared',
               (request[s].op = "accept" /\ request[s].invite = i)'
        PROVE  invites'[i] # "none"
    BY <2>2, IdleRequest DEF Becomes, ClubInv, AcceptInv, tables
  <2> QED BY <2>1, <2>2 DEF ClubInv, AcceptInv, tables
<1> QED BY <1>1, <1>2, <1>3, <1>4, <1>5, <1>6, <1>7, <1>8 DEF ClubInv

(* Who has a role, or an invite that can be used, has a club with an owner. *)
LEMMA RoleGrown ==
  ASSUME ClubInv, (\E u \in Users : roles[u] # "none") \/ \E i \in Invites : invites[i] = "pending"
  PROVE  club # "none" /\ \A s \in Requests : ~Newborn(s)
BY DEF ClubInv, ClubTypeOK, BirthInv, Members, Invited

LEMMA CreateStep ==
  ASSUME ClubInv, NEW r \in Requests, NEW user \in Users, CreateChannel(r, user)
  PROVE  ClubInv'
<1> DEFINE p == [op |-> "create", pc |-> "club", user |-> user, invite |-> NoInvite]
<1>1. p \in Request /\ RequestOK(p)
  BY DEF Request, RequestOK
<1>2. /\ Becomes(r, p) /\ request'[r].op = "create" /\ request'[r].pc = "club"
      /\ UNCHANGED <<club, roles, roll, invites, history>>
      /\ club = "none" /\ channel = "none" /\ channel' = "open"
  BY <1>1, StartBecomes DEF CreateChannel, ClubInv
<1>3. \A s \in Requests : request[s] = NoRequest
  BY <1>2 DEF ClubInv, BirthInv, Quiet
<1>4. ClubTypeOK' /\ RequestsOK'
  BY <1>1, <1>2 DEF ClubInv, ClubTypeOK, RequestsOK, RequestOK, Becomes, Members, Invited, history
<1>5. BirthInv'
  BY <1>2, <1>3, IdleRequest DEF ClubInv, ClubTypeOK, BirthInv, Newborn, At, Members, Becomes
<1>6. DeletionInv' /\ OwnerStays' /\ WholeInv' /\ RollInv'
  BY <1>2, <1>3, IdleRequest DEF DeletionInv, OwnerStays, WholeInv, RollInv, At, Becomes
<1>7. InviteInv' /\ AcceptInv'
  BY <1>2, <1>3, IdleRequest
     DEF ClubInv, InviteInv, AcceptInv, Accepting, At, Becomes, history
<1> QED BY <1>4, <1>5, <1>6, <1>7 DEF ClubInv

LEMMA StartsStep ==
  ASSUME ClubInv, NEW r \in Requests, Starts(r)
  PROVE  ClubInv'
<1>1. ASSUME NEW user \in Users, StartJoin(r, user) \/ StartSignup(r, user)
      PROVE  ClubInv'
  <2> DEFINE Asked(op) ==
               [op |-> op, pc |-> "insert", user |-> user, invite |-> NoInvite]
  <2>1. ASSUME NEW op \in {"join", "signup"}
        PROVE  Asked(op) \in Request /\ RequestOK(Asked(op)) /\ Asked(op) # NoRequest
    BY IdleRequest DEF Request, RequestOK
  <2>2. PICK op \in {"join", "signup"} :
          /\ request[r] = NoRequest /\ Becomes(r, Asked(op))
          /\ UNCHANGED <<tables, history>>
          /\ club = "open" /\ \A s \in Requests : ~Newborn(s)
    BY <1>1, <2>1, StartBecomes DEF StartJoin, StartSignup, ClubInv, Newborn
  <2> QED BY <2>1, <2>2, StartStep DEF history, ClubInv, RequestsOK
<1>2. ASSUME NEW by \in Users, NEW user \in Users,
             \/ StartLeave(r, user) \/ StartRemove(r, by, user)
             \/ StartRole(r, by, user, "promote") \/ StartRole(r, by, user, "demote")
      PROVE  ClubInv'
  <2>1. ASSUME NEW op, NEW pc, Start(r, op, pc, user, NoInvite),
               \/ op = "leave" /\ pc = "delete" /\ roles[user] # "owner"
               \/ op = "remove" /\ pc = "target"
               \/ op = "promote" /\ pc = "update"
               \/ op = "demote" /\ pc = "target",
               UNCHANGED <<tables, history>>, \E u \in Users : roles[u] # "none"
        PROVE  ClubInv'
    <3> DEFINE p == [op |-> op, pc |-> pc, user |-> user, invite |-> NoInvite]
    <3>1. p \in Request /\ RequestOK(p) /\ p # NoRequest
      BY <2>1, IdleRequest DEF Request, RequestOK
    <3>2. request[r] = NoRequest /\ Becomes(r, p)
      BY <2>1, <3>1, StartBecomes DEF ClubInv
    <3>3. club # "none" /\ \A s \in Requests : ~Newborn(s)
      BY <2>1, RoleGrown
    <3> QED BY <2>1, <3>1, <3>2, <3>3, StartStep DEF history, ClubInv, RequestsOK
  <2>2. CASE StartLeave(r, user)
    BY <2>1, <2>2 DEF StartLeave
  <2>3. CASE StartRemove(r, by, user)
    BY <2>1, <2>3 DEF StartRemove, MayAdmit
  <2>4. CASE StartRole(r, by, user, "promote")
    BY <2>1, <2>4 DEF StartRole
  <2>5. CASE StartRole(r, by, user, "demote")
    BY <2>1, <2>5 DEF StartRole
  <2> QED BY <1>2, <2>2, <2>3, <2>4, <2>5
<1>3. ASSUME NEW by \in Users, StartDelete(r, by)
      PROVE  ClubInv'
  <2> DEFINE p == [op |-> "delete", pc |-> "invites", user |-> NoOne, invite |-> NoInvite]
  <2>1. p \in Request /\ RequestOK(p) /\ p # NoRequest
    BY IdleRequest DEF Request, RequestOK
  <2>2. /\ request[r] = NoRequest /\ Becomes(r, p)
        /\ UNCHANGED <<tables, history>> /\ roles[by] # "none"
    BY <1>3, <2>1, StartBecomes DEF StartDelete, ClubInv
  <2> QED BY <2>1, <2>2, RoleGrown, StartStep DEF history, ClubInv, RequestsOK
<1>4. ASSUME NEW by \in Users, NEW invite \in Invites, StartInvite(r, by, invite)
      PROVE  ClubInv'
  <2> DEFINE p == [op |-> "invite", pc |-> "insert", user |-> NoOne, invite |-> invite]
  <2>1. p \in Request /\ RequestOK(p) /\ p # NoRequest
    BY IdleRequest DEF Request, RequestOK
  <2>2. /\ request[r] = NoRequest /\ Becomes(r, p)
        /\ UNCHANGED <<tables, history>> /\ roles[by] # "none"
        /\ invites[invite] = "none" /\ \A s \in Requests : request[s].invite # invite
    BY <1>4, <2>1, StartBecomes DEF StartInvite, MayAdmit, ClubInv
  <2> QED BY <2>1, <2>2, RoleGrown, StartStep DEF history, ClubInv, RequestsOK
<1>5. ASSUME NEW user \in Users, NEW invite \in Invites, ReadInvite(r, user, invite)
      PROVE  ClubInv'
  <2> DEFINE p == [op |-> "accept", pc |-> "mark", user |-> user, invite |-> invite]
  <2>1. p \in Request /\ RequestOK(p) /\ p # NoRequest
    BY IdleRequest DEF Request, RequestOK
  <2>2. /\ request[r] = NoRequest /\ Becomes(r, p)
        /\ UNCHANGED <<tables, crossed, undone, admitted>>
        /\ invites[invite] = "pending"
    BY <1>5, <2>1, StartBecomes DEF ReadInvite, ClubInv
  <2>3. /\ shared \subseteq shared' /\ shared' \subseteq Invites
        /\ invite \in shared' \/ \A s \in Requests : ~Accepting(s, invite, "mark")
    BY <1>5 DEF ReadInvite, Accepting, ClubInv, RequestsOK
  <2> QED BY <2>1, <2>2, <2>3, RoleGrown, StartStep
<1> QED BY <1>1, <1>2, <1>3, <1>4, <1>5, CreateStep DEF Starts

-----------------------------------------------------------------------------
(* Steps of a request *)

(* A user whom the step is not about. *)
LEMMA OthersAgree ==
  ASSUME ClubInv, NEW r \in Requests, NEW p, Becomes(r, p), NEW u \in Users, Agree(u),
         request[r].user # u, p.user # u,
         roles'[u] = roles[u], u \in roll' <=> u \in roll
  PROVE  Agree(u)'
<1>1. \A s \in Requests : /\ Half(s, u)' <=> Half(s, u)
                          /\ Half(s, u) => request'[s] = request[s]
  BY DEF Half, Becomes
<1> QED BY <1>1 DEF Agree

(* The invites a request is not inserting, and those it is not accepting. *)
LEMMA InvitesKept ==
  ASSUME ClubInv, NEW r \in Requests, NEW p \in Request, Becomes(r, p),
         \/ p = NoRequest
         \/ p.op = request[r].op /\ p.invite = request[r].invite /\ p.op # "invite",
         \A i \in Invites : invites[i] = "none" =>
           \/ invites'[i] = "none"
           \/ At(r, "invite", "insert") /\ i = request[r].invite
  PROVE  InviteInv'
<1> SUFFICES ASSUME NEW s \in Requests, At(s, "invite", "insert")'
             PROVE  /\ invites'[request'[s].invite] = "none"
                    /\ \A q \in Requests \ {s} :
                         request'[q].invite # request'[s].invite
  BY DEF InviteInv
<1>1. s # r /\ request'[s] = request[s] /\ At(s, "invite", "insert")
  BY IdleRequest DEF At, Becomes
<1>2. /\ request[s].invite \in Invites /\ invites[request[s].invite] = "none"
      /\ \A q \in Requests \ {s} : request[q].invite # request[s].invite
  BY <1>1, IdleRequest DEF At, ClubInv, InviteInv, RequestsOK, RequestOK
<1>3. p.invite # request[s].invite
  BY <1>1, <1>2, IdleRequest
<1> QED BY <1>1, <1>2, <1>3 DEF Becomes

(* A request that is not reading or using an invite moves. *)
LEMMA AcceptKept ==
  ASSUME ClubInv, NEW r \in Requests, NEW p \in Request, Becomes(r, p),
         \/ p = NoRequest
         \/ p.op = request[r].op /\ p.invite = request[r].invite,
         p.op = "accept" => p.pc = "channel",
         UNCHANGED <<admitted, shared>>,
         \A i \in Invites : \/ invites'[i] = invites[i]
                            \/ invites[i] = "none" /\ invites'[i] = "pending"
                            \/ invites'[i] \in {"accepted", "deleted"}
  PROVE  AcceptInv'
<1> SUFFICES ASSUME NEW i \in Invites, i \notin shared
             PROVE  AcceptInv!(i)'
  BY DEF AcceptInv
<1>1. ASSUME NEW s \in Requests, NEW pc \in {"mark", "insert"}
      PROVE  /\ Accepting(s, i, pc)' => s # r /\ Accepting(s, i, pc)
             /\ (request[s].op = "accept" /\ request[s].invite = i)'
                  => request[s].op = "accept" /\ request[s].invite = i
  BY IdleRequest DEF Accepting, At, Becomes
<1>2. AcceptInv!(i)
  BY DEF ClubInv, AcceptInv
<1> QED BY <1>1, <1>2

(* A request that neither creates nor deletes the club writes rows of its
   user, or an invite.                                                     *)
LEMMA MemberStep ==
  ASSUME ClubInv, NEW r \in Requests, NEW p \in Request, RequestOK(p), Becomes(r, p),
         request[r] # NoRequest, ~Newborn(r), request[r].op # "delete",
         \/ p = NoRequest
         \/ /\ p.op = request[r].op /\ p.op \notin {"create", "invite"}
            /\ p.user = request[r].user /\ p.invite = request[r].invite,
         UNCHANGED <<club, channel>>,
         ~undone' => ~undone,
         crossed \subseteq crossed',
         \A u \in Users : \/ roles'[u] = roles[u]
                          \/ /\ u = request[r].user
                             /\ roles[u] # "owner" /\ roles'[u] # "owner",
         \A u \in Users : u = request[r].user \/ (u \in roll' <=> u \in roll),
         ~undone' => \/ ~BeingDeleted
                     \/ Invited' \subseteq Invited /\ Members' \subseteq Members,
         p.pc = "delete" \/ (p.op = "demote" /\ p.pc = "update")
           => roles'[p.user] # "owner",
         \A u \in Users \ crossed' :
           u = request[r].user /\ ~undone' /\ club = "open" /\ Agree(u) => Agree(u)',
         \A i \in Invites : invites[i] = "none" =>
           \/ invites'[i] = "none"
           \/ At(r, "invite", "insert") /\ i = request[r].invite,
         ClubTypeOK', AcceptInv',
         admitted' \in [Invites -> SUBSET Users], shared' \subseteq Invites
  PROVE  ClubInv'
<1>1. /\ club # "none" /\ channel # "none"
      /\ \A s \in Requests : ~Newborn(s) /\ ~Newborn(s)'
  BY Grown, IdleRequest DEF Newborn, Becomes
<1>2. RequestsOK' /\ BirthInv'
  BY <1>1 DEF ClubInv, RequestsOK, RequestOK, Becomes, BirthInv
<1>3. ASSUME NEW d \in Requests, NEW pc
      PROVE  At(d, "delete", pc)' <=> At(d, "delete", pc)
  BY IdleRequest DEF At, Becomes
<1>4. DeletionInv'
  BY <1>3 DEF ClubInv, DeletionInv, BeingDeleted, At
<1>5. OwnerStays'
  <2> SUFFICES ASSUME NEW s \in Requests, (request[s].pc = "delete" \/ At(s, "demote", "update"))'
               PROVE  roles'[request'[s].user] # "owner"
    BY DEF OwnerStays
  <2>1. CASE s = r
    BY <2>1 DEF At, Becomes
  <2>2. CASE s # r
    <3>1. /\ request'[s] = request[s] /\ request[s].user \in Users
          /\ roles[request[s].user] # "owner"
      BY <2>2, IdleRequest DEF At, Becomes, ClubInv, OwnerStays, RequestsOK, RequestOK
    <3> QED BY <3>1
  <2> QED BY <2>1, <2>2
<1>6. WholeInv'
  <2>1. Emptied' <=> Emptied
    BY <1>3 DEF Emptied
  <2>2. Owners' = Owners
    BY DEF Owners
  <2> QED BY <1>1, <1>3, <2>1, <2>2 DEF ClubInv, WholeInv
<1>7. RollInv'
  <2> SUFFICES ASSUME ~undone', club = "open", ~Emptied', NEW u \in Users \ crossed'
               PROVE  Agree(u)'
    BY DEF RollInv
  <2>1. Agree(u)
    BY <1>3 DEF ClubInv, RollInv, Emptied
  <2>2. CASE u = request[r].user
    BY <2>1, <2>2
  <2>3. CASE u # request[r].user
    <3>1. p.user # u
      BY <2>3, IdleRequest
    <3> QED BY <2>1, <2>3, <3>1, OthersAgree
  <2> QED BY <2>2, <2>3
<1>8. InviteInv'
  BY InvitesKept
<1> QED BY <1>2, <1>4, <1>5, <1>6, <1>7, <1>8 DEF ClubInv

(* The one thing MemberStep leaves to show of an end without a row of a user. *)
LEMMA EndsElsewhere ==
  ASSUME ClubInv, NEW r \in Requests, request[r].pc \notin {"channel", "unchannel"},
         NEW p, p.pc \notin {"channel", "unchannel"}, Becomes(r, p),
         NEW u \in Users, Agree(u), roles'[u] # "none" <=> roles[u] # "none", roll' = roll
  PROVE  Agree(u)'
<1>1. \A s \in Requests : /\ Half(s, u)' <=> Half(s, u)
                          /\ Half(s, u) => request'[s] = request[s]
  BY DEF Half, Becomes
<1> QED BY <1>1 DEF Agree

LEMMA SignupStep ==
  ASSUME ClubInv, NEW r \in Requests, SignupInsertMember(r)
  PROVE  ClubInv'
<1> DEFINE joins == club = "open" /\ roles[request[r].user] = "none"
<1>1. /\ Becomes(r, NoRequest) /\ request[r] # NoRequest
      /\ request[r].op = "signup" /\ request[r].pc = "insert"
      /\ request[r].user \in Users /\ request[r].user # NoOne
      /\ ~Newborn(r)
  BY EndBecomes, IdleRequest
     DEF SignupInsertMember, At, ClubInv, RequestsOK, RequestOK, Newborn
<1>2. /\ UNCHANGED <<club, channel, roll, invites, admitted, shared>>
      /\ roles' = [roles EXCEPT ![request[r].user] = IF joins THEN "member" ELSE @]
      /\ crossed' = IF joins THEN crossed \cup {request[r].user} ELSE crossed
      /\ undone' = (undone \/ (joins /\ BeingDeleted))
  BY DEF SignupInsertMember
<1>3. \A u \in Users : \/ roles'[u] = roles[u]
                       \/ /\ u = request[r].user /\ joins
                          /\ roles[u] = "none" /\ roles'[u] = "member"
  BY <1>1, <1>2 DEF ClubInv, ClubTypeOK
<1>4. ClubTypeOK'
  BY <1>1, <1>2 DEF ClubInv, ClubTypeOK, Roles, Members, Invited
<1>5. AcceptInv'
  BY <1>1, <1>2, AcceptKept, IdleRequest
<1>6. \A u \in Users \ crossed' : u = request[r].user /\ Agree(u) => Agree(u)'
  BY <1>1, <1>2, <1>3, EndsElsewhere, IdleRequest
<1>7. ~undone' => \/ ~BeingDeleted
                  \/ Invited' \subseteq Invited /\ Members' \subseteq Members
  BY <1>2, <1>3 DEF Invited, Members
<1> QED
  BY <1>1, <1>2, <1>3, <1>4, <1>5, <1>6, <1>7, MemberStep, IdleRequest
     DEF ClubInv, RequestsOK, RequestOK

LEMMA InsertInviteStep ==
  ASSUME ClubInv, NEW r \in Requests, InsertInvite(r)
  PROVE  ClubInv'
<1>1. /\ Becomes(r, NoRequest) /\ request[r] # NoRequest
      /\ request[r].op = "invite" /\ request[r].pc = "insert"
      /\ request[r].user = NoOne /\ request[r].invite \in Invites
      /\ invites[request[r].invite] = "none" /\ ~Newborn(r)
  BY EndBecomes, IdleRequest
     DEF InsertInvite, At, ClubInv, RequestsOK, RequestOK, InviteInv, Newborn
<1>2. /\ UNCHANGED <<club, roles, channel, roll, crossed, admitted, shared>>
      /\ invites' = [invites EXCEPT ![request[r].invite] =
                                      IF club = "open" THEN "pending" ELSE @]
      /\ undone' = (undone \/ BeingDeleted)
  BY DEF InsertInvite
<1>3. ClubTypeOK'
  BY <1>1, <1>2 DEF ClubInv, ClubTypeOK, Members, Invited
<1>4. \A i \in Invites : \/ invites'[i] = invites[i]
                         \/ /\ i = request[r].invite
                            /\ invites[i] = "none" /\ invites'[i] = "pending"
  BY <1>1, <1>2 DEF ClubInv, ClubTypeOK
<1>5. AcceptInv'
  BY <1>1, <1>2, <1>4, AcceptKept, IdleRequest
<1>6. \A u \in Users \ crossed' : u # request[r].user
  BY <1>1
<1> QED
  BY <1>1, <1>2, <1>3, <1>4, <1>5, <1>6, MemberStep, IdleRequest
     DEF ClubInv, RequestsOK, RequestOK, At

LEMMA MarkAcceptedStep ==
  ASSUME ClubInv, NEW r \in Requests, MarkAccepted(r)
  PROVE  ClubInv'
<1> DEFINE p == [request[r] EXCEPT !.pc = "insert"]
           i == request[r].invite
<1>1. /\ Becomes(r, p) /\ request[r] # NoRequest /\ ~Newborn(r)
      /\ request[r].op = "accept" /\ request[r].pc = "mark"
      /\ request[r].user \in Users /\ i \in Invites
      /\ request[r] \in Request
  BY GoBecomes, IdleRequest
     DEF MarkAccepted, At, ClubInv, RequestsOK, RequestOK, Newborn
<1>2. /\ p \in Request /\ RequestOK(p) /\ p.op = "accept" /\ p.pc = "insert"
      /\ p.user = request[r].user /\ p.invite = i
  BY <1>1 DEF Request, RequestOK
<1>3. /\ UNCHANGED <<club, roles, channel, roll, history>>
      /\ invites' = [invites EXCEPT ![i] = IF i \in Invited THEN "accepted" ELSE @]
  BY DEF MarkAccepted
<1>4. ClubTypeOK'
  BY <1>1, <1>3 DEF ClubInv, ClubTypeOK, Members, Invited, history
<1>5. \A j \in Invites : \/ invites'[j] = invites[j]
                         \/ /\ j = i /\ invites[j] \in {"pending", "accepted"}
                            /\ invites'[j] = "accepted"
  BY <1>1, <1>3 DEF ClubInv, ClubTypeOK, Invited
<1>6. AcceptInv'
  <2> SUFFICES ASSUME NEW j \in Invites, j \notin shared
               PROVE  AcceptInv!(j)'
    BY <1>3 DEF AcceptInv, history
  <2>1. AcceptInv!(j)
    BY DEF ClubInv, AcceptInv
  <2>2. ASSUME NEW s \in Requests, NEW pc \in {"mark", "insert"}
        PROVE  /\ s # r => (Accepting(s, j, pc)' <=> Accepting(s, j, pc))
               /\ (request[s].op = "accept" /\ request[s].invite = j)'
                    <=> request[s].op = "accept" /\ request[s].invite = j
               /\ Accepting(r, j, pc) <=> j = i /\ pc = "mark"
               /\ Accepting(r, j, pc)' <=> j = i /\ pc = "insert"
    BY <1>1, <1>2 DEF Accepting, At, Becomes
  <2>3. j = i => invites'[j] \in {"accepted", "deleted"}
    BY <1>1, <1>3, <2>1, <2>2 DEF ClubInv, ClubTypeOK, Invited
  <2> QED BY <1>3, <1>5, <2>1, <2>2, <2>3 DEF history
<1>7. \A u \in Users : Agree(u) => Agree(u)'
  BY <1>1, <1>2, <1>3, EndsElsewhere
<1>8. /\ Invited' \subseteq Invited /\ Members' \subseteq Members
      /\ \A j \in Invites : invites[j] = "none" => invites'[j] = "none"
  BY <1>3, <1>5 DEF Invited, Members
<1> QED
  BY <1>1, <1>2, <1>3, <1>4, <1>6, <1>7, <1>8, MemberStep
     DEF ClubInv, RequestsOK, history

LEMMA ReadTargetStep ==
  ASSUME ClubInv, NEW r \in Requests, ReadTarget(r)
  PROVE  ClubInv'
<1>1. /\ request[r] # NoRequest /\ ~Newborn(r) /\ request[r].user \in Users
      /\ request[r].op \in {"remove", "demote"} /\ request[r].pc = "target"
      /\ request[r].invite = NoInvite
      /\ request[r] \in Request /\ UNCHANGED <<tables, history>>
  BY IdleRequest DEF ReadTarget, ClubInv, RequestsOK, RequestOK, Newborn
<1>2. PICK p \in Request :
        /\ RequestOK(p) /\ Becomes(r, p) /\ p.pc \notin {"channel", "unchannel"}
        /\ \/ p = NoRequest
           \/ /\ p.op = request[r].op /\ p.user = request[r].user
              /\ p.invite = request[r].invite /\ roles[p.user] # "owner"
  <2>1. CASE End(r)
    BY <2>1, EndBecomes, IdleRequest DEF ClubInv, RequestOK
  <2>2. ASSUME NEW pc \in {"delete", "update"}, Go(r, pc),
               request[r].op = "remove" => pc = "delete",
               request[r].op = "demote" => pc = "update",
               roles[request[r].user] # "owner"
        PROVE  \E p \in Request :
                 /\ RequestOK(p) /\ Becomes(r, p) /\ p.pc \notin {"channel", "unchannel"}
                 /\ p.op = request[r].op /\ p.user = request[r].user
                 /\ p.invite = request[r].invite /\ roles[p.user] # "owner"
    <3>1. Becomes(r, [request[r] EXCEPT !.pc = pc])
      BY <2>2, GoBecomes DEF ClubInv
    <3>2. request'[r] \in Request /\ Becomes(r, request'[r])
      BY <3>1 DEF Becomes
    <3>3. /\ request'[r].op = request[r].op /\ request'[r].pc = pc
          /\ request'[r].user = request[r].user
          /\ request'[r].invite = request[r].invite
      BY <2>2, GoBecomes DEF ClubInv
    <3>4. RequestOK(request'[r])
      BY <1>1, <2>2, <3>3 DEF RequestOK
    <3> QED BY <2>2, <3>2, <3>3, <3>4
  <2> QED BY <1>1, <2>1, <2>2 DEF ReadTarget
<1>3. ClubTypeOK'
  BY <1>1 DEF ClubInv, ClubTypeOK, Members, Invited, tables, history
<1>4. AcceptInv'
  BY <1>1, <1>2, AcceptKept, IdleRequest DEF tables, history
<1>5. \A u \in Users : Agree(u) => Agree(u)'
  BY <1>1, <1>2, EndsElsewhere DEF tables
<1>6. /\ Members' = Members /\ Invited' = Invited
      /\ UNCHANGED <<club, channel, roles, roll, invites>>
      /\ UNCHANGED <<crossed, undone, admitted, shared>>
  BY <1>1 DEF tables, history, Members, Invited
<1> QED
  BY <1>1, <1>2, <1>3, <1>4, <1>5, <1>6, MemberStep, IdleRequest
     DEF ClubInv, RequestsOK

LEMMA RoleStep ==
  ASSUME ClubInv, NEW r \in Requests, Promote(r) \/ Demote(r)
  PROVE  ClubInv'
<1>1. /\ Becomes(r, NoRequest) /\ request[r] # NoRequest /\ ~Newborn(r)
      /\ request[r].user \in Users /\ request[r].pc = "update"
      /\ request[r].op \in {"promote", "demote"}
      /\ UNCHANGED <<club, channel, roll, invites, history>>
  BY EndBecomes, IdleRequest
     DEF Promote, Demote, At, ClubInv, RequestsOK, RequestOK, Newborn
<1>2. \A u \in Users :
        \/ roles'[u] = roles[u]
        \/ /\ u = request[r].user /\ roles[u] \in {"admin", "member"}
           /\ roles'[u] \in {"admin", "member"}
  BY <1>1 DEF Promote, Demote, At, ClubInv, ClubTypeOK, OwnerStays, Roles
<1>3. roles' \in [Users -> Roles \cup {"none"}]
  BY <1>1 DEF Promote, Demote, ClubInv, ClubTypeOK, Roles
<1>4. Members' = Members /\ Invited' = Invited
  BY <1>1, <1>2 DEF Members, Invited
<1>5. ClubTypeOK'
  BY <1>1, <1>3, <1>4 DEF ClubInv, ClubTypeOK, history
<1>6. AcceptInv'
  BY <1>1, AcceptKept, IdleRequest DEF history
<1>7. \A u \in Users : Agree(u) => Agree(u)'
  BY <1>1, <1>2, EndsElsewhere, IdleRequest
<1> QED
  BY <1>1, <1>2, <1>4, <1>5, <1>6, <1>7, MemberStep, IdleRequest
     DEF ClubInv, RequestsOK, RequestOK, history

LEMMA InsertMemberStep ==
  ASSUME ClubInv, NEW r \in Requests, InsertMember(r)
  PROVE  ClubInv'
<1> DEFINE p == request[r]
           x == request[r].user
           q == [request[r] EXCEPT !.pc = "channel"]
<1>1. /\ p # NoRequest /\ ~Newborn(r) /\ x \in Users /\ p \in Request
      /\ p.op \in {"join", "accept"} /\ p.pc = "insert"
      /\ p.invite \in Invites \cup {NoInvite} /\ p.op = "accept" <=> p.invite \in Invites
      /\ UNCHANGED <<club, channel, roll, invites, shared>>
  BY IdleRequest DEF InsertMember, ClubInv, RequestsOK, RequestOK, Newborn
<1>2. CASE ~(club = "open" /\ roles[x] = "none")
  <2>1. Becomes(r, NoRequest) /\ UNCHANGED <<roles, crossed, undone, admitted>>
    BY <1>2, EndBecomes DEF InsertMember, ClubInv
  <2>2. ClubTypeOK'
    BY <1>1, <2>1 DEF ClubInv, ClubTypeOK, Members, Invited
  <2>3. AcceptInv'
    BY <1>1, <2>1, AcceptKept, IdleRequest
  <2>4. \A u \in Users : Agree(u) => Agree(u)'
    BY <1>1, <2>1, EndsElsewhere, IdleRequest
  <2>5. Members' = Members /\ Invited' = Invited
    BY <1>1, <2>1 DEF Members, Invited
  <2> QED
    BY <1>1, <2>1, <2>2, <2>3, <2>4, <2>5, MemberStep, IdleRequest
       DEF ClubInv, RequestsOK, RequestOK
<1>3. CASE club = "open" /\ roles[x] = "none"
  <2>1. /\ Becomes(r, q) /\ q.op = p.op /\ q.pc = "channel" /\ q.user = x
        /\ q.invite = p.invite /\ q \in Request /\ RequestOK(q)
    BY <1>1, <1>3, GoBecomes DEF InsertMember, ClubInv, Request, RequestOK
  <2>2. /\ roles' = [roles EXCEPT ![x] = "member"]
        /\ crossed' = IF Halfway(r, x) THEN crossed \cup {x} ELSE crossed
        /\ undone' = (undone \/ BeingDeleted)
        /\ admitted' = IF p.invite = NoInvite THEN admitted
                       ELSE [admitted EXCEPT ![p.invite] = @ \cup {x}]
    BY <1>3 DEF InsertMember
  <2>3. ClubTypeOK' /\ admitted' \in [Invites -> SUBSET Users]
    BY <1>1, <1>3, <2>2 DEF ClubInv, ClubTypeOK, RequestsOK, Roles, Members, Invited
  <2>4. AcceptInv'
    <3> SUFFICES ASSUME NEW j \in Invites, j \notin shared
                 PROVE  AcceptInv!(j)'
      BY <1>1 DEF AcceptInv
    <3>1. AcceptInv!(j)
      BY DEF ClubInv, AcceptInv
    <3>2. ASSUME NEW s \in Requests, NEW pc \in {"mark", "insert"}
          PROVE  /\ s # r => (Accepting(s, j, pc)' <=> Accepting(s, j, pc))
                 /\ (request[s].op = "accept" /\ request[s].invite = j)'
                      <=> request[s].op = "accept" /\ request[s].invite = j
                 /\ Accepting(r, j, pc) <=> j = p.invite /\ pc = "insert"
                 /\ ~Accepting(r, j, pc)'
      BY <1>1, <2>1 DEF Accepting, At, Becomes
    <3>3. CASE j = p.invite
      <4>1. admitted[j] = {} /\ \A s \in Requests : Accepting(s, j, "insert") => s = r
        BY <3>1, <3>2, <3>3
      <4>2. admitted'[j] = {x}
        BY <4>1, <2>2, <3>3 DEF ClubInv, RequestsOK
      <4> QED BY <1>1, <3>1, <3>2, <3>3, <4>1, <4>2
    <3>4. CASE j # p.invite
      <4>1. admitted'[j] = admitted[j]
        BY <2>2, <3>4 DEF ClubInv, RequestsOK
      <4> QED BY <1>1, <3>1, <3>2, <3>4, <4>1
    <3> QED BY <3>3, <3>4
  <2>5. /\ \A u \in Users : u # x => roles'[u] = roles[u]
        /\ roles'[x] = "member"
    BY <1>1, <2>2 DEF ClubInv, ClubTypeOK
  <2>6. ASSUME NEW u \in Users, u = x, u \notin crossed', Agree(u)
        PROVE  Agree(u)'
    <3>1. \A s \in Requests \ {r} : ~Half(s, u) /\ ~Half(s, u)'
      BY <2>1, <2>2, <2>6 DEF Halfway, Half, Becomes
    <3>2. Half(r, u)' /\ request'[r].pc = "channel"
      BY <2>1, <2>6 DEF Half, Becomes
    <3> QED BY <3>1, <3>2, <2>5, <2>6 DEF Agree
  <2> QED
    BY <1>1, <1>3, <2>1, <2>2, <2>3, <2>4, <2>5, <2>6, MemberStep
       DEF ClubInv, RequestsOK
<1> QED BY <1>2, <1>3

LEMMA DeleteMemberStep ==
  ASSUME ClubInv, NEW r \in Requests, DeleteMember(r)
  PROVE  ClubInv'
<1> DEFINE x == request[r].user
           q == [request[r] EXCEPT !.pc = "unchannel"]
<1>1. /\ request[r] # NoRequest /\ ~Newborn(r) /\ x \in Users
      /\ request[r].op \in {"leave", "remove"} /\ request[r].pc = "delete"
      /\ request[r].invite = NoInvite /\ request[r] \in Request
      /\ roles[x] # "owner"
      /\ UNCHANGED <<club, channel, roll, invites, undone, admitted, shared>>
  BY IdleRequest DEF DeleteMember, ClubInv, RequestsOK, RequestOK, Newborn, OwnerStays
<1>2. /\ Becomes(r, q) /\ q.op = request[r].op /\ q.pc = "unchannel" /\ q.user = x
      /\ q.invite = NoInvite /\ q \in Request /\ RequestOK(q)
  BY <1>1, GoBecomes DEF DeleteMember, ClubInv, Request, RequestOK
<1>3. /\ roles' = [roles EXCEPT ![x] = "none"]
      /\ crossed' = IF Halfway(r, x) THEN crossed \cup {x} ELSE crossed
      /\ \A u \in Users : u # x => roles'[u] = roles[u]
      /\ roles'[x] = "none"
  BY <1>1 DEF DeleteMember, ClubInv, ClubTypeOK
<1>4. Members' \subseteq Members /\ Invited' = Invited
  BY <1>1, <1>3 DEF Members, Invited
<1>5. ClubTypeOK'
  BY <1>1, <1>3, <1>4 DEF ClubInv, ClubTypeOK
<1>6. AcceptInv'
  BY <1>1, <1>2, AcceptKept
<1>7. ASSUME NEW u \in Users, u = x, u \notin crossed', Agree(u)
      PROVE  Agree(u)'
  <2>1. \A s \in Requests \ {r} : ~Half(s, u) /\ ~Half(s, u)'
    BY <1>2, <1>3, <1>7 DEF Halfway, Half, Becomes
  <2>2. Half(r, u)' /\ request'[r].pc = "unchannel"
    BY <1>2, <1>7 DEF Half, Becomes
  <2> QED BY <2>1, <2>2, <1>3, <1>7 DEF Agree
<1> QED
  BY <1>1, <1>2, <1>3, <1>4, <1>5, <1>6, <1>7, MemberStep DEF ClubInv, RequestsOK

(* The second of the two rows: the request is no longer half way. *)
LEMMA ChannelMemberStep ==
  ASSUME ClubInv, NEW r \in Requests, AddChannelMember(r) \/ DeleteChannelMember(r)
  PROVE  ClubInv'
<1> DEFINE x == request[r].user
<1>1. /\ Becomes(r, NoRequest) /\ request[r] # NoRequest /\ ~Newborn(r) /\ x \in Users
      /\ request[r].op \in {"create", "join", "accept", "leave", "remove"}
      /\ request[r].pc \in {"channel", "unchannel"}
      /\ UNCHANGED <<club, roles, channel, invites, history>>
  BY EndBecomes, IdleRequest
     DEF AddChannelMember, DeleteChannelMember, ClubInv, RequestsOK, RequestOK, Newborn
<1>2. /\ \A u \in Users : u # x => (u \in roll' <=> u \in roll)
      /\ club = "open" => (x \in roll' <=> request[r].pc = "channel")
      /\ roll' \subseteq Users
  BY <1>1 DEF AddChannelMember, DeleteChannelMember, ClubInv, ClubTypeOK
<1>3. Members' = Members /\ Invited' = Invited
  BY <1>1 DEF Members, Invited
<1>4. ClubTypeOK'
  BY <1>1, <1>2, <1>3 DEF ClubInv, ClubTypeOK, history
<1>5. AcceptInv'
  BY <1>1, AcceptKept, IdleRequest DEF history
<1>6. ASSUME NEW u \in Users, u = x, club = "open", Agree(u)
      PROVE  Agree(u)'
  <2>1. Half(r, u) /\ \A s \in Requests \ {r} : ~Half(s, u)
    BY <1>1, <1>6 DEF Half, Agree
  <2>2. \A s \in Requests : ~Half(s, u)'
    BY <1>1, <1>6, <2>1, IdleRequest DEF Half, Becomes
  <2>3. request[r].pc = "channel" <=> roles[u] # "none"
    BY <1>6, <2>1 DEF Agree
  <2> QED BY <1>1, <1>2, <1>6, <2>2, <2>3 DEF Agree
<1> QED
  BY <1>1, <1>2, <1>3, <1>4, <1>5, <1>6, MemberStep, IdleRequest
     DEF ClubInv, RequestsOK, RequestOK, history

-----------------------------------------------------------------------------
(* Steps of the creation *)

LEMMA BirthStep ==
  ASSUME ClubInv, NEW r \in Requests, InsertClub(r) \/ InsertOwner(r)
  PROVE  ClubInv'
<1> DEFINE x == request[r].user
<1>1. /\ Newborn(r) /\ request[r].op = "create" /\ x \in Users
      /\ request[r].invite = NoInvite /\ request[r] # NoRequest
      /\ UNCHANGED <<channel, roll, invites, history>>
  BY IdleRequest
     DEF InsertClub, InsertOwner, At, Newborn, ClubInv, RequestsOK, RequestOK
<1>2. /\ channel = "open" /\ roll = {} /\ Members = {}
      /\ \A i \in Invites : invites[i] = "none"
      /\ \A s \in Requests \ {r} : request[s] = NoRequest
      /\ \A u \in Users : roles[u] = "none"
  BY <1>1 DEF ClubInv, BirthInv, Members
<1>3. PICK pc \in {"owner", "channel"} :
        /\ Go(r, pc) /\ club' = "open"
        /\ pc = "owner" => roles' = roles
        /\ pc = "channel" => roles' = [roles EXCEPT ![x] = "owner"]
  BY <1>1, <1>2 DEF InsertClub, InsertOwner, At, ClubInv, BirthInv, Newborn
<1>4. /\ request' \in [Requests -> Request]
      /\ request'[r].op = "create" /\ request'[r].pc = pc
      /\ request'[r].user = x /\ request'[r].invite = NoInvite
      /\ \A s \in Requests \ {r} : request'[s] = NoRequest
  <2>1. /\ Becomes(r, [request[r] EXCEPT !.pc = pc])
        /\ request'[r].op = request[r].op /\ request'[r].pc = pc
        /\ request'[r].user = x /\ request'[r].invite = request[r].invite
    BY <1>3, GoBecomes DEF ClubInv
  <2> QED BY <1>1, <1>2, <2>1 DEF Becomes
<1>5. ClubTypeOK' /\ RequestsOK'
  BY <1>1, <1>2, <1>3, <1>4
     DEF ClubInv, ClubTypeOK, RequestsOK, RequestOK, Roles, Members, Invited, history
<1>6. BirthInv'
  BY <1>1, <1>2, <1>3, <1>4, IdleRequest DEF BirthInv, Newborn, Members, At
<1>7. DeletionInv' /\ OwnerStays'
  BY <1>3, <1>4, IdleRequest DEF DeletionInv, OwnerStays, At
<1>8. WholeInv'
  <2>1. pc = "channel" => Owners' = {x}
    BY <1>1, <1>2, <1>3 DEF Owners, ClubInv, ClubTypeOK
  <2>2. pc = "owner" => Newborn(r)'
    BY <1>4 DEF Newborn
  <2> QED BY <1>1, <1>2, <1>3, <2>1, <2>2 DEF WholeInv
<1>9. RollInv'
  <2> SUFFICES ASSUME NEW u \in Users PROVE Agree(u)'
    BY DEF RollInv
  <2>1. \A s \in Requests : Half(s, u)' <=> (s = r /\ pc = "channel" /\ u = x)
    BY <1>4, IdleRequest DEF Half
  <2>2. roles'[u] # "none" <=> (pc = "channel" /\ u = x)
    BY <1>1, <1>2, <1>3 DEF ClubInv, ClubTypeOK
  <2> QED BY <1>1, <1>2, <1>4, <2>1, <2>2 DEF Agree
<1>10. InviteInv'
  BY <1>4, IdleRequest DEF InviteInv, At
<1>11. AcceptInv'
  BY <1>1, <1>2, <1>4, IdleRequest
     DEF ClubInv, AcceptInv, Accepting, At, history
<1> QED
  BY <1>5, <1>6, <1>7, <1>8, <1>9, <1>10, <1>11 DEF ClubInv

-----------------------------------------------------------------------------
(* Steps of a deletion *)

(* A deletion goes on, or ends, whatever it deletes. *)
LEMMA DeletionGoes ==
  ASSUME ClubInv, NEW r \in Requests, request[r].op = "delete",
         NEW p \in Request, RequestOK(p), Becomes(r, p),
         p = NoRequest \/ (p.op = "delete" /\ p.invite = request[r].invite),
         ClubTypeOK', club' \in {club, "deleted"}, channel' \in {channel, "archived"},
         UNCHANGED <<roll, admitted, shared>>,
         \A u \in Users : roles'[u] \in {roles[u], "none"},
         \A i \in Invites : \/ invites'[i] = invites[i]
                            \/ invites[i] # "none" /\ invites'[i] = "deleted"
  PROVE  /\ RequestsOK' /\ BirthInv' /\ OwnerStays' /\ InviteInv' /\ AcceptInv'
         /\ \A s \in Requests : ~Newborn(s) /\ ~Newborn(s)'
         /\ \A s \in Requests, u \in Users :
              /\ Half(s, u)' <=> Half(s, u)
              /\ Half(s, u) => request'[s] = request[s]
<1>1. request[r] # NoRequest /\ ~Newborn(r) /\ request[r].user = NoOne
  BY IdleRequest DEF Newborn, ClubInv, RequestsOK, RequestOK
<1>2. /\ club # "none" /\ channel # "none"
      /\ \A s \in Requests : ~Newborn(s) /\ ~Newborn(s)'
  BY <1>1, Grown, IdleRequest DEF Newborn, Becomes
<1>3. RequestsOK' /\ BirthInv'
  BY <1>2 DEF ClubInv, RequestsOK, RequestOK, Becomes, BirthInv
<1>4. OwnerStays'
  <2> SUFFICES ASSUME NEW s \in Requests, (request[s].pc = "delete" \/ At(s, "demote", "update"))'
               PROVE  roles'[request'[s].user] # "owner"
    BY DEF OwnerStays
  <2>1. s # r /\ request'[s] = request[s]
    BY IdleRequest DEF At, Becomes, RequestOK
  <2>2. request[s].user \in Users /\ roles[request[s].user] # "owner"
    BY <2>1, IdleRequest DEF At, ClubInv, OwnerStays, RequestsOK, RequestOK
  <2> QED BY <2>1, <2>2
<1>5. InviteInv' /\ AcceptInv'
  BY <1>1, InvitesKept, AcceptKept, IdleRequest
<1>6. \A s \in Requests, u \in Users : /\ Half(s, u)' <=> Half(s, u)
                                       /\ Half(s, u) => request'[s] = request[s]
  BY <1>1, IdleRequest DEF Half, Becomes, RequestOK
<1> QED BY <1>2, <1>3, <1>4, <1>5, <1>6

LEMMA DeletionSteps ==
  ASSUME ClubInv, NEW r \in Requests,
         DeleteInvites(r) \/ DeleteMembers(r) \/ DeleteClub(r) \/ Archive(r)
  PROVE  ClubInv'
<1>1. /\ request[r].op = "delete" /\ request[r].user = NoOne
      /\ request[r].invite = NoInvite /\ request[r] \in Request
      /\ UNCHANGED <<roll, history>>
  BY IdleRequest
     DEF DeleteInvites, DeleteMembers, DeleteClub, Archive, At, ClubInv, RequestsOK, RequestOK
<1>2. ASSUME NEW pc \in {"members", "club", "archive"}, Go(r, pc)
      PROVE  /\ Becomes(r, request'[r]) /\ request'[r] \in Request
             /\ request'[r].op = "delete" /\ request'[r].pc = pc
             /\ request'[r].invite = request[r].invite /\ RequestOK(request'[r])
  <2>1. /\ Becomes(r, [request[r] EXCEPT !.pc = pc])
        /\ request'[r].op = "delete" /\ request'[r].pc = pc
        /\ request'[r].user = NoOne /\ request'[r].invite = NoInvite
    BY <1>1, <1>2, GoBecomes DEF ClubInv
  <2> QED BY <1>1, <2>1 DEF Becomes, RequestOK
<1>3. CASE DeleteInvites(r)
  <2>1. /\ request[r].pc = "invites" /\ Go(r, "members")
        /\ UNCHANGED <<club, roles, channel>>
        /\ invites' = [i \in Invites |-> IF i \in Invited THEN "deleted" ELSE invites[i]]
    BY <1>3 DEF DeleteInvites, At
  <2>2. Invited' = {} /\ Members' = Members
    BY <2>1 DEF ClubInv, ClubTypeOK, Invited, Members
  <2>3. ClubTypeOK'
    BY <1>1, <2>1, <2>2 DEF ClubInv, ClubTypeOK, history
  <2>4. \A i \in Invites : \/ invites'[i] = invites[i]
                           \/ invites[i] # "none" /\ invites'[i] = "deleted"
    BY <2>1 DEF Invited
  <2>5. /\ RequestsOK' /\ BirthInv' /\ OwnerStays' /\ InviteInv' /\ AcceptInv'
        /\ \A s \in Requests : ~Newborn(s)
        /\ \A s \in Requests, u \in Users : /\ Half(s, u)' <=> Half(s, u)
                                            /\ Half(s, u) => request'[s] = request[s]
    BY <1>1, <1>2, <2>1, <2>3, <2>4, DeletionGoes DEF history
  <2>6. \A d \in Requests : /\ At(d, "delete", "club")' <=> At(d, "delete", "club")
                            /\ At(d, "delete", "archive")' <=> At(d, "delete", "archive")
    BY <1>1, <1>2, <2>1 DEF At, Becomes
  <2>7. DeletionInv'
    BY <1>1, <2>1, <2>2, <2>6 DEF ClubInv, DeletionInv, history
  <2>8. Owners' = Owners /\ (Emptied' <=> Emptied)
    BY <2>1, <2>6 DEF Owners, Emptied
  <2>9. WholeInv'
    BY <1>1, <2>1, <2>5, <2>6, <2>8 DEF ClubInv, WholeInv, history
  <2>10. \A u \in Users : Agree(u) => Agree(u)'
    BY <1>1, <2>1, <2>5 DEF Agree
  <2>11. RollInv'
    BY <1>1, <2>1, <2>8, <2>10 DEF ClubInv, RollInv, history
  <2> QED BY <2>3, <2>5, <2>7, <2>9, <2>11 DEF ClubInv
<1>4. CASE DeleteMembers(r)
  <2>1. /\ request[r].pc = "members" /\ Go(r, "club")
        /\ UNCHANGED <<club, channel, invites>>
        /\ roles' = [u \in Users |-> "none"]
    BY <1>4 DEF DeleteMembers, At
  <2>2. Invited' = Invited /\ Members' = {}
    BY <2>1 DEF Invited, Members
  <2>3. ClubTypeOK'
    BY <1>1, <2>1, <2>2 DEF ClubInv, ClubTypeOK, history
  <2>4. RequestsOK' /\ BirthInv' /\ OwnerStays' /\ InviteInv' /\ AcceptInv'
    BY <1>1, <1>2, <2>1, <2>3, DeletionGoes DEF history
  <2>5. /\ \A d \in Requests : /\ At(d, "delete", "members")' => At(d, "delete", "members")
                               /\ At(d, "delete", "club")' => d = r \/ At(d, "delete", "club")
                               /\ At(d, "delete", "archive")' <=> At(d, "delete", "archive")
        /\ At(r, "delete", "members") /\ At(r, "delete", "club")'
    BY <1>1, <1>2, <2>1 DEF At, Becomes
  <2>6. DeletionInv'
    BY <1>1, <2>1, <2>2, <2>5 DEF ClubInv, DeletionInv, history
  <2>7. WholeInv' /\ RollInv'
    BY <1>1, <2>1, <2>5 DEF ClubInv, WholeInv, RollInv, Emptied, history
  <2> QED BY <2>3, <2>4, <2>6, <2>7 DEF ClubInv
<1>5. CASE DeleteClub(r)
  <2>1. /\ request[r].pc = "club" /\ Go(r, "archive")
        /\ UNCHANGED <<roles, channel, invites>>
        /\ club' = IF Members = {} /\ Invited = {} THEN "deleted" ELSE club
    BY <1>5 DEF DeleteClub, At
  <2>2. Invited' = Invited /\ Members' = Members
    BY <2>1 DEF Invited, Members
  <2>3. ClubTypeOK'
    BY <1>1, <2>1, <2>2 DEF ClubInv, ClubTypeOK, history
  <2>4. RequestsOK' /\ BirthInv' /\ OwnerStays' /\ InviteInv' /\ AcceptInv'
    BY <1>1, <1>2, <2>1, <2>3, DeletionGoes DEF history
  <2>5. /\ \A d \in Requests : /\ At(d, "delete", "members")' => At(d, "delete", "members")
                               /\ At(d, "delete", "club")' => At(d, "delete", "club")
        /\ At(r, "delete", "club") /\ At(r, "delete", "archive")'
    BY <1>1, <1>2, <2>1 DEF At, Becomes
  <2>6. ~undone' => club' = "deleted"
    BY <1>1, <2>1, <2>5 DEF ClubInv, DeletionInv, history
  <2>7. DeletionInv'
    BY <1>1, <2>2, <2>5, <2>6 DEF ClubInv, DeletionInv, history
  <2>8. WholeInv' /\ RollInv'
    BY <2>5, <2>6 DEF WholeInv, RollInv
  <2> QED BY <2>3, <2>4, <2>7, <2>8 DEF ClubInv
<1>6. CASE Archive(r)
  <2>1. /\ At(r, "delete", "archive") /\ End(r)
        /\ UNCHANGED <<club, roles, invites>> /\ channel' = "archived"
    BY <1>6 DEF Archive
  <2>2. Becomes(r, NoRequest)
    BY <2>1, EndBecomes DEF ClubInv
  <2>3. Invited' = Invited /\ Members' = Members
    BY <2>1 DEF Invited, Members
  <2>4. ClubTypeOK'
    BY <1>1, <2>1, <2>3 DEF ClubInv, ClubTypeOK, history
  <2>5. RequestsOK' /\ BirthInv' /\ OwnerStays' /\ InviteInv' /\ AcceptInv'
    BY <1>1, <2>1, <2>2, <2>4, DeletionGoes, IdleRequest DEF history, RequestOK
  <2>6. ~undone' => club' = "deleted"
    BY <1>1, <2>1 DEF ClubInv, DeletionInv, history
  <2>7. \A d \in Requests, pc \in {"members", "club", "archive"} :
          At(d, "delete", pc)' => At(d, "delete", pc)
    BY <2>2, IdleRequest DEF At, Becomes
  <2>8. DeletionInv'
    BY <1>1, <2>1, <2>3, <2>7 DEF ClubInv, DeletionInv, history
  <2>9. WholeInv' /\ RollInv'
    BY <2>1, <2>6 DEF WholeInv, RollInv
  <2> QED BY <2>4, <2>5, <2>8, <2>9 DEF ClubInv
<1> QED BY <1>3, <1>4, <1>5, <1>6

-----------------------------------------------------------------------------
(* Failures *)

(* Whatever the statement, it leaves the tables alone. *)
LEMMA FailureStep ==
  ASSUME ClubInv, NEW r \in Requests, StatementFails(r)
  PROVE  ClubInv'
<1> DEFINE p == request[r]
           x == request[r].user
           i == request[r].invite
<1>1. /\ p # NoRequest /\ p \in Request /\ RequestOK(p)
      /\ UNCHANGED <<tables, admitted>> /\ undone' \in BOOLEAN
      /\ crossed' = IF p.pc \in {"channel", "unchannel", "delete"}
                    THEN crossed \cup {x} ELSE crossed
      /\ undone' = (undone \/ p.op \in {"create", "delete"})
      /\ shared' = IF p.op = "accept" /\ p.pc = "mark" THEN shared \cup {i} ELSE shared
  BY DEF StatementFails, ClubInv, RequestsOK
<1>2. PICK q \in Request :
        /\ RequestOK(q) /\ Becomes(r, q)
        /\ \/ q = NoRequest
           \/ /\ q.op = p.op /\ q.user = x /\ q.invite = i
              /\ \/ p.op = "create" /\ p.pc = "owner" /\ q.pc = "channel"
                 \/ p.op = "accept" /\ p.pc = "mark" /\ q.pc = "insert"
                 \/ p.pc = "delete" /\ q.pc = "unchannel"
                 \/ p.op = "delete"
  <2>1. CASE End(r)
    BY <2>1, EndBecomes, IdleRequest DEF ClubInv, RequestOK
  <2>2. ASSUME NEW pc \in {"channel", "insert", "unchannel", "members", "club", "archive"},
               Go(r, pc),
               \/ p.op = "create" /\ p.pc = "owner" /\ pc = "channel"
               \/ p.op = "accept" /\ p.pc = "mark" /\ pc = "insert"
               \/ p.pc = "delete" /\ pc = "unchannel"
               \/ p.op = "delete" /\ pc \in {"members", "club", "archive"}
        PROVE  /\ request'[r] \in Request /\ Becomes(r, request'[r])
               /\ RequestOK(request'[r])
               /\ request'[r].op = p.op /\ request'[r].user = x /\ request'[r].invite = i
               /\ \/ p.op = "create" /\ p.pc = "owner" /\ request'[r].pc = "channel"
                  \/ p.op = "accept" /\ p.pc = "mark" /\ request'[r].pc = "insert"
                  \/ p.pc = "delete" /\ request'[r].pc = "unchannel"
                  \/ p.op = "delete"
    <3>1. /\ Becomes(r, [request[r] EXCEPT !.pc = pc])
          /\ request'[r].op = p.op /\ request'[r].pc = pc
          /\ request'[r].user = x /\ request'[r].invite = i
      BY <2>2, GoBecomes DEF ClubInv
    <3>2. RequestOK(request'[r])
      BY <1>1, <2>2, <3>1, IdleRequest DEF RequestOK
    <3> QED BY <2>2, <3>1, <3>2 DEF Becomes
  <2> QED BY <2>1, <2>2 DEF StatementFails
<1>3. ClubTypeOK'
  BY <1>1 DEF ClubInv, ClubTypeOK, Members, Invited, tables, RequestOK
<1>4. RequestsOK'
  BY <1>1, <1>2 DEF ClubInv, RequestsOK, RequestOK, Becomes
<1>5. BirthInv'
  <2>1. CASE Newborn(r)
    BY <1>1, <1>2, <2>1, IdleRequest
       DEF ClubInv, BirthInv, Newborn, Members, Quiet, At, Becomes, tables
  <2>2. CASE ~Newborn(r)
    <3>1. /\ club # "none" /\ channel # "none"
          /\ \A s \in Requests : ~Newborn(s)
      BY <1>1, <2>2, Grown
    <3>2. \A s \in Requests : ~Newborn(s)'
      BY <1>1, <1>2, <3>1, IdleRequest DEF Newborn, Becomes
    <3> QED BY <1>1, <3>1, <3>2 DEF BirthInv, tables
  <2> QED BY <2>1, <2>2
<1>6. OwnerStays'
  BY <1>1, <1>2, IdleRequest DEF ClubInv, OwnerStays, At, Becomes, tables, RequestOK
<1>7. InviteInv'
  <2>1. \A j \in Invites : invites[j] = "none" => invites'[j] = "none"
    BY <1>1 DEF tables
  <2>2. q = NoRequest \/ (q.op = p.op /\ q.invite = i /\ q.op # "invite")
    BY <1>1, <1>2, IdleRequest DEF RequestOK
  <2> QED BY <1>2, <2>1, <2>2, InvitesKept
<1>8. AcceptInv'
  <2>1. CASE q.op = "accept"
    <3>1. p.op = "accept" /\ p.pc = "mark" /\ q.pc = "insert" /\ i \in shared'
      BY <1>1, <1>2, <2>1, IdleRequest DEF RequestOK
    <3> SUFFICES ASSUME NEW j \in Invites, j \notin shared'
                 PROVE  AcceptInv!(j)'
      BY DEF AcceptInv
    <3>2. j \notin shared /\ j # i
      BY <1>1, <3>1
    <3>3. AcceptInv!(j)
      BY <3>2 DEF ClubInv, AcceptInv
    <3>4. ASSUME NEW s \in Requests, NEW pc \in {"mark", "insert"}
          PROVE  /\ Accepting(s, j, pc)' <=> Accepting(s, j, pc)
                 /\ (request[s].op = "accept" /\ request[s].invite = j)'
                      <=> request[s].op = "accept" /\ request[s].invite = j
      BY <1>1, <1>2, <2>1, <3>1, <3>2, IdleRequest DEF Accepting, At, Becomes
    <3> QED BY <1>1, <3>3, <3>4 DEF tables
  <2>2. CASE q.op # "accept"
    <3> SUFFICES ASSUME NEW j \in Invites, j \notin shared'
                 PROVE  AcceptInv!(j)'
      BY DEF AcceptInv
    <3>1. j \notin shared /\ AcceptInv!(j)
      BY <1>1 DEF ClubInv, AcceptInv
    <3>2. ASSUME NEW s \in Requests, NEW pc \in {"mark", "insert"}
          PROVE  /\ Accepting(s, j, pc)' => Accepting(s, j, pc)
                 /\ (request[s].op = "accept" /\ request[s].invite = j)'
                      => request[s].op = "accept" /\ request[s].invite = j
      BY <1>2, <2>2 DEF Accepting, At, Becomes
    <3> QED BY <1>1, <3>1, <3>2 DEF tables
  <2> QED BY <2>1, <2>2
<1>9. DeletionInv' /\ WholeInv' /\ RollInv'
  <2>1. CASE undone'
    BY <2>1 DEF DeletionInv, WholeInv, RollInv
  <2>2. CASE ~undone'
    <3>1. ~undone /\ p.op # "create" /\ p.op # "delete"
      BY <1>1, <2>2
    <3>2. /\ \A d \in Requests, pc \in {"members", "club", "archive"} :
                At(d, "delete", pc)' <=> At(d, "delete", pc)
          /\ \A s \in Requests : ~Newborn(s)
      BY <1>1, <1>2, <3>1, Grown, IdleRequest DEF At, Becomes, Newborn
    <3>3. DeletionInv'
      BY <1>1, <3>1, <3>2 DEF ClubInv, DeletionInv, Invited, Members, tables
    <3>4. (Emptied' <=> Emptied) /\ Owners' = Owners
      BY <1>1, <3>2 DEF Emptied, Owners, tables
    <3>5. WholeInv'
      BY <1>1, <3>1, <3>2, <3>4 DEF ClubInv, WholeInv, tables
    <3>6. ASSUME NEW u \in Users, u \notin crossed', Agree(u)
          PROVE  Agree(u)'
      <4>1. CASE u # x
        <5>1. q.user # u
          BY <1>2, <4>1, IdleRequest
        <5> QED BY <1>1, <1>2, <3>6, <4>1, <5>1, OthersAgree DEF tables
      <4>2. CASE u = x
        <5>1. /\ p.pc \notin {"channel", "unchannel", "delete"}
              /\ q.pc \notin {"channel", "unchannel"}
          BY <1>1, <1>2, <3>1, <3>6, <4>2, IdleRequest
        <5> QED BY <1>1, <1>2, <3>6, <5>1, EndsElsewhere DEF tables
      <4> QED BY <4>1, <4>2
    <3>7. RollInv'
      BY <1>1, <3>1, <3>4, <3>6 DEF ClubInv, RollInv, tables
    <3> QED BY <3>3, <3>5, <3>7
  <2> QED BY <2>1, <2>2
<1> QED BY <1>3, <1>4, <1>5, <1>6, <1>7, <1>8, <1>9 DEF ClubInv

LEMMA CrashStep ==
  ASSUME ClubInv, ClubCrash
  PROVE  ClubInv'
<1>1. /\ \A s \in Requests : request'[s] = NoRequest
      /\ request' \in [Requests -> Request]
      /\ UNCHANGED <<tables, admitted, shared>>
      /\ crossed' = crossed \cup {request[r].user : r \in
                      {s \in Requests : request[s].pc \in {"channel", "unchannel"}}}
      /\ undone' = (undone \/ \E r \in Requests : request[r].op \in {"create", "delete"})
  BY IdleRequest DEF ClubCrash
<1>2. crossed' \subseteq Users
  BY <1>1, IdleRequest DEF ClubInv, ClubTypeOK, RequestsOK, RequestOK
<1>3. ClubTypeOK' /\ RequestsOK'
  BY <1>1, <1>2 DEF ClubInv, ClubTypeOK, RequestsOK, RequestOK, Members, Invited, tables
<1>4. BirthInv'
  BY <1>1, IdleRequest DEF ClubInv, BirthInv, Newborn, Quiet, At, tables
<1>5. DeletionInv' /\ OwnerStays' /\ InviteInv'
  BY <1>1, IdleRequest DEF DeletionInv, OwnerStays, InviteInv, At
<1>6. AcceptInv'
  BY <1>1, IdleRequest DEF ClubInv, AcceptInv, Accepting, At, tables
<1>7. WholeInv' /\ RollInv'
  <2>1. CASE undone'
    BY <2>1 DEF WholeInv, RollInv
  <2>2. CASE ~undone'
    <3>1. /\ ~undone /\ ~Emptied
          /\ \A s \in Requests : ~Newborn(s) /\ ~At(s, "delete", "archive")
      BY <1>1, <2>2 DEF Emptied, Newborn, At
    <3>2. WholeInv'
      BY <1>1, <3>1 DEF ClubInv, WholeInv, Owners, tables
    <3>3. ASSUME NEW u \in Users, u \notin crossed', Agree(u)
          PROVE  Agree(u)'
      <4>1. \A s \in Requests : ~Half(s, u) /\ ~Half(s, u)'
        BY <1>1, <3>3, IdleRequest DEF Half
      <4> QED BY <1>1, <3>3, <4>1 DEF Agree, tables
    <3>4. RollInv'
      BY <1>1, <3>1, <3>3 DEF ClubInv, RollInv, tables
    <3> QED BY <3>2, <3>4
  <2> QED BY <2>1, <2>2
<1> QED BY <1>3, <1>4, <1>5, <1>6, <1>7 DEF ClubInv

-----------------------------------------------------------------------------
(* Theorems *)

LEMMA NextStep ==
  ASSUME ClubInv, [ClubNext]_clubVars
  PROVE  ClubInv'
<1>1. ASSUME NEW r \in Requests, Starts(r)
      PROVE  ClubInv'
  BY <1>1, StartsStep
<1>2. ASSUME NEW r \in Requests, Steps(r)
      PROVE  ClubInv'
  BY <1>2, BirthStep, SignupStep, InsertInviteStep, MarkAcceptedStep, InsertMemberStep,
     ChannelMemberStep, ReadTargetStep, DeleteMemberStep, RoleStep, DeletionSteps
     DEF Steps
<1>3. ASSUME NEW r \in Requests, StatementFails(r)
      PROVE  ClubInv'
  BY <1>3, FailureStep
<1>4. CASE UNCHANGED clubVars
  BY <1>4
     DEF clubVars, tables, history, ClubInv, ClubTypeOK, RequestsOK, BirthInv, DeletionInv,
         OwnerStays, WholeInv, RollInv, InviteInv, AcceptInv, Members, Invited, Quiet,
         At, Newborn, Owners, Emptied, Half, Agree, Accepting
<1> QED BY <1>1, <1>2, <1>3, <1>4, CrashStep DEF ClubNext

(* What every step of requests, failures and crashes keeps. *)
THEOREM ClubInductive == ClubSpec => []ClubInv
BY ClubInvInit, NextStep, PTL DEF ClubSpec

(* Rows stay rows the schema accepts, a member or invite never outliving the
   club, whatever deleteClub, joins and invites do to each other.          *)
THEOREM ClubTypeCorrect == ClubSpec => []ClubTypeOK
<1>1. ClubInv => ClubTypeOK
  BY DEF ClubInv
<1> QED BY <1>1, ClubInductive, PTL

(* The members of a club and of its channel are the same users, but for those
   two requests, or a failure, were in the middle of, those who signed up with
   the code, and clubs whose deletion was come between.                    *)
THEOREM ChannelAgrees == ClubSpec => []ChannelFollowsMembership
<1>1. ClubInv => ChannelFollowsMembership
  <2> SUFFICES ASSUME ClubInv, Quiet, club = "open", ~undone, NEW u \in Users \ crossed
               PROVE  u \in roll <=> u \in Members
    BY DEF ChannelFollowsMembership
  <2>1. ~Emptied /\ \A r \in Requests : ~Half(r, u)
    BY IdleRequest DEF Quiet, Emptied, At, Half
  <2> QED BY <2>1 DEF ClubInv, RollInv, Agree, Members
<1> QED BY <1>1, ClubInductive, PTL

(* A club has one owner and an open channel, and a deleted one an archived
   channel, unless a deletion failed or was come between.                  *)
THEOREM OneOwner == ClubSpec => []ClubIsWhole
<1>1. ClubInv => ClubIsWhole
  <2> SUFFICES ASSUME ClubInv, Quiet, ~undone
               PROVE  /\ club = "open" => Cardinality(Owners) = 1 /\ channel = "open"
                      /\ club = "deleted" => channel = "archived"
    BY DEF ClubIsWhole, Owners
  <2>1. /\ ~Emptied
        /\ \A r \in Requests : ~Newborn(r) /\ ~At(r, "delete", "archive")
    BY IdleRequest DEF Quiet, Emptied, At, Newborn
  <2>2. club = "open" => Cardinality(Owners) = 1
    BY <2>1, FS_Singleton DEF ClubInv, WholeInv
  <2> QED BY <2>1, <2>2 DEF ClubInv, WholeInv
<1> QED BY <1>1, ClubInductive, PTL

(* An invite makes one member, unless two acceptances had read it or its
   UPDATE failed.                                                          *)
THEOREM OneMember == ClubSpec => []InviteAdmitsOne
<1>1. ClubInv => InviteAdmitsOne
  <2> SUFFICES ASSUME ClubInv, NEW i \in Invites, i \notin shared
               PROVE  Cardinality(admitted[i]) <= 1
    BY DEF InviteAdmitsOne
  <2>1. \A u, v \in admitted[i] : u = v
    BY DEF ClubInv, AcceptInv
  <2>2. CASE admitted[i] = {}
    BY <2>2, FS_EmptySet
  <2>3. ASSUME NEW u \in admitted[i]
        PROVE  Cardinality(admitted[i]) <= 1
    <3>1. admitted[i] = {u}
      BY <2>1, <2>3
    <3>2. Cardinality(admitted[i]) = 1
      BY <3>1, FS_Singleton
    <3> QED BY <3>2
  <2> QED BY <2>2, <2>3
<1> QED BY <1>1, ClubInductive, PTL

=============================================================================
