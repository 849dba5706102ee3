------------------------------- MODULE RunTable -------------------------------
(***************************************************************************)
(* What the table of runs promises to everyone who reads it, without the   *)
(* requests, the generator and their statements: for an instrument and a   *)
(* type one run waits at a time, a run keeps to the instrument and type it *)
(* was inserted for, and its status moves as the service's table says.     *)
(* One run at a time is exempt from the last: the one the generator has    *)
(* inserted and not let go of, which it writes over by id.                 *)
(***************************************************************************)

CONSTANTS
  RunIds,             \* run rows
  Instruments,        \* instruments
  RunTypes,           \* what a run computes
  allowedTransitions, \* the statuses that may follow a status
  NoRow,              \* in the place of a row: its status is "none"
  NoId                \* no run

VARIABLES
  table,  \* the status, instrument and type of each run
  held    \* the run the generator holds, or NoId

vars == <<table, held>>

Rows == {r \in RunIds : table[r].status # "none"}

Queued(inst, type) ==
  {r \in Rows : /\ table[r].status = "queued"
                /\ table[r].inst = inst
                /\ table[r].type = type}

Init ==
  /\ table = [r \in RunIds |-> NoRow]
  /\ held = NoId

(* A run is inserted, and the generator holds the one that is its own. *)
Insert(r, inst, type) ==
  /\ r \notin Rows
  /\ Queued(inst, type) = {}
  /\ table' = [table EXCEPT ![r] =
                 [status |-> "queued", inst |-> inst, type |-> type]]
  /\ held' \in {held, r}

Move(r) ==
  /\ r \in Rows
  /\ \E s \in allowedTransitions[table[r].status] :
       table' = [table EXCEPT ![r].status = s]
  /\ held' = held

(* The generator writes its run over, whatever became of it, and keeps it
   or lets go of it.                                                       *)
Overwrite ==
  /\ held \in Rows
  /\ \E s \in {"running", "completed", "failed"} :
       table' = [table EXCEPT ![held].status = s]
  /\ held' \in {held, NoId}

LetGo ==
  /\ table' = table
  /\ held' \in {held, NoId}

(* A run that has left the queue and nobody works on is of no more interest. *)
Remove(r) ==
  /\ r \in Rows /\ table[r].status # "queued" /\ r # held
  /\ table' = [table EXCEPT ![r] = NoRow]
  /\ held' = held

Next ==
  \/ LetGo
  \/ Overwrite
  \/ \E r \in RunIds : \/ Move(r)
                       \/ Remove(r)
                       \/ \E inst \in Instruments, type \in RunTypes : Insert(r, inst, type)

Spec == Init /\ [][Next]_vars

===============================================================================
