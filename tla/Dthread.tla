------------------------------ MODULE Dthread ------------------------------
(***************************************************************************)
(* The cooperative scheduler of one Monkey worker thread                   *)
(* (lib/objects/duda_dthread.c).  A scheduler owns an array of slots; each *)
(* slot is empty, or holds a dthread with its own stack and saved machine  *)
(* context.  Control moves only at resume(), yield() and at the return of  *)
(* the dthread's function, so one step of this module is everything a      *)
(* dthread (or the worker's main context) does up to the next such call.   *)
(*                                                                         *)
(* What the function of a dthread calls is up to the web service, so Next  *)
(* lets whoever executes call anything the API offers.  The constant       *)
(* Structured restricts the services to those in which no dthread's        *)
(* function returns before the dthreads it was the first to resume.        *)
(***************************************************************************)
EXTENDS Integers, FiniteSets

CONSTANTS
    DefaultCap,   \* DEFAULT_DTHREAD_NUM, the slots of a new scheduler
    MaxCap,       \* bound of the model: the array is not doubled past this
    Structured    \* TRUE: a dthread outlives the dthreads it started

ASSUME CapAssumption ==
    /\ DefaultCap \in Nat \ {0}
    /\ MaxCap \in Nat
    /\ DefaultCap <= MaxCap

ASSUME StructuredAssumption == Structured \in BOOLEAN

VARIABLES
    cap,          \* sch->cap
    n_dthread,    \* sch->n_dthread
    running_id,   \* sch->running_id, Main when no dthread is running
    status,       \* dt[id]->status, "NULL" when dt[id] is the null pointer
    parent_id,    \* dt[id]->parent_id
    uc_link,      \* dt[id]->context.uc_link: whose context follows the return
    saved,        \* the contexts whose ucontext_t holds where they left the CPU
    exec,         \* the context that has the CPU
    fault         \* how the process stopped

vars == <<cap, n_dthread, running_id, status, parent_id, uc_link, saved,
          exec, fault>>

Main     == -1           \* the context sch->main; also the id "no dthread"
Dangling == -2           \* the address of a context that has been freed
Ids      == 0 .. MaxCap - 1
Slots    == 0 .. cap - 1
Contexts == Ids \cup {Main}

Statuses == {"NULL", "DEAD", "READY", "RUNNING", "SUSPEND"}
Started  == {"RUNNING", "SUSPEND"}
Live     == {id \in Ids : status[id] \in {"READY", "RUNNING", "SUSPEND"}}

(***************************************************************************)
(* duda_dthread_open.  The first create() of the worker opens the          *)
(* scheduler; until then every other call asserts.                         *)
(***************************************************************************)
Init ==
    /\ cap = DefaultCap
    /\ n_dthread = 0
    /\ running_id = Main
    /\ status = [id \in Ids |-> "NULL"]
    /\ parent_id = [id \in Ids |-> Main]
    /\ uc_link = [id \in Ids |-> Main]
    /\ saved = {}
    /\ exec = Main
    /\ fault = "none"

-----------------------------------------------------------------------------
(***************************************************************************)
(* create().  A full array is doubled and the first new slot taken;        *)
(* otherwise the scan takes the first empty or dead slot, and stops at the *)
(* last slot when there is none.  A dead dthread in the slot is freed, and *)
(* with it the context other dthreads may still have as their uc_link.     *)
(***************************************************************************)
Reusable(id) == status[id] \in {"NULL", "DEAD"}

FirstReusable(id) ==
    /\ id \in Slots
    /\ Reusable(id)
    /\ \A i \in Slots : i < id => ~Reusable(i)

\* Mutant: the array is doubled one dthread too late.
PickSlotLate(id) ==
    IF n_dthread > cap
    THEN id = cap
    ELSE \/ FirstReusable(id)
         \/ id = cap - 1 /\ \A i \in Slots : ~Reusable(i)

PickSlot(id) ==
    IF n_dthread >= cap
    THEN id = cap
    ELSE \/ FirstReusable(id)
         \/ id = cap - 1 /\ \A i \in Slots : ~Reusable(i)

\* The array is doubled when every slot is taken.
Grow == cap' = IF n_dthread >= cap THEN 2 * cap ELSE cap

Create(id) ==
    /\ fault = "none"
    /\ n_dthread >= cap => 2 * cap <= MaxCap
    /\ PickSlot(id)
    /\ Grow
    /\ n_dthread' = n_dthread + 1
    /\ status' = [status EXCEPT ![id] = "READY"]
    /\ parent_id' = [parent_id EXCEPT ![id] = Main]
    /\ uc_link' = IF status[id] = "DEAD"
                  THEN [i \in Ids |-> IF uc_link[i] = id THEN Dangling
                                      ELSE uc_link[i]]
                  ELSE uc_link
    /\ saved' = saved \ {id}
    /\ UNCHANGED <<running_id, exec, fault>>

(***************************************************************************)
(* assert() fails: the process aborts.                                     *)
(***************************************************************************)
Abort ==
    /\ fault = "none"
    /\ fault' = "assert"
    /\ UNCHANGED <<cap, n_dthread, running_id, status, parent_id, uc_link,
                   saved, exec>>

(***************************************************************************)
(* yield() always returns control to the main context, whoever resumed the *)
(* dthread.  The main context itself must not yield.                       *)
(***************************************************************************)
Yield ==
    IF running_id = Main
    THEN Abort
    ELSE /\ fault = "none"
         /\ status' = [status EXCEPT ![running_id] = "SUSPEND"]
         /\ running_id' = Main
         /\ saved' = (saved \cup {running_id}) \ {Main}
         /\ exec' = Main
         /\ UNCHANGED <<cap, n_dthread, parent_id, uc_link, fault>>

\* swapcontext out of the running dthread, or of main, into dthread id.
SwapInto(id) ==
    /\ running_id' = id
    /\ saved' = (saved \cup {running_id}) \ {id}
    /\ exec' = id

(***************************************************************************)
(* resume() of a dthread that has not started yet: the dthread that calls  *)
(* it becomes its parent and the context that follows its return.          *)
(***************************************************************************)
ResumeReady(id) ==
    /\ fault = "none"
    /\ status[id] = "READY"
    /\ uc_link' = [uc_link EXCEPT ![id] = running_id]
    /\ parent_id' = IF running_id = Main THEN parent_id
                    ELSE [parent_id EXCEPT ![id] = running_id]
    /\ status' = [i \in Ids |-> IF i = id THEN "RUNNING"
                                ELSE IF i = running_id THEN "SUSPEND"
                                ELSE status[i]]
    /\ SwapInto(id)
    /\ UNCHANGED <<cap, n_dthread, fault>>

(***************************************************************************)
(* resume() of a suspended dthread.  The parent and uc_link stay those of  *)
(* the first resume.  The status of the caller is written last, so a       *)
(* dthread that resumes itself stays suspended.                            *)
(***************************************************************************)
\* Mutant: every resume, not just the first, sets uc_link.
ResumeSuspendedRelinked(id) ==
    /\ fault = "none"
    /\ status[id] = "SUSPEND"
    /\ uc_link' = [uc_link EXCEPT ![id] = running_id]
    /\ status' = [i \in Ids |-> IF i = running_id THEN "SUSPEND"
                                ELSE IF i = id THEN "RUNNING"
                                ELSE status[i]]
    /\ SwapInto(id)
    /\ UNCHANGED <<cap, n_dthread, parent_id, fault>>

ResumeSuspended(id) ==
    /\ fault = "none"
    /\ status[id] = "SUSPEND"
    /\ status' = [i \in Ids |-> IF i = running_id THEN "SUSPEND"
                                ELSE IF i = id THEN "RUNNING"
                                ELSE status[i]]
    /\ SwapInto(id)
    /\ UNCHANGED <<cap, n_dthread, parent_id, uc_link, fault>>

\* resume() of a dthread that is dead or running.
ResumeInvalid(id) == status[id] \in {"DEAD", "RUNNING"} /\ Abort

\* resume() of an empty slot returns at once.
ResumeEmpty(id) == fault = "none" /\ status[id] = "NULL" /\ UNCHANGED vars

\* A slot never becomes empty again, so the scheduler has been opened once
\* some slot is not empty.
Opened == \E id \in Ids : status[id] # "NULL"

\* resume(), which asserts that there is a scheduler with that slot.
Resume(id) ==
    IF Opened /\ id \in Slots
    THEN \/ ResumeReady(id)
         \/ ResumeSuspended(id)
         \/ ResumeInvalid(id)
         \/ ResumeEmpty(id)
    ELSE Abort

(***************************************************************************)
(* The function of the executing dthread returns into                      *)
(* _duda_dthread_entry_point, which retires the dthread; the CPU then      *)
(* continues with the context uc_link points at.  If that context has been *)
(* freed, or has moved on since it was saved, what executes is undefined.  *)
(* (The loop over dt->chan_list is conjoined in module DthreadChannel.)    *)
(***************************************************************************)
MayReturn(id) ==
    Structured => \A c \in Ids : ~(parent_id[c] = id /\ status[c] \in Started)

Retire ==
    /\ status' = [status EXCEPT ![exec] = "DEAD"]
    /\ n_dthread' = n_dthread - 1
    /\ running_id' = parent_id[exec]

End ==
    /\ fault = "none"
    /\ exec # Main
    /\ MayReturn(exec)
    /\ Retire
    /\ \/ /\ uc_link[exec] \in saved
          /\ exec' = uc_link[exec]
          /\ saved' = saved \ {uc_link[exec]}
          /\ fault' = fault
       \/ /\ uc_link[exec] \notin saved
          /\ fault' = "stale"
          /\ UNCHANGED <<exec, saved>>
    /\ UNCHANGED <<cap, parent_id, uc_link>>

\* The process is gone.
Halted == fault # "none" /\ UNCHANGED vars

Next ==
    \/ \E id \in Ids : Create(id)
    \/ Yield
    \/ \E id \in Contexts : Resume(id)
    \/ End
    \/ Halted

Spec == Init /\ [][Next]_vars

-----------------------------------------------------------------------------
(***************************************************************************)
(* Properties.                                                             *)
(***************************************************************************)

(* The scheduler's fields hold values of their C types, the slots past cap *)
(* are empty and the live dthreads never exceed the array                  *)
(* (struct duda_dthread_scheduler_t).                                      *)
TypeOK ==
    /\ cap \in DefaultCap .. MaxCap
    /\ n_dthread \in 0 .. cap
    /\ running_id \in Contexts
    /\ status \in [Ids -> Statuses]
    /\ parent_id \in [Ids -> Contexts]
    /\ uc_link \in [Ids -> Contexts \cup {Dangling}]
    /\ saved \in SUBSET Contexts
    /\ exec \in Contexts
    /\ fault \in {"none", "assert", "stale"}

(* Until a return has gone to a stale context, running_id names the        *)
(* context that really has the CPU, that dthread has been started and has  *)
(* not died, and no other dthread claims to be running: resume, yield and  *)
(* the entry point, whatever the order in which they are called, hand the  *)
(* CPU over together with running_id.                                      *)
SchedulerAgrees ==
    fault # "stale" =>
        /\ running_id = exec
        /\ exec # Main => status[exec] \in Started
        /\ \A id \in Ids : status[id] = "RUNNING" => id = exec

(* n_dthread, which alone decides in create() whether the array is full,   *)
(* counts exactly the dthreads that are not dead.                          *)
LiveCount == fault # "stale" => n_dthread = Cardinality(Live)

(* Every context that can be switched to was saved when it last left the   *)
(* CPU: each suspended dthread, and main while a dthread executes.  So     *)
(* the swapcontext of resume() and of yield() never restores a stale       *)
(* stack.                                                                  *)
ContextsSaved ==
    fault # "stale" =>
        /\ \A id \in Ids : status[id] = "SUSPEND" /\ id # exec => id \in saved
        /\ exec # Main => Main \in saved
        /\ exec \notin saved

(* A started dthread keeps its slot until it returns itself: no create()   *)
(* takes the slot over, and no other dthread's step retires it.            *)
SlotKept ==
    [][\A id \in Ids :
          status[id] \in Started =>
              status'[id] \in Started \/ (id = exec /\ status'[id] = "DEAD")]_vars

(* When every dthread outlives the dthreads it started, the return of a    *)
(* dthread's function always continues a context that is suspended and     *)
(* saved: uc_link never leads to a dead or freed dthread.                  *)
NoStaleReturn == fault # "stale"

(* The inductive invariant behind the properties above.                    *)
(* Links: a started dthread's uc_link is its parent's context, unless that *)
(* has been freed; saved contexts belong to suspended dthreads; the slots  *)
(* past cap are empty; and, under Structured, the parent is alive.         *)
Links ==
    fault # "stale" =>
        /\ \A id \in Ids : status[id] \in Started =>
                uc_link[id] \in {parent_id[id], Dangling}
        /\ \A id \in Ids : status[id] = "READY" => parent_id[id] = Main
        /\ \A id \in saved : id # Main => status[id] = "SUSPEND"
        /\ \A id \in Ids : status[id] # "NULL" => id < cap

ParentsLive ==
    Structured /\ fault # "stale" =>
        \A id \in Ids : status[id] \in Started =>
            /\ uc_link[id] = parent_id[id]
            /\ parent_id[id] # id
            /\ parent_id[id] # Main => status[parent_id[id]] \in Started

IInv ==
    /\ TypeOK
    /\ SchedulerAgrees
    /\ LiveCount
    /\ ContextsSaved
    /\ Links
    /\ ParentsLive
    /\ Structured => NoStaleReturn
=============================================================================
