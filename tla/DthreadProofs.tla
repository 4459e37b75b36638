--------------------------- MODULE DthreadProofs ---------------------------
(***************************************************************************)
(* The invariants of the dthread scheduler, for every size of the array    *)
(* and for structured and unstructured services alike; of the channels on  *)
(* top of it, for any number of channels, of any size, carrying anything;  *)
(* and of the producer and the consumer of DthreadPipeline, for any number *)
(* of elements.                                                            *)
(***************************************************************************)
EXTENDS DthreadPipeline, FiniteSetTheorems, SequenceTheorems, TLAPS

USE DEF Main, Dangling

(***************************************************************************)
(* Counting the live dthreads.                                             *)
(***************************************************************************)

(* An array of c slots has c indices.                                      *)
LEMMA SlotsCount ==
  ASSUME NEW c \in Nat
  PROVE  IsFiniteSet(0 .. c - 1) /\ Cardinality(0 .. c - 1) = c
  BY FS_Interval

(* The live dthreads are a finite set within the slots of the array.       *)
LEMMA LiveFinite ==
  ASSUME IInv, fault # "stale"
  PROVE  /\ Live \subseteq Slots
         /\ Live \subseteq Ids
         /\ IsFiniteSet(Live)
         /\ Cardinality(Live) \in Nat
         /\ Cardinality(Live) = n_dthread
  <1>1. cap \in Int /\ MaxCap \in Int
    BY CapAssumption DEF IInv, TypeOK
  <1>2. Live \subseteq Slots /\ Live \subseteq Ids
    BY <1>1 DEF IInv, Links, Live, Slots, Ids
  <1>3. IsFiniteSet(Slots)
    BY <1>1, FS_Interval DEF Slots
  <1>4. IsFiniteSet(Live)
    BY <1>2, <1>3, FS_Subset
  <1>5. Cardinality(Live) \in Nat
    BY <1>4, FS_CardinalityType
  <1>. QED
    BY <1>2, <1>4, <1>5 DEF IInv, LiveCount

(* The slot create() takes lies in the array and holds no live dthread:    *)
(* the scan of a scheduler that is not full always finds one.              *)
LEMMA PickedSlot ==
  ASSUME IInv, fault = "none", NEW id \in Ids, Create(id)
  PROVE  /\ id \notin Live
         /\ status[id] \in {"NULL", "DEAD"}
         /\ id \in Nat /\ id < cap'
         /\ cap' \in cap .. MaxCap
  <1>1. /\ cap \in Nat /\ cap > 0 /\ cap <= MaxCap /\ MaxCap \in Nat
        /\ n_dthread \in Nat
        /\ status[id] \in Statuses
    BY CapAssumption DEF IInv, TypeOK, Statuses
  <1>2. CASE n_dthread >= cap
    <2>1. id = cap /\ cap' = 2 * cap /\ 2 * cap <= MaxCap
      BY <1>2 DEF Create, PickSlot, Grow
    <2>2. status[id] = "NULL"
      BY <2>1, <1>1 DEF IInv, Links
    <2>. QED
      BY <1>1, <2>1, <2>2 DEF Live
  <1>3. CASE ~(n_dthread >= cap)
    <2>1. cap' = cap
      BY <1>3 DEF Create, Grow
    <2>2. CASE FirstReusable(id)
      BY <2>1, <2>2, <1>1 DEF FirstReusable, Reusable, Slots, Live
    <2>3. CASE id = cap - 1 /\ \A i \in Slots : ~Reusable(i)
      <3>1. Slots \subseteq Live
        BY <2>3, <1>1 DEF Slots, Reusable, Live, Ids, IInv, TypeOK, Statuses
      <3>2. Cardinality(Slots) = cap /\ IsFiniteSet(Slots)
        BY <1>1, SlotsCount DEF Slots
      <3>3. Cardinality(Slots) <= Cardinality(Live)
        BY <3>1, LiveFinite, FS_Subset
      <3>. QED
        BY <3>2, <3>3, <1>1, <1>3, LiveFinite
    <2>. QED
      BY <1>3, <2>2, <2>3 DEF Create, PickSlot
  <1>. QED
    BY <1>2, <1>3

-----------------------------------------------------------------------------
(***************************************************************************)
(* One lemma per action.                                                   *)
(***************************************************************************)

(* The freshly opened scheduler satisfies the invariant.                   *)
LEMMA InitIInv == Init => IInv
  <1> SUFFICES ASSUME Init PROVE IInv
    OBVIOUS
  <1>1. Live = {}
    BY DEF Init, Live
  <1>2. Cardinality(Live) = 0
    BY <1>1, FS_EmptySet
  <1>3. TypeOK
    BY CapAssumption DEF Init, TypeOK, Contexts, Statuses
  <1>. QED
    BY <1>2, <1>3 DEF Init, IInv, SchedulerAgrees, LiveCount, ContextsSaved,
                      Links, ParentsLive, NoStaleReturn, Started

(* create() takes a slot no live dthread has and counts it.                *)
LEMMA CreateIInv ==
  ASSUME IInv, NEW id \in Ids, Create(id)
  PROVE  IInv'
  <1>1. fault = "none" /\ fault' = "none"
    BY DEF Create
  <1>2. /\ id \notin Live /\ status[id] \in {"NULL", "DEAD"}
        /\ id \in Nat /\ id < cap' /\ cap' \in cap .. MaxCap
    BY <1>1, PickedSlot
  <1>3. /\ cap \in Nat /\ cap' \in Nat /\ MaxCap \in Nat /\ DefaultCap \in Nat
        /\ DefaultCap <= cap
    BY <1>2, CapAssumption DEF IInv, TypeOK
  <1>4. Live' = Live \cup {id}
    BY DEF Live, Create, IInv, TypeOK
  <1>5. Cardinality(Live') = n_dthread + 1 /\ n_dthread \in Nat
    BY <1>1, <1>2, <1>4, LiveFinite, FS_AddElement
  <1>6. Live' \subseteq 0 .. cap' - 1
    BY <1>1, <1>2, <1>3, <1>4, LiveFinite DEF Slots
  <1>7. Cardinality(Live') <= cap'
    <2>1. IsFiniteSet(0 .. cap' - 1) /\ Cardinality(0 .. cap' - 1) = cap'
      BY <1>3, SlotsCount
    <2>. QED
      BY <2>1, <1>6, FS_Subset
  <1>8. TypeOK'
    BY <1>1, <1>2, <1>3, <1>5, <1>7
       DEF Create, IInv, TypeOK, Contexts, Statuses
  <1>9. id \notin saved /\ id # exec
    BY <1>1, <1>2 DEF IInv, Links, SchedulerAgrees, Started, TypeOK, Ids
  <1>10. SchedulerAgrees'
    BY <1>1, <1>9 DEF Create, IInv, TypeOK, SchedulerAgrees, Started
  <1>11. LiveCount'
    BY <1>5 DEF LiveCount, Create
  <1>12. ContextsSaved'
    BY <1>1, <1>9 DEF Create, IInv, TypeOK, ContextsSaved
  <1>13. Links'
    <2>1. \A i \in Ids : i # id => status'[i] = status[i]
                                   /\ parent_id'[i] = parent_id[i]
      BY DEF Create, IInv, TypeOK
    <2>2. status'[id] = "READY"
      BY DEF Create, IInv, TypeOK
    <2>3. \A i \in Ids : uc_link'[i] \in {uc_link[i], Dangling}
      BY DEF Create, IInv, TypeOK
    <2>4. \A i \in Ids : status'[i] \in Started =>
                           uc_link'[i] \in {parent_id'[i], Dangling}
      BY <1>1, <2>1, <2>2, <2>3 DEF IInv, Links, Started
    <2>7. \A i \in Ids : status'[i] = "READY" => parent_id'[i] = Main
      BY <1>1, <2>1 DEF Create, IInv, TypeOK, Links
    <2>5. \A i \in saved' : i # Main => status'[i] = "SUSPEND"
      BY <1>1, <1>9, <2>1 DEF Create, IInv, TypeOK, Links, Contexts
    <2>6. \A i \in Ids : status'[i] # "NULL" => i < cap'
      BY <1>1, <1>2, <1>3, <2>1 DEF IInv, Links, Ids
    <2>. QED
      BY <2>4, <2>5, <2>6, <2>7 DEF Links
  <1>14. ParentsLive'
    <2> SUFFICES ASSUME Structured, NEW i \in Ids, status'[i] \in Started
                 PROVE  /\ uc_link'[i] = parent_id'[i]
                        /\ parent_id'[i] # i
                        /\ parent_id'[i] # Main =>
                             status'[parent_id'[i]] \in Started
      BY DEF ParentsLive
    <2>1. i # id
      BY DEF Create, IInv, TypeOK, Started
    <2>2. status'[i] = status[i] /\ parent_id'[i] = parent_id[i]
      BY <2>1 DEF Create, IInv, TypeOK
    <2>3. uc_link[i] = parent_id[i] /\ parent_id[i] # id
      BY <1>1, <1>2, <2>2 DEF IInv, ParentsLive, Started, Ids
    <2>4. uc_link'[i] = uc_link[i]
      BY <2>3 DEF Create, IInv, TypeOK
    <2>5. parent_id[i] # Main => parent_id[i] \in Ids
      BY DEF IInv, TypeOK, Contexts
    <2>. QED
      BY <1>1, <2>2, <2>3, <2>4, <2>5
         DEF Create, IInv, TypeOK, ParentsLive, Started
  <1>. QED
    BY <1>1, <1>8, <1>10, <1>11, <1>12, <1>13, <1>14 DEF IInv, NoStaleReturn

(* A failed assertion leaves the scheduler as it was.                      *)
LEMMA AbortIInv == IInv /\ Abort => IInv'
  BY DEF IInv, Abort, TypeOK, SchedulerAgrees, LiveCount, Live, ContextsSaved,
         Links, ParentsLive, NoStaleReturn, Started, Contexts, Statuses

(* yield() hands the CPU back to main, whose context is saved.             *)
LEMMA YieldIInv == IInv /\ Yield => IInv'
  <1> SUFFICES ASSUME IInv, Yield, running_id # Main
               PROVE  IInv'
    BY AbortIInv DEF Yield
  <1>1. /\ fault = "none" /\ fault' = "none"
        /\ exec = running_id /\ running_id \in Ids
        /\ status[running_id] \in Started
    BY DEF Yield, IInv, SchedulerAgrees, TypeOK, Contexts
  <1>2. /\ status' = [status EXCEPT ![running_id] = "SUSPEND"]
        /\ status \in [Ids -> Statuses]
    BY DEF Yield, IInv, TypeOK
  <1>3. Live' = Live
    BY <1>1, <1>2 DEF Live, Started
  <1>4. TypeOK'
    BY <1>1 DEF Yield, IInv, TypeOK, Contexts, Statuses
  <1>5. SchedulerAgrees' /\ ContextsSaved' /\ LiveCount'
    BY <1>1, <1>2, <1>3 DEF Yield, IInv, SchedulerAgrees, ContextsSaved,
       LiveCount, Ids
  <1>6. Links'
    <2>1. \A i \in Ids : status'[i] \in Started =>
                           uc_link'[i] \in {parent_id'[i], Dangling}
      BY <1>1, <1>2 DEF Yield, IInv, Links, Started
    <2>2. \A i \in saved' : i # Main => status'[i] = "SUSPEND"
      BY <1>1, <1>2 DEF Yield, IInv, Links, TypeOK, Contexts
    <2>3. \A i \in Ids : status'[i] # "NULL" => i < cap'
      BY <1>1, <1>2 DEF Yield, IInv, Links, Started
    <2>4. \A i \in Ids : status'[i] = "READY" => parent_id'[i] = Main
      BY <1>1, <1>2 DEF Yield, IInv, Links
    <2>. QED
      BY <2>1, <2>2, <2>3, <2>4 DEF Links
  <1>7. ParentsLive'
    BY <1>1, <1>2 DEF Yield, IInv, ParentsLive, Started, TypeOK, Contexts, Ids
  <1>. QED
    BY <1>1, <1>4, <1>5, <1>6, <1>7 DEF IInv, NoStaleReturn

(* The contexts after a swapcontext into dthread id: the caller's is saved *)
(* and the one entered is not.                                             *)
LEMMA SwapContexts ==
  ASSUME IInv, fault = "none", NEW id \in Ids, SwapInto(id),
         status[id] \in {"READY", "SUSPEND"},
         status' \in [Ids -> Statuses],
         \A i \in Ids : i # id /\ i # running_id => status'[i] = status[i],
         running_id # Main => status'[running_id] = "SUSPEND",
         id # running_id => status'[id] = "RUNNING",
         cap' = cap, fault' = "none"
  PROVE  /\ SchedulerAgrees' /\ ContextsSaved'
         /\ \A i \in saved' : i # Main => status'[i] = "SUSPEND"
         /\ \A i \in Ids : status'[i] # "NULL" => i < cap'
  <1>1. /\ running_id = exec /\ exec \in Contexts
        /\ running_id' = id /\ exec' = id
        /\ saved' = (saved \cup {running_id}) \ {id}
        /\ saved \subseteq Contexts
    BY DEF IInv, SchedulerAgrees, TypeOK, SwapInto
  <1>2. status'[id] \in Started
    BY <1>1 DEF Started, Ids
  <1>3. \A i \in Ids : status'[i] = "RUNNING" => i = id
    BY <1>1 DEF IInv, SchedulerAgrees, Ids
  <1>4. SchedulerAgrees'
    BY <1>1, <1>2, <1>3 DEF SchedulerAgrees
  <1>5. Main \in saved'
    BY <1>1 DEF IInv, ContextsSaved, Ids
  <1>6. \A i \in Ids : status'[i] = "SUSPEND" /\ i # id => i \in saved'
    BY <1>1 DEF IInv, ContextsSaved
  <1>7. \A i \in saved' : i # Main => status'[i] = "SUSPEND"
    BY <1>1 DEF IInv, Links, Contexts
  <1>8. \A i \in Ids : status'[i] # "NULL" => i < cap'
    <2>1. \A i \in Ids : status[i] # "NULL" => i < cap
      BY DEF IInv, Links
    <2>2. running_id # Main => status[running_id] # "NULL"
      BY <1>1 DEF IInv, SchedulerAgrees, Started
    <2>. QED
      BY <2>1, <2>2 DEF Ids
  <1>. QED
    BY <1>1, <1>4, <1>5, <1>6, <1>7, <1>8 DEF ContextsSaved

(* The first resume() links the dthread to the one that resumes it.        *)
LEMMA ResumeReadyIInv ==
  ASSUME IInv, NEW id \in Ids, ResumeReady(id)
  PROVE  IInv'
  <1>1. /\ fault = "none" /\ fault' = "none"
        /\ running_id = exec /\ running_id \in Contexts
        /\ running_id # Main => running_id \in Ids /\ status[running_id] \in Started
        /\ status[id] = "READY" /\ running_id # id
    BY DEF ResumeReady, IInv, SchedulerAgrees, TypeOK, Contexts, Started, Ids
  <1>2. /\ status \in [Ids -> Statuses]
        /\ status' \in [Ids -> Statuses]
        /\ status'[id] = "RUNNING"
        /\ running_id # Main => status'[running_id] = "SUSPEND"
        /\ \A i \in Ids : i # id /\ i # running_id => status'[i] = status[i]
    BY <1>1 DEF ResumeReady, IInv, TypeOK, Statuses
  <1>3. /\ SwapInto(id) /\ cap' = cap /\ n_dthread' = n_dthread
    BY DEF ResumeReady
  <1>4. /\ uc_link'[id] = running_id
        /\ \A i \in Ids : i # id => uc_link'[i] = uc_link[i]
        /\ running_id # Main => parent_id'[id] = running_id
        /\ running_id = Main => parent_id'[id] = parent_id[id]
        /\ \A i \in Ids : i # id => parent_id'[i] = parent_id[i]
    BY DEF ResumeReady, IInv, TypeOK
  <1>5. /\ SchedulerAgrees' /\ ContextsSaved'
        /\ \A i \in saved' : i # Main => status'[i] = "SUSPEND"
        /\ \A i \in Ids : status'[i] # "NULL" => i < cap'
    BY <1>1, <1>2, <1>3, SwapContexts
  <1>6. Live' = Live
    <2>1. \A i \in Ids : i \in Live' <=> i \in Live
      BY <1>1, <1>2 DEF Live, Started, Ids
    <2>. QED
      BY <2>1 DEF Live
  <1>7. LiveCount'
    BY <1>1, <1>3, <1>6 DEF IInv, LiveCount
  <1>8. TypeOK'
    BY <1>1, <1>2 DEF ResumeReady, SwapInto, IInv, TypeOK, Contexts
  <1>9. Links'
    <2>1. \A i \in Ids : status'[i] \in Started =>
                           uc_link'[i] \in {parent_id'[i], Dangling}
      BY <1>1, <1>2, <1>4 DEF IInv, Links, Started, Ids
    <2>2. \A i \in Ids : status'[i] = "READY" => parent_id'[i] = Main
      BY <1>1, <1>2, <1>4 DEF IInv, Links, Ids
    <2>. QED
      BY <1>5, <2>1, <2>2 DEF Links
  <1>10. ParentsLive'
    <2> SUFFICES ASSUME Structured, NEW i \in Ids, status'[i] \in Started
                 PROVE  /\ uc_link'[i] = parent_id'[i]
                        /\ parent_id'[i] # i
                        /\ parent_id'[i] # Main =>
                             status'[parent_id'[i]] \in Started
      BY DEF ParentsLive
    <2>1. CASE i = id
      <3>1. uc_link'[i] = running_id /\ parent_id'[i] = running_id
        BY <2>1, <1>1, <1>4 DEF IInv, Links
      <3>. QED
        BY <2>1, <3>1, <1>1, <1>2 DEF Started
    <2>2. CASE i # id
      <3>1. status[i] \in Started
        BY <2>2, <1>1, <1>2 DEF Ids
      <3>2. /\ uc_link[i] = parent_id[i] /\ parent_id[i] # i
            /\ parent_id[i] # Main => /\ parent_id[i] \in Ids
                                      /\ status[parent_id[i]] \in Started
        BY <3>1, <1>1 DEF IInv, ParentsLive, TypeOK, Contexts
      <3>. QED
        BY <2>2, <3>2, <1>1, <1>2, <1>4 DEF Started
    <2>. QED
      BY <2>1, <2>2
  <1>. QED
    BY <1>1, <1>5, <1>7, <1>8, <1>9, <1>10 DEF IInv, NoStaleReturn

(* A later resume() leaves the links alone.                                *)
LEMMA ResumeSuspendedIInv ==
  ASSUME IInv, NEW id \in Ids, ResumeSuspended(id)
  PROVE  IInv'
  <1>1. /\ fault = "none" /\ fault' = "none"
        /\ running_id = exec /\ running_id \in Contexts
        /\ running_id # Main => running_id \in Ids /\ status[running_id] \in Started
        /\ status[id] = "SUSPEND"
    BY DEF ResumeSuspended, IInv, SchedulerAgrees, TypeOK, Contexts
  <1>2. /\ status \in [Ids -> Statuses]
        /\ status' \in [Ids -> Statuses]
        /\ id # running_id => status'[id] = "RUNNING"
        /\ running_id # Main => status'[running_id] = "SUSPEND"
        /\ \A i \in Ids : i # id /\ i # running_id => status'[i] = status[i]
    BY <1>1 DEF ResumeSuspended, IInv, TypeOK, Statuses
  <1>3. /\ SwapInto(id) /\ cap' = cap /\ n_dthread' = n_dthread
        /\ parent_id' = parent_id /\ uc_link' = uc_link
    BY DEF ResumeSuspended
  <1>4. \A i \in Ids : (status'[i] \in Started) <=> (status[i] \in Started)
    BY <1>1, <1>2 DEF Started, Ids
  <1>5. /\ SchedulerAgrees' /\ ContextsSaved'
        /\ \A i \in saved' : i # Main => status'[i] = "SUSPEND"
        /\ \A i \in Ids : status'[i] # "NULL" => i < cap'
    BY <1>1, <1>2, <1>3, SwapContexts
  <1>6. Live' = Live
    <2>1. \A i \in Ids : i \in Live' <=> i \in Live
      BY <1>1, <1>2 DEF Live, Started, Ids
    <2>. QED
      BY <2>1 DEF Live
  <1>7. LiveCount'
    BY <1>1, <1>3, <1>6 DEF IInv, LiveCount
  <1>8. TypeOK'
    BY <1>1, <1>2 DEF ResumeSuspended, SwapInto, IInv, TypeOK, Contexts
  <1>9. Links'
    <2>1. \A i \in Ids : status'[i] = "READY" => parent_id'[i] = Main
      BY <1>1, <1>2, <1>3 DEF IInv, Links, Ids
    <2>. QED
      BY <1>1, <1>3, <1>4, <1>5, <2>1 DEF IInv, Links
  <1>10. ParentsLive'
    BY <1>1, <1>3, <1>4 DEF IInv, ParentsLive, TypeOK, Contexts
  <1>. QED
    BY <1>1, <1>5, <1>7, <1>8, <1>9, <1>10 DEF IInv, NoStaleReturn

(* resume(), whatever the state of the slot it is given.                   *)
LEMMA ResumeIInv ==
  ASSUME IInv, NEW id \in Contexts, Resume(id)
  PROVE  IInv'
  <1>1. CASE UNCHANGED vars
    BY <1>1 DEF vars, IInv, TypeOK, SchedulerAgrees, LiveCount, Live,
       ContextsSaved, Links, ParentsLive, NoStaleReturn, Started, Contexts,
       Statuses
  <1>2. id \in Slots => id \in Ids
    BY DEF Slots, Contexts
  <1>. QED
    BY <1>1, <1>2, ResumeReadyIInv, ResumeSuspendedIInv, AbortIInv
       DEF Resume, ResumeInvalid, ResumeEmpty

(* The return of a dthread retires it; under Structured the context that   *)
(* follows is the saved one of a live parent, or main's.                   *)
LEMMA EndIInv == IInv /\ End => IInv'
  <1> SUFFICES ASSUME IInv, End PROVE IInv'
    OBVIOUS
  <1>1. /\ fault = "none" /\ exec # Main /\ exec \in Ids
        /\ running_id = exec /\ status[exec] \in Started
    BY DEF End, IInv, SchedulerAgrees, TypeOK, Contexts
  <1>2. /\ status \in [Ids -> Statuses]
        /\ status' = [status EXCEPT ![exec] = "DEAD"]
        /\ running_id' = parent_id[exec]
        /\ n_dthread' = n_dthread - 1
        /\ cap' = cap /\ parent_id' = parent_id /\ uc_link' = uc_link
    BY DEF End, Retire, IInv, TypeOK
  <1>3. Live' = Live \ {exec} /\ exec \in Live
    BY <1>1, <1>2 DEF Live, Started
  <1>4. Cardinality(Live') = n_dthread' /\ n_dthread' \in Nat
    <2>1. Cardinality(Live') = Cardinality(Live) - 1 /\ IsFiniteSet(Live')
      BY <1>1, <1>3, LiveFinite, FS_RemoveElement
    <2>2. Cardinality(Live') \in Nat
      BY <2>1, FS_CardinalityType
    <2>. QED
      BY <1>1, <1>2, <2>1, <2>2, LiveFinite
  <1>5. TypeOK'
    BY <1>1, <1>2, <1>4, CapAssumption DEF End, IInv, TypeOK, Contexts, Statuses
  <1>6. Structured => uc_link[exec] \in saved
    <2> SUFFICES ASSUME Structured PROVE uc_link[exec] \in saved
      OBVIOUS
    <2>1. /\ uc_link[exec] = parent_id[exec] /\ parent_id[exec] # exec
          /\ parent_id[exec] # Main => status[parent_id[exec]] \in Started
          /\ parent_id[exec] \in Contexts
      BY <1>1 DEF IInv, ParentsLive, TypeOK
    <2>2. CASE parent_id[exec] = Main
      BY <2>1, <2>2, <1>1 DEF IInv, ContextsSaved
    <2>3. CASE parent_id[exec] # Main
      <3>1. parent_id[exec] \in Ids /\ status[parent_id[exec]] = "SUSPEND"
        BY <2>1, <2>3, <1>1 DEF IInv, SchedulerAgrees, Contexts, Started
      <3>. QED
        BY <3>1, <2>1, <1>1 DEF IInv, ContextsSaved
    <2>. QED
      BY <2>2, <2>3
  <1>7. CASE uc_link[exec] \notin saved
    <2>1. fault' = "stale" /\ ~Structured
      BY <1>6, <1>7 DEF End
    <2>. QED
      BY <2>1, <1>5 DEF IInv, SchedulerAgrees, LiveCount, ContextsSaved, Links,
                        ParentsLive
  <1>8. CASE uc_link[exec] \in saved
    <2>1. /\ fault' = "none" /\ exec' = uc_link[exec]
          /\ saved' = saved \ {uc_link[exec]}
      BY <1>1, <1>8 DEF End
    <2>2. uc_link[exec] = parent_id[exec] /\ parent_id[exec] \in Contexts
      BY <1>1, <1>8 DEF IInv, Links, TypeOK, Contexts, Ids
    <2>3. parent_id[exec] # Main => status[parent_id[exec]] = "SUSPEND"
      BY <1>1, <1>8, <2>2 DEF IInv, Links
    <2>4. exec \notin saved
      BY <1>1 DEF IInv, ContextsSaved
    <2>5. SchedulerAgrees'
      <3>1. exec # parent_id[exec]
        BY <1>8, <2>2, <2>4
      <3>2. exec' # Main => status'[exec'] \in Started
        BY <1>2, <2>1, <2>2, <2>3, <3>1 DEF Started, Contexts
      <3>3. \A i \in Ids : status'[i] # "RUNNING"
        BY <1>1, <1>2 DEF IInv, SchedulerAgrees
      <3>. QED
        BY <1>2, <2>1, <2>2, <3>2, <3>3 DEF SchedulerAgrees
    <2>6. LiveCount'
      BY <1>4 DEF LiveCount
    <2>7. ContextsSaved'
      BY <1>1, <1>2, <2>1, <2>2, <2>4 DEF IInv, ContextsSaved, Contexts
    <2>8. Links'
      <3>1. \A i \in saved' : i # Main => status'[i] = "SUSPEND"
        BY <1>1, <1>2, <2>1, <2>4 DEF IInv, Links, TypeOK, Contexts
      <3>2. \A i \in Ids : status'[i] \in Started =>
                             uc_link'[i] \in {parent_id'[i], Dangling}
        BY <1>1, <1>2 DEF IInv, Links, Started
      <3>3. \A i \in Ids : status'[i] = "READY" => parent_id'[i] = Main
        BY <1>1, <1>2 DEF IInv, Links
      <3>4. \A i \in Ids : status'[i] # "NULL" => i < cap'
        BY <1>1, <1>2 DEF IInv, Links, Started
      <3>. QED
        BY <3>1, <3>2, <3>3, <3>4 DEF Links
    <2>9. ParentsLive'
      <3> SUFFICES ASSUME Structured, NEW i \in Ids, status'[i] \in Started
                   PROVE  /\ uc_link'[i] = parent_id'[i]
                          /\ parent_id'[i] # i
                          /\ parent_id'[i] # Main =>
                               status'[parent_id'[i]] \in Started
        BY DEF ParentsLive
      <3>1. status[i] \in Started
        BY <1>1, <1>2 DEF Started
      <3>2. parent_id[i] # exec
        BY <3>1 DEF End, MayReturn
      <3>3. parent_id[i] # Main => parent_id[i] \in Ids
        BY DEF IInv, TypeOK, Contexts
      <3>. QED
        BY <1>1, <1>2, <3>1, <3>2, <3>3 DEF IInv, ParentsLive
    <2>. QED
      BY <1>5, <2>1, <2>5, <2>6, <2>7, <2>8, <2>9 DEF IInv, NoStaleReturn
  <1>. QED
    BY <1>7, <1>8

-----------------------------------------------------------------------------
(* Every step of the scheduler preserves the invariant.                    *)
LEMMA NextIInv == IInv /\ [Next]_vars => IInv'
  <1> SUFFICES ASSUME IInv, [Next]_vars PROVE IInv'
    OBVIOUS
  <1>1. CASE UNCHANGED vars
    BY <1>1 DEF vars, IInv, TypeOK, SchedulerAgrees, LiveCount, Live,
       ContextsSaved, Links, ParentsLive, NoStaleReturn, Started, Contexts,
       Statuses
  <1>. QED
    BY <1>1, CreateIInv, YieldIInv, ResumeIInv, EndIInv DEF Next, Halted

(* The inductive invariant of the scheduler holds of every service, for    *)
(* any number of slots.                                                    *)
THEOREM SchedulerInvariant == Spec => []IInv
  BY InitIInv, NextIInv, PTL DEF Spec

(* running_id and the statuses agree with who has the CPU, every context   *)
(* that can be resumed is saved, and n_dthread counts the live dthreads.   *)
THEOREM SchedulerSafety ==
  Spec => [](TypeOK /\ SchedulerAgrees /\ LiveCount /\ ContextsSaved)
  <1>1. IInv => TypeOK /\ SchedulerAgrees /\ LiveCount /\ ContextsSaved
    BY DEF IInv
  <1>. QED
    BY <1>1, SchedulerInvariant, PTL

(* With structured services no dthread ever returns into a context that    *)
(* has died or moved on.                                                   *)
THEOREM StructuredNeverStale ==
  ASSUME Structured
  PROVE  Spec => []NoStaleReturn
  <1>1. IInv => NoStaleReturn
    BY DEF IInv
  <1>. QED
    BY <1>1, SchedulerInvariant, PTL

(* No create() takes the slot of a started dthread, and no dthread is      *)
(* retired by another.                                                     *)
THEOREM SlotsAreKept == Spec => SlotKept
  <1> DEFINE Kept == \A id \in Ids :
          status[id] \in Started =>
              status'[id] \in Started \/ (id = exec /\ status'[id] = "DEAD")
  <1>1. IInv /\ [Next]_vars => [Kept]_vars
    <2> SUFFICES ASSUME IInv, Next, NEW i \in Ids, status[i] \in Started
                 PROVE  status'[i] \in Started \/ (i = exec /\ status'[i] = "DEAD")
      OBVIOUS
    <2>1. ASSUME NEW id \in Ids, Create(id) PROVE status'[i] \in Started
      <3>1. status[id] \in {"NULL", "DEAD"}
        BY <2>1, PickedSlot DEF Create
      <3>. QED
        BY <2>1, <3>1 DEF Create, Started, IInv, TypeOK
    <2>2. CASE Yield
      BY <2>2 DEF Yield, Abort, Started, IInv, TypeOK
    <2>3. ASSUME NEW id \in Contexts, Resume(id) PROVE status'[i] \in Started
      BY <2>3 DEF Resume, ResumeReady, ResumeSuspended, ResumeInvalid,
                  ResumeEmpty, Abort, vars, Started, IInv, TypeOK
    <2>4. CASE End
      BY <2>4 DEF End, Retire, Started, IInv, TypeOK
    <2>5. CASE Halted
      BY <2>5 DEF Halted, vars
    <2>. QED
      BY <2>1, <2>2, <2>3, <2>4, <2>5 DEF Next
  <1>. QED
    BY <1>1, SchedulerInvariant, PTL DEF Spec, SlotKept

-----------------------------------------------------------------------------
(***************************************************************************)
(* The channels.                                                           *)
(***************************************************************************)

(* A resume() of whatever a channel holds as its other side, a dthread or  *)
(* none, is one of the scheduler's steps.                                  *)
LEMMA AnyResume ==
  ASSUME IInv, NEW x, Resume(x)
  PROVE  Next
  <1>1. cap \in Int /\ cap <= MaxCap /\ MaxCap \in Nat
    BY CapAssumption DEF IInv, TypeOK
  <1>2. CASE Opened /\ x \in Slots
    <2>1. x \in Contexts
      BY <1>1, <1>2 DEF Slots, Ids, Contexts
    <2>. QED
      BY <2>1 DEF Next
  <1>3. CASE ~(Opened /\ x \in Slots)
    <2>1. Abort
      BY <1>3 DEF Resume
    <2>2. Main \in Contexts /\ Main \notin Slots
      BY <1>1 DEF Slots, Contexts, Main
    <2>3. Resume(Main)
      BY <2>1, <2>2 DEF Resume
    <2>. QED
      BY <2>2, <2>3 DEF Next
  <1>. QED
    BY <1>2, <1>3

(* Every step of the scheduler with its channels is a step of the          *)
(* scheduler, or one it does not see.                                      *)
LEMMA ChanStepRefines == IInv /\ [ChanNext]_allVars => [Next]_vars
  <1>. SUFFICES ASSUME IInv, [ChanNext]_allVars
                PROVE  [Next]_vars
    OBVIOUS
  <1>1. ASSUME NEW id \in Ids, ChanSchedCreate(id)
        PROVE  [Next]_vars
    BY <1>1 DEF ChanSchedCreate, Next
  <1>2. CASE ChanSchedSwitch
    BY <1>2 DEF ChanSchedSwitch, Next
  <1>3. CASE ChanSchedEnd
    BY <1>3 DEF ChanSchedEnd, Next
  <1>4. ASSUME NEW c \in Chans, NEW v \in Data, SendFull(c, v)
        PROVE  [Next]_vars
    BY <1>4, AnyResume DEF SendFull, GiveWay
  <1>5. ASSUME NEW c \in Chans, RecvEmpty(c)
        PROVE  [Next]_vars
    BY <1>5, AnyResume DEF RecvEmpty, GiveWay
  <1>6. ASSUME NEW c \in Chans, RecvDone(c)
        PROVE  [Next]_vars
    <2>1. Main \notin Slots
      BY CapAssumption DEF IInv, TypeOK, Slots, Main
    <2>2. Resume(Main)
      BY <1>6, <2>1 DEF RecvDone, Resume
    <2>. QED
      BY <2>2, AnyResume
  <1>7. ASSUME NEW c \in Chans, NEW size \in Sizes, ChanCreate(c, size)
        PROVE  UNCHANGED vars
    BY <1>7 DEF ChanCreate, vars
  <1>8. ASSUME NEW c \in Chans,
               ChanFree(c) \/ ChanEnd(c) \/ SendBroken(c) \/ RecvNow(c)
        PROVE  UNCHANGED vars
    BY <1>8 DEF ChanFree, ChanEnd, SendBroken, RecvNow, allVars, vars
  <1>9. ASSUME NEW c \in Chans, NEW id \in Ids,
               ChanSetSender(c, id) \/ ChanSetReceiver(c, id)
        PROVE  UNCHANGED vars
    BY <1>9 DEF ChanSetSender, ChanSetReceiver, vars
  <1>10. ASSUME NEW c \in Chans, NEW v \in Data, SendNow(c, v)
         PROVE  UNCHANGED vars
    BY <1>10 DEF SendNow, vars
  <1>11. CASE SendResumed \/ RecvResumed \/ ChanHalted \/ UNCHANGED allVars
    BY <1>11 DEF SendResumed, RecvResumed, ChanHalted, allVars, vars
  <1>. QED
    BY <1>1, <1>2, <1>3, <1>4, <1>5, <1>6, <1>7, <1>8, <1>9, <1>10, <1>11
       DEF ChanNext

(* The scheduler's invariant survives channels: chan_send() and            *)
(* chan_recv(), however they are interleaved, leave the scheduler          *)
(* consistent (running_id, the count of dthreads, the saved contexts).     *)
THEOREM ChannelKeepsScheduler == ChanSpec => []IInv
  <1>1. ChanInit => IInv
    BY InitIInv DEF ChanInit
  <1>2. IInv /\ [ChanNext]_allVars => IInv'
    BY ChanStepRefines, NextIInv
  <1>. QED
    BY <1>1, <1>2, PTL DEF ChanSpec

-----------------------------------------------------------------------------
(***************************************************************************)
(* The invariant of the channels.                                          *)
(***************************************************************************)
ChanRecord ==
    [allocated : BOOLEAN, size : {0} \cup {n + 1 : n \in Sizes},
     bufs : Seq(Data), sender : Contexts, receiver : Contexts,
     ended : BOOLEAN, done : BOOLEAN]

(* A channel that was freed, or has just been created, is of its type.     *)
LEMMA FreedType ==
  /\ Freed \in ChanRecord
  /\ \A size \in Sizes :
        [Freed EXCEPT !.allocated = TRUE, !.size = Capacity(size)] \in ChanRecord
  <1>1. -1 \in Contexts
    BY DEF Contexts, Main
  <1>2. <<>> \in Seq(Data)
    OBVIOUS
  <1>. QED
    BY <1>1, <1>2 DEF Freed, ChanRecord, Capacity

(* What a step does to one channel: its record is r, the others stay.      *)
Only(c, r) ==
    /\ chan'[c] = r
    /\ \A d \in Chans : d # c => chan'[d] = chan[d]

(* What chan_send() does to the channel and to the history.                *)
LEMMA EnqueueEffect ==
  ASSUME ChanTypeOK, NEW c \in Chans, NEW v \in Data, Enqueue(c, v)
  PROVE  /\ chan' \in [Chans -> ChanRecord]
         /\ sent' \in [Chans -> Seq(Data)]
         /\ Only(c, [chan[c] EXCEPT !.bufs = Append(chan[c].bufs, v)])
         /\ sent'[c] = Append(sent[c], v)
         /\ \A d \in Chans : d # c => sent'[d] = sent[d]
  <1>1. /\ chan \in [Chans -> ChanRecord]
        /\ sent \in [Chans -> Seq(Data)]
    BY DEF ChanTypeOK, ChanRecord
  <1>2. chan[c] \in ChanRecord /\ chan[c].bufs \in Seq(Data) /\ sent[c] \in Seq(Data)
    BY <1>1 DEF ChanRecord
  <1>3. Append(chan[c].bufs, v) \in Seq(Data) /\ Append(sent[c], v) \in Seq(Data)
    BY <1>2
  <1>4. [chan[c] EXCEPT !.bufs = Append(chan[c].bufs, v)] \in ChanRecord
    BY <1>2, <1>3 DEF ChanRecord
  <1>5. chan' = [chan EXCEPT ![c] = [chan[c] EXCEPT !.bufs = Append(chan[c].bufs, v)]]
    BY <1>1 DEF Enqueue
  <1>. QED
    BY <1>1, <1>3, <1>4, <1>5 DEF Enqueue, Only

(* What chan_recv() does when the channel has an element.                  *)
LEMMA DequeueEffect ==
  ASSUME ChanTypeOK, NEW c \in Chans, Dequeue(c), chan[c].bufs # <<>>
  PROVE  /\ chan' \in [Chans -> ChanRecord]
         /\ rcvd' \in [Chans -> Seq(Data)]
         /\ Only(c, [chan[c] EXCEPT !.bufs = Tail(chan[c].bufs),
                                    !.done = chan[c].done \/ NowDone(c)])
         /\ rcvd'[c] = Append(rcvd[c], Head(chan[c].bufs))
         /\ \A d \in Chans : d # c => rcvd'[d] = rcvd[d]
         /\ chan_fault' = chan_fault
  <1>1. /\ chan \in [Chans -> ChanRecord]
        /\ rcvd \in [Chans -> Seq(Data)]
    BY DEF ChanTypeOK, ChanRecord
  <1>2. /\ chan[c] \in ChanRecord
        /\ chan[c].bufs \in Seq(Data)
        /\ rcvd[c] \in Seq(Data)
    BY <1>1 DEF ChanRecord
  <1>3. /\ Tail(chan[c].bufs) \in Seq(Data)
        /\ Append(rcvd[c], Head(chan[c].bufs)) \in Seq(Data)
    BY <1>2, HeadTailProperties
  <1>d. (chan[c].done \/ NowDone(c)) \in BOOLEAN
    OBVIOUS
  <1>4. [chan[c] EXCEPT !.bufs = Tail(chan[c].bufs),
                        !.done = chan[c].done \/ NowDone(c)] \in ChanRecord
    BY <1>2, <1>3, <1>d DEF ChanRecord
  <1>5. chan' = [chan EXCEPT ![c] =
                   [chan[c] EXCEPT !.bufs = Tail(chan[c].bufs),
                                   !.done = chan[c].done \/ NowDone(c)]]
    BY <1>1 DEF Dequeue
  <1>. QED
    BY <1>1, <1>3, <1>4, <1>5 DEF Dequeue, Only

(* The same, field by field.                                               *)
LEMMA EnqueueFields ==
  ASSUME ChanTypeOK, NEW c \in Chans, NEW v \in Data, Enqueue(c, v)
  PROVE  /\ chan'[c].bufs = Append(chan[c].bufs, v)
         /\ chan'[c].size = chan[c].size
         /\ chan'[c].allocated = chan[c].allocated
         /\ chan'[c].sender = chan[c].sender
         /\ chan'[c].receiver = chan[c].receiver
         /\ chan'[c].ended = chan[c].ended
         /\ chan'[c].done = chan[c].done
         /\ \A d \in Chans : d # c => chan'[d] = chan[d]
  <1>1. chan[c] \in ChanRecord
    BY DEF ChanTypeOK, ChanRecord
  <1>2. Only(c, [chan[c] EXCEPT !.bufs = Append(chan[c].bufs, v)])
    BY EnqueueEffect
  <1>. QED
    BY <1>1, <1>2 DEF Only, ChanRecord

LEMMA DequeueFields ==
  ASSUME ChanTypeOK, NEW c \in Chans, Dequeue(c), chan[c].bufs # <<>>
  PROVE  /\ chan'[c].bufs = Tail(chan[c].bufs)
         /\ chan'[c].size = chan[c].size
         /\ chan'[c].allocated = chan[c].allocated
         /\ chan'[c].sender = chan[c].sender
         /\ chan'[c].receiver = chan[c].receiver
         /\ chan'[c].ended = chan[c].ended
         /\ chan'[c].done = (chan[c].done \/ NowDone(c))
         /\ \A d \in Chans : d # c => chan'[d] = chan[d]
  <1>1. chan[c] \in ChanRecord
    BY DEF ChanTypeOK, ChanRecord
  <1>2. Only(c, [chan[c] EXCEPT !.bufs = Tail(chan[c].bufs),
                                !.done = chan[c].done \/ NowDone(c)])
    BY DequeueEffect
  <1>. QED
    BY <1>1, <1>2 DEF Only, ChanRecord

(* Every step keeps the channels' types.                                   *)
LEMMA ChanTypeStep ==
  ASSUME IInv, ChanIInv, ChanNext
  PROVE  ChanTypeOK'
  <1>. USE DEF ChanTypeOK
  <1>0. /\ exec \in Contexts
        /\ exec # Main => exec \in Ids
        /\ Ids \subseteq Contexts
        /\ NoReceiver \in Contexts
    BY DEF IInv, TypeOK, Contexts, NoReceiver, Main
  <1>t. /\ chan \in [Chans -> ChanRecord]
        /\ chan_list \in [Ids -> SUBSET Chans]
        /\ sent \in [Chans -> Seq(Data)]
        /\ rcvd \in [Chans -> Seq(Data)]
    BY DEF ChanIInv, ChanRecord
  <1>1. ASSUME NEW id \in Ids, ChanSchedCreate(id)
        PROVE  ChanTypeOK'
    BY <1>1, <1>t DEF ChanSchedCreate, ChanIInv
  <1>2. CASE ChanSchedSwitch
    BY <1>2 DEF ChanSchedSwitch, chanVars, ChanIInv
  <1>3. CASE ChanSchedEnd
    BY <1>3, <1>0, ZenonT(40) DEF ChanSchedEnd, SeverReceivers, ChanIInv
  <1>4. ASSUME NEW c \in Chans, NEW size \in Sizes, ChanCreate(c, size)
        PROVE  ChanTypeOK'
    <2>1. chan' \in [Chans -> ChanRecord]
      BY <1>4, <1>t, FreedType DEF ChanCreate
    <2>2. sent' \in [Chans -> Seq(Data)] /\ rcvd' \in [Chans -> Seq(Data)]
      BY <1>4, <1>t DEF ChanCreate
    <2>3. UNCHANGED <<chan_list, call, chan_fault>>
      BY <1>4 DEF ChanCreate
    <2>. QED
      BY <2>1, <2>2, <2>3 DEF ChanIInv, ChanRecord
  <1>5. ASSUME NEW c \in Chans, ChanFree(c)
        PROVE  ChanTypeOK'
    BY <1>5, <1>t, FreedType DEF ChanFree, Unlink, ChanIInv, ChanRecord
  <1>6. ASSUME NEW c \in Chans, NEW id \in Ids, ChanSetSender(c, id)
        PROVE  ChanTypeOK'
    BY <1>6, <1>0, ZenonT(40) DEF ChanSetSender, ChanIInv
  <1>7. ASSUME NEW c \in Chans, NEW id \in Ids, ChanSetReceiver(c, id)
        PROVE  ChanTypeOK'
    BY <1>7, <1>0, ZenonT(40) DEF ChanSetReceiver, ChanIInv
  <1>8. ASSUME NEW c \in Chans, ChanEnd(c)
        PROVE  ChanTypeOK'
    BY <1>8, ZenonT(40) DEF ChanEnd, ChanIInv
  <1>9. ASSUME NEW c \in Chans, NEW v \in Data, SendNow(c, v)
        PROVE  ChanTypeOK'
    BY <1>9, EnqueueEffect DEF SendNow, ChanIInv, ChanRecord
  <1>10. ASSUME NEW c \in Chans, NEW v \in Data, SendFull(c, v)
         PROVE  ChanTypeOK'
    BY <1>10, <1>0 DEF SendFull, SendCall, ChanIInv
  <1>11. CASE SendResumed
    <2>1. call[exec].chan \in Chans /\ call[exec].data \in Data
      BY <1>11, <1>0 DEF SendResumed, ChanIInv, NoCall
    <2>. QED
      BY <1>11, <1>0, <2>1, EnqueueEffect DEF SendResumed, ChanIInv, ChanRecord
  <1>12. ASSUME NEW c \in Chans, RecvNow(c)
         PROVE  ChanTypeOK'
    <2>1. chan[c].bufs # <<>>
      BY <1>12, <1>t DEF RecvNow, used
    <2>. QED
      BY <1>12, <2>1, DequeueEffect DEF RecvNow, ChanIInv, ChanRecord
  <1>13. ASSUME NEW c \in Chans, RecvEmpty(c)
         PROVE  ChanTypeOK'
    BY <1>13, <1>0 DEF RecvEmpty, RecvCall, ChanIInv
  <1>14. CASE RecvResumed
    <2>1. call[exec].chan \in Chans
      BY <1>14, <1>0 DEF RecvResumed, ChanIInv, NoCall
    <2>2. CASE chan[call[exec].chan].bufs = <<>>
      BY <1>14, <1>0, <2>2 DEF RecvResumed, Dequeue, ChanIInv
    <2>3. CASE chan[call[exec].chan].bufs # <<>>
      BY <1>14, <1>0, <2>1, <2>3, DequeueEffect
         DEF RecvResumed, ChanIInv, ChanRecord
    <2>. QED
      BY <2>2, <2>3
  <1>15. ASSUME NEW c \in Chans, SendBroken(c) \/ RecvDone(c)
         PROVE  ChanTypeOK'
    BY <1>15 DEF SendBroken, RecvDone, ChanIInv, allVars, chanVars
  <1>16. CASE ChanHalted
    BY <1>16 DEF ChanHalted, ChanIInv, allVars, chanVars
  <1>. QED
    BY <1>1, <1>2, <1>3, <1>4, <1>5, <1>6, <1>7, <1>8, <1>9, <1>10, <1>11,
       <1>12, <1>13, <1>14, <1>15, <1>16 DEF ChanNext

(***************************************************************************)
(* What the scheduler's steps do to the set of live dthreads.              *)
(***************************************************************************)

(* create() adds one.                                                      *)
LEMMA CreateLive ==
  ASSUME IInv, NEW id \in Ids, Create(id)
  PROVE  id \notin Live /\ Live' = Live \cup {id} /\ fault' = "none"
  <1>1. id \notin Live /\ fault = "none" /\ fault' = fault
    BY PickedSlot DEF Create
  <1>2. status' = [status EXCEPT ![id] = "READY"] /\ status \in [Ids -> Statuses]
    BY DEF Create, IInv, TypeOK
  <1>. QED
    BY <1>1, <1>2 DEF Live

(* yield() and resume() change none, and neither returns to a stale        *)
(* context.                                                                *)
LEMMA SwitchLive ==
  ASSUME IInv, NEW x, Yield \/ Resume(x)
  PROVE  Live' = Live /\ fault = "none" /\ fault' # "stale"
  <1>1. /\ cap \in Int /\ cap <= MaxCap /\ MaxCap \in Nat
        /\ running_id \in Contexts
        /\ status \in [Ids -> Statuses]
    BY CapAssumption DEF IInv, TypeOK
  <1>2. CASE Abort
    BY <1>2 DEF Abort, Live
  <1>3. ASSUME fault = "none" PROVE running_id # Main =>
                 running_id \in Ids /\ status[running_id] \in Started
    BY <1>1, <1>3 DEF IInv, SchedulerAgrees, Contexts
  <1>4. CASE Yield /\ ~Abort
    BY <1>1, <1>3, <1>4 DEF Yield, Live, Started
  <1>5. CASE Resume(x) /\ ~Abort
    <2>1. x \in Ids
      BY <1>1, <1>5 DEF Resume, Slots, Ids
    <2>2. CASE ResumeReady(x)
      <3>1. \A i \in Ids : status'[i] = IF i = x THEN "RUNNING"
                          ELSE IF i = running_id THEN "SUSPEND" ELSE status[i]
        BY <2>2 DEF ResumeReady
      <3>. QED
        BY <1>1, <1>3, <2>1, <2>2, <3>1 DEF ResumeReady, Live, Started, Ids, Main
    <2>3. CASE ResumeSuspended(x)
      <3>1. \A i \in Ids : status'[i] = IF i = running_id THEN "SUSPEND"
                          ELSE IF i = x THEN "RUNNING" ELSE status[i]
        BY <2>3 DEF ResumeSuspended
      <3>. QED
        BY <1>1, <1>3, <2>1, <2>3, <3>1 DEF ResumeSuspended, Live, Started, Ids, Main
    <2>4. CASE ResumeEmpty(x)
      BY <2>4 DEF ResumeEmpty, Live, vars
    <2>. QED
      BY <1>5, <2>2, <2>3, <2>4 DEF Resume, ResumeInvalid
  <1>. QED
    BY <1>2, <1>4, <1>5

(* The return of a dthread's function removes that dthread.                *)
LEMMA EndLive ==
  ASSUME IInv, End
  PROVE  Live' = Live \ {exec} /\ exec \in Ids /\ fault = "none"
  <1>1. /\ status \in [Ids -> Statuses] /\ exec \in Ids /\ fault = "none"
        /\ status' = [status EXCEPT ![exec] = "DEAD"]
    BY DEF End, Retire, IInv, TypeOK, Contexts
  <1>. QED
    BY <1>1 DEF Live

(***************************************************************************)
(* The other parts of the invariant, one by one.                           *)
(***************************************************************************)

(* Adding at the end and taking at the front keep what was received,       *)
(* followed by what is in the channel, in order.                           *)
LEMMA FifoSequences ==
  ASSUME NEW r \in Seq(Data), NEW b \in Seq(Data)
  PROVE  /\ \A v \in Data : Append(r \o b, v) = r \o Append(b, v)
         /\ b # <<>> => r \o b = Append(r, Head(b)) \o Tail(b)
  <1>1. ASSUME NEW v \in Data
        PROVE  Append(r \o b, v) = r \o Append(b, v)
    <2>1. r \o b \in Seq(Data) /\ <<v>> \in Seq(Data)
      OBVIOUS
    <2>2. /\ Append(r \o b, v) = (r \o b) \o <<v>>
          /\ Append(b, v) = b \o <<v>>
      BY <2>1, AppendIsConcat
    <2>. QED
      BY <2>1, <2>2, ConcatAssociative
  <1>2. ASSUME b # <<>>
        PROVE  r \o b = Append(r, Head(b)) \o Tail(b)
    <2>1. Head(b) \in Data /\ Tail(b) \in Seq(Data) /\ <<Head(b)>> \in Seq(Data)
      BY <1>2, HeadTailProperties
    <2>2. Append(r, Head(b)) = r \o <<Head(b)>>
      BY <2>1, AppendIsConcat
    <2>3. b = <<Head(b)>> \o Tail(b)
      BY <1>2, <2>1
    <2>4. (r \o <<Head(b)>>) \o Tail(b) = r \o (<<Head(b)>> \o Tail(b))
      BY <2>1, ConcatAssociative
    <2>. QED
      BY <2>2, <2>3, <2>4
  <1>. QED
    BY <1>1, <1>2

(* A step that leaves a channel's elements and history alone keeps its     *)
(* order; a step that allocates it starts with nothing sent.               *)
LEMMA FifoStep ==
  ASSUME IInv, ChanIInv, ChanNext
  PROVE  FifoExactlyOnce'
  <1>t. /\ chan \in [Chans -> ChanRecord]
        /\ \A c \in Chans : chan[c].bufs \in Seq(Data)
        /\ sent \in [Chans -> Seq(Data)]
        /\ rcvd \in [Chans -> Seq(Data)]
        /\ ChanTypeOK
        /\ \A c \in Chans : chan[c].allocated => sent[c] = rcvd[c] \o chan[c].bufs
    BY DEF ChanIInv, ChanTypeOK, ChanRecord, FifoExactlyOnce
  <1>0. exec # Main => exec \in Ids
    BY DEF IInv, TypeOK, Contexts
  <1>1. ASSUME UNCHANGED <<chan, sent, rcvd>>
        PROVE  FifoExactlyOnce'
    BY <1>1 DEF ChanIInv, FifoExactlyOnce
  <1>2. ASSUME UNCHANGED <<sent, rcvd>>,
               \A c \in Chans : chan'[c].allocated =>
                   chan[c].allocated /\ chan'[c].bufs = chan[c].bufs
        PROVE  FifoExactlyOnce'
    BY <1>2 DEF ChanIInv, FifoExactlyOnce
  <1>3. CASE ChanSchedEnd
    BY <1>2, <1>3, <1>t DEF ChanSchedEnd, SeverReceivers, ChanRecord
  <1>4. ASSUME NEW c \in Chans, NEW size \in Sizes, ChanCreate(c, size)
        PROVE  FifoExactlyOnce'
    <2>1. /\ chan'[c].bufs = <<>> /\ sent'[c] = <<>> /\ rcvd'[c] = <<>>
          /\ \A d \in Chans : d # c => /\ chan'[d] = chan[d]
                                     /\ sent'[d] = sent[d]
                                     /\ rcvd'[d] = rcvd[d]
      BY <1>4, <1>t DEF ChanCreate, Freed
    <2>2. <<>> \o <<>> = <<>>
      OBVIOUS
    <2>. QED
      BY <2>1, <2>2, <1>t DEF FifoExactlyOnce
  <1>5. ASSUME NEW c \in Chans, ChanFree(c)
        PROVE  FifoExactlyOnce'
    BY <1>2, <1>5, <1>t DEF ChanFree, Freed
  <1>6. ASSUME NEW c \in Chans, NEW id \in Ids,
               ChanSetSender(c, id) \/ ChanSetReceiver(c, id)
        PROVE  FifoExactlyOnce'
    <2>1. ASSUME ChanSetSender(c, id) PROVE FifoExactlyOnce'
      BY <1>2, <2>1, <1>t DEF ChanSetSender, ChanRecord
    <2>2. ASSUME ChanSetReceiver(c, id) PROVE FifoExactlyOnce'
      BY <1>2, <2>2, <1>t DEF ChanSetReceiver, ChanRecord
    <2>. QED
      BY <1>6, <2>1, <2>2
  <1>7. ASSUME NEW c \in Chans, ChanEnd(c)
        PROVE  FifoExactlyOnce'
    BY <1>2, <1>7, <1>t DEF ChanEnd, ChanRecord
  <1>8. ASSUME NEW c \in Chans, NEW v \in Data, Enqueue(c, v), UNCHANGED rcvd
        PROVE  FifoExactlyOnce'
    <2>1. /\ chan'[c].bufs = Append(chan[c].bufs, v)
          /\ chan'[c].allocated = chan[c].allocated
          /\ sent'[c] = Append(sent[c], v)
          /\ \A d \in Chans : d # c => chan'[d] = chan[d] /\ sent'[d] = sent[d]
      BY <1>8, <1>t, EnqueueEffect, EnqueueFields
    <2>a. rcvd[c] \in Seq(Data) /\ chan[c].bufs \in Seq(Data)
      BY <1>t
    <2>b. Append(rcvd[c] \o chan[c].bufs, v) = rcvd[c] \o Append(chan[c].bufs, v)
      BY <2>a, FifoSequences, Zenon
    <2>2. chan[c].allocated => sent'[c] = rcvd[c] \o chan'[c].bufs
      BY <1>t, <2>1, <2>b, Zenon
    <2>. QED
      BY <1>8, <1>t, <2>1, <2>2 DEF FifoExactlyOnce
  <1>9. ASSUME NEW c \in Chans, Dequeue(c), UNCHANGED sent
        PROVE  FifoExactlyOnce'
    <2>1. CASE chan[c].bufs = <<>>
      BY <1>1, <1>9, <2>1 DEF Dequeue
    <2>2. CASE chan[c].bufs # <<>>
      <3>1. /\ chan'[c].bufs = Tail(chan[c].bufs)
            /\ chan'[c].allocated = chan[c].allocated
            /\ rcvd'[c] = Append(rcvd[c], Head(chan[c].bufs))
            /\ \A d \in Chans : d # c => chan'[d] = chan[d] /\ rcvd'[d] = rcvd[d]
        BY <1>9, <1>t, <2>2, DequeueEffect, DequeueFields
      <3>a. rcvd[c] \in Seq(Data) /\ chan[c].bufs \in Seq(Data)
        BY <1>t
      <3>b. rcvd[c] \o chan[c].bufs
              = Append(rcvd[c], Head(chan[c].bufs)) \o Tail(chan[c].bufs)
        BY <2>2, <3>a, FifoSequences, Zenon
      <3>2. rcvd[c] \o chan[c].bufs = rcvd'[c] \o chan'[c].bufs
        BY <3>1, <3>b, Zenon
      <3>. QED
        BY <1>9, <1>t, <3>1, <3>2 DEF FifoExactlyOnce
    <2>. QED
      BY <2>1, <2>2
  <1>10. CASE SendResumed
    <2>1. call[exec].chan \in Chans /\ call[exec].data \in Data
      BY <1>10, <1>0, <1>t DEF SendResumed, ChanTypeOK, NoCall
    <2>2. Enqueue(call[exec].chan, call[exec].data) /\ UNCHANGED rcvd
      BY <1>10 DEF SendResumed
    <2>. QED
      BY <1>8, <2>1, <2>2
  <1>11. CASE RecvResumed
    BY <1>9, <1>11, <1>0, <1>t DEF RecvResumed, ChanTypeOK, NoCall
  <1>12. ASSUME NEW c \in Chans,
                \/ \E v \in Data : SendNow(c, v) \/ SendFull(c, v)
                \/ RecvNow(c) \/ RecvEmpty(c) \/ RecvDone(c) \/ SendBroken(c)
         PROVE  FifoExactlyOnce'
    BY <1>1, <1>8, <1>9, <1>12
       DEF SendNow, SendFull, RecvNow, RecvEmpty, RecvDone, SendBroken,
           allVars, chanVars
  <1>13. CASE ChanSchedSwitch \/ ChanHalted \/ \E id \in Ids : ChanSchedCreate(id)
    BY <1>1, <1>13 DEF ChanSchedSwitch, ChanHalted, ChanSchedCreate, allVars,
                       chanVars
  <1>. QED
    BY <1>3, <1>4, <1>5, <1>6, <1>7, <1>10, <1>11, <1>12, <1>13 DEF ChanNext

(* An interrupted call keeps its channel: nobody frees it, gives it        *)
(* another sender or ends it meanwhile.                                    *)
LEMMA CallsStep ==
  ASSUME IInv, ChanIInv, ChanNext
  PROVE  CallsKeepChannel'
  <1>t. /\ chan \in [Chans -> ChanRecord]
        /\ ChanTypeOK
        /\ call \in [Ids -> {NoCall} \cup [op : {"recv"}, chan : Chans]
                        \cup [op : {"send"}, chan : Chans, data : Data]]
        /\ exec # Main => exec \in Ids
    BY DEF ChanIInv, ChanTypeOK, ChanRecord, IInv, TypeOK, Contexts
  <1>c. \A id \in Ids : call[id] # NoCall => call[id].chan \in Chans
    BY <1>t
  <1>i. \A id \in Ids : call[id] # NoCall =>
          /\ chan[call[id].chan].allocated
          /\ call[id].op = "send" => /\ chan[call[id].chan].sender = id
                                    /\ ~chan[call[id].chan].ended
    BY DEF ChanIInv, CallsKeepChannel
  <1>1. ASSUME \A id \in Ids : call'[id] \in {NoCall, call[id]},
               \A id \in Ids : call[id] # NoCall =>
                   \/ chan'[call[id].chan] = chan[call[id].chan]
                   \/ /\ chan'[call[id].chan].allocated
                      /\ chan'[call[id].chan].sender = chan[call[id].chan].sender
                      /\ chan'[call[id].chan].ended = chan[call[id].chan].ended
        PROVE  CallsKeepChannel'
    BY <1>1, <1>i DEF CallsKeepChannel
  <1>2. CASE ChanSchedEnd
    BY <1>1, <1>2, <1>t, <1>c, <1>i DEF ChanSchedEnd, SeverReceivers, ChanRecord
  <1>3. ASSUME NEW c \in Chans, NEW size \in Sizes, ChanCreate(c, size)
        PROVE  CallsKeepChannel'
    BY <1>1, <1>3, <1>t, <1>c, <1>i DEF ChanCreate
  <1>4. ASSUME NEW c \in Chans, ChanFree(c)
        PROVE  CallsKeepChannel'
    BY <1>1, <1>4, <1>t, <1>c, <1>i DEF ChanFree, Busy
  <1>5. ASSUME NEW c \in Chans, NEW id \in Ids, ChanSetSender(c, id)
        PROVE  CallsKeepChannel'
    BY <1>1, <1>5, <1>t, <1>c, <1>i DEF ChanSetSender, Busy
  <1>6. ASSUME NEW c \in Chans, NEW id \in Ids, ChanSetReceiver(c, id)
        PROVE  CallsKeepChannel'
    BY <1>1, <1>6, <1>t, <1>c, <1>i DEF ChanSetReceiver, ChanRecord
  <1>7. ASSUME NEW c \in Chans, ChanEnd(c)
        PROVE  CallsKeepChannel'
    <2>1. /\ exec \in Ids /\ call[exec] = NoCall /\ chan[c].sender = exec
          /\ UNCHANGED call
      BY <1>7, <1>t DEF ChanEnd, InUserCode
    <2>2. /\ chan'[c].allocated = chan[c].allocated
          /\ \A d \in Chans : d # c => chan'[d] = chan[d]
      BY <1>7, <1>t DEF ChanEnd, ChanRecord
    <2>3. \A id \in Ids : call[id] # NoCall /\ call[id].op = "send"
                            => call[id].chan # c
      BY <2>1, <1>i
    <2>. QED
      BY <2>1, <2>2, <2>3, <1>i, <1>c DEF CallsKeepChannel
  <1>8. ASSUME NEW c \in Chans, NEW v \in Data, Enqueue(c, v),
               \A id \in Ids : call'[id] \in {NoCall, call[id]}
        PROVE  CallsKeepChannel'
    BY <1>1, <1>8, <1>t, <1>c, <1>i, EnqueueFields
  <1>9. ASSUME NEW c \in Chans, Dequeue(c),
               \A id \in Ids : call'[id] \in {NoCall, call[id]}
        PROVE  CallsKeepChannel'
    <2>1. CASE chan[c].bufs = <<>>
      BY <1>1, <1>9, <2>1 DEF Dequeue
    <2>2. CASE chan[c].bufs # <<>>
      BY <1>1, <1>9, <2>2, <1>t, <1>c, <1>i, DequeueFields
    <2>. QED
      BY <2>1, <2>2
  <1>10. CASE SendResumed
    <2>1. call[exec].chan \in Chans /\ call[exec].data \in Data
      BY <1>10, <1>t DEF SendResumed, NoCall
    <2>. QED
      BY <1>8, <1>10, <1>t, <2>1 DEF SendResumed
  <1>11. CASE RecvResumed
    <2>1. call[exec].chan \in Chans
      BY <1>11, <1>t DEF RecvResumed, NoCall
    <2>. QED
      BY <1>9, <1>11, <1>t, <2>1 DEF RecvResumed
  <1>12. ASSUME NEW c \in Chans, NEW v \in Data, SendFull(c, v)
         PROVE  CallsKeepChannel'
    <2>1. /\ exec \in Ids /\ chan[c].allocated /\ chan[c].sender = exec
          /\ ~chan[c].ended /\ chan' = chan
          /\ call' = [call EXCEPT ![exec] = [op |-> "send", chan |-> c, data |-> v]]
      BY <1>12, <1>t DEF SendFull, SendCall
    <2>2. /\ call'[exec].chan = c
          /\ \A id \in Ids : id # exec => call'[id] = call[id]
      BY <2>1, <1>t
    <2>. QED
      BY <2>1, <2>2, <1>i DEF CallsKeepChannel
  <1>13. ASSUME NEW c \in Chans, RecvEmpty(c)
         PROVE  CallsKeepChannel'
    <2>1. /\ exec \in Ids /\ chan[c].allocated /\ chan' = chan
          /\ call' = [call EXCEPT ![exec] = [op |-> "recv", chan |-> c]]
      BY <1>13, <1>t DEF RecvEmpty, RecvCall
    <2>2. /\ call'[exec].chan = c /\ call'[exec].op = "recv"
          /\ \A id \in Ids : id # exec => call'[id] = call[id]
      BY <2>1, <1>t
    <2>. QED
      BY <2>1, <2>2, <1>i DEF CallsKeepChannel
  <1>14. ASSUME NEW c \in Chans,
                \/ \E v \in Data : SendNow(c, v)
                \/ RecvNow(c) \/ RecvDone(c) \/ SendBroken(c)
         PROVE  CallsKeepChannel'
    BY <1>1, <1>8, <1>9, <1>14
       DEF SendNow, RecvNow, RecvDone, SendBroken, allVars, chanVars
  <1>15. CASE ChanSchedSwitch \/ ChanHalted \/ \E id \in Ids : ChanSchedCreate(id)
    BY <1>1, <1>15, <1>t
       DEF ChanSchedSwitch, ChanHalted, ChanSchedCreate, allVars, chanVars
  <1>. QED
    BY <1>2, <1>3, <1>4, <1>5, <1>6, <1>7, <1>10, <1>11, <1>12, <1>13, <1>14,
       <1>15 DEF ChanNext

(* Freed channels hold nothing, and the lists of live dthreads hold the    *)
(* channels those dthreads receive from.                                   *)
LEMMA ListsStep ==
  ASSUME IInv, ChanIInv, ChanNext
  PROVE  ListsAgree' /\ ReceiverLive'
  <1>t. /\ chan \in [Chans -> ChanRecord]
        /\ chan_list \in [Ids -> SUBSET Chans]
        /\ ChanTypeOK
        /\ exec # Main => exec \in Ids
        /\ \A id \in Ids : id # NoReceiver
        /\ Live \subseteq Ids
    BY DEF ChanIInv, ChanTypeOK, ChanRecord, IInv, TypeOK, Contexts, Ids,
           NoReceiver, Live
  <1>f. \A c \in Chans : ~chan[c].allocated => chan[c] = Freed
    BY DEF ChanIInv, ListsAgree
  <1>i. /\ fault # "stale" => \A id \in Live : \A c \in chan_list[id] :
                                  chan[c].receiver = id
        /\ fault # "stale" => \A c \in Chans : chan[c].receiver # NoReceiver =>
              chan[c].receiver \in Live /\ c \in chan_list[chan[c].receiver]
    BY DEF ChanIInv, ListsAgree, ReceiverLive
  <1>u. UNCHANGED vars => Live' = Live /\ fault' = fault
    BY DEF vars, Live
  <1>1. ASSUME Live' = Live, fault # "stale" \/ fault' = fault,
               UNCHANGED chan_list,
               \A c \in Chans :
                  \/ chan'[c] = chan[c]
                  \/ chan'[c].receiver = chan[c].receiver /\ chan'[c].allocated
        PROVE  ListsAgree' /\ ReceiverLive'
    <2>1. \A c \in Chans : ~chan'[c].allocated => chan'[c] = Freed
      BY <1>1, <1>f
    <2>2. \A c \in Chans : chan'[c].receiver = chan[c].receiver
      BY <1>1
    <2>3. \A id \in Live : chan_list[id] \subseteq Chans
      BY <1>t
    <2>. QED
      BY <1>1, <2>1, <2>2, <2>3, <1>i DEF ListsAgree, ReceiverLive
  <1>2. ASSUME NEW id \in Ids, ChanSchedCreate(id)
        PROVE  ListsAgree' /\ ReceiverLive'
    <2>1. /\ id \notin Live /\ Live' = Live \cup {id} /\ fault' = "none"
          /\ fault # "stale" /\ chan' = chan
          /\ chan_list' = [chan_list EXCEPT ![id] = {}]
      BY <1>2, CreateLive DEF ChanSchedCreate, Running
    <2>2. /\ chan_list'[id] = {}
          /\ \A i \in Ids : i # id => chan_list'[i] = chan_list[i]
      BY <2>1, <1>t
    <2>. QED
      BY <2>1, <2>2, <1>t, <1>f, <1>i DEF ListsAgree, ReceiverLive
  <1>3. CASE ChanSchedSwitch
    <2>1. Live' = Live /\ fault # "stale"
      BY <1>3, SwitchLive DEF ChanSchedSwitch
    <2>. QED
      BY <1>1, <1>3, <2>1 DEF ChanSchedSwitch, chanVars
  <1>4. CASE ChanSchedEnd
    <2>1. /\ Live' = Live \ {exec} /\ exec \in Ids /\ fault # "stale"
          /\ chan_list' = chan_list
      BY <1>4, EndLive DEF ChanSchedEnd
    <2>2. \A c \in Chans :
             /\ c \in chan_list[exec] => chan'[c] = [chan[c] EXCEPT !.receiver = NoReceiver]
             /\ c \notin chan_list[exec] => chan'[c] = chan[c]
      BY <1>4 DEF ChanSchedEnd, SeverReceivers
    <2>3. \A c \in Chans : chan'[c].allocated = chan[c].allocated
      BY <2>2, <1>t DEF ChanRecord
    <2>4. ASSUME NEW c \in Chans, c \in chan_list[exec]
          PROVE  chan'[c].receiver = NoReceiver
      <3>1. chan[c] \in ChanRecord /\ chan'[c] = [chan[c] EXCEPT !.receiver = NoReceiver]
        BY <2>2, <2>4, <1>t
      <3>. QED
        BY <3>1 DEF ChanRecord
    <2>5. [Freed EXCEPT !.receiver = NoReceiver] = Freed
      BY DEF Freed, NoReceiver
    <2>6. \A c \in Chans : ~chan'[c].allocated => chan'[c] = Freed
      BY <2>2, <2>3, <2>5, <1>f
    <2>7. \A id \in Live' : \A c \in chan_list[id] : chan'[c].receiver = id
      <3>. SUFFICES ASSUME NEW id \in Live', NEW c \in chan_list[id]
                    PROVE  chan'[c].receiver = id
        OBVIOUS
      <3>1. id \in Live /\ id # exec /\ c \in Chans /\ chan[c].receiver = id
        BY <2>1, <1>t, <1>i
      <3>2. c \notin chan_list[exec] \/ exec \notin Live
        BY <3>1, <2>1, <1>i
      <3>3. exec \in Live
        BY <1>4, <2>1 DEF ChanSchedEnd, End, IInv, SchedulerAgrees, Live, Started
      <3>. QED
        BY <3>1, <3>2, <3>3, <2>2
    <2>8. \A c \in Chans : chan'[c].receiver # NoReceiver =>
             chan'[c].receiver \in Live' /\ c \in chan_list[chan'[c].receiver]
      BY <2>1, <2>2, <2>4, <1>i
    <2>. QED
      BY <2>1, <2>6, <2>7, <2>8 DEF ListsAgree, ReceiverLive
  <1>5. ASSUME NEW c \in Chans, NEW size \in Sizes, ChanCreate(c, size)
        PROVE  ListsAgree' /\ ReceiverLive'
    <2>1. /\ chan'[c].allocated /\ chan'[c].receiver = NoReceiver
          /\ chan[c].receiver = NoReceiver
          /\ \A d \in Chans : d # c => chan'[d] = chan[d]
      BY <1>5, <1>t, <1>f DEF ChanCreate, Freed, NoReceiver
    <2>. QED
      BY <1>1, <1>5, <1>u, <2>1 DEF ChanCreate
  <1>6. ASSUME NEW c \in Chans, ChanFree(c)
        PROVE  ListsAgree' /\ ReceiverLive'
    <2>1. /\ Live' = Live /\ fault' = fault /\ fault # "stale"
          /\ chan'[c] = Freed /\ Freed.receiver = NoReceiver
          /\ \A d \in Chans : d # c => chan'[d] = chan[d]
          /\ \A i \in Ids : chan_list'[i] = IF i = chan[c].receiver
                                THEN chan_list[i] \ {c} ELSE chan_list[i]
      BY <1>6, <1>t, <1>u DEF ChanFree, Unlink, Freed, NoReceiver, Running
    <2>2. \A i \in Live : c \notin chan_list'[i]
      BY <2>1, <1>t, <1>i
    <2>3. \A d \in Chans : ~chan'[d].allocated => chan'[d] = Freed
      BY <2>1, <1>f
    <2>4. ASSUME NEW i \in Live, NEW d \in chan_list'[i]
          PROVE  chan'[d].receiver = i
      <3>1. d \in chan_list[i] /\ d # c /\ d \in Chans
        BY <2>1, <2>2, <1>t
      <3>. QED
        BY <2>1, <3>1, <1>i
    <2>5. ASSUME NEW d \in Chans, chan'[d].receiver # NoReceiver
          PROVE  chan'[d].receiver \in Live /\ d \in chan_list'[chan'[d].receiver]
      <3>1. d # c /\ chan'[d] = chan[d]
        BY <2>1, <2>5
      <3>2. chan[d].receiver \in Live /\ d \in chan_list[chan[d].receiver]
        BY <2>1, <2>5, <3>1, <1>i
      <3>. QED
        BY <2>1, <3>1, <3>2, <1>t
    <2>. QED
      BY <2>1, <2>3, <2>4, <2>5 DEF ListsAgree, ReceiverLive
  <1>7. ASSUME NEW c \in Chans, NEW id \in Ids, ChanSetSender(c, id)
        PROVE  ListsAgree' /\ ReceiverLive'
    <2>1. /\ chan'[c].allocated /\ chan'[c].receiver = chan[c].receiver
          /\ \A d \in Chans : d # c => chan'[d] = chan[d]
      BY <1>7, <1>t DEF ChanSetSender, ChanRecord
    <2>. QED
      BY <1>1, <1>7, <1>u, <2>1 DEF ChanSetSender
  <1>8. ASSUME NEW c \in Chans, NEW id \in Ids, ChanSetReceiver(c, id)
        PROVE  ListsAgree' /\ ReceiverLive'
    <2>1. /\ Live' = Live /\ fault' = fault /\ fault # "stale"
          /\ id \in Live /\ chan[c].receiver = NoReceiver
          /\ \A d \in Chans : d # c => chan'[d] = chan[d]
          /\ \A i \in Ids : i # id => chan_list'[i] = chan_list[i]
          /\ chan_list'[id] = chan_list[id] \cup {c}
      BY <1>8, <1>t, <1>u DEF ChanSetReceiver, Running
    <2>2. chan'[c].allocated /\ chan'[c].receiver = id
      BY <1>8, <1>t DEF ChanSetReceiver, ChanRecord
    <2>3. \A i \in Live : c \notin chan_list[i]
      BY <2>1, <1>t, <1>i
    <2>4. \A i \in Live : \A d \in chan_list'[i] : chan'[d].receiver = i
      BY <2>1, <2>2, <2>3, <1>t, <1>i
    <2>5. \A d \in Chans : chan'[d].receiver # NoReceiver =>
             chan'[d].receiver \in Live /\ d \in chan_list'[chan'[d].receiver]
      BY <2>1, <2>2, <1>t, <1>i
    <2>. QED
      BY <2>1, <2>2, <2>4, <2>5, <1>f DEF ListsAgree, ReceiverLive
  <1>9. ASSUME NEW c \in Chans, ChanEnd(c)
        PROVE  ListsAgree' /\ ReceiverLive'
    <2>1. /\ chan'[c].allocated /\ chan'[c].receiver = chan[c].receiver
          /\ \A d \in Chans : d # c => chan'[d] = chan[d]
      BY <1>9, <1>t DEF ChanEnd, ChanRecord
    <2>. QED
      BY <1>1, <1>9, <1>u, <2>1 DEF ChanEnd
  <1>10. ASSUME NEW c \in Chans, NEW v \in Data, Enqueue(c, v),
                chan[c].allocated, UNCHANGED <<vars, chan_list>>
         PROVE  ListsAgree' /\ ReceiverLive'
    BY <1>1, <1>10, <1>u, <1>t, EnqueueFields
  <1>11. ASSUME NEW c \in Chans, Dequeue(c), chan[c].allocated,
                UNCHANGED <<vars, chan_list>>
         PROVE  ListsAgree' /\ ReceiverLive'
    <2>1. CASE chan[c].bufs = <<>>
      BY <1>1, <1>u, <1>11, <2>1 DEF Dequeue
    <2>2. CASE chan[c].bufs # <<>>
      BY <1>1, <1>u, <1>11, <2>2, <1>t, DequeueFields
    <2>. QED
      BY <2>1, <2>2
  <1>12. CASE SendResumed
    <2>1. /\ call[exec].chan \in Chans /\ call[exec].data \in Data
          /\ chan[call[exec].chan].allocated
      BY <1>12, <1>t DEF SendResumed, NoCall, ChanIInv, CallsKeepChannel, ChanTypeOK
    <2>. QED
      BY <1>10, <1>12, <2>1 DEF SendResumed
  <1>13. CASE RecvResumed
    <2>1. call[exec].chan \in Chans /\ chan[call[exec].chan].allocated
      BY <1>13, <1>t DEF RecvResumed, NoCall, ChanIInv, CallsKeepChannel, ChanTypeOK
    <2>. QED
      BY <1>11, <1>13, <2>1 DEF RecvResumed
  <1>14. ASSUME NEW c \in Chans, SendBroken(c) \/ RecvNow(c)
                                  \/ \E v \in Data : SendNow(c, v)
         PROVE  ListsAgree' /\ ReceiverLive'
    BY <1>1, <1>u, <1>10, <1>11, <1>14
       DEF SendNow, SendCall, RecvNow, RecvCall, SendBroken, allVars, chanVars
  <1>15. ASSUME NEW c \in Chans, RecvEmpty(c) \/ \E v \in Data : SendFull(c, v)
         PROVE  ListsAgree' /\ ReceiverLive'
    <2>1. /\ Live' = Live /\ fault # "stale"
          /\ UNCHANGED <<chan, chan_list>>
      BY <1>15, SwitchLive DEF SendFull, RecvEmpty, GiveWay
    <2>. QED
      BY <1>1, <2>1
  <1>16. ASSUME NEW c \in Chans, RecvDone(c)
         PROVE  ListsAgree' /\ ReceiverLive'
    BY <1>1, <1>16 DEF RecvDone, Abort, chanVars, Live
  <1>17. CASE ChanHalted
    BY <1>1, <1>u, <1>17 DEF ChanHalted, allVars, chanVars
  <1>. QED
    BY <1>2, <1>3, <1>4, <1>5, <1>6, <1>7, <1>8, <1>9, <1>12, <1>13, <1>14,
       <1>15, <1>16, <1>17 DEF ChanNext

(* A channel with no elements is empty.                                    *)
LEMMA LenZero == \A q \in Seq(Data) : Len(q) = 0 => q = <<>>
  OBVIOUS

(* Nothing is sent on a channel that is done.                              *)
LEMMA DoneStep ==
  ASSUME IInv, ChanIInv, ChanNext, ChanTypeOK', FifoExactlyOnce', ListsAgree'
  PROVE  DoneMeansDrained'
  <1>t. /\ chan \in [Chans -> ChanRecord]
        /\ ChanTypeOK
        /\ exec # Main => exec \in Ids
    BY DEF ChanIInv, ChanTypeOK, ChanRecord, IInv, TypeOK, Contexts
  <1>i. \A c \in Chans : chan[c].done => chan[c].ended /\ chan[c].bufs = <<>>
    BY DEF ChanIInv, DoneMeansDrained
  <1>d. SUFFICES \A c \in Chans :
                   chan'[c].done => chan'[c].ended /\ chan'[c].bufs = <<>>
    <2>. SUFFICES ASSUME NEW c \in Chans, chan'[c].done, chan'[c].bufs = <<>>
                  PROVE  rcvd'[c] = sent'[c]
      BY DEF DoneMeansDrained
    <2>1. chan'[c].allocated
      BY DEF ListsAgree, Freed
    <2>2. rcvd'[c] \in Seq(Data)
      BY DEF ChanTypeOK
    <2>3. rcvd'[c] \o <<>> = rcvd'[c]
      BY <2>2, ConcatEmptySeq
    <2>. QED
      BY <2>1, <2>3 DEF FifoExactlyOnce
  <1>. DEFINE Drained == \A c \in Chans :
                   chan'[c].done => chan'[c].ended /\ chan'[c].bufs = <<>>
  <1>1. ASSUME UNCHANGED chan PROVE Drained
    BY <1>1, <1>i
  <1>2. CASE ChanSchedEnd
    BY <1>2, <1>t, <1>i DEF ChanSchedEnd, SeverReceivers, ChanRecord
  <1>3. ASSUME NEW c \in Chans, NEW size \in Sizes, ChanCreate(c, size)
        PROVE  Drained
    BY <1>3, <1>t, <1>i DEF ChanCreate, Freed
  <1>4. ASSUME NEW c \in Chans, ChanFree(c) PROVE Drained
    BY <1>4, <1>t, <1>i DEF ChanFree, Freed
  <1>5. ASSUME NEW c \in Chans, NEW id \in Ids, ChanSetSender(c, id) PROVE Drained
    BY <1>5, <1>t, <1>i DEF ChanSetSender, ChanRecord
  <1>6. ASSUME NEW c \in Chans, NEW id \in Ids, ChanSetReceiver(c, id) PROVE Drained
    BY <1>6, <1>t, <1>i DEF ChanSetReceiver, ChanRecord
  <1>7. ASSUME NEW c \in Chans, ChanEnd(c) PROVE Drained
    BY <1>7, <1>t, <1>i DEF ChanEnd, ChanRecord
  <1>8. ASSUME NEW c \in Chans, NEW v \in Data, Enqueue(c, v), ~chan[c].ended
        PROVE  Drained
    BY <1>8, <1>t, <1>i, EnqueueFields
  <1>9. ASSUME NEW c \in Chans, Dequeue(c) PROVE Drained
    <2>1. CASE chan[c].bufs = <<>>
      BY <1>1, <1>9, <2>1 DEF Dequeue
    <2>2. CASE chan[c].bufs # <<>>
      <3>1. chan[c].bufs \in Seq(Data)
        BY <1>t DEF ChanRecord
      <3>2. ~chan[c].done
        BY <2>2, <1>i
      <3>3. Len(chan[c].bufs) = 1 => Tail(chan[c].bufs) = <<>>
        <4>1. /\ Tail(chan[c].bufs) \in Seq(Data)
              /\ Len(Tail(chan[c].bufs)) = Len(chan[c].bufs) - 1
          BY <3>1, <2>2, HeadTailProperties, Zenon
        <4>2. Len(Tail(chan[c].bufs)) = 0 => Tail(chan[c].bufs) = <<>>
          BY <4>1, LenZero, Zenon
        <4>3. Len(chan[c].bufs) = 1 => Len(Tail(chan[c].bufs)) = 0
          BY <4>1
        <4>. QED
          BY <4>2, <4>3
      <3>. QED
        BY <1>9, <2>2, <1>t, <1>i, <3>2, <3>3, DequeueFields, ZenonT(40) DEF NowDone
    <2>. QED
      BY <2>1, <2>2
  <1>10. CASE SendResumed
    <2>1. /\ call[exec].chan \in Chans /\ call[exec].data \in Data
          /\ ~chan[call[exec].chan].ended
      BY <1>10, <1>t DEF SendResumed, NoCall, ChanIInv, CallsKeepChannel, ChanTypeOK
    <2>. QED
      BY <1>8, <1>10, <2>1 DEF SendResumed
  <1>11. CASE RecvResumed
    <2>1. call[exec].chan \in Chans
      BY <1>11, <1>t DEF RecvResumed, NoCall, ChanTypeOK
    <2>. QED
      BY <1>9, <1>11, <2>1 DEF RecvResumed
  <1>12. ASSUME NEW c \in Chans,
                \/ \E v \in Data : SendNow(c, v) \/ SendFull(c, v)
                \/ RecvNow(c) \/ RecvEmpty(c) \/ RecvDone(c) \/ SendBroken(c)
         PROVE  Drained
    BY <1>1, <1>8, <1>9, <1>12
       DEF SendNow, SendFull, SendCall, RecvNow, RecvEmpty, RecvDone,
           SendBroken, allVars, chanVars
  <1>13. CASE ChanSchedSwitch \/ ChanHalted \/ \E id \in Ids : ChanSchedCreate(id)
    BY <1>1, <1>13 DEF ChanSchedSwitch, ChanHalted, ChanSchedCreate, allVars,
                       chanVars
  <1>. QED
    BY <1>2, <1>3, <1>4, <1>5, <1>6, <1>7, <1>10, <1>11, <1>12, <1>13
       DEF ChanNext

(* A channel in the list of a live dthread has a receiver, so it has not   *)
(* been freed.                                                             *)
LEMMA ListedNotFreed ==
  ASSUME ChanTypeOK, ListsAgree
  PROVE  NoFreedChannel
  <1>1. \A id \in Live : chan_list[id] \subseteq Chans /\ id # -1
    <2>1. \A id \in Ids : chan_list[id] \subseteq Chans
      BY DEF ChanTypeOK
    <2>2. \A id \in Ids : id # -1
      BY DEF Ids
    <2>. QED
      BY <2>1, <2>2 DEF Live
  <1>2. Freed.receiver = -1
    BY DEF Freed
  <1>. QED
    BY <1>1, <1>2 DEF NoFreedChannel, ListsAgree

(* Every step keeps the channels' invariant.                               *)
LEMMA ChanStepKeeps == IInv /\ ChanIInv /\ [ChanNext]_allVars => ChanIInv'
  <1>1. ASSUME IInv, ChanIInv, ChanNext PROVE ChanIInv'
    <2>1. ChanTypeOK' /\ FifoExactlyOnce' /\ CallsKeepChannel'
          /\ ListsAgree' /\ ReceiverLive'
      BY <1>1, ChanTypeStep, FifoStep, CallsStep, ListsStep
    <2>2. DoneMeansDrained'
      BY <1>1, <2>1, DoneStep
    <2>3. NoFreedChannel'
      BY <2>1, ListedNotFreed, PTL
    <2>. QED
      BY <2>1, <2>2, <2>3 DEF ChanIInv
  <1>2. ASSUME ChanIInv, UNCHANGED allVars PROVE ChanIInv'
    BY <1>2 DEF allVars, vars, chanVars, ChanIInv, ChanTypeOK, FifoExactlyOnce,
       DoneMeansDrained, CallsKeepChannel, ListsAgree, ReceiverLive,
       NoFreedChannel, Live
  <1>. QED
    BY <1>1, <1>2

(* The channels of a worker satisfy their invariant, whatever the dthreads *)
(* do and wherever a blocked chan_send() or chan_recv() is continued.      *)
THEOREM ChannelInvariant == ChanSpec => []ChanIInv
  <1>1. ChanInit => ChanIInv
    <2>. SUFFICES ASSUME ChanInit PROVE ChanIInv
      OBVIOUS
    <2>1. ChanTypeOK
      <3>1. chan \in [Chans -> ChanRecord]
        BY FreedType DEF ChanInit
      <3>2. sent \in [Chans -> Seq(Data)] /\ rcvd \in [Chans -> Seq(Data)]
        BY DEF ChanInit
      <3>. QED
        BY <3>1, <3>2 DEF ChanInit, ChanTypeOK, ChanRecord
    <2>2. /\ \A c \in Chans : chan[c] = Freed
          /\ \A id \in Ids : call[id] = NoCall /\ chan_list[id] = {}
          /\ Live = {}
          /\ ~Freed.allocated /\ ~Freed.done
      BY DEF ChanInit, Init, Live, Freed
    <2>3. FifoExactlyOnce /\ DoneMeansDrained /\ CallsKeepChannel
      BY <2>2 DEF FifoExactlyOnce, DoneMeansDrained, CallsKeepChannel
    <2>4. ListsAgree /\ ReceiverLive
      BY <2>2 DEF ListsAgree, ReceiverLive, Freed, NoReceiver
    <2>. QED
      BY <2>1, <2>3, <2>4, ListedNotFreed DEF ChanIInv
  <1>. QED
    BY <1>1, ChanStepKeeps, ChannelKeepsScheduler, PTL DEF ChanSpec

(* Every element sent is received once and in order, for any channel.      *)
THEOREM ChannelFifo == ChanSpec => []FifoExactlyOnce
  BY ChannelInvariant, PTL DEF ChanIInv

(* No dead receiver, no freed channel in a list, no early chan_done().     *)
THEOREM ChannelSafety ==
  ChanSpec => [](ReceiverLive /\ NoFreedChannel /\ DoneMeansDrained)
  BY ChannelInvariant, PTL DEF ChanIInv

-----------------------------------------------------------------------------
(***************************************************************************)
(* The producer and the consumer of DthreadPipeline.  Their invariant says *)
(* how far the two have come: each is in one of a few phases, and a side   *)
(* that gave way finds what it needs when it runs again.                   *)
(***************************************************************************)
Idling(id) == call[id] = NoCall
Sending == call[Producer].op = "send" /\ call[Producer].chan = Pipe
Receiving == call[Consumer].op = "recv" /\ call[Consumer].chan = Pipe
Empty == chan[Pipe].bufs = <<>>
At(e, p, c) == exec = e /\ status[Producer] = p /\ status[Consumer] = c

PhaseStart ==
    /\ At(Main, "READY", "READY") /\ Idling(Producer) /\ Idling(Consumer)
    /\ Empty /\ sent[Pipe] = <<>> /\ ~chan[Pipe].ended
\* The producer runs first: all its elements fit.
PhaseFill ==
    /\ At(Producer, "RUNNING", "READY") /\ Idling(Producer) /\ Idling(Consumer)
    /\ uc_link[Producer] = Main
    /\ Len(chan[Pipe].bufs) = Len(sent[Pipe]) /\ items <= chan[Pipe].size
    /\ chan[Pipe].ended => ~Empty
PhaseFilled ==
    /\ At(Main, "DEAD", "READY") /\ Idling(Producer) /\ Idling(Consumer)
    /\ chan[Pipe].ended /\ ~Empty
\* The consumer runs first, and finds nothing.
PhaseAsk ==
    /\ At(Consumer, "READY", "RUNNING") /\ Idling(Producer) /\ Idling(Consumer)
    /\ uc_link[Consumer] = Main
    /\ Empty /\ sent[Pipe] = <<>> /\ ~chan[Pipe].ended
\* The consumer waits in chan_recv(): the producer sends before it returns.
PhaseSend ==
    /\ At(Producer, "RUNNING", "SUSPEND") /\ Receiving
    /\ uc_link[Producer] = Consumer /\ uc_link[Consumer] = Main
    /\ \/ Sending /\ Empty
       \/ Idling(Producer) /\ (~Empty \/ (~chan[Pipe].ended /\ Len(sent[Pipe]) < items))
\* The producer waits in chan_send(): the consumer takes everything first.
PhaseTake ==
    /\ At(Consumer, "SUSPEND", "RUNNING") /\ Sending
    /\ uc_link[Producer] = Consumer /\ uc_link[Consumer] = Main
    /\ Idling(Consumer) \/ (Receiving /\ ~Empty)
\* The producer has returned.
PhaseDrain ==
    /\ exec = Consumer /\ status[Producer] = "DEAD" /\ status[Consumer] \in Started
    /\ Idling(Producer) /\ uc_link[Consumer] = Main /\ chan[Pipe].ended
    /\ \/ Idling(Consumer) /\ (~Empty \/ chan[Pipe].done)
       \/ Receiving /\ ~Empty
PhaseOver == At(Main, "DEAD", "DEAD")

Phases ==
    \/ PhaseStart \/ PhaseFill \/ PhaseFilled \/ PhaseAsk
    \/ PhaseSend \/ PhaseTake \/ PhaseDrain \/ PhaseOver

PipeKept ==
    /\ chan[Pipe].allocated /\ chan[Pipe].size # 0 /\ Len(chan[Pipe].bufs) <= chan[Pipe].size
    /\ \A c \in Chans : c # Pipe => ~chan[c].allocated
    /\ chan_list[Producer] = {}
    /\ status[Consumer] # "DEAD" => chan[Pipe].receiver = Consumer
    /\ status[Producer] # "DEAD" => chan[Pipe].sender = Producer

PipeIInv ==
    /\ IInv /\ ChanIInv
    /\ fault = "none" /\ ~chan_fault
    /\ items \in 1 .. MaxSent /\ first \in {Producer, Consumer}
    /\ first = Producer => items <= chan[Pipe].size
    /\ PipeKept /\ Phases

(* The two dthreads, and their channel.                                    *)
LEMMA PipeNames ==
  /\ Producer \in Ids /\ Consumer \in Ids /\ Producer # Consumer
  /\ Producer # Main /\ Consumer # Main
  /\ Pipe \in Chans
  <1>1. MaxCap \in Nat /\ MaxCap >= 2
    BY CapAssumption, PipelineAssumption
  <1>2. \E c \in Chans : TRUE
    BY PipelineAssumption
  <1>3. Pipe \in Chans
    BY <1>2 DEF Pipe
  <1>4. 0 \in Ids /\ 1 \in Ids
    BY <1>1 DEF Ids
  <1>. QED
    BY <1>3, <1>4 DEF Producer, Consumer, Main

(* A pipeline that is set up satisfies the invariant.                      *)
LEMMA PipeStarts ==
  ASSUME ~Overfill, PipeInit
  PROVE  PipeIInv
  <1>1. /\ Producer = 0 /\ Consumer = 1 /\ Producer \in Ids /\ Consumer \in Ids
        /\ Pipe \in Chans
    BY PipeNames DEF Producer, Consumer
  <1>2. PICK size \in Sizes :
          chan = [c \in Chans |-> IF c = Pipe
                    THEN [Freed EXCEPT !.allocated = TRUE, !.size = Capacity(size),
                            !.sender = Producer, !.receiver = Consumer]
                    ELSE Freed]
    BY DEF PipeInit
  <1>3. /\ cap = DefaultCap /\ n_dthread = 2 /\ running_id = Main
        /\ status = [id \in Ids |-> IF id \in {Producer, Consumer} THEN "READY" ELSE "NULL"]
        /\ parent_id = [id \in Ids |-> Main] /\ uc_link = [id \in Ids |-> Main]
        /\ saved = {} /\ exec = Main /\ fault = "none"
        /\ chan_list = [id \in Ids |-> IF id = Consumer THEN {Pipe} ELSE {}]
        /\ call = [id \in Ids |-> NoCall]
        /\ sent = [c \in Chans |-> <<>>] /\ rcvd = [c \in Chans |-> <<>>]
        /\ chan_fault = FALSE /\ items \in 1 .. MaxSent /\ first \in {Producer, Consumer}
        /\ first = Producer => items <= chan[Pipe].size
    BY DEF PipeInit
  <1>4. IInv
    <2>1. Live = {Producer, Consumer}
      BY <1>1, <1>3 DEF Live
    <2>2. Cardinality(Live) = 2
      <3>1. Cardinality({Producer}) = 1 /\ IsFiniteSet({Producer})
        BY FS_Singleton
      <3>2. {Producer, Consumer} = {Producer} \cup {Consumer} /\ Consumer \notin {Producer}
        BY <1>1
      <3>3. Cardinality({Producer} \cup {Consumer}) = Cardinality({Producer}) + 1
        BY <3>1, <3>2, FS_AddElement
      <3>. QED
        BY <2>1, <3>1, <3>2, <3>3
    <2>3. DefaultCap \in Nat /\ MaxCap \in Nat /\ DefaultCap >= 2 /\ DefaultCap <= MaxCap
      BY CapAssumption, PipelineAssumption
    <2>4. TypeOK
      BY <1>3, <2>3 DEF TypeOK, Contexts, Statuses
    <2>5. \A id \in Ids : status[id] \notin Started
      BY <1>3 DEF Started
    <2>6. \A id \in Ids : status[id] # "NULL" => id < cap
      BY <1>1, <1>3, <2>3
    <2>7. SchedulerAgrees /\ LiveCount /\ ContextsSaved
      BY <1>3, <2>2, <2>5 DEF SchedulerAgrees, LiveCount, ContextsSaved, Started
    <2>8. Links
      BY <1>3, <2>5, <2>6 DEF Links
    <2>. QED
      BY <1>3, <2>4, <2>5, <2>7, <2>8 DEF IInv, ParentsLive, NoStaleReturn
  <1>5. PICK new : new = [Freed EXCEPT !.allocated = TRUE, !.size = Capacity(size),
                                       !.sender = Producer, !.receiver = Consumer]
    OBVIOUS
  <1>6. /\ new.allocated = TRUE /\ new.size = size + 1 /\ new.bufs = <<>>
        /\ new.sender = Producer /\ new.receiver = Consumer
        /\ new.ended = FALSE /\ new.done = FALSE
    BY <1>5 DEF Freed, Capacity
  <1>7. new \in ChanRecord
    <2>1. [Freed EXCEPT !.allocated = TRUE, !.size = Capacity(size)] \in ChanRecord
      BY FreedType
    <2>2. Producer \in Contexts /\ Consumer \in Contexts
      BY <1>1 DEF Contexts
    <2>3. PICK old : old = [Freed EXCEPT !.allocated = TRUE, !.size = Capacity(size)]
      OBVIOUS
    <2>4. new = [old EXCEPT !.sender = Producer, !.receiver = Consumer]
      BY <1>5, <2>3 DEF Freed
    <2>5. old \in ChanRecord
      BY <2>1, <2>3
    <2>. QED
      BY <2>2, <2>4, <2>5 DEF ChanRecord
  <1>8. chan[Pipe] = new /\ \A c \in Chans : c # Pipe => chan[c] = Freed
    BY <1>1, <1>2, <1>5
  <1>9. ChanTypeOK
    <2>1. chan \in [Chans -> ChanRecord]
      BY <1>2, <1>5, <1>7, FreedType
    <2>2. <<>> \in Seq(Data)
      OBVIOUS
    <2>3. sent \in [Chans -> Seq(Data)] /\ rcvd \in [Chans -> Seq(Data)]
      BY <1>3, <2>2
    <2>4. chan_list \in [Ids -> SUBSET Chans]
      BY <1>1, <1>3
    <2>5. chan_fault \in BOOLEAN
      BY <1>3
    <2>. QED
      BY <1>3, <2>1, <2>3, <2>4, <2>5 DEF ChanTypeOK, ChanRecord
  <1>10. Freed.allocated = FALSE /\ Freed.done = FALSE /\ Freed.receiver = NoReceiver
    BY DEF Freed, NoReceiver
  <1>11. FifoExactlyOnce /\ DoneMeansDrained /\ CallsKeepChannel
    <2>1. FifoExactlyOnce
      BY <1>3, <1>6, <1>8, <1>10 DEF FifoExactlyOnce
    <2>2. DoneMeansDrained /\ CallsKeepChannel
      BY <1>3, <1>6, <1>8, <1>10 DEF DoneMeansDrained, CallsKeepChannel
    <2>. QED
      BY <2>1, <2>2
  <1>12. ListsAgree
    BY <1>1, <1>3, <1>6, <1>8 DEF ListsAgree, Live
  <1>13. ReceiverLive
    BY <1>1, <1>3, <1>6, <1>8, <1>10 DEF ReceiverLive, Live
  <1>14. ChanIInv
    BY <1>9, <1>11, <1>12, <1>13, ListedNotFreed DEF ChanIInv
  <1>15. PipeKept
    <2>1. size \in Nat
      BY ChanAssumption
    <2>2. chan[Pipe].size # 0 /\ Len(chan[Pipe].bufs) <= chan[Pipe].size
      BY <1>6, <1>8, <2>1
    <2>. QED
      BY <1>1, <1>3, <1>6, <1>8, <1>10, <2>2 DEF PipeKept
  <1>16. PhaseStart
    BY <1>1, <1>3, <1>6, <1>8 DEF PhaseStart, At, Idling, Empty
  <1>. QED
    BY <1>3, <1>4, <1>14, <1>15, <1>16 DEF PipeIInv, Phases

(* Whoever resumes the other dthread hands it the CPU.                     *)
LEMMA ResumeGoes ==
  ASSUME IInv, fault = "none", NEW id \in Ids, id # exec,
         status[id] \in {"READY", "SUSPEND"}, Resume(id)
  PROVE  /\ fault' = "none" /\ exec' = id /\ status'[id] = "RUNNING"
         /\ \A i \in Ids : i = exec => status'[i] = "SUSPEND"
         /\ \A i \in Ids : i # id /\ i # exec => status'[i] = status[i]
         /\ \A i \in Ids : i # id => uc_link'[i] = uc_link[i]
         /\ uc_link'[id] = IF status[id] = "READY" THEN exec ELSE uc_link[id]
  <1>1. /\ running_id = exec /\ status \in [Ids -> Statuses]
        /\ uc_link \in [Ids -> Contexts \cup {Dangling}] /\ exec \in Contexts
    BY DEF IInv, TypeOK, SchedulerAgrees
  <1>2. Opened /\ id \in Slots
    <2>1. id < cap /\ cap \in Nat
      BY CapAssumption DEF IInv, TypeOK, Links
    <2>. QED
      BY <2>1 DEF Opened, Slots, Ids
  <1>3. ResumeReady(id) \/ ResumeSuspended(id)
    BY <1>2 DEF Resume, ResumeInvalid, ResumeEmpty
  <1>4. CASE ResumeReady(id)
    BY <1>1, <1>4 DEF ResumeReady, SwapInto
  <1>5. CASE ResumeSuspended(id)
    BY <1>1, <1>5 DEF ResumeSuspended, SwapInto
  <1>. QED
    BY <1>3, <1>4, <1>5

(* A dthread that returns hands the CPU to the one its uc_link names, if   *)
(* that is main or a dthread that is suspended.                            *)
LEMMA EndGoes ==
  ASSUME IInv, fault = "none", exec # Main, End,
         uc_link[exec] = Main \/ (/\ uc_link[exec] \in Ids /\ uc_link[exec] # exec
                                  /\ status[uc_link[exec]] = "SUSPEND")
  PROVE  /\ fault' = "none" /\ exec' = uc_link[exec] /\ status'[exec] = "DEAD"
         /\ \A i \in Ids : i # exec => status'[i] = status[i]
         /\ uc_link' = uc_link
  <1>1. uc_link[exec] \in saved
    BY DEF IInv, ContextsSaved
  <1>2. exec \in Ids /\ status \in [Ids -> Statuses]
    BY DEF IInv, TypeOK, Contexts
  <1>. QED
    BY <1>1, <1>2 DEF End, Retire

(* When a dthread returns, only receivers change.                          *)
LEMMA SeverFields ==
  ASSUME ChanTypeOK, SeverReceivers, NEW c \in Chans
  PROVE  /\ chan'[c].allocated = chan[c].allocated
         /\ chan'[c].size = chan[c].size
         /\ chan'[c].bufs = chan[c].bufs
         /\ chan'[c].sender = chan[c].sender
         /\ chan'[c].ended = chan[c].ended
         /\ chan'[c].done = chan[c].done
         /\ c \notin chan_list[exec] => chan'[c] = chan[c]
  <1>1. chan[c] \in ChanRecord
    BY DEF ChanTypeOK, ChanRecord
  <1>2. chan'[c] = IF c \in chan_list[exec] THEN [chan[c] EXCEPT !.receiver = NoReceiver] ELSE chan[c]
    BY DEF SeverReceivers
  <1>. QED
    BY <1>1, <1>2 DEF ChanRecord

(* The steps of the pipeline are steps of dthreads that use a channel.     *)
LEMMA PipeStepIsChan ==
  ASSUME PipeIInv, [PipeNext]_pipeVars
  PROVE  [ChanNext]_allVars
  <1>1. Pipe \in Chans /\ Producer \in Contexts /\ Consumer \in Contexts
    BY PipeNames DEF Contexts
  <1>2. CASE MainStarts
    <2>1. first \in Contexts
      BY <1>1 DEF PipeIInv
    <2>2. ChanSchedSwitch
      BY <1>2, <2>1 DEF MainStarts, ChanSchedSwitch, InUserCode
    <2>. QED
      BY <2>2 DEF ChanNext
  <1>3. CASE MainResumes
    <2>1. ChanSchedSwitch
      BY <1>1, <1>3 DEF MainResumes, ChanSchedSwitch, InUserCode
    <2>. QED
      BY <2>1 DEF ChanNext
  <1>4. CASE ProducerStep
    <2>1. ChanNext
      BY <1>1, <1>4 DEF ProducerStep, ChanNext
    <2>. QED
      BY <2>1
  <1>5. CASE ConsumerStep
    <2>1. ChanNext
      BY <1>1, <1>5 DEF ConsumerStep, ChanNext
    <2>. QED
      BY <2>1
  <1>6. CASE SendResumed \/ RecvResumed
    BY <1>6 DEF ChanNext
  <1>7. CASE PipeIdle
    BY <1>7 DEF PipeIdle
  <1>8. CASE UNCHANGED pipeVars
    BY <1>8 DEF pipeVars
  <1>. QED
    BY <1>2, <1>3, <1>4, <1>5, <1>6, <1>7, <1>8 DEF PipeNext

(* What a step has to keep, besides the invariants of the scheduler and of *)
(* the channels.                                                           *)
Going ==
    /\ fault = "none" /\ ~chan_fault
    /\ first = Producer => items <= chan[Pipe].size
    /\ PipeKept /\ Phases

LEMMA PipeFacts ==
  ASSUME PipeIInv
  PROVE  /\ chan[Pipe].bufs \in Seq(Data) /\ sent[Pipe] \in Seq(Data)
         /\ chan[Pipe].size \in Nat /\ items \in Nat /\ items >= 1
         /\ (Empty <=> Len(chan[Pipe].bufs) = 0)
         /\ (chan[Pipe].done => chan[Pipe].ended /\ Empty)
         /\ (Sending => ~chan[Pipe].ended)
         /\ call \in [Ids -> {NoCall} \cup [op : {"recv"}, chan : Chans]
                             \cup [op : {"send"}, chan : Chans, data : Data]]
         /\ status \in [Ids -> Statuses]
  <1>1. Pipe \in Chans /\ Producer \in Ids /\ Sizes \subseteq Nat
    BY PipeNames, ChanAssumption
  <1>2. ChanTypeOK /\ DoneMeansDrained /\ CallsKeepChannel /\ TypeOK /\ items \in 1 .. MaxSent
    BY DEF PipeIInv, ChanIInv, IInv
  <1>3. chan[Pipe].bufs \in Seq(Data) /\ sent[Pipe] \in Seq(Data)
    BY <1>1, <1>2 DEF ChanTypeOK
  <1>4. chan[Pipe].size \in Nat
    <2>1. chan[Pipe].size \in {0} \cup {n + 1 : n \in Sizes}
      BY <1>1, <1>2 DEF ChanTypeOK
    <2>. QED
      BY <1>1, <2>1
  <1>5. items \in Nat /\ items >= 1
    BY <1>2, ChanAssumption
  <1>6. Empty <=> Len(chan[Pipe].bufs) = 0
    BY <1>3, LenZero DEF Empty
  <1>7. chan[Pipe].done => chan[Pipe].ended /\ Empty
    BY <1>1, <1>2 DEF DoneMeansDrained, Empty
  <1>8. Sending => ~chan[Pipe].ended
    <2>1. Sending => call[Producer] # NoCall
      BY DEF Sending, NoCall
    <2>. QED
      BY <1>1, <1>2, <2>1 DEF CallsKeepChannel, Sending
  <1>. QED
    BY <1>2, <1>3, <1>4, <1>5, <1>6, <1>7, <1>8 DEF ChanTypeOK, TypeOK

(* What whoever has the CPU may do.                                        *)
LEMMA ProducerMoves ==
  ASSUME PipeIInv, PipeNext, exec = Producer, Idling(Producer)
  PROVE  \/ \E v \in Data : Len(sent[Pipe]) < items /\ SendNow(Pipe, v)
         \/ \E v \in Data : Len(sent[Pipe]) < items /\ SendFull(Pipe, v)
         \/ Len(sent[Pipe]) = items /\ ChanEnd(Pipe)
         \/ chan[Pipe].ended /\ ChanSchedEnd
         \/ UNCHANGED allVars
  <1>1. ~MainStarts /\ ~MainResumes /\ ~ConsumerStep
    BY PipeNames DEF MainStarts, MainResumes, ConsumerStep
  <1>2. call[exec].op = "none"
    BY DEF Idling, NoCall
  <1>3. ~SendResumed /\ ~RecvResumed
    BY <1>2 DEF SendResumed, RecvResumed
  <1>. QED
    BY <1>1, <1>3 DEF PipeNext, ProducerStep, PipeIdle

LEMMA ConsumerMoves ==
  ASSUME PipeIInv, PipeNext, exec = Consumer, Idling(Consumer)
  PROVE  \/ ~chan[Pipe].done /\ RecvNow(Pipe)
         \/ ~chan[Pipe].done /\ RecvEmpty(Pipe)
         \/ chan[Pipe].done /\ ChanSchedEnd
         \/ UNCHANGED allVars
  <1>1. ~MainStarts /\ ~MainResumes /\ ~ProducerStep
    BY PipeNames DEF MainStarts, MainResumes, ProducerStep
  <1>2. call[exec].op = "none"
    BY DEF Idling, NoCall
  <1>3. ~SendResumed /\ ~RecvResumed
    BY <1>2 DEF SendResumed, RecvResumed
  <1>. QED
    BY <1>1, <1>3 DEF PipeNext, ConsumerStep, PipeIdle

LEMMA BlockedMoves ==
  ASSUME PipeIInv, PipeNext
  PROVE  /\ exec = Producer /\ Sending => SendResumed \/ UNCHANGED allVars
         /\ exec = Consumer /\ Receiving => RecvResumed \/ UNCHANGED allVars
  <1>1. exec \in {Producer, Consumer} => ~MainStarts /\ ~MainResumes
    BY PipeNames DEF MainStarts, MainResumes
  <1>2. ASSUME exec \in {Producer, Consumer}, call[exec] # NoCall
        PROVE  ~ProducerStep /\ ~ConsumerStep
    <2>1. ~InUserCode
      BY <1>2, PipeNames DEF InUserCode
    <2>. QED
      BY <2>1 DEF ProducerStep, ConsumerStep, SendNow, SendFull, SendCall, ChanEnd,
         ChanSchedEnd, RecvNow, RecvEmpty, RecvCall
  <1>3. ASSUME exec = Producer, Sending
        PROVE  SendResumed \/ UNCHANGED allVars
    <2>1. call[exec] # NoCall /\ ~RecvResumed
      BY <1>3 DEF Sending, NoCall, RecvResumed
    <2>. QED
      BY <1>1, <1>2, <1>3, <2>1 DEF PipeNext, PipeIdle
  <1>4. ASSUME exec = Consumer, Receiving
        PROVE  RecvResumed \/ UNCHANGED allVars
    <2>1. call[exec] # NoCall /\ ~SendResumed
      BY <1>4 DEF Receiving, NoCall, SendResumed
    <2>. QED
      BY <1>1, <1>2, <1>4, <2>1 DEF PipeNext, PipeIdle
  <1>. QED
    BY <1>3, <1>4

(* Nothing happens.                                                        *)
LEMMA PipeWaits ==
  ASSUME PipeIInv, UNCHANGED allVars, UNCHANGED <<items, first>>
  PROVE  Going'
  <1>1. /\ UNCHANGED <<exec, status, uc_link, fault>>
        /\ UNCHANGED <<chan, chan_list, call, sent, chan_fault>>
    BY DEF allVars, vars, chanVars
  <1>2. PipeKept'
    BY <1>1 DEF PipeIInv, PipeKept
  <1>3. Phases'
    BY <1>1 DEF PipeIInv, Phases, PhaseStart, PhaseFill, PhaseFilled, PhaseAsk,
       PhaseSend, PhaseTake, PhaseDrain, PhaseOver, At, Idling, Sending, Receiving,
       Empty
  <1>. QED
    BY <1>1, <1>2, <1>3 DEF PipeIInv, Going

(* An element is added where there is room.                                *)
LEMMA PipeAdds ==
  ASSUME PipeIInv, NEW v \in Data, Enqueue(Pipe, v), used(Pipe) # chan[Pipe].size,
         UNCHANGED <<status, chan_list>>
  PROVE  /\ ~Empty' /\ Len(chan'[Pipe].bufs) = Len(chan[Pipe].bufs) + 1
         /\ Len(sent'[Pipe]) = Len(sent[Pipe]) + 1
         /\ chan'[Pipe].size = chan[Pipe].size
         /\ chan'[Pipe].ended = chan[Pipe].ended
         /\ PipeKept'
  <1>1. Pipe \in Chans /\ ChanTypeOK /\ PipeKept
    BY PipeNames DEF PipeIInv, ChanIInv
  <1>2. /\ chan[Pipe].bufs \in Seq(Data) /\ sent[Pipe] \in Seq(Data) /\ chan[Pipe].size \in Nat
    BY PipeFacts
  <1>3. /\ chan'[Pipe].bufs = Append(chan[Pipe].bufs, v)
        /\ chan'[Pipe].size = chan[Pipe].size
        /\ chan'[Pipe].allocated = chan[Pipe].allocated
        /\ chan'[Pipe].sender = chan[Pipe].sender
        /\ chan'[Pipe].receiver = chan[Pipe].receiver
        /\ chan'[Pipe].ended = chan[Pipe].ended
        /\ \A d \in Chans : d # Pipe => chan'[d] = chan[d]
    BY <1>1, EnqueueFields
  <1>4. sent'[Pipe] = Append(sent[Pipe], v)
    BY <1>1, EnqueueEffect
  <1>5. /\ Len(chan'[Pipe].bufs) = Len(chan[Pipe].bufs) + 1
        /\ Len(sent'[Pipe]) = Len(sent[Pipe]) + 1
        /\ chan'[Pipe].bufs # <<>>
    BY <1>2, <1>3, <1>4, SMTT(20)
  <1>6. Len(chan'[Pipe].bufs) <= chan'[Pipe].size
    BY <1>1, <1>2, <1>3, <1>5 DEF PipeKept, used
  <1>7. PipeKept'
    BY <1>1, <1>3, <1>6 DEF PipeKept
  <1>. QED
    BY <1>3, <1>5, <1>7 DEF Empty

(* An element is taken where there is one.                                 *)
LEMMA PipeTakes ==
  ASSUME PipeIInv, Dequeue(Pipe), ~Empty, UNCHANGED <<status, chan_list>>
  PROVE  /\ chan_fault' = chan_fault
         /\ chan'[Pipe].size = chan[Pipe].size
         /\ chan'[Pipe].ended = chan[Pipe].ended
         /\ (chan[Pipe].ended => ~Empty' \/ chan'[Pipe].done)
         /\ PipeKept'
  <1>1. Pipe \in Chans /\ ChanTypeOK /\ PipeKept /\ chan[Pipe].bufs # <<>>
    BY PipeNames DEF PipeIInv, ChanIInv, Empty
  <1>2. chan[Pipe].bufs \in Seq(Data) /\ chan[Pipe].size \in Nat
    BY PipeFacts
  <1>3. /\ chan'[Pipe].bufs = Tail(chan[Pipe].bufs)
        /\ chan'[Pipe].size = chan[Pipe].size
        /\ chan'[Pipe].allocated = chan[Pipe].allocated
        /\ chan'[Pipe].sender = chan[Pipe].sender
        /\ chan'[Pipe].receiver = chan[Pipe].receiver
        /\ chan'[Pipe].ended = chan[Pipe].ended
        /\ chan'[Pipe].done = (chan[Pipe].done \/ NowDone(Pipe))
        /\ \A d \in Chans : d # Pipe => chan'[d] = chan[d]
    BY <1>1, DequeueFields
  <1>4. chan_fault' = chan_fault
    BY <1>1, DequeueEffect
  <1>5. /\ Len(chan'[Pipe].bufs) = Len(chan[Pipe].bufs) - 1
        /\ Len(chan[Pipe].bufs) \in Nat
    BY <1>1, <1>2, <1>3
  <1>6. Len(chan'[Pipe].bufs) <= chan'[Pipe].size
    BY <1>1, <1>2, <1>3, <1>5 DEF PipeKept
  <1>7. PipeKept'
    BY <1>1, <1>3, <1>6 DEF PipeKept
  <1>8. ASSUME chan[Pipe].ended, Empty'
        PROVE  chan'[Pipe].done
    <2>1. Len(chan'[Pipe].bufs) = 0
      BY <1>8 DEF Empty
    <2>2. Len(chan[Pipe].bufs) = 1
      <3>1. PICK m : m = Len(chan[Pipe].bufs)
        OBVIOUS
      <3>2. m \in Nat /\ 0 = m - 1
        BY <1>5, <2>1, <3>1
      <3>. QED
        BY <3>1, <3>2
    <2>3. NowDone(Pipe)
      BY <1>8, <2>2 DEF NowDone
    <2>. QED
      BY <1>3, <2>3
  <1>. QED
    BY <1>3, <1>4, <1>7, <1>8

(* The channel stays as it is while the CPU changes hands.                 *)
LEMMA PipeUntouched ==
  ASSUME PipeIInv, UNCHANGED <<chan, chan_list>>,
         status'[Consumer] # "DEAD" => status[Consumer] # "DEAD",
         status'[Producer] # "DEAD" => status[Producer] # "DEAD"
  PROVE  PipeKept'
  BY DEF PipeIInv, PipeKept

(* chan_end().                                                             *)
LEMMA PipeEnds ==
  ASSUME PipeIInv, ChanEnd(Pipe)
  PROVE  /\ (Empty' <=> Empty) /\ chan'[Pipe].bufs = chan[Pipe].bufs
         /\ chan'[Pipe].size = chan[Pipe].size /\ PipeKept'
         /\ UNCHANGED <<vars, chan_list, call, sent, chan_fault>>
  <1>1. Pipe \in Chans /\ chan \in [Chans -> ChanRecord]
    BY PipeNames DEF PipeIInv, ChanIInv, ChanTypeOK, ChanRecord
  <1>2. /\ chan' = [chan EXCEPT ![Pipe].ended = TRUE]
        /\ UNCHANGED <<vars, chan_list, call, sent, chan_fault>>
    BY DEF ChanEnd
  <1>3. chan[Pipe] \in ChanRecord
    BY <1>1
  <1>4. /\ chan'[Pipe].bufs = chan[Pipe].bufs
        /\ chan'[Pipe].size = chan[Pipe].size
        /\ chan'[Pipe].allocated = chan[Pipe].allocated
        /\ chan'[Pipe].sender = chan[Pipe].sender
        /\ chan'[Pipe].receiver = chan[Pipe].receiver
        /\ \A d \in Chans : d # Pipe => chan'[d] = chan[d]
    BY <1>1, <1>2, <1>3 DEF ChanRecord
  <1>5. status' = status
    BY <1>2 DEF vars
  <1>6. PipeKept'
    BY <1>2, <1>4, <1>5 DEF PipeIInv, PipeKept
  <1>. QED
    BY <1>2, <1>4, <1>6 DEF Empty

-----------------------------------------------------------------------------
(***************************************************************************)
(* One lemma per phase.                                                    *)
(***************************************************************************)

(* Main resumes the first of the two.                                      *)
LEMMA FromStart ==
  ASSUME PipeIInv, PhaseStart, PipeNext
  PROVE  Going'
  <1>1. /\ exec = Main /\ status[Producer] = "READY" /\ status[Consumer] = "READY"
        /\ Idling(Producer) /\ Idling(Consumer)
        /\ Empty /\ sent[Pipe] = <<>> /\ ~chan[Pipe].ended
    BY DEF PhaseStart, At
  <1>2. UNCHANGED <<items, first>>
    BY DEF PipeNext
  <1>3. CASE UNCHANGED allVars
    BY <1>2, <1>3, PipeWaits
  <1>4. CASE MainStarts
    <2>1. Resume(first) /\ UNCHANGED chanVars /\ first \in {Producer, Consumer}
      BY <1>4 DEF MainStarts, PipeIInv
    <2>2. first \in Ids /\ first # exec /\ status[first] = "READY" /\ IInv /\ fault = "none"
      BY <1>1, <2>1, PipeNames DEF PipeIInv
    <2>3. /\ fault' = "none" /\ exec' = first /\ status'[first] = "RUNNING"
          /\ \A i \in Ids : i # first /\ i # exec => status'[i] = status[i]
          /\ uc_link'[first] = exec
      BY <2>1, <2>2, ResumeGoes
    <2>4. UNCHANGED <<chan, chan_list, call, sent, chan_fault>>
      BY <2>1 DEF chanVars
    <2>5. \A i \in Ids : status'[i] # "DEAD" => status[i] # "DEAD" \/ i \notin {Producer, Consumer}
      BY <1>1
    <2>6. PipeKept'
      BY <2>4, <2>5, PipeNames, PipeUntouched
    <2>7. CASE first = Producer
      <3>1. /\ At(Producer, "RUNNING", "READY")' /\ Idling(Producer)' /\ Idling(Consumer)'
            /\ uc_link'[Producer] = Main
        BY <1>1, <2>3, <2>4, <2>7, PipeNames DEF At, Idling
      <3>2. Len(chan'[Pipe].bufs) = Len(sent'[Pipe]) /\ ~chan'[Pipe].ended
        BY <1>1, <2>4 DEF Empty
      <3>3. items' <= chan'[Pipe].size
        BY <1>2, <2>4, <2>7 DEF PipeIInv
      <3>4. PhaseFill'
        BY <3>1, <3>2, <3>3 DEF PhaseFill
      <3>. QED
        BY <1>2, <2>3, <2>4, <2>6, <3>4 DEF PipeIInv, Going, Phases
    <2>8. CASE first = Consumer
      <3>1. /\ At(Consumer, "READY", "RUNNING")' /\ Idling(Producer)' /\ Idling(Consumer)'
            /\ uc_link'[Consumer] = Main
        BY <1>1, <2>3, <2>4, <2>8, PipeNames DEF At, Idling
      <3>2. PhaseAsk'
        BY <1>1, <2>4, <3>1 DEF PhaseAsk, Empty
      <3>. QED
        BY <1>2, <2>3, <2>4, <2>6, <3>2 DEF PipeIInv, Going, Phases
    <2>. QED
      BY <2>1, <2>7, <2>8
  <1>5. ~MainResumes /\ ~ProducerStep /\ ~ConsumerStep /\ ~SendResumed /\ ~RecvResumed
    BY <1>1, PipeNames DEF MainResumes, ProducerStep, ConsumerStep, SendResumed, RecvResumed
  <1>. QED
    BY <1>3, <1>4, <1>5 DEF PipeNext, PipeIdle

(* The producer sends all it has, and returns to main.                     *)
LEMMA FromFill ==
  ASSUME PipeIInv, PhaseFill, PipeNext
  PROVE  Going'
  <1>1. /\ exec = Producer /\ status[Producer] = "RUNNING" /\ status[Consumer] = "READY"
        /\ Idling(Producer) /\ Idling(Consumer) /\ uc_link[Producer] = Main
        /\ Len(chan[Pipe].bufs) = Len(sent[Pipe]) /\ items <= chan[Pipe].size
        /\ chan[Pipe].ended => ~Empty
    BY DEF PhaseFill, At
  <1>2. UNCHANGED <<items, first>>
    BY DEF PipeNext
  <1>3. /\ chan[Pipe].bufs \in Seq(Data) /\ sent[Pipe] \in Seq(Data) /\ items \in Nat /\ items >= 1
        /\ chan[Pipe].size \in Nat /\ (Empty <=> Len(chan[Pipe].bufs) = 0)
    BY PipeFacts
  <1>4. CASE UNCHANGED allVars
    BY <1>2, <1>4, PipeWaits
  <1>5. ASSUME NEW v \in Data, Len(sent[Pipe]) < items, SendNow(Pipe, v)
        PROVE  Going'
    <2>1. /\ Enqueue(Pipe, v) /\ used(Pipe) # chan[Pipe].size
          /\ UNCHANGED <<exec, status, uc_link, fault, chan_list, call, chan_fault>>
      BY <1>5 DEF SendNow, vars
    <2>2. /\ ~Empty' /\ Len(chan'[Pipe].bufs) = Len(chan[Pipe].bufs) + 1
          /\ Len(sent'[Pipe]) = Len(sent[Pipe]) + 1
          /\ chan'[Pipe].size = chan[Pipe].size /\ PipeKept'
      BY <2>1, PipeAdds
    <2>3. PhaseFill'
      BY <1>1, <1>2, <2>1, <2>2 DEF PhaseFill, At, Idling
    <2>. QED
      BY <1>2, <2>1, <2>2, <2>3 DEF PipeIInv, Going, Phases
  <1>6. ASSUME NEW v \in Data, Len(sent[Pipe]) < items, SendFull(Pipe, v)
        PROVE  Going'
    <2>1. Len(chan[Pipe].bufs) = chan[Pipe].size
      BY <1>6 DEF SendFull, used
    <2>. QED
      BY <1>1, <1>3, <1>6, <2>1
  <1>7. ASSUME Len(sent[Pipe]) = items, ChanEnd(Pipe)
        PROVE  Going'
    <2>1. /\ (Empty' <=> Empty) /\ chan'[Pipe].bufs = chan[Pipe].bufs
          /\ chan'[Pipe].size = chan[Pipe].size /\ PipeKept'
          /\ UNCHANGED <<vars, chan_list, call, sent, chan_fault>>
      BY <1>7, PipeEnds
    <2>2. ~Empty /\ UNCHANGED <<exec, status, uc_link, fault>>
      BY <1>1, <1>3, <1>7, <2>1 DEF vars
    <2>3. PhaseFill'
      BY <1>1, <1>2, <2>1, <2>2 DEF PhaseFill, At, Idling
    <2>. QED
      BY <1>2, <2>1, <2>2, <2>3 DEF PipeIInv, Going, Phases
  <1>8. ASSUME chan[Pipe].ended, ChanSchedEnd
        PROVE  Going'
    <2>1. /\ End /\ SeverReceivers /\ UNCHANGED <<chan_list, call, sent, chan_fault>>
          /\ IInv /\ fault = "none" /\ exec # Main /\ ChanTypeOK /\ PipeKept
      BY <1>1, <1>8, PipeNames DEF ChanSchedEnd, PipeIInv, ChanIInv
    <2>2. /\ fault' = "none" /\ exec' = Main /\ status'[Producer] = "DEAD"
          /\ \A i \in Ids : i # exec => status'[i] = status[i]
      BY <1>1, <2>1, EndGoes
    <2>3. \A c \in Chans : chan'[c] = chan[c]
      BY <1>1, <2>1, SeverFields DEF PipeKept
    <2>4. status'[Consumer] = "READY" /\ chan'[Pipe] = chan[Pipe]
      BY <1>1, <2>2, <2>3, PipeNames
    <2>5. PipeKept'
      BY <1>1, <2>1, <2>2, <2>3, <2>4 DEF PipeKept
    <2>6. PhaseFilled'
      BY <1>1, <1>8, <2>1, <2>2, <2>4 DEF PhaseFilled, At, Idling, Empty
    <2>. QED
      BY <1>2, <2>1, <2>2, <2>4, <2>5, <2>6 DEF PipeIInv, Going, Phases
  <1>. QED
    BY <1>1, <1>4, <1>5, <1>6, <1>7, <1>8, ProducerMoves

(* Main resumes the consumer.                                              *)
LEMMA FromFilled ==
  ASSUME PipeIInv, PhaseFilled, PipeNext
  PROVE  Going'
  <1>1. /\ exec = Main /\ status[Producer] = "DEAD" /\ status[Consumer] = "READY"
        /\ Idling(Producer) /\ Idling(Consumer) /\ chan[Pipe].ended /\ ~Empty
    BY DEF PhaseFilled, At
  <1>2. UNCHANGED <<items, first>>
    BY DEF PipeNext
  <1>3. CASE UNCHANGED allVars
    BY <1>2, <1>3, PipeWaits
  <1>4. CASE MainResumes
    <2>1. Resume(Consumer) /\ UNCHANGED chanVars
      BY <1>1, <1>4 DEF MainResumes
    <2>2. Consumer \in Ids /\ Consumer # exec /\ IInv /\ fault = "none"
      BY <1>1, PipeNames DEF PipeIInv
    <2>3. /\ fault' = "none" /\ exec' = Consumer /\ status'[Consumer] = "RUNNING"
          /\ \A i \in Ids : i # Consumer /\ i # exec => status'[i] = status[i]
          /\ uc_link'[Consumer] = exec
      BY <1>1, <2>1, <2>2, ResumeGoes
    <2>4. UNCHANGED <<chan, chan_list, call, sent, chan_fault>>
      BY <2>1 DEF chanVars
    <2>5. status'[Producer] = "DEAD"
      BY <1>1, <2>3, PipeNames
    <2>6. PipeKept'
      BY <1>1, <2>4, <2>5, PipeUntouched
    <2>7. PhaseDrain'
      BY <1>1, <2>3, <2>4, <2>5 DEF PhaseDrain, Idling, Empty, Started
    <2>. QED
      BY <1>2, <2>3, <2>4, <2>6, <2>7 DEF PipeIInv, Going, Phases
  <1>5. ~MainStarts /\ ~ProducerStep /\ ~ConsumerStep /\ ~SendResumed /\ ~RecvResumed
    BY <1>1, PipeNames DEF MainStarts, ProducerStep, ConsumerStep, SendResumed, RecvResumed
  <1>. QED
    BY <1>3, <1>4, <1>5 DEF PipeNext, PipeIdle

(* The consumer finds nothing and starts the producer.                     *)
LEMMA FromAsk ==
  ASSUME PipeIInv, PhaseAsk, PipeNext
  PROVE  Going'
  <1>1. /\ exec = Consumer /\ status[Producer] = "READY" /\ status[Consumer] = "RUNNING"
        /\ Idling(Producer) /\ Idling(Consumer) /\ uc_link[Consumer] = Main
        /\ Empty /\ sent[Pipe] = <<>> /\ ~chan[Pipe].ended
    BY DEF PhaseAsk, At
  <1>2. UNCHANGED <<items, first>>
    BY DEF PipeNext
  <1>3. /\ items \in Nat /\ items >= 1 /\ (Empty <=> Len(chan[Pipe].bufs) = 0)
        /\ (chan[Pipe].done => chan[Pipe].ended)
        /\ call \in [Ids -> {NoCall} \cup [op : {"recv"}, chan : Chans]
                            \cup [op : {"send"}, chan : Chans, data : Data]]
    BY PipeFacts
  <1>4. CASE UNCHANGED allVars
    BY <1>2, <1>4, PipeWaits
  <1>5. CASE RecvNow(Pipe)
    BY <1>1, <1>3, <1>5 DEF RecvNow, used
  <1>6. CASE RecvEmpty(Pipe)
    <2>1. /\ Resume(chan[Pipe].sender)
          /\ call' = [call EXCEPT ![exec] = [op |-> "recv", chan |-> Pipe]]
          /\ UNCHANGED <<chan, chan_list, sent, rcvd, chan_fault>>
      BY <1>6 DEF RecvEmpty, GiveWay
    <2>2. Producer \in Ids /\ Producer # exec /\ IInv /\ fault = "none" /\ Consumer \in Ids
      BY <1>1, PipeNames DEF PipeIInv
    <2>3. chan[Pipe].sender = Producer
      BY <1>1 DEF PipeIInv, PipeKept
    <2>4. /\ fault' = "none" /\ exec' = Producer /\ status'[Producer] = "RUNNING"
          /\ \A i \in Ids : i = exec => status'[i] = "SUSPEND"
          /\ \A i \in Ids : i # Producer => uc_link'[i] = uc_link[i]
          /\ uc_link'[Producer] = exec
      BY <1>1, <2>1, <2>2, <2>3, ResumeGoes
    <2>5. Receiving' /\ Idling(Producer)'
      BY <1>1, <1>3, <2>1, <2>2 DEF Receiving, Idling
    <2>6. PipeKept'
      BY <1>1, <2>1, PipeUntouched
    <2>7. Len(sent'[Pipe]) < items' /\ ~chan'[Pipe].ended
      BY <1>1, <1>2, <1>3, <2>1
    <2>8. PhaseSend'
      BY <1>1, <2>2, <2>4, <2>5, <2>7 DEF PhaseSend, At
    <2>. QED
      BY <1>2, <2>1, <2>4, <2>6, <2>8 DEF PipeIInv, Going, Phases
  <1>. QED
    BY <1>1, <1>3, <1>4, <1>5, <1>6, ConsumerMoves

(* The producer sends until the channel is full or it has no more; the     *)
(* consumer, which waits, gets the CPU with something to take.             *)
LEMMA FromSend ==
  ASSUME PipeIInv, PhaseSend, PipeNext
  PROVE  Going'
  <1>1. /\ exec = Producer /\ status[Producer] = "RUNNING" /\ status[Consumer] = "SUSPEND"
        /\ Receiving /\ uc_link[Producer] = Consumer /\ uc_link[Consumer] = Main
        /\ \/ Sending /\ Empty
           \/ Idling(Producer) /\ (~Empty \/ (~chan[Pipe].ended /\ Len(sent[Pipe]) < items))
    BY DEF PhaseSend, At
  <1>2. UNCHANGED <<items, first>>
    BY DEF PipeNext
  <1>3. /\ chan[Pipe].bufs \in Seq(Data) /\ sent[Pipe] \in Seq(Data) /\ items \in Nat
        /\ chan[Pipe].size \in Nat /\ (Empty <=> Len(chan[Pipe].bufs) = 0)
        /\ call \in [Ids -> {NoCall} \cup [op : {"recv"}, chan : Chans]
                            \cup [op : {"send"}, chan : Chans, data : Data]]
    BY PipeFacts
  <1>4. /\ Producer \in Ids /\ Consumer \in Ids /\ Producer # Consumer /\ Producer # Main
        /\ IInv /\ fault = "none" /\ PipeKept
    BY PipeNames DEF PipeIInv
  <1>5. CASE UNCHANGED allVars
    BY <1>2, <1>5, PipeWaits
  <1>6. CASE Sending /\ Empty /\ SendResumed
    <2>1. /\ Enqueue(Pipe, call[Producer].data)
          /\ call' = [call EXCEPT ![Producer] = NoCall]
          /\ UNCHANGED <<exec, status, uc_link, fault, chan_list, chan_fault>>
      BY <1>1, <1>6 DEF SendResumed, Sending, vars
    <2>2. call[Producer].data \in Data /\ used(Pipe) # chan[Pipe].size
      <3>1. call[Producer].op = "send"
        BY <1>6 DEF Sending
      <3>2. call[Producer].data \in Data
        BY <1>3, <1>4, <3>1 DEF NoCall
      <3>. QED
        BY <1>3, <1>4, <1>6, <3>2 DEF used, PipeKept
    <2>3. ~Empty' /\ chan'[Pipe].size = chan[Pipe].size /\ PipeKept'
      BY <2>1, <2>2, PipeAdds
    <2>4. Idling(Producer)' /\ Receiving'
      BY <1>1, <1>3, <1>4, <2>1 DEF Idling, Receiving
    <2>5. PhaseSend'
      BY <1>1, <2>1, <2>3, <2>4 DEF PhaseSend, At
    <2>. QED
      BY <1>2, <2>1, <2>3, <2>5 DEF PipeIInv, Going, Phases
  <1>7. ASSUME Idling(Producer), NEW v \in Data, SendNow(Pipe, v)
        PROVE  Going'
    <2>1. /\ Enqueue(Pipe, v) /\ used(Pipe) # chan[Pipe].size
          /\ UNCHANGED <<exec, status, uc_link, fault, chan_list, call, chan_fault>>
      BY <1>7 DEF SendNow, vars
    <2>2. ~Empty' /\ chan'[Pipe].size = chan[Pipe].size /\ PipeKept'
      BY <2>1, PipeAdds
    <2>3. PhaseSend'
      BY <1>1, <1>7, <2>1, <2>2 DEF PhaseSend, At, Idling, Receiving
    <2>. QED
      BY <1>2, <2>1, <2>2, <2>3 DEF PipeIInv, Going, Phases
  <1>8. ASSUME Idling(Producer), NEW v \in Data, SendFull(Pipe, v)
        PROVE  Going'
    <2>1. /\ Resume(chan[Pipe].receiver) /\ Len(chan[Pipe].bufs) = chan[Pipe].size
          /\ call' = [call EXCEPT ![exec] = [op |-> "send", chan |-> Pipe, data |-> v]]
          /\ UNCHANGED <<chan, chan_list, sent, rcvd, chan_fault>>
      BY <1>8 DEF SendFull, GiveWay, used
    <2>2. chan[Pipe].receiver = Consumer /\ ~Empty
      BY <1>1, <1>3, <1>4, <2>1 DEF PipeKept
    <2>3. /\ fault' = "none" /\ exec' = Consumer /\ status'[Consumer] = "RUNNING"
          /\ \A i \in Ids : i = exec => status'[i] = "SUSPEND"
          /\ \A i \in Ids : i # Consumer => uc_link'[i] = uc_link[i]
          /\ uc_link'[Consumer] = uc_link[Consumer]
      BY <1>1, <1>4, <2>1, <2>2, ResumeGoes
    <2>4. Receiving' /\ Sending'
      BY <1>1, <1>3, <1>4, <2>1 DEF Receiving, Sending
    <2>5. PipeKept'
      BY <1>1, <2>1, PipeUntouched
    <2>6. PhaseTake'
      BY <1>1, <1>4, <2>1, <2>2, <2>3, <2>4 DEF PhaseTake, At, Empty
    <2>. QED
      BY <1>2, <2>1, <2>3, <2>5, <2>6 DEF PipeIInv, Going, Phases
  <1>9. ASSUME Idling(Producer), Len(sent[Pipe]) = items, ChanEnd(Pipe)
        PROVE  Going'
    <2>1. /\ (Empty' <=> Empty) /\ chan'[Pipe].size = chan[Pipe].size /\ PipeKept'
          /\ UNCHANGED <<vars, chan_list, call, sent, chan_fault>>
      BY <1>9, PipeEnds
    <2>2. ~Empty /\ UNCHANGED <<exec, status, uc_link, fault>>
      <3>1. ~Sending
        BY <1>9 DEF Idling, NoCall, Sending
      <3>. QED
        BY <1>1, <1>3, <1>9, <2>1, <3>1 DEF vars
    <2>3. PhaseSend'
      BY <1>1, <1>9, <2>1, <2>2 DEF PhaseSend, At, Idling, Receiving
    <2>. QED
      BY <1>2, <2>1, <2>2, <2>3 DEF PipeIInv, Going, Phases
  <1>10. ASSUME Idling(Producer), chan[Pipe].ended, ChanSchedEnd
         PROVE  Going'
    <2>1. /\ End /\ SeverReceivers /\ UNCHANGED <<chan_list, call, sent, chan_fault>>
          /\ ChanTypeOK
      BY <1>10 DEF ChanSchedEnd, PipeIInv, ChanIInv
    <2>2. /\ fault' = "none" /\ exec' = Consumer /\ status'[Producer] = "DEAD"
          /\ \A i \in Ids : i # exec => status'[i] = status[i]
          /\ uc_link' = uc_link
      BY <1>1, <1>4, <2>1, EndGoes
    <2>3. \A c \in Chans : chan'[c] = chan[c]
      BY <1>1, <1>4, <2>1, SeverFields DEF PipeKept
    <2>4. status'[Consumer] = "SUSPEND" /\ chan'[Pipe] = chan[Pipe]
      BY <1>1, <1>4, <2>2, <2>3, PipeNames
    <2>5. PipeKept'
      BY <1>1, <1>4, <2>1, <2>2, <2>3, <2>4 DEF PipeKept
    <2>6. ~Empty
      <3>1. ~Sending
        BY <1>10 DEF Idling, NoCall, Sending
      <3>. QED
        BY <1>1, <1>10, <3>1
    <2>7. PhaseDrain'
      BY <1>1, <1>10, <2>1, <2>2, <2>4, <2>6 DEF PhaseDrain, Idling, Receiving, Empty, Started
    <2>. QED
      BY <1>2, <2>1, <2>2, <2>4, <2>5, <2>7 DEF PipeIInv, Going, Phases
  <1>11. CASE Idling(Producer)
    BY <1>1, <1>5, <1>7, <1>8, <1>9, <1>10, <1>11, ProducerMoves
  <1>. QED
    BY <1>1, <1>5, <1>6, <1>11, BlockedMoves

(* The consumer takes all there is and gives way to the producer.          *)
LEMMA FromTake ==
  ASSUME PipeIInv, PhaseTake, PipeNext
  PROVE  Going'
  <1>1. /\ exec = Consumer /\ status[Producer] = "SUSPEND" /\ status[Consumer] = "RUNNING"
        /\ Sending /\ uc_link[Producer] = Consumer /\ uc_link[Consumer] = Main
        /\ Idling(Consumer) \/ (Receiving /\ ~Empty)
    BY DEF PhaseTake, At
  <1>2. UNCHANGED <<items, first>>
    BY DEF PipeNext
  <1>3. /\ (Empty <=> Len(chan[Pipe].bufs) = 0) /\ ~chan[Pipe].done
        /\ call \in [Ids -> {NoCall} \cup [op : {"recv"}, chan : Chans]
                            \cup [op : {"send"}, chan : Chans, data : Data]]
    BY <1>1, PipeFacts
  <1>4. /\ Producer \in Ids /\ Consumer \in Ids /\ Producer # Consumer
        /\ IInv /\ fault = "none" /\ PipeKept
    BY PipeNames DEF PipeIInv
  <1>5. CASE UNCHANGED allVars
    BY <1>2, <1>5, PipeWaits
  <1>6. ASSUME Dequeue(Pipe), ~Empty, call'[Consumer] = NoCall, call'[Producer] = call[Producer],
               UNCHANGED <<vars, chan_list, sent>>
        PROVE  Going'
    <2>1. UNCHANGED <<exec, status, uc_link, fault>>
      BY <1>6 DEF vars
    <2>2. /\ chan_fault' = chan_fault /\ chan'[Pipe].size = chan[Pipe].size /\ PipeKept'
      BY <1>6, <2>1, PipeTakes
    <2>3. PhaseTake'
      BY <1>1, <1>6, <2>1 DEF PhaseTake, At, Idling, Sending
    <2>. QED
      BY <1>2, <2>1, <2>2, <2>3 DEF PipeIInv, Going, Phases
  <1>7. CASE Receiving /\ ~Empty /\ RecvResumed
    <2>1. /\ Dequeue(Pipe) /\ call' = [call EXCEPT ![Consumer] = NoCall]
          /\ UNCHANGED <<vars, chan_list, sent>>
      BY <1>1, <1>7 DEF RecvResumed, Receiving
    <2>2. call'[Consumer] = NoCall /\ call'[Producer] = call[Producer]
      BY <1>3, <1>4, <2>1
    <2>. QED
      BY <1>6, <1>7, <2>1, <2>2
  <1>8. CASE Idling(Consumer) /\ RecvNow(Pipe)
    <2>1. Dequeue(Pipe) /\ ~Empty /\ UNCHANGED <<vars, chan_list, call, sent>>
      BY <1>3, <1>8 DEF RecvNow, used
    <2>. QED
      BY <1>6, <1>8, <2>1 DEF Idling
  <1>9. CASE Idling(Consumer) /\ RecvEmpty(Pipe)
    <2>1. /\ Resume(chan[Pipe].sender) /\ Len(chan[Pipe].bufs) = 0
          /\ call' = [call EXCEPT ![exec] = [op |-> "recv", chan |-> Pipe]]
          /\ UNCHANGED <<chan, chan_list, sent, rcvd, chan_fault>>
      BY <1>9 DEF RecvEmpty, GiveWay, used
    <2>2. chan[Pipe].sender = Producer
      BY <1>1, <1>4 DEF PipeKept
    <2>3. /\ fault' = "none" /\ exec' = Producer /\ status'[Producer] = "RUNNING"
          /\ \A i \in Ids : i = exec => status'[i] = "SUSPEND"
          /\ \A i \in Ids : i # Producer => uc_link'[i] = uc_link[i]
          /\ uc_link'[Producer] = uc_link[Producer]
      BY <1>1, <1>4, <2>1, <2>2, ResumeGoes
    <2>4. Receiving' /\ Sending'
      BY <1>1, <1>3, <1>4, <2>1 DEF Receiving, Sending
    <2>5. PipeKept'
      BY <1>1, <2>1, PipeUntouched
    <2>6. Empty'
      BY <1>3, <2>1 DEF Empty
    <2>7. PhaseSend'
      BY <1>1, <1>4, <2>3, <2>4, <2>6 DEF PhaseSend, At
    <2>. QED
      BY <1>2, <2>1, <2>3, <2>5, <2>7 DEF PipeIInv, Going, Phases
  <1>10. CASE Idling(Consumer)
    BY <1>1, <1>3, <1>5, <1>8, <1>9, <1>10, ConsumerMoves
  <1>. QED
    BY <1>1, <1>5, <1>7, <1>10, BlockedMoves

(* The consumer takes the rest, and returns to main.                       *)
LEMMA FromDrain ==
  ASSUME PipeIInv, PhaseDrain, PipeNext
  PROVE  Going'
  <1>1. /\ exec = Consumer /\ status[Producer] = "DEAD" /\ status[Consumer] \in Started
        /\ Idling(Producer) /\ uc_link[Consumer] = Main /\ chan[Pipe].ended
        /\ \/ Idling(Consumer) /\ (~Empty \/ chan[Pipe].done)
           \/ Receiving /\ ~Empty
    BY DEF PhaseDrain
  <1>2. UNCHANGED <<items, first>>
    BY DEF PipeNext
  <1>3. /\ (Empty <=> Len(chan[Pipe].bufs) = 0)
        /\ call \in [Ids -> {NoCall} \cup [op : {"recv"}, chan : Chans]
                            \cup [op : {"send"}, chan : Chans, data : Data]]
    BY PipeFacts
  <1>4. /\ Producer \in Ids /\ Consumer \in Ids /\ Producer # Consumer /\ Consumer # Main
        /\ IInv /\ fault = "none" /\ PipeKept
    BY PipeNames DEF PipeIInv
  <1>5. CASE UNCHANGED allVars
    BY <1>2, <1>5, PipeWaits
  <1>6. ASSUME Dequeue(Pipe), ~Empty, call'[Consumer] = NoCall, call'[Producer] = call[Producer],
               UNCHANGED <<vars, chan_list, sent>>
        PROVE  Going'
    <2>1. UNCHANGED <<exec, status, uc_link, fault>>
      BY <1>6 DEF vars
    <2>2. /\ chan_fault' = chan_fault /\ chan'[Pipe].size = chan[Pipe].size /\ PipeKept'
          /\ chan'[Pipe].ended = chan[Pipe].ended /\ (~Empty' \/ chan'[Pipe].done)
      BY <1>1, <1>6, <2>1, PipeTakes
    <2>3. PhaseDrain'
      BY <1>1, <1>6, <2>1, <2>2 DEF PhaseDrain, Idling
    <2>. QED
      BY <1>2, <2>1, <2>2, <2>3 DEF PipeIInv, Going, Phases
  <1>7. CASE Receiving /\ ~Empty /\ RecvResumed
    <2>1. /\ Dequeue(Pipe) /\ call' = [call EXCEPT ![Consumer] = NoCall]
          /\ UNCHANGED <<vars, chan_list, sent>>
      BY <1>1, <1>7 DEF RecvResumed, Receiving
    <2>2. call'[Consumer] = NoCall /\ call'[Producer] = call[Producer]
      BY <1>3, <1>4, <2>1
    <2>. QED
      BY <1>6, <1>7, <2>1, <2>2
  <1>8. CASE Idling(Consumer) /\ RecvNow(Pipe)
    <2>1. Dequeue(Pipe) /\ ~Empty /\ UNCHANGED <<vars, chan_list, call, sent>>
      BY <1>3, <1>8 DEF RecvNow, used
    <2>. QED
      BY <1>6, <1>8, <2>1 DEF Idling
  <1>9. CASE Idling(Consumer) /\ ~chan[Pipe].done /\ RecvEmpty(Pipe)
    <2>1. Empty /\ ~Receiving
      BY <1>3, <1>9 DEF RecvEmpty, used, Idling, NoCall, Receiving
    <2>. QED
      BY <1>1, <1>9, <2>1
  <1>10. CASE Idling(Consumer) /\ ChanSchedEnd
    <2>1. /\ End /\ SeverReceivers /\ UNCHANGED <<chan_list, call, sent, chan_fault>>
          /\ ChanTypeOK /\ Pipe \in Chans
      BY <1>10, PipeNames DEF ChanSchedEnd, PipeIInv, ChanIInv
    <2>2. /\ fault' = "none" /\ exec' = Main /\ status'[Consumer] = "DEAD"
          /\ \A i \in Ids : i # exec => status'[i] = status[i]
      BY <1>1, <1>4, <2>1, EndGoes
    <2>3. status'[Producer] = "DEAD"
      BY <1>1, <1>4, <2>2
    <2>4. \A c \in Chans : /\ chan'[c].allocated = chan[c].allocated
                           /\ chan'[c].size = chan[c].size
                           /\ chan'[c].bufs = chan[c].bufs
      BY <2>1, SeverFields
    <2>5. PipeKept'
      BY <1>4, <2>1, <2>2, <2>3, <2>4 DEF PipeKept
    <2>6. PhaseOver'
      BY <2>2, <2>3 DEF PhaseOver, At
    <2>7. chan'[Pipe].size = chan[Pipe].size
      BY <2>1, <2>4
    <2>. QED
      BY <1>2, <2>1, <2>2, <2>5, <2>6, <2>7 DEF PipeIInv, Going, Phases
  <1>11. CASE Idling(Consumer)
    BY <1>1, <1>5, <1>8, <1>9, <1>10, <1>11, ConsumerMoves
  <1>. QED
    BY <1>1, <1>5, <1>7, <1>11, BlockedMoves

(* Both have returned: main has nobody to resume.                          *)
LEMMA FromOver ==
  ASSUME PipeIInv, PhaseOver, PipeNext
  PROVE  Going'
  <1>1. exec = Main /\ status[Producer] = "DEAD" /\ status[Consumer] = "DEAD"
    BY DEF PhaseOver, At
  <1>2. /\ ~MainStarts /\ ~MainResumes /\ ~ProducerStep /\ ~ConsumerStep
        /\ ~SendResumed /\ ~RecvResumed
    BY <1>1, PipeNames DEF MainStarts, MainResumes, ProducerStep, ConsumerStep,
       SendResumed, RecvResumed
  <1>3. UNCHANGED allVars /\ UNCHANGED <<items, first>>
    BY <1>2 DEF PipeNext, PipeIdle
  <1>. QED
    BY <1>3, PipeWaits

LEMMA PipeStepKeeps ==
  ASSUME PipeIInv, [PipeNext]_pipeVars
  PROVE  PipeIInv'
  <1>1. IInv' /\ ChanIInv'
    <2>1. [ChanNext]_allVars /\ IInv /\ ChanIInv
      BY PipeStepIsChan DEF PipeIInv
    <2>2. IInv'
      BY <2>1, ChanStepRefines, NextIInv
    <2>. QED
      BY <2>1, <2>2, ChanStepKeeps
  <1>2. UNCHANGED <<items, first>>
    BY DEF PipeNext, pipeVars
  <1>3. Going'
    <2>1. CASE PipeNext
      BY <2>1, FromStart, FromFill, FromFilled, FromAsk, FromSend, FromTake, FromDrain, FromOver
         DEF PipeIInv, Phases
    <2>2. CASE UNCHANGED pipeVars
      BY <2>2, PipeWaits DEF pipeVars
    <2>. QED
      BY <2>1, <2>2
  <1>. QED
    BY <1>1, <1>2, <1>3 DEF PipeIInv, Going

-----------------------------------------------------------------------------
(* A producer and a consumer as the documentation has them go through the  *)
(* phases, whatever the size of the channel and however much is sent       *)
(* (duda_dthread_channel.c, duda_dthread.c).                               *)
THEOREM PipelineInvariant ==
  ASSUME ~Overfill
  PROVE  PipeSpec => []PipeIInv
  <1>1. PipeInit => PipeIInv
    BY PipeStarts
  <1>2. PipeIInv /\ [PipeNext]_pipeVars => PipeIInv'
    BY PipeStepKeeps
  <1>. QED
    BY <1>1, <1>2, PTL DEF PipeSpec

(* chan_send() never overfills the channel and chan_recv() never takes     *)
(* from an empty one, although both look before they give way and act      *)
(* after it.                                                               *)
THEOREM PipelineBounded ==
  ASSUME ~Overfill
  PROVE  PipeSpec => []WithinBounds
  <1>1. PipeIInv => WithinBounds
    <2>1. ASSUME PipeIInv, NEW c \in Chans
          PROVE  used(c) <= chan[c].size
      <3>1. PipeKept /\ ListsAgree
        BY <2>1 DEF PipeIInv, ChanIInv
      <3>2. CASE c = Pipe
        BY <3>1, <3>2 DEF PipeKept, used
      <3>3. CASE c # Pipe
        BY <3>1, <3>3 DEF PipeKept, ListsAgree, used, Freed
      <3>. QED
        BY <3>2, <3>3
    <2>. QED
      BY <2>1 DEF PipeIInv, WithinBounds, ChanBounded, RecvHasFront
  <1>. QED
    BY <1>1, PipelineInvariant, PTL

(* No return of the two finds its uc_link stale, without any rule on the   *)
(* order in which dthreads return.                                         *)
THEOREM PipelineNeverStale ==
  ASSUME ~Overfill
  PROVE  PipeSpec => []NoStaleReturn
  <1>1. PipeIInv => NoStaleReturn
    BY DEF PipeIInv, NoStaleReturn
  <1>. QED
    BY <1>1, PipelineInvariant, PTL

(* What the producer sends, it sends to a receiver that is there: also     *)
(* when chan_send() checked for one before it gave way.                    *)
THEOREM PipelineHasReceiver ==
  ASSUME ~Overfill
  PROVE  PipeSpec => SendNeedsReceiver
  <1>1. ASSUME PipeIInv, [PipeNext]_pipeVars, NEW c \in Chans, Len(sent'[c]) > Len(sent[c])
        PROVE  chan[c].receiver # NoReceiver
    <2>1. Pipe \in Chans /\ sent[c] \in Seq(Data) /\ sent \in [Chans -> Seq(Data)]
      BY <1>1, PipeNames DEF PipeIInv, ChanIInv, ChanTypeOK
    <2>2. ~(sent' = sent)
      BY <1>1, <2>1
    <2>3. \/ exec = Producer /\ status[Consumer] # "DEAD" /\ (Sending \/ Idling(Producer))
          \/ sent' = sent
      <3>1. CASE exec = Main
        BY <1>1, <3>1, PipeNames DEF PipeNext, MainStarts, MainResumes, ProducerStep,
           ConsumerStep, SendResumed, RecvResumed, PipeIdle, pipeVars, allVars, chanVars
      <3>2. CASE exec = Consumer
        <4>1. ~SendResumed
          BY <1>1, <3>2, PipeNames DEF PipeIInv, Phases, PhaseStart, PhaseFill, PhaseFilled,
             PhaseAsk, PhaseSend, PhaseTake, PhaseDrain, PhaseOver, At, Idling, Receiving,
             SendResumed, NoCall
        <4>. QED
          BY <1>1, <3>2, <4>1, PipeNames DEF PipeNext, MainStarts, MainResumes, ProducerStep,
             ConsumerStep, RecvNow, RecvEmpty, ChanSchedEnd, RecvResumed, PipeIdle,
             pipeVars, allVars, chanVars
      <3>3. CASE exec = Producer
        BY <1>1, <3>3, PipeNames DEF PipeIInv, Phases, PhaseStart, PhaseFill, PhaseFilled,
           PhaseAsk, PhaseSend, PhaseTake, PhaseDrain, PhaseOver, At
      <3>4. exec \in {Main, Producer, Consumer}
        BY <1>1 DEF PipeIInv, Phases, PhaseStart, PhaseFill, PhaseFilled,
           PhaseAsk, PhaseSend, PhaseTake, PhaseDrain, PhaseOver, At
      <3>. QED
        BY <3>1, <3>2, <3>3, <3>4
    <2>4. chan[Pipe].receiver = Consumer
      BY <1>1, <2>2, <2>3 DEF PipeIInv, PipeKept
    <2>5. c = Pipe
      <3>1. \A d \in Chans : chan[d].receiver # NoReceiver => d = Pipe
        BY <1>1 DEF PipeIInv, PipeKept, ChanIInv, ListsAgree, Freed, NoReceiver
      <3>2. ASSUME c # Pipe
            PROVE  sent'[c] = sent[c]
        <4>1. [ChanNext]_allVars /\ ChanIInv
          BY <1>1, PipeStepIsChan DEF PipeIInv
        <4>2. Sending => SendResumed \/ UNCHANGED allVars
          BY <1>1, <2>2, <2>3, BlockedMoves DEF pipeVars
        <4>3. CASE SendResumed /\ Sending
          <5>1. sent' = [sent EXCEPT ![Pipe] = Append(@, call[exec].data)]
            BY <2>2, <2>3, <4>3 DEF SendResumed, Sending, Enqueue
          <5>. QED
            BY <2>1, <3>2, <5>1
        <4>4. CASE Idling(Producer)
          <5>1. PICK v \in Data : SendNow(Pipe, v)
            BY <1>1, <2>2, <2>3, <4>4, ProducerMoves
               DEF SendFull, ChanEnd, ChanSchedEnd, pipeVars, allVars, chanVars
          <5>2. sent' = [sent EXCEPT ![Pipe] = Append(@, v)]
            BY <5>1 DEF SendNow, Enqueue
          <5>. QED
            BY <2>1, <3>2, <5>2
        <4>. QED
          BY <2>2, <2>3, <4>2, <4>3, <4>4 DEF allVars, chanVars
      <3>. QED
        BY <1>1, <2>1, <3>2
    <2>. QED
      BY <2>4, <2>5 DEF Consumer, NoReceiver
  <1>2. PipeIInv /\ [PipeNext]_pipeVars =>
          [\A c \in Chans : Len(sent'[c]) > Len(sent[c]) => chan[c].receiver # NoReceiver]_allVars
    BY <1>1
  <1>. QED
    BY <1>2, PipelineInvariant, PTL DEF PipeSpec, SendNeedsReceiver
=============================================================================
