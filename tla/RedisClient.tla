----------------------------- MODULE RedisClient -----------------------------
(***************************************************************************)
(* What the asynchronous redis interface promises a service, without       *)
(* buffers, flags and hash tables: commands wait in order; each of them    *)
(* gets its callback run exactly once, in that order, with a reply while   *)
(* the connection is up and with NULL when it goes down; a subscription is *)
(* kept under its name until it is given up.                               *)
(***************************************************************************)
EXTENDS Naturals, Sequences

CONSTANTS None, Ids, Names

VARIABLES waiting,      \* ids of the commands without an answer, in order
          fate,         \* [Ids -> "new", "waiting", "reply", "null"]
          subs,         \* [Names -> id of the subscription or None]
          up            \* FALSE once the connection goes down

Init == waiting = <<>> /\ fate = [i \in Ids |-> "new"] /\ up = TRUE
        /\ subs = [n \in Names |-> None]

Issue(i) ==
    /\ up /\ fate[i] = "new"
    /\ waiting' = Append(waiting, i) /\ fate' = [fate EXCEPT ![i] = "waiting"]
    /\ UNCHANGED <<subs, up>>

Answer ==
    /\ waiting # <<>>
    /\ fate' = [fate EXCEPT ![Head(waiting)] = "reply"] /\ waiting' = Tail(waiting)
    /\ UNCHANGED <<subs, up>>

Cancel ==
    /\ waiting # <<>> /\ up' = FALSE
    /\ fate' = [fate EXCEPT ![Head(waiting)] = "null"] /\ waiting' = Tail(waiting)
    /\ UNCHANGED subs

Subscribe(n, i) == up /\ subs' = [subs EXCEPT ![n] = i] /\ UNCHANGED <<waiting, fate, up>>

Unsubscribe(n) ==
    /\ subs[n] # None /\ subs' = [subs EXCEPT ![n] = None]
    /\ UNCHANGED <<waiting, fate, up>>

Down == up' = FALSE /\ UNCHANGED <<waiting, fate, subs>>

\* With the last callback the subscriptions are gone as well.
Forget ==
    /\ ~up /\ waiting = <<>> /\ subs' = [n \in Names |-> None]
    /\ UNCHANGED <<waiting, fate, up>>

Next ==
    \/ \E i \in Ids : Issue(i)
    \/ Answer \/ Cancel \/ Down \/ Forget
    \/ \E n \in Names, i \in Ids : Subscribe(n, i)
    \/ \E n \in Names : Unsubscribe(n)

Spec == Init /\ [][Next]_<<waiting, fate, subs, up>>
=============================================================================
