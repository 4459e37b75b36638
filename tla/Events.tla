------------------------------- MODULE Events -------------------------------
(***************************************************************************)
(* The event handlers of a worker: event->add, lookup and delete of        *)
(* lib/duda_event.c and the hooks of lib/duda_old_launcher.c that find the *)
(* handler of an event by its descriptor.  A descriptor that is closed is  *)
(* given out again by the system.  The packages close theirs with          *)
(* event->delete (mariadb's callback interface) or without it (mariadb's   *)
(* dthread interface), and the hook for a closed connection is disabled:   *)
(* the server core closes the descriptor and the handler stays.            *)
(***************************************************************************)
EXTENDS Integers, Sequences, FiniteSets

CONSTANTS
    Sockets,      \* descriptors
    MaxOwners     \* bound of the model: users of descriptors in all

VARIABLES
    handlers,     \* duda_events_list: the descriptor and who added it
    holder,       \* who uses a descriptor, or 0
    owners,       \* users so far
    littered      \* descriptors closed without event->delete

eventVars == <<handlers, holder, owners, littered>>

EventsInit ==
    /\ handlers = <<>>
    /\ holder = [s \in Sockets |-> 0]
    /\ owners = 0
    /\ littered = {}

First(s) == LET I == {i \in DOMAIN handlers : handlers[i][1] = s} IN
            IF I = {} THEN 0 ELSE CHOOSE i \in I : \A j \in I : i <= j

\* The user whose callback an event of s calls, or 0 when nobody's.
duda_event_lookup(s) == IF First(s) = 0 THEN 0 ELSE handlers[First(s)][2]

\* A descriptor is opened and event->add is called.
duda_event_add(s) ==
    /\ holder[s] = 0 /\ owners < MaxOwners
    /\ owners' = owners + 1
    /\ holder' = [holder EXCEPT ![s] = owners']
    /\ handlers' = Append(handlers, <<s, owners'>>)
    /\ UNCHANGED littered

\* Mutant: the handler is unlinked for another descriptor.
duda_event_delete_last(s) ==
    /\ holder[s] # 0
    /\ holder' = [holder EXCEPT ![s] = 0]
    /\ handlers' = SubSeq(handlers, 1, Len(handlers) - 1)
    /\ UNCHANGED <<owners, littered>>

\* event->delete of the first handler, and the descriptor is closed.
duda_event_delete(s) ==
    /\ holder[s] # 0
    /\ holder' = [holder EXCEPT ![s] = 0]
    /\ handlers' = SubSeq(handlers, 1, First(s) - 1) \o
                   SubSeq(handlers, First(s) + 1, Len(handlers))
    /\ UNCHANGED <<owners, littered>>

\* mkp_event_close, and close() without event->delete.
mkp_event_close(s) ==
    /\ holder[s] # 0
    /\ holder' = [holder EXCEPT ![s] = 0]
    /\ littered' = littered \cup {s}
    /\ UNCHANGED <<handlers, owners>>

EventsNext ==
    \E s \in Sockets : duda_event_add(s) \/ duda_event_delete(s) \/ mkp_event_close(s)

EventsSpec == EventsInit /\ [][EventsNext]_eventVars

(* An event is handled by the user of its descriptor, and by nobody once   *)
(* the descriptor is closed, as long as every earlier user of this         *)
(* descriptor has deleted its handler.                                     *)
EventReachesOwner ==
    \A s \in Sockets \ littered : duda_event_lookup(s) = holder[s]
=============================================================================
