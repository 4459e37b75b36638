------------------------------ MODULE Launcher ------------------------------
(***************************************************************************)
(* How the server comes up (lib/duda_old_launcher.c, lib/duda_conf.c,      *)
(* lib/objects/duda_worker.c) and the signals its workers exchange         *)
(* (lib/duda_event.c).  The master reads the virtual host's sections,      *)
(* loads each service and starts the threads it asked for; those run       *)
(* duda_worker_init at once, next to the master, and walk the same lists.  *)
(* The HTTP workers start when the master is done.                         *)
(*                                                                         *)
(*   conf       a section of the host: how its file loads, what its        *)
(*              duda_main returns, and whether it spawns a thread          *)
(*   services   the host's list;  loaded  the list services_loaded         *)
(*   state      of a service: listed, registered, refused (its duda_main   *)
(*              failed: no list of it is set), freed                       *)
(*   master     "load", "messages", "mutex", "up" or "exited"              *)
(*   loadat     the service the master loads next                          *)
(*   pc, at     of a thread: unborn, new, locked, walk, up; and the        *)
(*              service whose globals it initialises next                  *)
(*   globals    the services a thread has initialised                      *)
(*   chans      the list of signal channels: the thread that reads each    *)
(*   pipe, got  the values in a thread's channel, and those it has read    *)
(*   full       values that found a thread's channel full                  *)
(*   sig        the signal a thread is sending: value and next channel     *)
(*   vals       signals sent so far; a signal's value is its number        *)
(*   span       for a signal, the channels there were when it was sent,    *)
(*              and those its loop has written to                          *)
(*   bad        "no", or the illegal state the code has run into           *)
(***************************************************************************)
EXTENDS SequencesExt, Naturals

CONSTANTS Http,       \* the HTTP workers
          N,          \* sections of the host
          MaxSignals, \* bound on the signals
          PipeCap     \* values that fit in a channel

ASSUME LauncherAssumption ==
    /\ N \in Nat \ {0} /\ PipeCap \in Nat \ {0} /\ MaxSignals \in Nat
    /\ \A i \in 1..N : <<"user", i>> \notin Http

VARIABLES conf, services, loaded, state, master, loadat, pc, at, globals,
          chans, pipe, got, full, sig, vals, span, bad

lists == <<conf, services, loaded, state, master, loadat>>
threads == <<pc, at, globals>>
signals == <<chans, pipe, got, full, sig, vals, span>>
vars == <<lists, threads, signals, bad>>

Svcs == 1..N
User(i) == <<"user", i>>       \* the thread spawned by service i
Threads == Http \cup {User(i) : i \in Svcs}
Section(file, main, spawns) == [file |-> file, main |-> main, spawns |-> spawns]
Sections == {Section("ok", 0, TRUE), Section("ok", 0, FALSE), Section("ok", 1, FALSE),
             Section("missing", 0, FALSE), Section("broken", 0, FALSE)}
NoSignal == [val |-> 0, next |-> 0]
Fine == bad = "no" /\ master # "exited"

\* duda_conf_vhost_init: every section is in both lists.
Init ==
    /\ conf \in [Svcs -> Sections]
    /\ services = [i \in Svcs |-> i] /\ loaded = services /\ state = [i \in Svcs |-> "listed"]
    /\ master = "load" /\ loadat = 1
    /\ pc = [t \in Threads |-> "unborn"] /\ at = [t \in Threads |-> 0] /\ globals = [t \in Threads |-> {}]
    /\ chans = <<>> /\ pipe = [t \in Threads |-> <<>>] /\ got = [t \in Threads |-> <<>>]
    /\ full = [t \in Threads |-> {}] /\ sig = [t \in Threads |-> NoSignal] /\ vals = 0
    /\ span = [v \in 1..MaxSignals |-> [from |-> 0, done |-> 0]] /\ bad = "no"

Place(i) == SelectInSeq(services, LAMBDA x : x = i)
After(i) == IF Place(i) = Len(services) THEN 0 ELSE services[Place(i) + 1]
Loading(i) == Fine /\ master = "load" /\ loadat = i
Advance(i) == IF After(i) = 0 THEN loadat' = 0 /\ master' = "messages"
              ELSE loadat' = After(i) /\ master' = master

\* duda_load_services: a service that cannot be loaded is unlinked from the
\* host's list, and freed.
ServiceMissing(i) ==
    /\ Loading(i) /\ conf[i].file = "missing"
    /\ Advance(i) /\ state' = [state EXCEPT ![i] = "freed"]
    /\ services' = RemoveAt(services, Place(i))
    /\ UNCHANGED <<conf, loaded, threads, signals, bad>>

\* Mutant: the lists of the service are left for its first use to set.
LoadedLazily(i) == IF conf[i].spawns THEN "listed" ELSE "registered"

\* What duda_main returned decides whether its lists are set.
Loaded(i) == IF conf[i].main = 0 THEN "registered" ELSE "refused"

\* duda_service_register: duda_main, and at the end
\* duda_worker_spawn_all.
duda_service_register(i) ==
    /\ Loading(i) /\ conf[i].file = "ok"
    /\ Advance(i) /\ state' = [state EXCEPT ![i] = Loaded(i)]
    /\ pc' = IF conf[i].main = 0 /\ conf[i].spawns THEN [pc EXCEPT ![User(i)] = "new"] ELSE pc
    /\ UNCHANGED <<conf, services, loaded, at, globals, signals, bad>>

\* A library that is no service ends the process.
ServiceBroken(i) ==
    /\ Loading(i) /\ conf[i].file = "broken" /\ master' = "exited"
    /\ UNCHANGED <<conf, services, loaded, state, loadat, threads, signals, bad>>

\* duda_master_init goes on: duda_conf_messages_to for the services that
\* asked for it, found by the list services_loaded.
MasterMessages ==
    /\ Fine /\ master = "messages" /\ master' = "mutex"
    /\ bad' = IF \E i \in Range(loaded) : state[i] = "freed" THEN "freed service" ELSE bad
    /\ UNCHANGED <<conf, services, loaded, state, loadat, threads, signals>>

Holder == {t \in Threads : pc[t] = "locked"}

\* Its last line initialises the mutex of duda_worker_init.
MasterMutex ==
    /\ Fine /\ master = "mutex" /\ master' = "up"
    /\ bad' = IF Holder # {} THEN "mutex in use" ELSE bad
    /\ pc' = [t \in Threads |-> IF t \in Http THEN "new" ELSE pc[t]]
    /\ UNCHANGED <<conf, services, loaded, state, loadat, at, globals, signals>>

\* duda_worker_init: the lists of the thread are made; it takes the mutex.
WorkerLock(t) ==
    /\ Fine /\ pc[t] = "new" /\ Holder = {} /\ pc' = [pc EXCEPT ![t] = "locked"]
    /\ UNCHANGED <<lists, at, globals, signals, bad>>

\* Its channel joins the list, and it starts on the services.
WorkerChannel(t) ==
    /\ Fine /\ pc[t] = "locked" /\ chans' = Append(chans, t)
    /\ pc' = [pc EXCEPT ![t] = IF services = <<>> THEN "up" ELSE "walk"]
    /\ at' = [at EXCEPT ![t] = IF services = <<>> THEN 0 ELSE Head(services)]
    /\ UNCHANGED <<lists, globals, pipe, got, full, sig, vals, span, bad>>

\* _thread_globals_init and _thread_worker_pre_loop of one service and of
\* its packages.
WorkerGlobals(t) ==
    LET i == at[t] IN
    /\ Fine /\ pc[t] = "walk"
    /\ IF state[i] # "registered"
       THEN /\ bad' = IF state[i] = "freed" THEN "freed service" ELSE "null list"
            /\ UNCHANGED threads
       ELSE /\ globals' = [globals EXCEPT ![t] = @ \cup {i}] /\ at' = [at EXCEPT ![t] = After(i)]
            /\ pc' = IF After(i) = 0 THEN [pc EXCEPT ![t] = "up"] ELSE pc
            /\ UNCHANGED bad
    /\ UNCHANGED <<lists, signals>>

\* duda_event_signal enters its loop over the channels.
Signal(t) ==
    /\ Fine /\ pc[t] = "up" /\ sig[t] = NoSignal /\ vals < MaxSignals /\ chans # <<>>
    /\ vals' = vals + 1 /\ sig' = [sig EXCEPT ![t] = [val |-> vals + 1, next |-> 1]]
    /\ span' = [span EXCEPT ![vals + 1].from = Len(chans)]
    /\ UNCHANGED <<lists, threads, chans, pipe, got, full, bad>>

\* Mutant: a full channel ends the loop.
NextChannelStops(k) == IF Len(pipe[chans[k]]) < PipeCap /\ k < Len(chans) THEN k + 1 ELSE 0

\* The channel after the k-th in the loop, 0 at the end of the list.
NextChannel(k) == IF k < Len(chans) THEN k + 1 ELSE 0

\* Mutant: the channel blocks, a full one makes the writer wait.
SignalWriteBlocks(t) ==
    LET s == sig[t]
        r == chans[s.next] IN
    /\ Fine /\ s # NoSignal /\ Len(pipe[r]) < PipeCap
    /\ pipe' = [pipe EXCEPT ![r] = Append(@, s.val)]
    /\ sig' = [sig EXCEPT ![t] = IF NextChannel(s.next) = 0 THEN NoSignal
                                 ELSE [@ EXCEPT !.next = NextChannel(s.next)]]
    /\ span' = [span EXCEPT ![s.val].done = s.next]
    /\ UNCHANGED <<lists, threads, chans, got, full, vals, bad>>

\* One write of the loop: the channel does not block, a full one drops.
SignalWrite(t) ==
    LET s == sig[t]
        r == chans[s.next] IN
    /\ Fine /\ s # NoSignal
    /\ IF Len(pipe[r]) < PipeCap
       THEN pipe' = [pipe EXCEPT ![r] = Append(@, s.val)] /\ full' = full
       ELSE full' = [full EXCEPT ![r] = @ \cup {s.val}] /\ pipe' = pipe
    /\ sig' = [sig EXCEPT ![t] = IF NextChannel(s.next) = 0 THEN NoSignal
                                 ELSE [@ EXCEPT !.next = NextChannel(s.next)]]
    /\ span' = [span EXCEPT ![s.val].done = s.next]
    /\ UNCHANGED <<lists, threads, chans, got, vals, bad>>

\* A thread inside duda_event_signal is not in its event loop, and a thread
\* of the user has no loop of the server's.
Reads(t) == t \in Http /\ sig[t] = NoSignal

\* _mkp_event_read and duda_event_fd_read: one value, for the callback of
\* every service of services_loaded.  The event may never come: duda_event_add
\* returns before it registers the channel with Monkey.
duda_event_fd_read(t) ==
    /\ Fine /\ Reads(t) /\ pc[t] = "up" /\ pipe[t] # <<>>
    /\ pipe' = [pipe EXCEPT ![t] = Tail(@)] /\ got' = [got EXCEPT ![t] = Append(@, Head(pipe[t]))]
    /\ bad' = IF \E i \in Range(loaded) : state[i] = "freed" THEN "freed service"
              ELSE IF \E i \in Range(loaded) : state[i] # "registered" THEN "null list" ELSE bad
    /\ UNCHANGED <<lists, threads, chans, full, sig, vals, span>>

Next ==
    \/ MasterMessages \/ MasterMutex
    \/ \E i \in Svcs : ServiceMissing(i) \/ duda_service_register(i) \/ ServiceBroken(i)
    \/ \E t \in Threads : \/ WorkerLock(t) \/ WorkerChannel(t) \/ WorkerGlobals(t)
                          \/ Signal(t) \/ SignalWrite(t) \/ duda_event_fd_read(t)

\* The master and the threads are scheduled.  No event is owed to anybody.
Fairness ==
    /\ WF_vars(MasterMessages \/ MasterMutex)
    /\ WF_vars(\E i \in Svcs : ServiceMissing(i) \/ duda_service_register(i) \/ ServiceBroken(i))
    /\ \A t \in Threads : WF_vars(WorkerLock(t)) /\ WF_vars(WorkerChannel(t) \/ WorkerGlobals(t))
    /\ \A t \in Threads : WF_vars(SignalWrite(t))

Spec == Init /\ [][Next]_vars /\ Fairness

(***************************************************************************)
(* Properties.                                                             *)
(***************************************************************************)
Spawner(i) == conf[i].spawns /\ conf[i].main = 0 /\ conf[i].file = "ok"

\* Startup comes to grief only where the configuration lets it: a list of
\* services keeps a freed one only if a service could not be loaded; a list
\* that was never set is walked only if a duda_main failed, or a thread was
\* spawned while a later service was still to be loaded; the mutex is
\* initialised under its holder only if a service spawned a thread.
StartupSafe ==
    /\ bad = "freed service" => \E i \in Svcs : conf[i].file = "missing"
    /\ bad = "null list" => \/ \E i \in Svcs : conf[i].main # 0
                            \/ \E i, j \in Svcs : i < j /\ Spawner(i)
    /\ bad = "mutex in use" => \E i \in Svcs : Spawner(i)

\* How often v is in the sequence s.
Times(v, s) == Cardinality({j \in DOMAIN s : s[j] = v})

\* A signal is in every channel its loop has written to exactly one of read,
\* waiting, and dropped because the channel was full, and in no other; and a
\* loop that has ended wrote to every channel there was when it began, though
\* workers join the list meanwhile.
SignalOnce ==
    \A v \in 1..vals :
        /\ \A k \in DOMAIN chans :
              LET t == chans[k] IN
              Times(v, got[t] \o pipe[t]) + (IF v \in full[t] THEN 1 ELSE 0)
                = IF k <= span[v].done THEN 1 ELSE 0
        /\ (\A s \in Threads : sig[s].val # v) => span[v].done >= span[v].from

\* Every worker comes up, with the globals of every service, although the
\* threads of the services took the mutex and the lists before it, and a
\* thread that sends a signal gets out of its loop though nobody may read the
\* channels, unless something illegal stopped the process.
Stopped == bad # "no" \/ master = "exited"
WorkersComeUp ==
    /\ \A t \in Http : <>(Stopped \/ (pc[t] = "up" /\ globals[t] = Range(services)))
    /\ \A t \in Threads : sig[t] # NoSignal ~> (Stopped \/ sig[t] = NoSignal)
=============================================================================
