------------------------------ MODULE RedisNet ------------------------------
(***************************************************************************)
(* Opening the connection of a redisContext (packages/redis/net.c): one    *)
(* step per system call, which succeeds or fails as it likes.              *)
(*                                                                         *)
(*   how      what the caller asked for: TCP or a local socket, blocking   *)
(*            or not, with no timeout, a valid or an invalid one           *)
(*   netpc    the call about to be made; "ok" and "failed" are the results *)
(*   addrs    addresses of the host still to be tried                      *)
(*   sock     the descriptor in use, opened the descriptors that are open  *)
(*   cerr     c->err, cfd c->fd, connected the flag REDIS_CONNECTED        *)
(*   late     an event found the connection refused after all              *)
(*   twice    a descriptor that was closed is closed again                 *)
(***************************************************************************)
EXTENDS Naturals, FiniteSets

CONSTANT MaxAddrs      \* addresses getaddrinfo() may return

ASSUME NetAssumption == MaxAddrs \in Nat \ {0}

VARIABLES how, netpc, addrs, sock, opened, cerr, cfd, connected, late, twice

lateVars == <<late, twice>>
netVars == <<how, netpc, addrs, sock, opened, cerr, cfd, connected, lateVars>>

Ways == [kind : {"tcp", "unix"}, block : BOOLEAN, timeout : {"none", "valid", "invalid"}]

NetInit ==
    /\ how \in {w \in Ways : ~w.block => w.timeout = "none"}
    /\ netpc = IF how.kind = "tcp" THEN "resolve" ELSE "socket"
    /\ addrs = 1 /\ sock = 0 /\ opened = {} /\ cerr = "none" /\ cfd = 0
    /\ connected = FALSE /\ late = FALSE /\ twice = FALSE

\* The failing call reports e and closes the descriptor it was given.
NetFail(e) ==
    /\ netpc' = "failed" /\ cerr' = e /\ opened' = opened \ {sock}
    /\ UNCHANGED <<how, addrs, sock, cfd, connected, lateVars>>

NetGoto(l) ==
    /\ netpc' = l
    /\ UNCHANGED <<how, addrs, sock, opened, cerr, cfd, connected, lateVars>>

NetResolve ==
    /\ netpc = "resolve"
    /\ \/ NetFail("other")
       \/ /\ addrs' \in 1..MaxAddrs /\ netpc' = "socket"
          /\ UNCHANGED <<how, sock, opened, cerr, cfd, connected, lateVars>>

\* Only TCP has a list: a failing socket() is skipped, and an empty list is
\* an error.
NetSocket ==
    /\ netpc = "socket"
    /\ \/ /\ addrs = 0 /\ NetFail("other")
       \/ /\ addrs > 0 /\ addrs' = addrs - 1 /\ netpc' = "nonblock"
          /\ sock' = CHOOSE fd \in 1..MaxAddrs : fd \notin opened
          /\ opened' = opened \cup {sock'}
          /\ UNCHANGED <<how, cerr, cfd, connected, lateVars>>
       \/ /\ addrs > 0 /\ how.kind = "tcp" /\ addrs' = addrs - 1
          /\ UNCHANGED <<how, netpc, sock, opened, cerr, cfd, connected, lateVars>>
       \/ /\ addrs > 0 /\ how.kind = "unix" /\ NetFail("io")

NetSetBlocking ==
    /\ netpc \in {"nonblock", "block"}
    /\ \/ NetFail("io")
       \/ NetGoto(IF netpc = "nonblock" THEN "connect"
                  ELSE IF how.kind = "tcp" THEN "nodelay" ELSE "done")

Established ==
    IF how.block THEN "block" ELSE IF how.kind = "tcp" THEN "nodelay" ELSE "done"

\* connect() returns at once, tells of an unreachable host (which TCP skips),
\* is in progress, or fails for another reason.
NetConnect ==
    /\ netpc = "connect"
    /\ \/ NetGoto(Established)
       \/ /\ how.kind = "tcp"
          /\ netpc' = "socket" /\ opened' = opened \ {sock}
          /\ UNCHANGED <<how, addrs, sock, cerr, cfd, connected, lateVars>>
       \/ NetGoto(IF how.block THEN "wait" ELSE Established)
       \/ NetGoto("refused")

\* Mutant: a socket that does not become ready stays open.
NetWaitReadyLeaks ==
    \/ /\ netpc \in {"wait", "refused"} /\ netpc' = "failed" /\ cerr' = "io"
       /\ UNCHANGED <<how, addrs, sock, opened, cfd, connected, lateVars>>
    \/ /\ netpc = "wait" /\ how.timeout # "invalid" /\ NetGoto(Established)

\* redisContextWaitReady: an invalid timeout closes the descriptor and
\* reports nothing; then poll(), its timeout, and the error of the socket.
NetWaitReady ==
    \/ /\ netpc \in {"wait", "refused"} /\ how.timeout = "invalid" /\ NetFail(cerr)
    \/ /\ netpc = "refused" /\ how.timeout # "invalid" /\ NetFail("io")
    \/ /\ netpc = "wait" /\ how.timeout # "invalid"
       /\ \/ NetFail("io")
          \/ NetGoto(Established)

NetNoDelay ==
    /\ netpc = "nodelay"
    /\ NetFail("io") \/ NetGoto("done")

\* The locals of the connect function end with it, and nothing asks again for
\* the timeout or the kind of the socket.
NetConnected ==
    /\ netpc = "done"
    /\ netpc' = "ok" /\ cfd' = sock /\ connected' = TRUE
    /\ addrs' = 0 /\ sock' = 0 /\ how' = [how EXCEPT !.timeout = "none", !.kind = "unix"]
    /\ UNCHANGED <<opened, cerr, lateVars>>

NetNext ==
    \/ NetResolve \/ NetSocket \/ NetSetBlocking \/ NetConnect
    \/ NetWaitReady \/ NetNoDelay \/ NetConnected

(***************************************************************************)
(* What the context does with its connection later on: an error is         *)
(* recorded, and redisFree closes the descriptor.                          *)
(***************************************************************************)
SetError(e) ==
    /\ connected /\ cerr' = e
    /\ UNCHANGED <<how, netpc, addrs, sock, opened, cfd, connected, lateVars>>

\* redisCheckSocketError called by the first event of a context that does
\* not block (async.c): a refused connection is closed, but c->fd is kept.
NetFailLate ==
    /\ connected /\ ~how.block /\ cerr = "none"
    /\ cerr' = "io" /\ opened' = opened \ {cfd} /\ late' = TRUE
    /\ UNCHANGED <<how, netpc, addrs, sock, cfd, connected, twice>>

NetClose ==
    /\ connected
    /\ opened' = opened \ {cfd} /\ twice' = (cfd \notin opened)
    /\ connected' = FALSE /\ netpc' = "freed"
    /\ UNCHANGED <<how, addrs, sock, cerr, cfd, late>>

\* The connection of a context, whatever the context is used for.
NetUse == NetFailLate \/ NetClose \/ \E e \in STRING \ {"none"} : SetError(e)
NetSpec == NetInit /\ [][NetNext \/ NetUse]_netVars

(***************************************************************************)
(* However many addresses were tried and whichever call failed, a failed   *)
(* connect leaves no descriptor behind and a successful one exactly the    *)
(* one of the context, which is closed once; a failure is reported, unless *)
(* the timeout was not a valid one (net.c closes the socket of every       *)
(* failing path itself).  Only a connection refused after all is closed    *)
(* twice, by redisCheckSocketError and by redisFree.                       *)
(***************************************************************************)
ConnectSettled ==
    /\ netpc = "failed" => opened = {} /\ (cerr # "none" \/ how.timeout = "invalid")
    /\ connected => opened = IF late THEN {} ELSE {cfd}
    /\ netpc = "freed" => opened = {} /\ (twice <=> late)
    /\ late => ~how.block /\ cerr # "none"
=============================================================================
