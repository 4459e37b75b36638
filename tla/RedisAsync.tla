----------------------------- MODULE RedisAsync -----------------------------
(***************************************************************************)
(* The asynchronous redis connection (packages/redis/async.c) as a worker  *)
(* of duda drives it (packages/redis/redis.c).  Events of the socket run   *)
(* the handlers, handlers run the service's callbacks, and a callback may  *)
(* issue commands, disconnect or free the context it is called from.       *)
(*                                                                         *)
(*   flags, err    c->flags and c->err                                     *)
(*   replies       callbacks of commands without a reply, in order         *)
(*   invalid       the same for commands issued while subscribed           *)
(*   dict          sub.channels and sub.patterns                           *)
(*   obuf, ibuf    commands not yet written; replies read, not processed   *)
(*   sent, down    the wire, to and from the server                        *)
(*   srvsub, srvup names the server counts as subscribed; "up", or why it  *)
(*                 closed the connection                                   *)
(*   fate          what became of every command with a callback            *)
(*   issued        commands issued so far; a command's id is its number    *)
(*   pc            where the worker is: "loop" the event loop, "process"   *)
(*                 redisProcessCallbacks, "callback" a reply's callback,   *)
(*                 "connected" and "unconnected" the connect callback of a *)
(*                 connection that succeeded and of one that failed,       *)
(*                 "resumed" the handler behind it, "free" and "last" the  *)
(*                 walk of __redisAsyncFree and its callbacks, "freed"     *)
(*   attached      the socket is in the event loop                         *)
(*   listed        the worker's list of connections has this one           *)
(*   bad           "no", or the illegal state the code has run into:       *)
(*                 "spontaneous" and "pending" failed assertions, "stale"  *)
(*                 a callback variable that was not set, "freed" a context *)
(*                 used after its free, "undefined" a call of redisDel     *)
(*                                                                         *)
(* A reply (Answers) is [k, id, name, count]: k is "reply", "error" or the *)
(* kind of a pub/sub message, id the command it answers.                   *)
(***************************************************************************)
EXTENDS RedisDict, FiniteSets

CONSTANTS Names,       \* <<"ch", channel>> and <<"pat", pattern>>
          MaxCmds,     \* bound on the commands of a run
          MaxMessages, \* bound on the messages waiting to be read
          Careful      \* the service keeps to the rules of Allowed

Subscribing == {"subscribe", "unsubscribe"}
Answers == [k : {"reply", "error", "message"} \cup Subscribing, id : Nat \cup {None},
            name : Names \cup {None}, count : Nat]

ASSUME AsyncAssumption ==
    /\ MaxCmds \in Nat /\ None \notin Nat \cup Answers
    /\ Hash \in [Names -> Nat] /\ \A n \in Names : n[1] \in {"ch", "pat"}

VARIABLES flags, err, replies, invalid, dict, obuf, ibuf, sent, down, srvsub, srvup,
          fate, issued, pc, attached, listed, bad

ctx == <<flags, err, replies, invalid, dict, obuf, ibuf>>
server == <<sent, down, srvsub, srvup>>
worker == <<attached, listed>>
vars == <<ctx, server, fate, issued, pc, worker, bad>>

Ids == 1..MaxCmds
DictOf(n) == dict[n[1]]

\* redis_connect: the connection is under way and in the worker's list.
Init ==
    /\ flags = {} /\ err = "none" /\ replies = <<>> /\ invalid = <<>>
    /\ dict = [v \in {"ch", "pat"} |-> dictCreate]
    /\ obuf = <<>> /\ ibuf = <<>> /\ sent = <<>> /\ down = <<>>
    /\ srvsub = {} /\ srvup = "up"
    /\ fate = [i \in Ids |-> "new"] /\ issued = 0 /\ pc = "loop"
    /\ attached = FALSE /\ listed = TRUE /\ bad = "no"

Closing == flags \cap {"DISCONNECTING", "FREEING"} # {}

\* The service's code runs: before the connection is attached, and in the
\* callbacks.
InConnect == pc \in {"connected", "unconnected"}
InService == bad = "no" /\ (pc \in {"loop", "callback", "last"} \/ InConnect)

redis_attach ==
    /\ InService /\ pc = "loop" /\ ~attached /\ ~Closing /\ attached' = TRUE
    /\ UNCHANGED <<ctx, server, fate, issued, pc, listed, bad>>

(***************************************************************************)
(* Issuing a command: __redisAsyncCommand.                                 *)
(***************************************************************************)

\* A subscription command has been issued and its message has not arrived.
SubscriptionInFlight ==
    \/ \E c \in Range(obuf) \cup Range(sent) : c.op \in Subscribing
    \/ \E r \in Range(down) \cup Range(ibuf) : r.k \in Subscribing

\* A careful service has one subscription command in flight, gives up only
\* what it has, and while subscribed issues one other command at a time.
Allowed(op, n) ==
    \/ op = "command" /\ ("SUBSCRIBED" \in flags =>
                             ~SubscriptionInFlight /\ replies = <<>> /\ invalid = <<>>)
    \/ op = "subscribe" /\ ~SubscriptionInFlight /\ invalid = <<>>
    \/ op = "unsubscribe" /\ ~SubscriptionInFlight /\ invalid = <<>>
       /\ dictFind(DictOf(n), n) # None

\* Mutant: a new callback goes to the head of the list.
PushFirst(list, i) == <<i>> \o list

\* __redisPushCallback
Push(list, i) == Append(list, i)

Register(op, n, i) ==
    \/ /\ op = "subscribe"
       /\ flags' = flags \cup {"SUBSCRIBED"}
       /\ dict' = [dict EXCEPT ![n[1]] = dictReplace(@, n, i)]
       /\ UNCHANGED <<replies, invalid, fate>>
    \/ /\ op = "unsubscribe" /\ "SUBSCRIBED" \in flags
       /\ UNCHANGED <<flags, dict, replies, invalid, fate>>
    \/ /\ op = "command"
       /\ IF "SUBSCRIBED" \in flags
          THEN invalid' = Push(invalid, i) /\ UNCHANGED replies
          ELSE replies' = Push(replies, i) /\ UNCHANGED invalid
       /\ fate' = [fate EXCEPT ![i] = "waiting"] /\ UNCHANGED <<flags, dict>>

\* A command issued while the connection closes, or an unsubscribe without a
\* subscription, is refused and changes nothing.
redisAsyncCommand(op, n) ==
    /\ InService /\ (pc = "loop" => attached) /\ issued < MaxCmds
    /\ Careful => Allowed(op, n)
    /\ ~Closing
    /\ Register(op, n, issued + 1)
    /\ issued' = issued + 1
    /\ obuf' = Append(obuf, [op |-> op, id |-> issued + 1, name |-> n])
    /\ UNCHANGED <<err, ibuf, server, pc, worker, bad>>

(***************************************************************************)
(* Going down.                                                             *)
(***************************************************************************)

\* __redisAsyncDisconnect: a clean disconnect asserts that nothing is pending.
AsyncDisconnect ==
    IF err' = "none"
    THEN IF replies # <<>>
         THEN bad' = "pending" /\ UNCHANGED <<flags, pc>>
         ELSE pc' = "free" /\ UNCHANGED <<flags, bad>>
    ELSE flags' = flags \cup {"DISCONNECTING"} /\ pc' = "free" /\ UNCHANGED bad

\* redis_disconnect takes the socket out of the event loop first.  The connect
\* callback is not marked with IN_CALLBACK: the context is freed at once, and
\* the handler that called the callback goes on with it.
redis_disconnect ==
    /\ InService /\ ~Closing
    /\ attached' = FALSE
    /\ IF "IN_CALLBACK" \notin flags /\ replies = <<>>
       THEN /\ flags' = flags \cup {"DISCONNECTING"}
            /\ IF InConnect THEN bad' = "freed" /\ UNCHANGED pc
               ELSE pc' = "free" /\ UNCHANGED bad
       ELSE flags' = flags \cup {"DISCONNECTING"} /\ UNCHANGED <<pc, bad>>
    /\ UNCHANGED <<err, replies, invalid, dict, obuf, ibuf, server, fate, issued, listed>>

\* redisAsyncFree: deferred to the caller of the callback.
redisAsyncFree ==
    /\ InService /\ "FREEING" \notin flags /\ pc # "last"
    /\ flags' = flags \cup {"FREEING"}
    /\ IF "IN_CALLBACK" \in flags THEN UNCHANGED <<pc, bad>>
       ELSE IF InConnect THEN bad' = "freed" /\ UNCHANGED pc
       ELSE pc' = "free" /\ UNCHANGED bad
    /\ UNCHANGED <<err, replies, invalid, dict, obuf, ibuf, server, fate, issued, worker>>

\* redis_request_map takes the connection out of the worker's list.
redis_request_map ==
    /\ InService /\ pc = "callback" /\ listed /\ listed' = FALSE
    /\ UNCHANGED <<ctx, server, fate, issued, pc, attached, bad>>

Settle(i, r) ==
    fate' = [fate EXCEPT ![i] = CASE r = None -> "null"
                                  [] r # None /\ r.id \in {i, 0} -> "reply"
                                  [] OTHER -> "wrong"]

\* The loops of __redisAsyncFree over replies, then over invalid.
FreeRunsPending ==
    /\ bad = "no" /\ pc = "free" /\ replies \o invalid # <<>>
    /\ IF replies # <<>>
       THEN Settle(Head(replies), None) /\ replies' = Tail(replies) /\ UNCHANGED invalid
       ELSE Settle(Head(invalid), None) /\ invalid' = Tail(invalid) /\ UNCHANGED replies
    /\ flags' = flags \cup {"IN_CALLBACK"} /\ pc' = "last"
    /\ UNCHANGED <<err, dict, obuf, ibuf, server, issued, worker, bad>>

LastReturns ==
    /\ bad = "no" /\ pc = "last"
    /\ flags' = flags \ {"IN_CALLBACK"} /\ pc' = "free"
    /\ UNCHANGED <<err, replies, invalid, dict, obuf, ibuf, server, fate, issued, worker, bad>>

\* Mutant: the callbacks of the commands issued while subscribed are forgotten.
FreeEndsEarly ==
    /\ bad = "no" /\ pc = "free" /\ replies = <<>>
    /\ pc' = "freed" /\ attached' = FALSE
    /\ dict' = [v \in {"ch", "pat"} |-> dictCreate]
    /\ obuf' = <<>> /\ ibuf' = <<>>
    /\ UNCHANGED <<flags, err, replies, invalid, server, fate, issued, listed, bad>>

\* Callbacks of the subscriptions, the disconnect callback and redisFree; the
\* closed socket leaves the event loop, the list keeps its entry.
FreeEnds ==
    /\ bad = "no" /\ pc = "free" /\ replies \o invalid = <<>>
    /\ pc' = "freed" /\ attached' = FALSE
    /\ dict' = [v \in {"ch", "pat"} |-> dictCreate]
    /\ obuf' = <<>> /\ ibuf' = <<>>
    /\ UNCHANGED <<flags, err, replies, invalid, server, fate, issued, listed, bad>>

(***************************************************************************)
(* Events.  redis_read and redis_write look the connection up in the list  *)
(* and do nothing when it is not there.                                    *)
(***************************************************************************)
Event == bad = "no" /\ ((pc = "loop" /\ attached /\ listed) \/ pc = "resumed")

\* __redisAsyncHandleConnect: the first event tells whether the connection
\* was established; the connect callback is told either way.
HandleConnect ==
    /\ Event /\ "CONNECTED" \notin flags
    /\ \/ flags' = flags \cup {"CONNECTED"} /\ pc' = "connected" /\ UNCHANGED err
       \/ err' = "io" /\ pc' = "unconnected" /\ UNCHANGED flags
    /\ UNCHANGED <<replies, invalid, dict, obuf, ibuf, server, fate, issued, worker, bad>>

UnconnectedReturns ==
    /\ bad = "no" /\ pc = "unconnected" /\ err' = err /\ AsyncDisconnect
    /\ UNCHANGED <<replies, invalid, dict, obuf, ibuf, server, fate, issued, worker>>

\* The handler goes on after the connect callback: it reads or writes, with
\* or without something to do.
ConnectedReturns ==
    /\ bad = "no" /\ pc = "connected"
    /\ \/ pc' = "resumed" /\ (obuf # <<>> \/ down # <<>> \/ srvup # "up")
       \/ pc' \in {"process", "loop"}
    /\ UNCHANGED <<ctx, server, fate, issued, worker, bad>>

\* redisAsyncHandleWrite: any part of obuf, whole commands here.
HandleWrite ==
    /\ Event /\ "CONNECTED" \in flags /\ obuf # <<>>
    /\ \/ /\ srvup = "up"
          /\ \E n \in 1..Len(obuf) :
                /\ sent' = sent \o SubSeq(obuf, 1, n)
                /\ obuf' = SubSeq(obuf, n + 1, Len(obuf))
          /\ pc' = "loop" /\ UNCHANGED <<flags, err, bad>>
       \/ /\ srvup # "up" /\ err' = "io" /\ AsyncDisconnect /\ UNCHANGED <<sent, obuf>>
    /\ UNCHANGED <<replies, invalid, dict, ibuf, down, srvsub, srvup, fate, issued, worker>>

\* redisAsyncHandleRead: everything on the wire, or the end of the stream.
HandleRead ==
    /\ Event /\ "CONNECTED" \in flags
    /\ \/ /\ down # <<>>
          /\ \E n \in 1..Len(down) :
                /\ ibuf' = ibuf \o SubSeq(down, 1, n)
                /\ down' = SubSeq(down, n + 1, Len(down))
          /\ pc' = "process" /\ UNCHANGED <<flags, err, bad>>
       \/ /\ down = <<>> /\ srvup # "up" /\ err' = "eof" /\ AsyncDisconnect
          /\ UNCHANGED <<ibuf, down>>
    /\ UNCHANGED <<replies, invalid, dict, obuf, sent, srvsub, srvup, fate, issued, worker>>

\* redis_close: the event loop reports the connection closed and gives it up;
\* the worker's list forgets it, and the context stays as it is.
redis_close ==
    /\ bad = "no" /\ pc = "loop" /\ attached /\ listed /\ srvup # "up"
    /\ attached' = FALSE /\ listed' = FALSE
    /\ UNCHANGED <<ctx, server, fate, issued, pc, bad>>

\* redis_error calls redisDel, which is declared and nowhere defined.
redis_error ==
    /\ bad = "no" /\ pc = "loop" /\ attached /\ listed /\ srvup # "up"
    /\ bad' = "undefined"
    /\ UNCHANGED <<ctx, server, fate, issued, pc, worker>>

(***************************************************************************)
(* redisProcessCallbacks, one step per turn of its loop.                   *)
(***************************************************************************)

\* No reply left: the cue to disconnect, or back to the event loop.
ProcessNothing ==
    /\ bad = "no" /\ pc = "process" /\ ibuf = <<>>
    /\ IF "DISCONNECTING" \in flags /\ obuf = <<>> THEN err' = err /\ AsyncDisconnect
       ELSE pc' = "loop" /\ UNCHANGED <<flags, err, bad>>
    /\ UNCHANGED <<replies, invalid, dict, obuf, ibuf, server, fate, issued, worker>>

Take == bad = "no" /\ pc = "process" /\ ibuf # <<>> /\ ibuf' = Tail(ibuf)

RunCallback == flags' = flags \cup {"IN_CALLBACK"} /\ pc' = "callback"

\* The oldest regular callback gets the reply, whatever it is.
ProcessRegular ==
    /\ Take /\ replies # <<>>
    /\ Settle(Head(replies), Head(ibuf)) /\ replies' = Tail(replies)
    /\ RunCallback
    /\ UNCHANGED <<err, invalid, dict, obuf, server, issued, worker, bad>>

\* A reply nobody waits for, in a context that is not subscribed.
ProcessSpontaneous ==
    /\ Take /\ replies = <<>> /\ "SUBSCRIBED" \notin flags
    /\ IF Head(ibuf).k = "error" THEN err' = "other" /\ AsyncDisconnect
       ELSE bad' = "spontaneous" /\ UNCHANGED <<flags, err, pc>>
    /\ UNCHANGED <<replies, invalid, dict, obuf, server, fate, issued, worker>>

\* The last unsubscribe message ends the subscribed mode.
StillSubscribed(count) == IF count = 0 THEN flags \ {"SUBSCRIBED"} ELSE flags

\* __redisGetSubscribeCallback for a message: without an entry the variable cb
\* keeps whatever it held.
ProcessMessage ==
    /\ Take /\ replies = <<>> /\ "SUBSCRIBED" \in flags /\ Head(ibuf).id = None
    /\ LET r == Head(ibuf)
       IN  IF dictFind(DictOf(r.name), r.name) = None
           THEN bad' = "stale" /\ UNCHANGED <<flags, dict, pc>>
           ELSE /\ IF r.k = "unsubscribe"
                   THEN /\ dict' = [dict EXCEPT ![r.name[1]] = dictDelete(@, r.name)]
                        /\ flags' = StillSubscribed(r.count) \cup {"IN_CALLBACK"}
                   ELSE flags' = flags \cup {"IN_CALLBACK"} /\ UNCHANGED dict
                /\ pc' = "callback" /\ UNCHANGED bad
    /\ UNCHANGED <<err, replies, invalid, obuf, server, fate, issued, worker>>

\* The same for anything but an array: the oldest command issued meanwhile.
ProcessInvalid ==
    /\ Take /\ replies = <<>> /\ "SUBSCRIBED" \in flags /\ Head(ibuf).id # None
    /\ IF invalid = <<>> THEN bad' = "stale" /\ UNCHANGED <<flags, invalid, fate, pc>>
       ELSE /\ Settle(Head(invalid), Head(ibuf)) /\ invalid' = Tail(invalid)
            /\ RunCallback /\ UNCHANGED bad
    /\ UNCHANGED <<err, replies, dict, obuf, server, issued, worker>>

\* redisGetReply fails on a reply the reader cannot read: a disconnect.
ProcessError ==
    /\ bad = "no" /\ pc = "process" /\ ibuf # <<>> /\ ibuf' = <<>>
    /\ err' = "protocol" /\ AsyncDisconnect
    /\ UNCHANGED <<replies, invalid, dict, obuf, server, fate, issued, worker>>

\* Mutant: the flag set in the callback is not looked at.
CallbackReturnsOn ==
    /\ bad = "no" /\ pc = "callback"
    /\ flags' = flags \ {"IN_CALLBACK"} /\ pc' = "process"
    /\ UNCHANGED <<err, replies, invalid, dict, obuf, ibuf, server, fate, issued, worker, bad>>

CallbackReturns ==
    /\ bad = "no" /\ pc = "callback"
    /\ flags' = flags \ {"IN_CALLBACK"}
    /\ pc' = IF "FREEING" \in flags THEN "free" ELSE "process"
    /\ UNCHANGED <<err, replies, invalid, dict, obuf, ibuf, server, fate, issued, worker, bad>>

(***************************************************************************)
(* External: the redis server.                                             *)
(***************************************************************************)
Message(k, n, c) == [k |-> k, id |-> None, name |-> n, count |-> c]

Serve ==
    /\ srvup = "up" /\ sent # <<>> /\ sent' = Tail(sent)
    /\ LET c == Head(sent)
           now == IF c.op = "subscribe" THEN srvsub \cup {c.name} ELSE srvsub \ {c.name}
       IN  IF c.op = "command"
           THEN /\ down' = Append(down, [k |-> IF srvsub = {} THEN "reply" ELSE "error",
                                         id |-> c.id, name |-> None, count |-> 0])
                /\ UNCHANGED srvsub
           ELSE srvsub' = now /\ down' = Append(down, Message(c.op, c.name, Cardinality(now)))
    /\ UNCHANGED <<ctx, srvup, fate, issued, pc, worker, bad>>

Publish ==
    /\ srvup = "up" /\ Len(down) < MaxMessages
    /\ \E n \in srvsub : down' = Append(down, Message("message", n, 0))
    /\ UNCHANGED <<ctx, sent, srvsub, srvup, fate, issued, pc, worker, bad>>

ServerCloses ==
    /\ srvup = "up" /\ srvup' = "closed" /\ sent' = <<>> /\ UNCHANGED <<down, srvsub>>
    /\ UNCHANGED <<ctx, fate, issued, pc, worker, bad>>

\* Too many clients: an error nobody asked for, and the end of the stream.
ServerRefuses ==
    /\ srvup = "up" /\ "CONNECTED" \in flags /\ issued = 0 /\ down = <<>>
    /\ down' = <<[k |-> "error", id |-> 0, name |-> None, count |-> 0]>>
    /\ srvup' = "refused" /\ UNCHANGED <<sent, srvsub>>
    /\ UNCHANGED <<ctx, fate, issued, pc, worker, bad>>

Service ==
    \/ redis_attach \/ redis_disconnect \/ redisAsyncFree \/ redis_request_map
    \/ \E n \in Names : redisAsyncCommand("subscribe", n)
    \/ \E n \in Names : redisAsyncCommand("unsubscribe", n)
    \/ redisAsyncCommand("command", None)

Handlers ==
    \/ HandleConnect \/ HandleWrite \/ HandleRead \/ ProcessNothing \/ ProcessRegular
    \/ ProcessSpontaneous \/ ProcessMessage \/ ProcessInvalid \/ ProcessError
    \/ FreeRunsPending \/ FreeEnds

Returns == ConnectedReturns \/ UnconnectedReturns \/ CallbackReturns \/ LastReturns

Next ==
    \/ Service \/ Handlers \/ Returns \/ redis_close \/ redis_error
    \/ Serve \/ Publish \/ ServerCloses \/ ServerRefuses

(***************************************************************************)
(* A handler that runs goes on running, and callbacks return; that an      *)
(* event ever arrives is not assumed (event->add registers nothing).       *)
(***************************************************************************)
Running == pc # "loop" /\ (Handlers \/ Returns)

Fairness == WF_vars(Running)

Spec == Init /\ [][Next]_vars /\ Fairness

(***************************************************************************)
(* Properties.                                                             *)
(***************************************************************************)

\* The abstract client: pending commands in one line, the hash tables as one
\* function of the names.
Client == INSTANCE RedisClient WITH
    waiting <- replies \o invalid,
    fate <- fate,
    subs <- [n \in Names |-> IF pc = "freed" THEN None ELSE dictFind(DictOf(n), n)],
    up <- ~Closing

\* The connection implements the abstract client: whatever the service does in
\* its callbacks, commands keep their order and each callback runs once.
ImplementsClient == Client!Spec

(***************************************************************************)
(* A freed context owes nobody an answer: every callback has been run,     *)
(* with the reply of its own command or with NULL.                         *)
(***************************************************************************)
SettledWhenFreed ==
    pc = "freed" => \A i \in Ids : fate[i] \in {"new", "reply", "null"}

(***************************************************************************)
(* A careful service never meets a reply it has no callback for on a       *)
(* server that accepts it (the error of one that does not is looked up     *)
(* among the commands issued while subscribed if the service has           *)
(* subscribed meanwhile).  Its context is freed under a handler only when  *)
(* it disconnects or frees in the connect callback, never in another; and  *)
(* the assertion of a clean disconnect fails only when it has asked to     *)
(* disconnect while a command had no answer.                               *)
(***************************************************************************)
NoIllegalState ==
    /\ bad \in {"spontaneous", "stale"} => srvup = "refused"
    /\ bad = "freed" => InConnect /\ Closing
    /\ bad = "pending" => "DISCONNECTING" \in flags /\ replies # <<>>

(***************************************************************************)
(* Client and server agree on the subscriptions when no message about one  *)
(* is under way: same names, and the flag is set exactly while there are   *)
(* some.                                                                   *)
(***************************************************************************)
SubscriptionsAgree ==
    (pc = "loop" /\ srvup = "up" /\ ~SubscriptionInFlight) =>
        /\ {n \in Names : dictFind(DictOf(n), n) # None} = srvsub
        /\ ("SUBSCRIBED" \in flags) <=> (srvsub # {})

\* The context of a careful service is sound: its callbacks are the right ones
\* while it lives, and all have been run when it is freed.
ContextSound == SettledWhenFreed /\ NoIllegalState

(***************************************************************************)
(* A context that is to go is freed, whoever asked for it and wherever,    *)
(* without waiting for another event.  It stays only when the service      *)
(* disconnected with a command unwritten or unanswered: redis_disconnect   *)
(* has taken the socket out of the event loop, and nothing continues.      *)
(***************************************************************************)
ClosingEnds ==
    Closing ~> \/ pc = "freed" \/ bad # "no"
               \/ pc = "loop" /\ ~attached /\ (replies # <<>> \/ obuf # <<>>)
=============================================================================
