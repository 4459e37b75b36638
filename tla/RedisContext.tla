---------------------------- MODULE RedisContext ----------------------------
(***************************************************************************)
(* A connected redisContext (packages/redis/hiredis.c) and the server at   *)
(* its other end.  The client formats commands into obuf and writes it in  *)
(* pieces; bytes come back in pieces and go through the reader.  A         *)
(* blocking context loops in redisGetReply, any other is driven by read    *)
(* and write events.  The server is external: it decodes what arrives with *)
(* the same grammar and answers every command with one of Answers.         *)
(*                                                                         *)
(*   obuf, rd      c->obuf and c->reader                                   *)
(*   issued        commands appended, delivered the replies handed out     *)
(*   failing       a command whose formatting failed, None before          *)
(*   up, down      bytes on the wire, to and from the server               *)
(*   got           the commands the server has decoded                     *)
(*   answered      its replies; open is FALSE once it closed the           *)
(*                 connection                                              *)
(*   gpc           where a blocking redisGetReply stands; "aborted" and    *)
(*                 "wild" once the formatting hit its assertion or ran     *)
(*                 beyond the end of the format                            *)
(***************************************************************************)
EXTENDS RedisFormat, RedisNet

CONSTANTS Commands,    \* commands the client may issue
          MaxCommands, \* commands it issues at most
          Answers,     \* the replies the server may give
          WriteSizes,  \* bytes one write may take, and one read may return
          ReadSizes    \* (at most what there is; the code reads up to 2048)

VARIABLES obuf, rd, issued, failing, delivered, up, down, got, answered, open, gpc

ctxVars == <<obuf, rd, issued, failing, delivered, up, down, got, answered, open, gpc>>
vars == <<netVars, ctxVars>>

\* What a reply looks like on the wire (external: the redis protocol).
RECURSIVE Encode(_)
Encode(reply) ==
    CASE reply.type = "nil" -> <<"$", "-", "1", CR, LF>>
      [] reply.type = "integer" -> <<":">> \o sdsfromlonglong(reply.val) \o <<CR, LF>>
      [] reply.type = "status" -> <<"+">> \o reply.val \o <<CR, LF>>
      [] reply.type = "error" -> <<"-">> \o reply.val \o <<CR, LF>>
      [] reply.type = "string" ->
            <<"$">> \o Digits(Len(reply.val)) \o <<CR, LF>> \o reply.val \o <<CR, LF>>
      [] reply.type = "array<0" -> <<"*">> \o sdsfromlonglong(reply.val) \o <<CR, LF>>
      [] reply.type = "array" ->
            <<"*">> \o Digits(Len(reply.val)) \o <<CR, LF>>
            \o FlattenSeq([i \in 1..Len(reply.val) |-> Encode(reply.val[i])])

RECURSIVE Depth(_)
Depth(reply) ==
    IF reply.type # "array" THEN 0
    ELSE 1 + Max({0} \cup {Depth(reply.val[i]) : i \in 1..Len(reply.val)})

\* redisContextInit
Init ==
    /\ NetInit
    /\ obuf = sdsempty /\ rd = redisReaderCreate
    /\ issued = <<>> /\ failing = None /\ delivered = <<>> /\ up = <<>> /\ down = <<>> /\ got = <<>>
    /\ answered = <<>> /\ open = TRUE /\ gpc = "idle"

Connect == NetNext /\ UNCHANGED ctxVars

\* The first event of a context that does not block finds the connection
\* refused after all (redisCheckSocketError called by async.c).
ConnectFailsLate ==
    /\ up = <<>> /\ got = <<>> /\ down = <<>> /\ rd = redisReaderCreate /\ gpc = "idle"
    /\ NetFailLate
    /\ UNCHANGED ctxVars

\* redisvAppendCommand and redisAppendCommandArgv, the first half of
\* redisvCommand and redisCommandArgv: a format the code does not know is
\* reported as out of memory.
redisvAppendCommand ==
    /\ connected /\ gpc = "idle" /\ cerr = "none" /\ Len(issued) < MaxCommands
    /\ \E command \in Commands :
         \E f \in {redisvFormatCommand(Spelled(command), Varargs(command)),
                   redisFormatCommandArgv(Meaning(command))} :
            IF f.k = "ok"
            THEN /\ obuf' = sdscatlen(obuf, f.cmd) /\ issued' = Append(issued, command)
                 /\ UNCHANGED <<netVars, failing, gpc>>
            ELSE /\ failing' = command
                 /\ IF f.k = "err" THEN SetError("oom") /\ UNCHANGED gpc
                    ELSE gpc' = f.k /\ UNCHANGED netVars
                 /\ UNCHANGED <<obuf, issued>>
    /\ UNCHANGED <<rd, delivered, up, down, got, answered, open>>

\* redisBufferWrite moves n bytes, or fails; EAGAIN is n = 0.
redisBufferWrite ==
    /\ connected /\ cerr = "none" /\ sdslen(obuf) > 0
    /\ gpc \in (IF how.block THEN {"writing"} ELSE {"idle"})
    /\ \/ \E n \in {Min({size, sdslen(obuf)}) : size \in WriteSizes} :
            /\ up' = up \o SubSeq(obuf.buf, 1, n)
            /\ obuf' = IF n = sdslen(obuf) THEN sdsempty ELSE sdsrange(obuf, n, -1)
            /\ gpc' = IF how.block /\ n = sdslen(obuf) THEN "reading" ELSE gpc
            /\ UNCHANGED netVars
       \/ /\ ~open /\ SetError("io") /\ gpc' = "idle" /\ UNCHANGED <<up, obuf>>
    /\ UNCHANGED <<rd, issued, failing, delivered, down, got, answered, open>>

\* redisGetReplyFromReader: the reader's error becomes the context's.
GetReplyFromReader(r, more) ==
    \E g \in {redisReaderGetReply(r)} :
        /\ rd' = g.r
        /\ IF g.r.err # "none" THEN SetError(g.r.err) /\ gpc' = "idle" /\ UNCHANGED delivered
           ELSE /\ delivered' = IF g.reply = None THEN delivered ELSE Append(delivered, g.reply)
                /\ gpc' = IF g.reply = None THEN more ELSE "idle"
                /\ UNCHANGED netVars

\* redisBufferRead reads a piece and feeds it; a blocking context tries the
\* reader at once.
redisBufferRead ==
    /\ connected /\ cerr = "none"
    /\ gpc \in (IF how.block THEN {"reading"} ELSE {"idle"})
    /\ \/ \E n \in {Min({size, Len(down)}) : size \in ReadSizes} \ {0} :
            \E fed \in {redisReaderFeed(rd, SubSeq(down, 1, n))} :
                /\ down' = SubSeq(down, n + 1, Len(down))
                /\ IF how.block THEN GetReplyFromReader(fed, "reading")
                   ELSE rd' = fed /\ UNCHANGED <<netVars, delivered, gpc>>
       \/ /\ down = <<>> /\ ~open
          /\ SetError("eof") /\ gpc' = "idle" /\ UNCHANGED <<down, rd, delivered>>
    /\ UNCHANGED <<obuf, issued, failing, up, got, answered, open>>

\* redisGetReply first asks the reader; without a reply a blocking context
\* writes and then reads until there is one.  Nothing says that a command
\* was issued before.
redisGetReply ==
    /\ connected /\ cerr = "none" /\ gpc = "idle"
    /\ GetReplyFromReader(rd, IF ~how.block THEN "idle"
                              ELSE IF sdslen(obuf) > 0 THEN "writing" ELSE "reading")
    /\ UNCHANGED <<obuf, issued, failing, up, down, got, answered, open>>

\* External: the server takes the next complete command off the wire and
\* answers it.
Serve ==
    /\ open
    /\ \E g \in {redisReaderGetReply(redisReaderFeed(redisReaderCreate, up))} :
           /\ g.reply # None
           /\ up' = Unread(g.r)
           /\ got' = Append(got, [i \in 1..Len(g.reply.val) |-> g.reply.val[i].val])
    /\ \E a \in Answers : answered' = Append(answered, a) /\ down' = down \o Encode(a)
    /\ UNCHANGED <<netVars, obuf, rd, issued, failing, delivered, open, gpc>>

ServerCloses ==
    /\ connected /\ open /\ open' = FALSE
    /\ UNCHANGED <<netVars, obuf, rd, issued, failing, delivered, up, down, got, answered, gpc>>

\* redisFree
redisFree ==
    /\ gpc = "idle" /\ (cerr # "none" \/ Len(delivered) = MaxCommands)
    /\ NetClose /\ UNCHANGED ctxVars

Next ==
    \/ Connect \/ ConnectFailsLate \/ redisvAppendCommand \/ redisBufferWrite \/ redisBufferRead
    \/ redisGetReply \/ Serve \/ ServerCloses \/ redisFree

Spec == Init /\ [][Next]_vars

(***************************************************************************)
(* However reads and writes cut the stream, the server decodes exactly the *)
(* arguments the callers meant, in the order the commands were issued: the *)
(* scan of the format finds every conversion and its argument again, and   *)
(* the room computed for a command is the room it takes (the assertion of  *)
(* hiredis.c never fails).  Three things go otherwise in the code: a       *)
(* conversion too long for _format is sent as its own text, an unknown one *)
(* fails the call, and behind one that the end of the format cuts off the  *)
(* scan leaves the format.                                                 *)
(***************************************************************************)
Has(command, Kind(_)) == \E p \in Range(Parts(command)) : Kind(p)

CommandsIntact ==
    /\ Len(got) <= Len(issued)
    /\ \A i \in 1..Len(got) : got[i] = Meaning(issued[i]) \/ Has(issued[i], Long)
    /\ gpc # "aborted"
    /\ gpc = "wild" => Has(failing, Unended)
    /\ failing # None => Has(failing, Unended) \/ Has(failing, Unknown)

(***************************************************************************)
(* However the answers are cut, the reader hands out exactly the replies   *)
(* the server sent, in order; with no byte left on the wire or unparsed it *)
(* has handed out all of them.  Only an answer nested deeper than the task *)
(* stack makes it fail.                                                    *)
(***************************************************************************)
RepliesIntact ==
    /\ IsPrefix(delivered, answered)
    /\ rd.err # "none" => \E i \in 1..Len(answered) : Depth(answered[i]) >= MaxNesting
    /\ (cerr = "none" /\ down = <<>> /\ rd.rstack = <<>> /\ Unread(rd) = <<>>)
          => delivered = answered
=============================================================================
