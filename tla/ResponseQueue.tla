--------------------------- MODULE ResponseQueue ---------------------------
(***************************************************************************)
(* The body of an HTTP response on its way to the socket: the response     *)
(* object (lib/objects/duda_response.c), the outgoing queue                *)
(* (lib/duda_queue.c), the files in it (lib/duda_sendfile.c) and the start *)
(* and end of a request (duda_service_run and duda_service_end of          *)
(* lib/duda_old_launcher.c).  All of it runs in the worker thread that     *)
(* owns the connection: the service's calls come from its callbacks, the   *)
(* write events from the event loop, in any order.                         *)
(*                                                                         *)
(* Monkey, the HTTP server, is external: it starts requests on a           *)
(* connection, delivers write events while the socket is not asleep, takes *)
(* part of a file, or none, at each sendfile, and closes connections at    *)
(* any time.                                                               *)
(***************************************************************************)
EXTENDS Integers, Sequences, SequencesExt

CONSTANTS
    Reqs,       \* the duda_request_t contexts, one per connection
    Sizes,      \* the sizes of the files a service sends
    Far,        \* the offsets past every file that a service may ask for
    MaxFiles,   \* bound of the model: files open for a connection
    MaxEnds,    \* bound of the model: how often one request is ended
    IntMax,     \* INT_MAX, 2^31 - 1 in the builds the code is made for
    ULongMax,   \* ULONG_MAX, 2^64 - 1
    Drops       \* TRUE: a sendfile may fail, on a full socket for one

ASSUME QueueAssumption ==
    /\ Sizes \subseteq 0 .. ULongMax
    /\ Far \subseteq Nat
    /\ MaxFiles \in Nat
    /\ MaxEnds \in Nat
    /\ IntMax \in Nat \ {0}
    /\ ULongMax \in Nat /\ ULongMax > IntMax
    /\ Drops \in BOOLEAN

VARIABLES
    phase,          \* the connection: idle between requests, open, or closed
    queue_out,      \* dr->queue_out
    events_write,   \* the requests in the worker's list of write events
    headers,        \* headers.status, _st_http_headers_off and _sent
    end_callback,   \* dr->end_callback: as reset, or what end() was given
    asleep,         \* the connections that are in the mode DUDA_EVENT_SLEEP
    aborted,        \* abort() was called
    fds,            \* the file descriptors opened for dr and not closed
    flushed,        \* history: no file was added since the last flush
    wire,           \* history: the file each byte on the wire belongs to
    lost,           \* history: bytes given up after an error
    total,          \* history: bytes of the files that were added
    ends,           \* history: how often this request has been ended
    leaked,         \* history: descriptors dropped with a queue, unclosed
    stale           \* history: requests registered for a request before them

vars == <<phase, queue_out, events_write, headers, end_callback, asleep,
          aborted, fds, flushed, wire, lost, total, ends, leaked,
          stale>>

\* A new item: bytes pending of a file that has left more of them from its
\* offset on; far when the offset does not fit an unsigned.
Item(file, pending, left, far) ==
    [file |-> file, pending |-> pending, left |-> left, far |-> far,
     active |-> TRUE]

Up(r) == ~aborted /\ phase[r] = "open"

Init ==
    /\ phase = [r \in Reqs |-> "idle"]
    /\ queue_out = [r \in Reqs |-> <<>>]
    /\ events_write = {}
    /\ headers = [r \in Reqs |-> "unset"]
    /\ end_callback = [r \in Reqs |-> "unset"]
    /\ asleep = {}
    /\ aborted = FALSE
    /\ fds = [r \in Reqs |-> 0]
    /\ flushed = [r \in Reqs |-> FALSE]
    /\ wire = [r \in Reqs |-> <<>>]
    /\ lost = [r \in Reqs |-> 0]
    /\ total = [r \in Reqs |-> 0]
    /\ ends = [r \in Reqs |-> 0]
    /\ leaked = [r \in Reqs |-> 0]
    /\ stale = {}

\* duda_service_run, up to the service's callback.  It does not ask whether
\* the request before was ended (end() does not end it): the queue is made
\* empty without closing the files in it, and the list of write events is
\* left as it is.
ServiceRun(r) ==
    /\ ~aborted /\ phase[r] # "closed"
    /\ phase' = [phase EXCEPT ![r] = "open"]
    /\ queue_out' = [queue_out EXCEPT ![r] = <<>>]
    /\ headers' = [headers EXCEPT ![r] = "unset"]
    /\ end_callback' = [end_callback EXCEPT ![r] = "unset"]
    /\ flushed' = [flushed EXCEPT ![r] = FALSE]
    /\ wire' = [wire EXCEPT ![r] = <<>>]
    /\ lost' = [lost EXCEPT ![r] = 0]
    /\ total' = [total EXCEPT ![r] = 0]
    /\ ends' = [ends EXCEPT ![r] = 0]
    /\ leaked' = [leaked EXCEPT ![r] = @ + Len(queue_out[r])]
    /\ stale' = stale \cup ({r} \cap events_write)
    /\ UNCHANGED <<events_write, asleep, aborted, fds>>

\* What is pending of all the items,
Total(queue) ==
    LET length[i \in 0 .. Len(queue)] ==
            IF i = 0 THEN 0 ELSE length[i - 1] + queue[i].pending
    IN  length[Len(queue)]

\* ... which the code adds up in an unsigned long.
duda_queue_length(queue) == Total(queue) % (ULongMax + 1)

-----------------------------------------------------------------------------
(***************************************************************************)
(* sendfile() and sendfile_range().                                        *)
(***************************************************************************)
\* The value an offset, which is not negative, has as an unsigned.
Unsigned(offset) == offset % (2 * (IntMax + 1))

\* The checks of duda_sendfile_new on the range: of an offset that does not
\* fit an unsigned they see the low bits only.
InFile(size, offset, count) ==
    /\ Unsigned(offset) <= size
    /\ count <= size
    /\ Unsigned(offset) + count <= size

\* A count of 0 stands for the rest of the file, in an unsigned long.
Pending(size, offset, count) ==
    IF count = 0 THEN (size - offset) % (ULongMax + 1) ELSE count

duda_queue_add(item, queue) == Append(queue, item)

Sendfile(r, size, offset, count) ==
    /\ Up(r)
    /\ fds[r] < MaxFiles
    /\ InFile(size, offset, count)
    /\ LET pending == Pending(size, offset, count)
           left    == IF offset < size THEN size - offset ELSE 0
           item    == Item(Len(queue_out[r]) + 1, pending, left,
                           Unsigned(offset) # offset)
           queue   == duda_queue_add(item, queue_out[r]) IN
       /\ queue_out' = [queue_out EXCEPT ![r] = queue]
       /\ total' = [total EXCEPT ![r] = @ + pending]
    /\ fds' = [fds EXCEPT ![r] = @ + 1]
    /\ flushed' = [flushed EXCEPT ![r] = FALSE]
    /\ UNCHANGED <<phase, events_write, headers, end_callback, asleep,
                   aborted, wire, lost, ends, leaked, stale>>

\* The range is not in the file, or the file cannot be opened: -1.
SendfileRefused(r) == Up(r) /\ UNCHANGED vars

-----------------------------------------------------------------------------
(***************************************************************************)
(* Flushing.                                                               *)
(***************************************************************************)
\* The value an int has after the assignment of n.
AsInt(n) ==
    LET m == n % (2 * (IntMax + 1))
    IN  IF m > IntMax THEN m - 2 * (IntMax + 1) ELSE m

\* The first active item of the queue, 0 when there is none.
FirstActive(queue) == SelectInSeq(queue, LAMBDA item : item.active)

\* What socket_send_file may return for an item: -1, or some of its bytes.
Results(item) ==
    (IF Drops THEN {-1} ELSE {}) \cup
    (0 .. IF item.left < item.pending THEN item.left ELSE item.pending)

\* Mutant: a partial write is taken for the whole file.
AfterSendAll(item, n) == 0

\* duda_sendfile_flush: what is pending after the call returned n.
AfterSend(item, n) == IF n = -1 THEN 0 ELSE item.pending - n

\* Mutant: the item stays active when it is done.
FlushedKept(queue, n) ==
    LET i == FirstActive(queue)
    IN  [queue EXCEPT ![i].pending = AfterSend(queue[i], n),
                      ![i].left = IF n > 0 THEN @ - n ELSE @]

\* The queue after its first active item was flushed.
Flushed(queue, n) ==
    LET i == FirstActive(queue)
        p == AfterSend(queue[i], n)
    IN  [queue EXCEPT ![i].pending = p,
                      ![i].left = IF n > 0 THEN @ - n ELSE @,
                      ![i].active = AsInt(p) # 0]

\* Mutant: a request that still has bytes to send is not registered.
RegisteredNever(r, len) == events_write \ {r}

\* register_write and unregister_write.
Registered(r, len) ==
    IF len > 0 THEN events_write \cup {r} ELSE events_write \ {r}

\* What reached the wire, and what was given up.
Account(r, n) ==
    LET item == queue_out[r][FirstActive(queue_out[r])] IN
    /\ wire' = [wire EXCEPT ![r] = @ \o [k \in 1 .. (IF n > 0 THEN n ELSE 0) |-> item.file]]
    /\ lost' = [lost EXCEPT ![r] = @ + (IF n = -1 THEN item.pending ELSE 0)]
    /\ UNCHANGED total

\* duda_queue_flush as response.flush() calls it: one item is tried.
Flush(r) ==
    /\ Up(r)
    /\ FirstActive(queue_out[r]) # 0
    /\ \E n \in Results(queue_out[r][FirstActive(queue_out[r])]) :
          LET queue == Flushed(queue_out[r], n) IN
          /\ queue_out' = [queue_out EXCEPT ![r] = queue]
          /\ events_write' = Registered(r, duda_queue_length(queue))
          /\ Account(r, n)
    /\ flushed' = [flushed EXCEPT ![r] = TRUE]
    /\ stale' = stale \ {r}
    /\ UNCHANGED <<phase, headers, end_callback, asleep, aborted, fds, ends, leaked>>

\* ... and with no active item, which leaves the registration alone.
FlushNothing(r) ==
    /\ Up(r)
    /\ FirstActive(queue_out[r]) = 0
    /\ flushed' = [flushed EXCEPT ![r] = TRUE]
    /\ UNCHANGED <<phase, queue_out, events_write, headers, end_callback,
                   asleep, aborted, fds, wire, lost, total, ends, leaked, stale>>

(***************************************************************************)
(* duda_service_end, after a flush that left queue: the end callback runs, *)
(* the queue and its files are released, and Monkey either keeps the       *)
(* connection for the next request or closes it.                           *)
(***************************************************************************)
\* Mutant: duda_queue_free does not close the files.
ServiceEndUnclosed(r, queue) ==
    /\ queue_out' = [queue_out EXCEPT ![r] = <<>>]
    /\ ends' = [ends EXCEPT ![r] = @ + 1]
    /\ \E p \in {"idle", "closed"} : phase' = [phase EXCEPT ![r] = p]
    /\ stale' = stale \cup ({r} \cap events_write')
    /\ UNCHANGED fds

ServiceEnd(r, queue) ==
    /\ queue_out' = [queue_out EXCEPT ![r] = <<>>]
    /\ fds' = [fds EXCEPT ![r] = @ - Len(queue)]
    /\ ends' = [ends EXCEPT ![r] = @ + 1]
    /\ \E p \in {"idle", "closed"} : phase' = [phase EXCEPT ![r] = p]
    /\ stale' = stale \cup ({r} \cap events_write')

\* Mutant: one flush is taken to be enough.
GoesOnNever(len) == FALSE

\* The int that duda_queue_flush returns is positive: wait for more events.
GoesOn(len) == AsInt(len) > 0

\* duda_queue_event_write_callback, sendfile having returned n.
WriteEventResult(r, n) ==
    LET queue == Flushed(queue_out[r], n)
        len   == duda_queue_length(queue) IN
    /\ events_write' = Registered(r, len)
    /\ Account(r, n)
    /\ flushed' = [flushed EXCEPT ![r] = TRUE]
    /\ \/ /\ GoesOn(len)
          /\ queue_out' = [queue_out EXCEPT ![r] = queue]
          /\ stale' = stale \ {r}
          /\ UNCHANGED <<phase, fds, ends>>
       \/ ~GoesOn(len) /\ ServiceEnd(r, queue)
    /\ UNCHANGED <<headers, end_callback, asleep, aborted, leaked>>

WriteEventReady(r) ==
    /\ ~aborted /\ phase[r] # "closed"
    /\ r \in events_write \ asleep

WriteEvent(r) ==
    /\ WriteEventReady(r)
    /\ FirstActive(queue_out[r]) # 0
    /\ \E n \in Results(queue_out[r][FirstActive(queue_out[r])]) :
          WriteEventResult(r, n)

\* The bytes of an item that sendfile can still send.
Sendable(item) == item.pending <= item.left

\* A write event at which sendfile, with bytes of the file to offer, takes at
\* least one of them, or fails.
WriteProgress(r) ==
    /\ WriteEventReady(r)
    /\ FirstActive(queue_out[r]) # 0
    /\ LET item == queue_out[r][FirstActive(queue_out[r])] IN
       /\ Sendable(item)
       /\ \E n \in Results(item) :
             (n = 0 => item.pending = 0) /\ WriteEventResult(r, n)

\* A write event for a registered request with nothing to send: it is ended.
WriteEventNothing(r) ==
    /\ WriteEventReady(r)
    /\ FirstActive(queue_out[r]) = 0
    /\ ends[r] < MaxEnds
    /\ UNCHANGED events_write
    /\ ServiceEnd(r, queue_out[r])
    /\ UNCHANGED <<headers, end_callback, asleep, aborted,
                   flushed, wire, lost, total, leaked>>

-----------------------------------------------------------------------------
(***************************************************************************)
(* The other calls of the response object.                                 *)
(***************************************************************************)
SetHeaders(r, value) ==
    /\ headers' = [headers EXCEPT ![r] = value]
    /\ UNCHANGED <<phase, queue_out, events_write, asleep, aborted, fds,
                   flushed, wire, lost, total, ends, leaked, stale>>

HttpStatus(r) ==
    /\ Up(r) /\ headers[r] = "unset"
    /\ SetHeaders(r, "status")
    /\ UNCHANGED end_callback

HeadersOff(r) ==
    /\ Up(r)
    /\ SetHeaders(r, "off")
    /\ UNCHANGED end_callback

\* The callback set no status: abort().
AbortProcess ==
    /\ aborted' = TRUE
    /\ UNCHANGED <<phase, queue_out, events_write, headers, end_callback,
                   asleep, fds, flushed, wire, lost, total, ends, leaked, stale>>

\* send_headers(): with headers off, or sent already, nothing is sent; Monkey
\* may also refuse them.
SentHeaders(r) == IF headers[r] = "status" THEN {"status", "sent"} ELSE {headers[r]}

SendHeaders(r) ==
    /\ Up(r)
    /\ IF headers[r] = "unset"
       THEN AbortProcess
       ELSE /\ \E value \in SentHeaders(r) : SetHeaders(r, value)
            /\ UNCHANGED end_callback

\* end(): sets the callback and sends the headers.  The calls that would
\* flush the queue and end the request are commented out.
End(r, cb) ==
    /\ Up(r)
    /\ IF headers[r] = "unset"
       THEN AbortProcess
       ELSE /\ \E value \in SentHeaders(r) : SetHeaders(r, value)
            /\ end_callback' = [end_callback EXCEPT ![r] = cb]

Wait(r) ==
    /\ Up(r)
    /\ asleep' = asleep \cup {r}
    /\ UNCHANGED <<phase, queue_out, events_write, headers, end_callback,
                   aborted, fds, flushed, wire, lost, total, ends, leaked, stale>>

Continue(r) ==
    /\ ~aborted
    /\ r \in asleep
    /\ asleep' = asleep \ {r}
    /\ UNCHANGED <<phase, queue_out, events_write, headers, end_callback,
                   aborted, fds, flushed, wire, lost, total, ends, leaked, stale>>

\* The client is gone.  mkp_event_close does nothing.
Close(r) ==
    /\ ~aborted /\ phase[r] # "closed"
    /\ phase' = [phase EXCEPT ![r] = "closed"]
    /\ UNCHANGED <<queue_out, events_write, headers, end_callback, asleep,
                   aborted, fds, flushed, wire, lost, total, ends, leaked, stale>>

Next ==
    \E r \in Reqs :
        \/ ServiceRun(r)
        \/ \E size \in Sizes :
              \E offset \in (0 .. size) \cup Far : \E count \in 0 .. size :
                 Sendfile(r, size, offset, count)
        \/ SendfileRefused(r)
        \/ Flush(r) \/ FlushNothing(r)
        \/ WriteEvent(r) \/ WriteEventNothing(r)
        \/ HttpStatus(r) \/ HeadersOff(r) \/ SendHeaders(r)
        \/ \E cb \in {"null", "func"} : End(r, cb)
        \/ Wait(r) \/ Continue(r)
        \/ Close(r)

(***************************************************************************)
(* A socket in the worker's poll set that can be written to gets its write *)
(* event, again and again, and takes at least a byte of what it is offered *)
(* (or fails); a service that waits also continues.                        *)
(***************************************************************************)
Fairness ==
    \A r \in Reqs :
        /\ SF_vars(WriteProgress(r))
        /\ WF_vars(WriteEventNothing(r))
        /\ WF_vars(Continue(r))

Spec     == Init /\ [][Next]_vars
FairSpec == Spec /\ Fairness

-----------------------------------------------------------------------------
(***************************************************************************)
(* Properties.                                                             *)
(***************************************************************************)

(* The fields of the requests and of the items hold values of their types. *)
TypeOK ==
    /\ phase \in [Reqs -> {"idle", "open", "closed"}]
    /\ \A r \in Reqs : \A i \in 1 .. Len(queue_out[r]) :
          queue_out[r][i] \in [file : 1 .. MaxFiles, pending : Nat, left : Nat,
                              far : BOOLEAN, active : BOOLEAN]
    /\ events_write \subseteq Reqs
    /\ headers \in [Reqs -> {"unset", "status", "off", "sent"}]
    /\ end_callback \in [Reqs -> {"unset", "null", "func"}]
    /\ asleep \subseteq Reqs
    /\ aborted \in BOOLEAN
    /\ fds \in [Reqs -> 0 .. MaxFiles]
    /\ flushed \in [Reqs -> BOOLEAN]
    /\ lost \in [Reqs -> Nat]
    /\ total \in [Reqs -> Nat]
    /\ ends \in [Reqs -> Nat]
    /\ leaked \in [Reqs -> Nat]
    /\ stale \subseteq Reqs

(* The bytes of the files reach the socket in the order in which the files *)
(* were added, although files are added while earlier ones are half sent   *)
(* and sends are cut short or fail.                                        *)
InOrder ==
    \A r \in Reqs : \A i, j \in 1 .. Len(wire[r]) :
        i < j => wire[r][i] <= wire[r][j]

(* While the request is open every byte that was added is on the wire,     *)
(* pending in the queue, or was given up after an error: a partial send    *)
(* loses and repeats nothing.                                              *)
BytesConserved ==
    \A r \in Reqs : phase[r] = "open" =>
        Len(wire[r]) + lost[r] + Total(queue_out[r]) = total[r]

(* What is pending of a file is in the file: sendfile never has to wait    *)
(* for bytes past its end, which would keep the response open for good.    *)
(* The exception is an offset that the cast to unsigned cuts short: the    *)
(* checks of duda_sendfile_new then are about another range.               *)
RangeInFile ==
    \A r \in Reqs : \A i \in 1 .. Len(queue_out[r]) :
        LET item == queue_out[r][i]
        IN  item.active /\ ~item.far => item.pending <= item.left

(* A request in the list of write events has a byte to send, or more of    *)
(* them than an int can count, or it was left there by a request that      *)
(* duda_service_run replaced, or that was ended with more to send than an  *)
(* int can count.  So nothing else ends a request a second time, or ends   *)
(* the next request of a connection on behalf of the one before.           *)
RegisteredHasPending ==
    \A r \in events_write \ stale :
        \/ Total(queue_out[r]) > IntMax
        \/ \E i \in 1 .. Len(queue_out[r]) :
              queue_out[r][i].active /\ queue_out[r][i].pending > 0

(* Once the service has flushed, an open request with bytes to send is in  *)
(* the list of write events: its bytes are not forgotten in the queue.     *)
NoLostWakeup ==
    \A r \in Reqs :
        phase[r] = "open" /\ flushed[r] /\ duda_queue_length(queue_out[r]) > 0
            => r \in events_write

(* The open file descriptors of a request are those of its queue: what     *)
(* duda_service_end releases is closed, once, and no descriptor is lost    *)
(* but the ones in a queue that duda_service_run makes empty.              *)
FilesAccounted == \A r \in Reqs : fds[r] = Len(queue_out[r]) + leaked[r]

(* An open request is ended only when nothing is pending any more ("once   *)
(* the response object finish flushing the pending data"), or more than an *)
(* int can count: the comparison of a truncated length with 0 goes wrong   *)
(* nowhere else, whoever left the registration behind.                     *)
EndAfterFlush ==
    [][\A r \in Reqs :
          ends'[r] > ends[r] /\ phase[r] = "open" =>
              LET rest == total'[r] - (Len(wire'[r]) + lost'[r])
              IN  rest = 0 \/ rest > IntMax]_vars

(* The bytes of a request that waits for write events eventually leave the *)
(* queue, or its connection closes: the flushing of several files, one at  *)
(* an event, never gets stuck, but on a range past the end of its file.    *)
QueueDrains ==
    \A r \in Reqs :
        r \in events_write /\ phase[r] = "open"
            ~> \/ Total(queue_out[r]) = 0 \/ phase[r] # "open" \/ aborted
               \/ \E i \in 1 .. Len(queue_out[r]) : ~Sendable(queue_out[r][i])

(* A request is ended only with every byte of its files sent ("Multiple    *)
(* files can be enqueued, all of them are send in order").                 *)
AllSent ==
    [][\A r \in Reqs :
          ends'[r] > ends[r] => Len(wire'[r]) = total'[r]]_vars

(* What is sent is right: every byte that was added is sent once and in    *)
(* order, is still queued, or was given up after an error.                 *)
BytesKept == TypeOK /\ InOrder /\ BytesConserved

(* The list of write events follows the queues, whoever flushes them: a    *)
(* request in it has something to send, and one with something to send is  *)
(* in it.                                                                  *)
EventsFollowQueue == RegisteredHasPending /\ NoLostWakeup

(* The files of a request: their ranges are inside them, but for offsets   *)
(* past 32 bits, and each is closed when it has left the queue, but for    *)
(* the queue of a request that was replaced.                               *)
FilesKept == RangeInFile /\ FilesAccounted
=============================================================================
