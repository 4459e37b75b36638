--------------------------- MODULE DthreadChannel ---------------------------
(***************************************************************************)
(* Channels between dthreads (lib/objects/duda_dthread_channel.c), on top  *)
(* of the scheduler of module Dthread.  chan_send() on a full channel and  *)
(* chan_recv() on an empty one resume the other side and, when somebody    *)
(* resumes the caller again, carry on where they were: the model keeps for *)
(* each dthread the call it is in.                                         *)
(*                                                                         *)
(* Services are assumed to keep the roles of a channel: only its sender    *)
(* sends and ends, only its receiver receives, nothing is sent after       *)
(* chan_end(), set_sender() and set_receiver() get live dthreads, no       *)
(* second receiver is set while there is one (the list node of the channel *)
(* can be in one list only), and no channel is freed, or given another     *)
(* sender, while somebody is inside a call on it.                          *)
(***************************************************************************)
EXTENDS Dthread, Sequences

CONSTANTS
    Chans,      \* the channels a service may allocate
    Sizes,      \* the sizes it passes to chan_create()
    Data,       \* the pointers it sends
    MaxSent     \* bound of the model: sends per channel

ASSUME ChanAssumption ==
    /\ Sizes \subseteq Nat
    /\ MaxSent \in Nat

VARIABLES
    chan,       \* the duda_dthread_channel_t of each channel
    chan_list,  \* dt[id]->chan_list
    call,       \* the channel call dthread id is in
    sent,       \* history: what was added to each channel
    rcvd,       \* history: what chan_recv() returned
    chan_fault  \* TRUE once chan_recv() took an element of an empty list

chanVars == <<chan, chan_list, call, sent, rcvd, chan_fault>>
allVars  == <<vars, chanVars>>

NoReceiver == -1        \* also the sender of a channel that has none

Freed == [allocated |-> FALSE, size |-> 0, bufs |-> <<>>, sender |-> -1,
          receiver |-> -1, ended |-> FALSE, done |-> FALSE]

NoCall == [op |-> "none"]
InUserCode == exec # Main => call[exec] = NoCall

Busy(c) == \E id \in Ids : call[id] # NoCall /\ call[id].chan = c

\* chan->used is the length of chan->bufs: both change together.
used(c) == Len(chan[c].bufs)

ChanInit ==
    /\ Init
    /\ chan = [c \in Chans |-> Freed]
    /\ chan_list = [id \in Ids |-> {}]
    /\ call = [id \in Ids |-> NoCall]
    /\ sent = [c \in Chans |-> <<>>]
    /\ rcvd = [c \in Chans |-> <<>>]
    /\ chan_fault = FALSE

Running == fault = "none" /\ ~chan_fault

-----------------------------------------------------------------------------
(***************************************************************************)
(* The scheduler's operations, called from user code.                      *)
(***************************************************************************)
ChanSchedCreate(id) ==
    /\ Running /\ InUserCode
    /\ Create(id)
    /\ chan_list' = [chan_list EXCEPT ![id] = {}]
    /\ call' = [call EXCEPT ![id] = NoCall]
    /\ UNCHANGED <<chan, sent, rcvd, chan_fault>>

ChanSchedSwitch ==
    /\ Running /\ InUserCode
    /\ Yield \/ \E id \in Contexts : Resume(id)
    /\ UNCHANGED chanVars

\* _duda_dthread_entry_point: the channels lose their receiver.
SeverReceivers ==
    chan' = [c \in Chans |-> IF c \in chan_list[exec]
                             THEN [chan[c] EXCEPT !.receiver = NoReceiver]
                             ELSE chan[c]]

ChanSchedEnd ==
    /\ Running /\ InUserCode
    /\ End
    /\ SeverReceivers
    /\ UNCHANGED <<chan_list, call, sent, rcvd, chan_fault>>

-----------------------------------------------------------------------------
(***************************************************************************)
(* Channels.                                                               *)
(***************************************************************************)
\* chan->size: one more than the size the service asks for.
Capacity(size) == size + 1

ChanCreate(c, size) ==
    /\ Running /\ InUserCode
    /\ ~chan[c].allocated
    /\ chan' = [chan EXCEPT ![c] = [Freed EXCEPT !.allocated = TRUE,
                                                 !.size = Capacity(size)]]
    /\ sent' = [sent EXCEPT ![c] = <<>>]
    /\ rcvd' = [rcvd EXCEPT ![c] = <<>>]
    /\ UNCHANGED <<vars, chan_list, call, chan_fault>>

\* Mutant: the channel stays in its receiver's list.
UnlinkNever(c) == chan_list

\* mk_list_del(&chan->_head), only while the channel has a receiver.
Unlink(c) == [id \in Ids |-> IF id = chan[c].receiver
                             THEN chan_list[id] \ {c} ELSE chan_list[id]]

ChanFree(c) ==
    /\ Running /\ InUserCode
    /\ chan[c].allocated
    /\ ~Busy(c)
    /\ chan_list' = Unlink(c)
    /\ chan' = [chan EXCEPT ![c] = Freed]
    /\ UNCHANGED <<vars, call, sent, rcvd, chan_fault>>

ChanSetSender(c, id) ==
    /\ Running /\ InUserCode
    /\ chan[c].allocated
    /\ ~Busy(c)
    /\ id \in Live
    /\ chan' = [chan EXCEPT ![c].sender = id]
    /\ UNCHANGED <<vars, chan_list, call, sent, rcvd, chan_fault>>

ChanSetReceiver(c, id) ==
    /\ Running /\ InUserCode
    /\ chan[c].allocated
    /\ chan[c].receiver = NoReceiver
    /\ id \in Live
    /\ chan' = [chan EXCEPT ![c].receiver = id]
    /\ chan_list' = [chan_list EXCEPT ![id] = @ \cup {c}]
    /\ UNCHANGED <<vars, call, sent, rcvd, chan_fault>>

ChanEnd(c) ==
    /\ Running /\ InUserCode
    /\ chan[c].allocated
    /\ exec # Main /\ chan[c].sender = exec
    /\ chan' = [chan EXCEPT ![c].ended = TRUE]
    /\ UNCHANGED <<vars, chan_list, call, sent, rcvd, chan_fault>>

-----------------------------------------------------------------------------
\* A call that cannot go on resumes the other side of the channel.
GiveWay(id) == Resume(id)

(***************************************************************************)
(* chan_send().  The receiver is checked once, at the start; a full        *)
(* channel resumes the receiver once, and the element is added when the    *)
(* sender runs again, whatever has happened meanwhile.                     *)
(***************************************************************************)
\* Mutant: elements are added at the front.
EnqueueFirst(c, v) ==
    /\ chan' = [chan EXCEPT ![c].bufs = <<v>> \o @]
    /\ sent' = [sent EXCEPT ![c] = Append(@, v)]

Enqueue(c, v) ==
    /\ chan' = [chan EXCEPT ![c].bufs = Append(@, v)]
    /\ sent' = [sent EXCEPT ![c] = Append(@, v)]

SendCall(c) ==
    /\ Running /\ InUserCode
    /\ chan[c].allocated
    /\ exec # Main /\ chan[c].sender = exec /\ ~chan[c].ended
    /\ Len(sent[c]) < MaxSent

SendBroken(c) ==
    /\ SendCall(c)
    /\ chan[c].receiver = NoReceiver
    /\ UNCHANGED allVars

\* Mutant: a full channel is not noticed.
SendNowUnchecked(c, v) ==
    /\ SendCall(c)
    /\ chan[c].receiver # NoReceiver
    /\ Enqueue(c, v)
    /\ UNCHANGED <<vars, chan_list, call, rcvd, chan_fault>>

SendNow(c, v) ==
    /\ SendCall(c)
    /\ chan[c].receiver # NoReceiver
    /\ used(c) # chan[c].size
    /\ Enqueue(c, v)
    /\ UNCHANGED <<vars, chan_list, call, rcvd, chan_fault>>

SendFull(c, v) ==
    /\ SendCall(c)
    /\ chan[c].receiver # NoReceiver
    /\ used(c) = chan[c].size
    /\ GiveWay(chan[c].receiver)
    /\ call' = [call EXCEPT ![exec] = [op |-> "send", chan |-> c, data |-> v]]
    /\ UNCHANGED <<chan, chan_list, sent, rcvd, chan_fault>>

SendResumed ==
    /\ Running
    /\ exec # Main
    /\ call[exec].op = "send"
    /\ Enqueue(call[exec].chan, call[exec].data)
    /\ call' = [call EXCEPT ![exec] = NoCall]
    /\ UNCHANGED <<vars, chan_list, rcvd, chan_fault>>

(***************************************************************************)
(* chan_recv().  An empty channel resumes the sender once; the first       *)
(* element is then taken whether there is one or not.                      *)
(***************************************************************************)
\* Mutant: done does not wait for chan_end().
DoneEarly(c) == Len(chan[c].bufs) = 1

\* Mutant: a channel is never done.
DoneNever(c) == FALSE

\* chan->used reaches 0 and the sender has ended.
NowDone(c) == Len(chan[c].bufs) = 1 /\ chan[c].ended

\* mk_list_entry_first on an empty list returns the list head itself.
Dequeue(c) ==
    \/ /\ chan[c].bufs = <<>>
       /\ chan_fault' = TRUE
       /\ UNCHANGED <<chan, rcvd>>
    \/ /\ chan[c].bufs # <<>>
       /\ chan' = [chan EXCEPT ![c].bufs = Tail(@),
                               ![c].done = @ \/ NowDone(c)]
       /\ rcvd' = [rcvd EXCEPT ![c] = Append(@, Head(chan[c].bufs))]
       /\ UNCHANGED chan_fault

RecvCall(c) ==
    /\ Running /\ InUserCode
    /\ chan[c].allocated
    /\ exec # Main /\ chan[c].receiver = exec

RecvNow(c) ==
    /\ RecvCall(c)
    /\ ~chan[c].done
    /\ used(c) # 0
    /\ Dequeue(c)
    /\ UNCHANGED <<vars, chan_list, call, sent>>

RecvEmpty(c) ==
    /\ RecvCall(c)
    /\ ~chan[c].done
    /\ used(c) = 0
    /\ GiveWay(chan[c].sender)
    /\ call' = [call EXCEPT ![exec] = [op |-> "recv", chan |-> c]]
    /\ UNCHANGED <<chan, chan_list, sent, rcvd, chan_fault>>

RecvDone(c) ==
    /\ RecvCall(c)
    /\ chan[c].done
    /\ Abort
    /\ UNCHANGED chanVars

RecvResumed ==
    /\ Running
    /\ exec # Main
    /\ call[exec].op = "recv"
    /\ Dequeue(call[exec].chan)
    /\ call' = [call EXCEPT ![exec] = NoCall]
    /\ UNCHANGED <<vars, chan_list, sent>>

ChanHalted == ~Running /\ UNCHANGED allVars

ChanNext ==
    \/ \E id \in Ids : ChanSchedCreate(id)
    \/ ChanSchedSwitch
    \/ ChanSchedEnd
    \/ \E c \in Chans :
          \/ \E size \in Sizes : ChanCreate(c, size)
          \/ ChanFree(c)
          \/ \E id \in Ids : ChanSetSender(c, id) \/ ChanSetReceiver(c, id)
          \/ ChanEnd(c)
          \/ SendBroken(c)
          \/ \E v \in Data : SendNow(c, v) \/ SendFull(c, v)
          \/ RecvNow(c) \/ RecvEmpty(c) \/ RecvDone(c)
    \/ SendResumed
    \/ RecvResumed
    \/ ChanHalted

ChanSpec == ChanInit /\ [][ChanNext]_allVars

-----------------------------------------------------------------------------
(***************************************************************************)
(* Properties.                                                             *)
(***************************************************************************)

(* Channels, lists and calls in progress hold values of their types.       *)
ChanTypeOK ==
    /\ chan \in [Chans ->
          [allocated : BOOLEAN, size : {0} \cup {n + 1 : n \in Sizes},
           bufs : Seq(Data), sender : Contexts, receiver : Contexts,
           ended : BOOLEAN, done : BOOLEAN]]
    /\ chan_list \in [Ids -> SUBSET Chans]
    /\ call \in [Ids -> {NoCall} \cup [op : {"recv"}, chan : Chans]
                        \cup [op : {"send"}, chan : Chans, data : Data]]
    /\ sent \in [Chans -> Seq(Data)]
    /\ rcvd \in [Chans -> Seq(Data)]
    /\ chan_fault \in BOOLEAN

(* What chan_recv() has returned followed by what is in the channel is     *)
(* what chan_send() has added, in that order, nothing twice or lost, even  *)
(* when calls are interrupted half-way and continued in any order.         *)
FifoExactlyOnce ==
    \A c \in Chans : chan[c].allocated => sent[c] = rcvd[c] \o chan[c].bufs

(* The receiver of a channel is a live dthread that has the channel in its *)
(* list: no send can find a dead receiver, which resume() would abort on.  *)
ReceiverLive ==
    fault # "stale" =>
        \A c \in Chans : chan[c].receiver # NoReceiver =>
            /\ chan[c].receiver \in Live
            /\ c \in chan_list[chan[c].receiver]

(* No live dthread's chan_list leads to a freed channel, which the entry   *)
(* point would write to when the dthread returns.                          *)
NoFreedChannel ==
    fault # "stale" =>
        \A id \in Live : \A c \in chan_list[id] : chan[c].allocated

(* A channel that reports done is ended and everything sent has been       *)
(* received: chan_done() is never early.                                   *)
DoneMeansDrained ==
    \A c \in Chans : chan[c].done =>
        chan[c].ended /\ chan[c].bufs = <<>> /\ rcvd[c] = sent[c]

(* The inductive invariant behind the properties above.  A call that was   *)
(* interrupted keeps its channel allocated and, if it is a send, open and  *)
(* with the same sender; a channel in the list of a live dthread has that  *)
(* dthread as its receiver.                                                *)
CallsKeepChannel ==
    \A id \in Ids : call[id] # NoCall =>
        /\ chan[call[id].chan].allocated
        /\ call[id].op = "send" => /\ chan[call[id].chan].sender = id
                                  /\ ~chan[call[id].chan].ended

ListsAgree ==
    /\ \A c \in Chans : ~chan[c].allocated => chan[c] = Freed
    /\ fault # "stale" =>
          \A id \in Live : \A c \in chan_list[id] : chan[c].receiver = id

ChanIInv ==
    /\ ChanTypeOK
    /\ FifoExactlyOnce
    /\ DoneMeansDrained
    /\ CallsKeepChannel
    /\ ListsAgree
    /\ ReceiverLive
    /\ NoFreedChannel

(* chan_send() adds an element only while the channel has a receiver       *)
(* ("return DTHREAD_CHANNEL_BROKEN if the other side of the pipe is        *)
(* closed, otherwise return DTHREAD_CHANNEL_OK").                          *)
SendNeedsReceiver ==
    [][\A c \in Chans :
          Len(sent'[c]) > Len(sent[c]) => chan[c].receiver # NoReceiver]_allVars

(* A channel never holds more than the size it was created with, plus the  *)
(* one element chan_create() adds ("size the buffered size of the          *)
(* channel").                                                              *)
ChanBounded == \A c \in Chans : used(c) <= chan[c].size

(* chan_recv() always has an element to return ("the front element of the  *)
(* channel").                                                              *)
RecvHasFront == ~chan_fault

(* Neither side goes past the ends of the buffer although each looks at it *)
(* before it gives way and uses it afterwards.                             *)
WithinBounds == ChanBounded /\ RecvHasFront
=============================================================================
