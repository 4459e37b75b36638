-------------------------- MODULE DthreadPipeline --------------------------
(***************************************************************************)
(* A producer and a consumer written the way the documentation of the      *)
(* channel calls suggests:                                                 *)
(*     producer:  chan_send() a number of times, chan_end(), return        *)
(*     consumer:  while (!chan_done()) chan_recv(), return                 *)
(* The worker's main context creates both, sets the roles, resumes one and *)
(* then, whenever it has the CPU, resumes a dthread that is not dead.      *)
(***************************************************************************)
EXTENDS DthreadChannel

CONSTANT Overfill   \* TRUE: main may start the producer although the
                    \* elements it sends do not all fit in the channel

ASSUME PipelineAssumption ==
    Overfill \in BOOLEAN /\ DefaultCap >= 2 /\ MaxSent >= 1 /\ Chans # {}

VARIABLES
    items,          \* how many elements the producer sends
    first           \* the dthread main resumes first

pipeVars == <<allVars, items, first>>

Producer == 0
Consumer == 1
Pipe == CHOOSE c \in Chans : TRUE

\* After create() twice, chan_create(), set_sender() and set_receiver().
PipeInit ==
    /\ cap = DefaultCap
    /\ n_dthread = 2
    /\ running_id = Main
    /\ status = [id \in Ids |-> IF id \in {Producer, Consumer} THEN "READY" ELSE "NULL"]
    /\ parent_id = [id \in Ids |-> Main]
    /\ uc_link = [id \in Ids |-> Main]
    /\ saved = {}
    /\ exec = Main
    /\ fault = "none"
    /\ \E size \in Sizes :
          chan = [c \in Chans |-> IF c = Pipe
                    THEN [Freed EXCEPT !.allocated = TRUE, !.size = Capacity(size),
                            !.sender = Producer, !.receiver = Consumer]
                    ELSE Freed]
    /\ chan_list = [id \in Ids |-> IF id = Consumer THEN {Pipe} ELSE {}]
    /\ call = [id \in Ids |-> NoCall]
    /\ sent = [c \in Chans |-> <<>>]
    /\ rcvd = [c \in Chans |-> <<>>]
    /\ chan_fault = FALSE
    /\ items \in 1 .. MaxSent
    /\ first \in {Producer, Consumer}
    /\ first = Producer /\ ~Overfill => items <= chan[Pipe].size

MainStarts ==
    /\ Running /\ exec = Main
    /\ status[Producer] = "READY" /\ status[Consumer] = "READY"
    /\ Resume(first)
    /\ UNCHANGED chanVars

MainResumes ==
    /\ Running /\ exec = Main
    /\ ~(status[Producer] = "READY" /\ status[Consumer] = "READY")
    /\ \E id \in {Producer, Consumer} : status[id] # "DEAD" /\ Resume(id)
    /\ UNCHANGED chanVars

ProducerStep ==
    /\ exec = Producer
    /\ \/ /\ Len(sent[Pipe]) < items
          /\ \E v \in Data : SendNow(Pipe, v) \/ SendFull(Pipe, v)
       \/ Len(sent[Pipe]) = items /\ ~chan[Pipe].ended /\ ChanEnd(Pipe)
       \/ chan[Pipe].ended /\ ChanSchedEnd

ConsumerStep ==
    /\ exec = Consumer
    /\ \/ ~chan[Pipe].done /\ (RecvNow(Pipe) \/ RecvEmpty(Pipe))
       \/ chan[Pipe].done /\ ChanSchedEnd

Finished == status[Producer] = "DEAD" /\ status[Consumer] = "DEAD"

\* Nothing left to do, or the process is gone.
PipeIdle == (Finished \/ ~Running) /\ UNCHANGED allVars

PipeNext ==
    /\ \/ MainStarts \/ MainResumes
       \/ ProducerStep \/ ConsumerStep
       \/ SendResumed \/ RecvResumed
       \/ PipeIdle
    /\ UNCHANGED <<items, first>>

\* The thread that runs the worker keeps executing.
PipeSpec == PipeInit /\ [][PipeNext]_pipeVars /\ WF_pipeVars(PipeNext)

(* Both dthreads return to the main context with every element received:   *)
(* the two sides, which wake each other only when the channel is full or   *)
(* empty, never wait on each other for good and never resume a dead side.  *)
PipelineCompletes ==
    <>[](Running /\ Finished /\ exec = Main /\ Len(rcvd[Pipe]) = items)
=============================================================================
