---------------------------- MODULE MessageFlow -----------------------------
(***************************************************************************)
(* The messages of one peer on their way through the node: the socket      *)
(* thread receives them into vProcessMsg, the message thread takes them    *)
(* from there one at a time and pushes what it answers to vSendMsg, and    *)
(* both queues are limited by pausing: fPauseRecv stops the receiving,     *)
(* fPauseSend the processing (net.cpp, net_processing.cpp).                *)
(*                                                                         *)
(* A request is a getdata for some blocks or another message with some     *)
(* answers.  The requests have size 1, the answers a size that may exceed  *)
(* the limit of the queue, and the two directions of the connection hold a *)
(* limited number of messages.                                             *)
(***************************************************************************)
EXTENDS Integers, Sequences, SequencesExt

CONSTANTS
    PeerRequests,  \* what the peer sends: records of getdata, n, the number of
                   \* blocks wanted or of answers, and size, that of an answer
    FloodSize,     \* nReceiveFloodSize
    SendMax,       \* nSendBufferMaxSize
    SocketBuffer   \* what the connection holds in each direction

ASSUME FlowAssumption ==
    /\ PeerRequests \in Seq([getdata : BOOLEAN, n : Nat, size : Nat])
    /\ FloodSize \in Nat /\ SendMax \in Nat /\ SocketBuffer \in Nat \ {0}

VARIABLES
    peerSent,       \* the number of requests the peer has sent
    toUs, toPeer,   \* the messages in the connection
    vProcessMsg, fPauseRecv,
    vRecvGetData,   \* the blocks still to be sent
    answers,        \* what the handler of the current message has still to push
    vSendMsg, fPauseSend,
    selected,       \* what select is called for: receiving, sending or nothing
    answered        \* what the peer has received

flowVars == <<peerSent, toUs, toPeer, vProcessMsg, fPauseRecv, vRecvGetData, answers, vSendMsg,
              fPauseSend, selected, answered>>

FlowInit ==
    /\ peerSent = 0 /\ toUs = <<>> /\ toPeer = <<>>
    /\ vProcessMsg = <<>> /\ fPauseRecv = FALSE /\ vRecvGetData = <<>> /\ answers = <<>>
    /\ vSendMsg = <<>> /\ fPauseSend = FALSE
    /\ selected = "no" /\ answered = <<>>

\* The answers to the i-th request, in order.
AnswersTo(i) == [k \in 1..PeerRequests[i].n |-> <<i, k>>]

-----------------------------------------------------------------------------
(* Sending.                                                                *)

nSendSize(queue) == FoldLeft(LAMBDA size, m : size + PeerRequests[m[1]].size, 0, queue)

\* fPauseSend is left as it is.
PausedForGood(queue, sent, paused) == paused

\* SocketSendData updates fPauseSend for every message that it sends.
PausedAfter(queue, sent, paused) ==
    IF sent = 0 THEN paused ELSE nSendSize(SubSeq(queue, sent + 1, Len(queue))) > SendMax

\* SocketSendData: as much of the queue as the connection takes, if anything.
SocketSendData(queue, paused) ==
    \E sent \in 0..Len(queue) :
        /\ Len(toPeer) + sent <= SocketBuffer
        /\ sent = 0 => Len(toPeer) = SocketBuffer \/ queue = <<>>
        /\ toPeer' = toPeer \o SubSeq(queue, 1, sent)
        /\ vSendMsg' = SubSeq(queue, sent + 1, Len(queue))
        /\ fPauseSend' = PausedAfter(queue, sent, paused)

\* PushMessage: sending is paused as soon as the queue is too large, and an
\* optimistic write follows when nothing else was waiting.
PushMessage(m) ==
    LET queue == Append(vSendMsg, m)
        paused == fPauseSend \/ nSendSize(queue) > SendMax
    IN  IF vSendMsg = <<>> THEN SocketSendData(queue, paused)
        ELSE vSendMsg' = queue /\ fPauseSend' = paused /\ UNCHANGED toPeer

-----------------------------------------------------------------------------
(* The socket thread.                                                      *)

\* "If there is data to send, select() for sending data", otherwise for
\* receiving if there is space left.
SelectFor == IF vSendMsg # <<>> THEN "send" ELSE IF ~ fPauseRecv THEN "recv" ELSE "no"

Select ==
    /\ selected = "no"
    /\ selected' = SelectFor
    /\ UNCHANGED <<peerSent, toUs, toPeer, vProcessMsg, fPauseRecv, vRecvGetData, answers,
                   vSendMsg, fPauseSend, answered>>

\* The socket is ready, or select times out.
ReceiveMsgBytes ==
    /\ selected = "recv" /\ selected' = "no"
    /\ \E n \in 0..Len(toUs) :
          /\ n = 0 => toUs = <<>>
          /\ toUs' = SubSeq(toUs, n + 1, Len(toUs))
          /\ vProcessMsg' = vProcessMsg \o SubSeq(toUs, 1, n)
          /\ fPauseRecv' = IF n = 0 THEN fPauseRecv ELSE Len(vProcessMsg) + n > FloodSize
    /\ UNCHANGED <<peerSent, toPeer, vRecvGetData, answers, vSendMsg, fPauseSend, answered>>

Send ==
    /\ selected = "send" /\ selected' = "no"
    /\ SocketSendData(vSendMsg, fPauseSend)
    /\ UNCHANGED <<peerSent, toUs, vProcessMsg, fPauseRecv, vRecvGetData, answers, answered>>

-----------------------------------------------------------------------------
(* ProcessMessages.                                                        *)

\* ProcessGetData, which stops after each block.
ProcessGetData ==
    /\ answers = <<>> /\ vRecvGetData # <<>> /\ ~ fPauseSend
    /\ vRecvGetData' = Tail(vRecvGetData)
    /\ PushMessage(Head(vRecvGetData))
    /\ UNCHANGED <<peerSent, toUs, vProcessMsg, fPauseRecv, answers, selected, answered>>

\* "this maintains the order of responses", and "don't bother if send buffer
\* is too full to respond anyway".
MayTake == vRecvGetData = <<>> /\ ~ fPauseSend

ProcessMessage ==
    /\ answers = <<>> /\ MayTake /\ vProcessMsg # <<>>
    /\ vProcessMsg' = Tail(vProcessMsg)
    /\ fPauseRecv' = (Len(vProcessMsg) - 1 > FloodSize)
    /\ LET i == Head(vProcessMsg)
       IN  IF PeerRequests[i].getdata
             THEN vRecvGetData' = vRecvGetData \o AnswersTo(i) /\ UNCHANGED answers
             ELSE answers' = AnswersTo(i) /\ UNCHANGED vRecvGetData
    /\ UNCHANGED <<peerSent, toUs, toPeer, vSendMsg, fPauseSend, selected, answered>>

\* A handler pushes all that it has to say, paused or not.
Answer ==
    /\ answers # <<>>
    /\ answers' = Tail(answers)
    /\ PushMessage(Head(answers))
    /\ UNCHANGED <<peerSent, toUs, vProcessMsg, fPauseRecv, vRecvGetData, selected, answered>>

-----------------------------------------------------------------------------
(* The peer sends when there is room, and reads.                           *)

PeerSend ==
    /\ peerSent < Len(PeerRequests) /\ Len(toUs) < SocketBuffer
    /\ peerSent' = peerSent + 1
    /\ toUs' = Append(toUs, peerSent + 1)
    /\ UNCHANGED <<toPeer, vProcessMsg, fPauseRecv, vRecvGetData, answers, vSendMsg,
                   fPauseSend, selected, answered>>

PeerRead ==
    /\ toPeer # <<>>
    /\ toPeer' = Tail(toPeer)
    /\ answered' = Append(answered, Head(toPeer))
    /\ UNCHANGED <<peerSent, toUs, vProcessMsg, fPauseRecv, vRecvGetData, answers,
                   vSendMsg, fPauseSend, selected>>

SocketThread == Select \/ ReceiveMsgBytes \/ Send
MessageThread == ProcessGetData \/ ProcessMessage \/ Answer

FlowNext == SocketThread \/ MessageThread \/ PeerSend \/ PeerRead

FlowSpec == FlowInit /\ [][FlowNext]_flowVars

\* Both threads run, and the peer goes on sending and reading.
FlowFairness ==
    /\ WF_flowVars(SocketThread) /\ WF_flowVars(MessageThread)
    /\ WF_flowVars(PeerSend) /\ WF_flowVars(PeerRead)

-----------------------------------------------------------------------------
AllAnswers == FlattenSeq([i \in 1..Len(PeerRequests) |-> AnswersTo(i)])

\* Every request of a peer that goes on sending and reading is answered, and in
\* order: the pauses of receiving and of sending end and never wait for each other,
\* although a getdata is left half done when the send buffer is full and other
\* messages wait.
AllAnswered == peerSent > 0 ~> answered = AllAnswers
=============================================================================
