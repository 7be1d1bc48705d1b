---------------------------- MODULE FileTransfer ----------------------------
(***************************************************************************)
(* webrtc-web/app/page.tsx: files sent from one browser to another.        *)
(*                                                                         *)
(* The sender opens a data channel for the file and, when it is open, puts *)
(* a message about the file on the chat channel.  When the receiver has    *)
(* acknowledged that, it sends the file in chunks, as fast as the buffer   *)
(* of the channel allows.  The receiver answers each chunk with its size;  *)
(* when the sizes add up to the file's, the sender closes the channel, and *)
(* each side makes the file of its message of the chunks it has.           *)
(*                                                                         *)
(* Every action is one task of a page's event loop, with the promises it   *)
(* settles, or a step of the network.  Each data channel is reliable and   *)
(* ordered in each direction; different ones overtake each other.          *)
(***************************************************************************)
EXTENDS Integers, Sequences, FiniteSetsExt

CONSTANTS
  Transfers,   \* files that the sender sends to the receiver
  Size,        \* Size[t]: the size of the file
  Segment,     \* defaultFileSegmentSize: 128 KiB in the code
  Threshold    \* bufferedAmountLowThreshold: 4 MiB in the code

ASSUME SizeAssumption == Size \in [Transfers -> Nat]
ASSUME LimitsAssumption == Segment \in Nat \ {0} /\ Threshold \in Nat

VARIABLES
  broken,    \* is the connection of the peers lost?
  chat,      \* messages about files on their way on the chat channel
  acks,      \* acknowledgements on their way back
  data,      \* data[t]: pieces on their way on the channel of the file
  back,      \* back[t]: sizes on their way back, of these pieces
  send,      \* send[t]: where transmitFileViaPC is, and its channel
  buffer,    \* buffer[t]: chunks in the buffer of the sender's channel
  low,       \* low[t]: is a bufferedamountlow event queued?
  sentSize,  \* sentSize[t]: bytes of the file that have been sent
  confirmed, \* confirmed[t]: bytes the receiver has confirmed, as the sender shows
  sent,      \* sent[t]: the sender's message of the file
  recv,      \* recv[t]: the receiver's channel, and the bytes of its chunks
  message    \* message[t]: the receiver's message of the file

vars == <<broken, chat, acks, data, back, send, buffer, low, sentSize, confirmed, sent,
          recv, message>>
wire == <<chat, acks, data, back>>
receiver == <<recv, message>>
sender == <<send, buffer, low, sentSize, confirmed, sent>>

NoFile == [at |-> "none", bytes |-> 0]

\* What a channel carries: chunks, each a slice of the file from one byte up to
\* another; what opens the channel, before them, and what closes it, after them.
Slice(from, to) == [is |-> "chunk", from |-> from, to |-> to]
Open == [is |-> "open", from |-> 0, to |-> 0]
Reset(t) == [is |-> "reset", from |-> Size[t], to |-> Size[t]]

\* byteLength: all that the receiver counts of a piece, and tells the sender.
Bytes(piece) == piece.to - piece.from

Init ==
  /\ broken = FALSE
  /\ chat = <<>> /\ acks = <<>>
  /\ data = [t \in Transfers |-> <<>>] /\ back = [t \in Transfers |-> <<>>]
  /\ send = [t \in Transfers |-> [at |-> "none", dc |-> "none"]]
  /\ buffer = [t \in Transfers |-> <<>>] /\ low = [t \in Transfers |-> FALSE]
  /\ sentSize = [t \in Transfers |-> 0]
  /\ confirmed = [t \in Transfers |-> 0]
  /\ sent = [t \in Transfers |-> [acked |-> FALSE, at |-> "none"]]
  /\ recv = [t \in Transfers |-> [dc |-> "none", bytes |-> 0]]
  /\ message = [t \in Transfers |-> NoFile]

-------------------------------------------------------------------------------
(* The sender.                                                             *)

\* transmitFileViaPC: the channel is made, its onopen set.
Transmit(t) ==
  /\ ~broken /\ send[t].at = "none"
  /\ send' = [send EXCEPT ![t] = [at |-> "opening", dc |-> "connecting"]]
  /\ data' = [data EXCEPT ![t] = <<Open>>]
  /\ UNCHANGED <<broken, chat, acks, back, buffer, low, sentSize, confirmed, sent, receiver>>

\* Its onopen, with sendMsg: the message is added to the sender's own, and sent
\* on the chat channel; a timer waits for the acknowledgement.
Opened(t) ==
  /\ send[t] = [at |-> "opening", dc |-> "connecting"]
  /\ send' = [send EXCEPT ![t] = [at |-> "acking", dc |-> "open"]]
  /\ sent' = [sent EXCEPT ![t].at = "loading"]
  /\ chat' = IF broken THEN chat ELSE Append(chat, t)
  /\ UNCHANGED <<broken, acks, data, back, buffer, low, sentSize, confirmed, receiver>>

\* The timer of listenForAck: the promise is rejected, the listener removed.
AckTimeout(t) ==
  /\ send[t].at = "acking"
  /\ send' = [send EXCEPT ![t].at = "rejected"]
  /\ UNCHANGED <<broken, wire, buffer, low, sentSize, confirmed, sent, receiver>>

\* bufferedAmount: the bytes in the buffer, from its first to its last.
BufferedAmount(t) ==
  IF buffer[t] = <<>> THEN 0 ELSE buffer[t][Len(buffer[t])].to - buffer[t][1].from

\* doSendChunk: up to where the file may be sent, given the free space. It stays
\* the same as the chunks go, since each takes its size of the free space.
\* Mutant: without the byte more than there is free.
LimitThatFits(offset, size, free) == Min({size, offset + free})
\* Mutant: whole segments, whatever is free.
LimitOfSegments(offset, size, free) == Min({size, offset + (free \div Segment + 1) * Segment})
Limit(offset, size, free) == Min({size, offset + free + 1})

\* doSendChunks: chunks of a segment each, and the rest, for as long as the buffer
\* is not above its threshold. The last takes it above, so that
\* bufferedamountlow will be fired.
Slices(offset, size, free) ==
  LET limit == Limit(offset, size, free)
  IN [k \in 1..((limit - offset + Segment - 1) \div Segment) |->
        Slice(offset + (k - 1) * Segment, Min({offset + k * Segment, limit}))]

\* A channel that has closed takes nothing, but one chunk counts as sent.
SendChunks(t) ==
  LET slices == Slices(sentSize[t], Size[t], Threshold - BufferedAmount(t))
      counted == IF send[t].dc = "open" THEN Len(slices) ELSE 1
  IN /\ buffer' = IF send[t].dc = "open" THEN [buffer EXCEPT ![t] = @ \o slices] ELSE buffer
     /\ sentSize' = IF slices = <<>> THEN sentSize
                    ELSE [sentSize EXCEPT ![t] = slices[counted].to]

\* An acknowledgement: the message is marked in any case, and the listener that
\* waits for it, if any, ends: transmitFileData starts. From now on the sender
\* listens to what comes back on the channel of the file, and to its closing.
\* Mutant: a listener takes the acknowledgement of any message.
AcknowledgedAny ==
  /\ acks # <<>>
  /\ acks' = Tail(acks)
  /\ sent' = [sent EXCEPT ![Head(acks)].acked = TRUE]
  /\ \E t \in Transfers :
       /\ send[t].at = "acking"
       /\ send' = [send EXCEPT ![t].at = "sending"]
       /\ SendChunks(t)
  /\ UNCHANGED <<broken, chat, data, back, low, confirmed, receiver>>
Acknowledged ==
  /\ acks # <<>>
  /\ LET t == Head(acks)
     IN /\ acks' = Tail(acks)
        /\ sent' = [sent EXCEPT ![t].acked = TRUE]
        /\ IF send[t].at = "acking"
           THEN /\ send' = [send EXCEPT ![t].at = "sending"]
                /\ SendChunks(t)
           ELSE UNCHANGED <<send, buffer, sentSize>>
  /\ UNCHANGED <<broken, chat, data, back, low, confirmed, receiver>>

\* onbufferedamountlow.
BufferedAmountLow(t) ==
  /\ low[t]
  /\ low' = [low EXCEPT ![t] = FALSE]
  /\ SendChunks(t)
  /\ UNCHANGED <<broken, wire, send, confirmed, sent, receiver>>

\* A size comes back. If the sender does not listen yet nobody hears of it; else
\* it is added to what has been confirmed, and if that is all, the channel is closed.
Feedback(t) ==
  /\ send[t].dc = "open" /\ back[t] # <<>> /\ Head(back[t]).is # "reset"
  /\ back' = [back EXCEPT ![t] = Tail(@)]
  /\ IF send[t].at = "sending"
     THEN /\ confirmed' = [confirmed EXCEPT ![t] = @ + Bytes(Head(back[t]))]
          /\ send' = IF confirmed'[t] >= Size[t] THEN [send EXCEPT ![t].dc = "closing"] ELSE send
     ELSE UNCHANGED <<confirmed, send>>
  /\ UNCHANGED <<broken, chat, acks, data, buffer, low, sentSize, sent, receiver>>

\* The channel's onclose or onerror at the sender, which are set when it
\* transmits the data: closeDCById takes the file itself for its message.
SenderCloses(t, error) ==
  /\ send' = [send EXCEPT ![t].dc = "closed"]
  /\ sent' = IF send[t].at = "sending" /\ sent[t].at = "loading"
             THEN [sent EXCEPT ![t].at = IF error THEN "failed" ELSE "done"] ELSE sent

-------------------------------------------------------------------------------
(* The receiver.                                                           *)

\* The message about a file: it is added, and acknowledged.
Receive ==
  /\ chat # <<>>
  /\ chat' = Tail(chat)
  /\ message' = [message EXCEPT ![Head(chat)].at = "loading"]
  /\ acks' = Append(acks, Head(chat))
  /\ UNCHANGED <<broken, data, back, sender, recv>>

\* ondatachannel and onopen: an entry without data, and the size 0 goes back.
Announced(t) ==
  /\ data[t] # <<>> /\ Head(data[t]).is = "open"
  /\ data' = [data EXCEPT ![t] = Tail(@)]
  /\ recv' = [recv EXCEPT ![t] = [dc |-> "open", bytes |-> 0]]
  /\ back' = [back EXCEPT ![t] = Append(@, Open)]
  /\ UNCHANGED <<broken, chat, acks, sender, message>>

\* A chunk, and its size goes back.
\* Mutant: the size goes back twice.
ReceiveChunkTwice(t) ==
  /\ data[t] # <<>> /\ Head(data[t]).is = "chunk"
  /\ data' = [data EXCEPT ![t] = Tail(@)]
  /\ recv' = [recv EXCEPT ![t].bytes = @ + Bytes(Head(data[t]))]
  /\ back' = [back EXCEPT ![t] = @ \o <<Head(data[t]), Head(data[t])>>]
  /\ UNCHANGED <<broken, chat, acks, sender, message>>
ReceiveChunk(t) ==
  /\ data[t] # <<>> /\ Head(data[t]).is = "chunk"
  /\ data' = [data EXCEPT ![t] = Tail(@)]
  /\ recv' = [recv EXCEPT ![t].bytes = @ + Bytes(Head(data[t]))]
  /\ back' = [back EXCEPT ![t] = Append(@, Head(data[t]))]
  /\ UNCHANGED <<broken, chat, acks, sender, message>>

\* closeDCById: the message of the channel, if there is one that has not been
\* closed, gets the file that the chunks make.
ReceiverCloses(t, error) ==
  /\ recv' = [recv EXCEPT ![t] = [dc |-> "closed", bytes |-> 0]]
  /\ message' = IF message[t].at = "loading"
                THEN [message EXCEPT ![t] = [at |-> IF error THEN "failed" ELSE "done",
                                             bytes |-> recv[t].bytes]]
                ELSE message

-------------------------------------------------------------------------------
(* The network and its channels.                                           *)

\* A chunk leaves the buffer; if its bytes no longer are more than the
\* threshold an event is due.
Drain(t) ==
  /\ ~broken /\ buffer[t] # <<>>
  /\ buffer' = [buffer EXCEPT ![t] = Tail(@)]
  /\ data' = [data EXCEPT ![t] = Append(@, Head(buffer[t]))]
  /\ low' = [low EXCEPT ![t] =
               @ \/ (BufferedAmount(t) > Threshold /\ BufferedAmount(t)' <= Threshold)]
  /\ UNCHANGED <<broken, chat, acks, back, send, sentSize, confirmed, sent, receiver>>

\* close() at the sender: what is in the buffer is sent first.
SendReset(t) ==
  /\ ~broken /\ send[t].dc = "closing" /\ buffer[t] = <<>>
  /\ send' = [send EXCEPT ![t].dc = "resetting"]
  /\ data' = [data EXCEPT ![t] = Append(@, Reset(t))]
  /\ UNCHANGED <<broken, chat, acks, back, buffer, low, sentSize, confirmed, sent, receiver>>

\* The receiver's channel closes, and the sender's when it hears of that.
ReceiveReset(t) ==
  /\ data[t] # <<>> /\ Head(data[t]).is = "reset"
  /\ data' = [data EXCEPT ![t] = Tail(@)]
  /\ ReceiverCloses(t, FALSE)
  /\ back' = [back EXCEPT ![t] = Append(@, Reset(t))]
  /\ UNCHANGED <<broken, chat, acks, sender>>
ResetAnswered(t) ==
  /\ send[t].dc = "resetting" /\ back[t] # <<>>
  /\ back' = [back EXCEPT ![t] = Tail(@)]
  /\ IF Head(back[t]).is = "reset" THEN SenderCloses(t, FALSE) ELSE UNCHANGED <<send, sent>>
  /\ UNCHANGED <<broken, chat, acks, data, buffer, low, sentSize, confirmed, receiver>>

\* The connection is lost, and everything on its way. Each page learns of it for
\* each of its channels, with an error or without.
Break ==
  /\ ~broken
  /\ broken' = TRUE
  /\ chat' = <<>> /\ acks' = <<>>
  /\ data' = [t \in Transfers |-> <<>>] /\ back' = [t \in Transfers |-> <<>>]
  /\ UNCHANGED <<sender, receiver>>
SenderLoses(t) ==
  /\ broken /\ send[t].dc \notin {"none", "closed"}
  /\ \E error \in BOOLEAN : SenderCloses(t, error)
  /\ UNCHANGED <<broken, wire, buffer, low, sentSize, confirmed, receiver>>
ReceiverLoses(t) ==
  /\ broken /\ recv[t].dc = "open"
  /\ \E error \in BOOLEAN : ReceiverCloses(t, error)
  /\ UNCHANGED <<broken, wire, sender>>

-------------------------------------------------------------------------------

Step(t) ==
  \/ Opened(t) \/ AckTimeout(t) \/ BufferedAmountLow(t) \/ Feedback(t)
  \/ Announced(t) \/ ReceiveChunk(t)
  \/ Drain(t) \/ SendReset(t) \/ ReceiveReset(t) \/ ResetAnswered(t)
  \/ SenderLoses(t) \/ ReceiverLoses(t)

Next ==
  \/ \E t \in Transfers : Transmit(t) \/ Step(t)
  \/ Receive \/ Acknowledged
  \/ Break

Spec == Init /\ [][Next]_vars

\* The event loops run their tasks and the network delivers.
Fairness ==
  /\ WF_vars(Receive) /\ WF_vars(Acknowledged)
  /\ \A t \in Transfers :
       /\ WF_vars(Opened(t)) /\ WF_vars(BufferedAmountLow(t)) /\ WF_vars(Feedback(t))
       /\ WF_vars(Announced(t)) /\ WF_vars(ReceiveChunk(t))
       /\ WF_vars(Drain(t)) /\ WF_vars(SendReset(t)) /\ WF_vars(ReceiveReset(t))
       /\ WF_vars(ResetAnswered(t)) /\ WF_vars(SenderLoses(t)) /\ WF_vars(ReceiverLoses(t))

FairSpec == Spec /\ Fairness

-------------------------------------------------------------------------------
(* Properties.                                                             *)

ChannelStates == {"none", "connecting", "open", "closing", "resetting", "closed"}

\* Chunks of a file that are not empty, and of a segment at most.
Chunks(t) ==
  {piece \in [is : {"chunk"}, from : 0..Size[t], to : 0..Size[t]] : Bytes(piece) \in 1..Segment}

\* The pages' state and what is on the wire; the buffer of a channel is never
\* above its threshold by more than the byte that brings the event
\* (page.tsx:1231-1265).
TypeOK ==
  /\ broken \in BOOLEAN
  /\ chat \in Seq(Transfers) /\ acks \in Seq(Transfers)
  /\ \A t \in Transfers : /\ data[t] \in Seq(Chunks(t) \cup {Open, Reset(t)})
                          /\ back[t] \in Seq(Chunks(t) \cup {Open, Reset(t)})
                          /\ buffer[t] \in Seq(Chunks(t)) /\ BufferedAmount(t) <= Threshold + 1
                          /\ sentSize[t] \in 0..Size[t]
                          /\ confirmed[t] \in 0..Size[t]
  /\ send \in [Transfers -> [at : {"none", "opening", "acking", "rejected", "sending"},
                             dc : ChannelStates]]
  /\ low \in [Transfers -> BOOLEAN]
  /\ sent \in [Transfers -> [acked : BOOLEAN, at : {"none", "loading", "done", "failed"}]]
  /\ recv \in [Transfers -> [dc : {"none", "open", "closed"}, bytes : Nat]]
  /\ message \in [Transfers -> [at : {"none", "loading", "done", "failed"}, bytes : Nat]]

\* When the receiver's channel has closed its message is there and has the whole
\* file, whatever overtakes what on the chat channel and the channel of the file;
\* if the connection was lost before, the message, if there is one, has at least
\* the bytes that the sender shows as confirmed, and none that were not sent.  A
\* transfer that was given up sends nothing, whenever its acknowledgement comes
\* (page.tsx:633-681, 744-773, 1166-1180, 1213-1218, 1340-1347).
FilesArriveWhole ==
  \A t \in Transfers :
    /\ recv[t].dc = "closed" /\ ~broken => message[t] = [at |-> "done", bytes |-> Size[t]]
    /\ recv[t].dc = "closed" /\ message[t].at # "none" =>
         message[t].at # "loading" /\ confirmed[t] <= message[t].bytes
    /\ message[t].bytes <= sentSize[t]
    /\ send[t].at = "rejected" => sentSize[t] = 0 /\ recv[t].bytes = 0

\* What the sender shows is true: a message that is marked as acknowledged is at
\* the receiver (types.ts:212-214), progress is of bytes the receiver has, and what
\* the receiver has was sent (page.tsx:546-572, 794-806, 1212-1214).
ProgressHonest ==
  \A t \in Transfers :
    /\ sent[t].acked => message[t].at # "none"
    /\ recv[t].dc = "open" => /\ confirmed[t] <= recv[t].bytes
                             /\ recv[t].bytes <= sentSize[t]

\* A file that is being sent arrives, unless the connection is lost or the file
\* is empty: the sender never waits for an event that is not fired, nor for
\* sizes that were told while it did not listen (page.tsx:1182-1270).  Whatever
\* happens, the receiver's message does not stay without its file, but for such a
\* file, one that was given up before its acknowledgement came, and one whose
\* channel the loss of the connection kept from opening (page.tsx:744-773, 1335-1347).
TransfersEnd ==
  \A t \in Transfers :
    /\ send[t].at = "sending" /\ Size[t] > 0
         ~> broken \/ (sent[t].at = "done" /\ message[t].at = "done")
    /\ message[t].at = "loading" /\ Size[t] > 0
         ~> \/ message[t].at \in {"done", "failed"} \/ send[t].at = "rejected"
            \/ broken /\ recv[t].dc = "none"

\* README.md:192, "Zero-byte files are handled explicitly": an empty file that is
\* being sent arrives, unless the connection is lost.
EmptyFilesEnd ==
  \A t \in Transfers :
    send[t].at = "sending" /\ Size[t] = 0
      ~> broken \/ (sent[t].at = "done" /\ message[t].at = "done")
==============================================================================
