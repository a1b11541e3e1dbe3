---------------------------- MODULE FileTransfer ----------------------------
(***************************************************************************)
(* Assignment-3 as a whole: one Sender that serves Receivers one after the *)
(* other over a TCP connection.                                            *)
(***************************************************************************)
EXTENDS Sender, Receiver

CONSTANT MaxSessions   \* bound: how many Receivers are started

ASSUME FileTransferAssumption == MaxSessions \in Nat

VARIABLE sessions   \* connections accepted so far

vars == <<wireVars, senderVars, receiverVars, sessions>>

Init ==
    /\ WireInit
    /\ SenderInit
    /\ ReceiverInit
    /\ sessions = 0

\* A Receiver is started and its connect() is accepted.  accept() hands out a
\* socket with the congestion control its listening socket has at that moment.
Connect ==
    /\ spc = "accept"
    /\ rpc \in Stopped
    /\ sessions < MaxSessions
    /\ sessions' = sessions + 1
    /\ s2r' = <<>> /\ r2s' = <<>>
    /\ sopen' = TRUE /\ ropen' = TRUE
    /\ spc' = "size" /\ half' = 1 /\ counter' = 0 /\ fpos' = 0 /\ rounds' = 0
    /\ connCC' = listenCC
    /\ rpc' = "size" /\ rcounter' = 0 /\ marks' = <<>> /\ recvCC' = "default"
    /\ UNCHANGED <<faulty, size, mimic, listenCC, rfile>>

\* Nothing is left to do: no Receiver runs and none can be served.
Idle ==
    /\ rpc \in Stopped
    /\ spc = "exited" \/ (spc = "accept" /\ sessions = MaxSessions)
    /\ UNCHANGED vars

SenderNext   == SenderStep /\ UNCHANGED <<receiverVars, sessions>>
SenderCrash  == SenderDies /\ UNCHANGED <<receiverVars, sessions>>
ReceiverNext == ReceiverStep /\ UNCHANGED <<senderVars, sessions>>
ReceiverCrash == (ReceiverFails \/ ReceiverKilled) /\ UNCHANGED <<senderVars, sessions>>
ReceiverSpins == RecvNothing /\ UNCHANGED <<senderVars, sessions>>

Next ==
    \/ Connect
    \/ SenderNext \/ SenderCrash
    \/ ReceiverNext \/ ReceiverSpins \/ ReceiverCrash
    \/ Idle

\* Both processes are scheduled, the user of Sender answers in the end, and a
\* recv() after the peer closed fails in the end: the acknowledgement sent to
\* the closed socket resets the connection.
Fairness == WF_vars(SenderNext) /\ WF_vars(ReceiverNext)

Spec == Init /\ [][Next]_vars /\ Fairness

---------------------------------------------------------------------------
TypeOK ==
    /\ WireTypeOK
    /\ SenderTypeOK
    /\ ReceiverTypeOK
    /\ sessions \in 0..MaxSessions

\* The first n bytes of send.txt, as positions.
File(n) == [i \in 1..n |-> i]

Intact == rfile = File(size)

\* When the closing handshake is over for either side, the file is whole: the
\* server is back at accept only after the client's END, the client is done only
\* after the server's last ACK (send_end in Sender.c and in Receiver.c).  A
\* client killed before it could flush the file is the one exception.
CompletionIsSafe ==
    /\ rpc = "done" => Intact
    /\ spc = "accept" => rpc \in {"off", "killed"} \/ Intact

\* No recv() of either program can return a part of a message, two of them, or
\* another one than the code at that place handles (every strcmp after a recv).
NoMisread ==
    /\ spc \in Awaits =>
          \A n \in ReadLens(r2s, MsgLen(Expected(spc))) :
              Taken(r2s, n) = Message(Expected(spc))
    /\ rpc = "size" => \A n \in ReadLens(s2r, BufferSize) : Taken(s2r, n) = Message("SIZE")
    /\ rpc = "loop" =>
          \A n \in ReadLens(s2r, BufferSize) :
              \/ Taken(s2r, n) = Message("SEND_KEY")
              \/ Taken(s2r, n) = Message("FIN") /\ rcounter = size
              \/ Taken(s2r, n) = Chunk(rcounter, n) /\ rcounter + n <= size
    /\ rpc = "ok" => \A n \in ReadLens(s2r, MsgLen("OK")) : Taken(s2r, n) = Message("OK")
    /\ rpc = "next" =>
          \A n \in ReadLens(s2r, BufferSize) : Taken(s2r, n) \in {Message("AGAIN"), Message("END")}
    /\ rpc = "endAck" => \A n \in ReadLens(s2r, BufferSize) : Taken(s2r, n) = Message("ACK")

\* A FIN means that the file has been sent: when the client leaves its loop
\* ("File received successfully!"), it holds the whole file.
FinMeansWholeFile == rpc = "next" => Intact

\* With chunks that arrive in pieces both are still so for a session in which the
\* user has not asked for the file again, if no passage of the file reads as a
\* control string.
OneRoundIsSafe == rounds = 0 /\ mimic.as = "none" => CompletionIsSafe /\ FinMeansWholeFile

\* The even entries of time_measurements are first halves, the odd ones second
\* halves, two per round, as the comment above its declaration says.
TimingsSorted ==
    rpc = "done" =>
        /\ Len(marks) = 2 * (rounds + 1)
        /\ \A i \in DOMAIN marks : marks[i] = IF i % 2 = 1 THEN 1 ELSE 2

\* The comment holds for the files whose first half is not empty and whose
\* second half is not as long as the string SEND KEY.
UsualTimingsSorted == (size >= 2 /\ size - size \div 2 # 9) => TimingsSorted

\* The delivery as FileDelivery sees it.  Until fopen() has truncated it,
\* recv.txt still holds what the session before left.
DeliveryStatus ==
    CASE rpc = "off"  -> "idle"
      [] rpc = "done" -> "complete"
      [] rpc \in {"failed", "killed"} -> "failed"
      [] OTHER -> "receiving"

DeliveredContent == IF rpc \in {"size", "open"} THEN <<>> ELSE rfile

Delivery == INSTANCE FileDelivery
    WITH total <- size, status <- DeliveryStatus, content <- DeliveredContent

\* The two programs deliver the file in that sense, whichever of their processes
\* stops and whenever: every change of recv.txt between fopen() and the end.
DeliversFile == Delivery!DeliverySpec

\* When one side is gone, the other one ends as well: Sender fails at its next
\* call, Receiver's loop over empty reads does not last.
NobodyWaitsForTheDead ==
    /\ (sopen /\ ~ropen) ~> ~sopen
    /\ (ropen /\ ~sopen) ~> ~ropen

\* Without faults every Receiver that connects obtains a file that is not empty.
EveryTransferCompletes == (rpc = "size" /\ size > 0 /\ ~faulty) ~> (rpc = "done" /\ Intact)

\* An empty file ends both programs: the client takes size for the result of
\* recv(), and the server, which loses its client, stops serving.
EmptyFileStopsBoth ==
    (rpc = "size" /\ size = 0 /\ ~faulty) ~> (rpc = "failed" /\ spc = "exited")
=============================================================================
