------------------------------ MODULE Receiver ------------------------------
(***************************************************************************)
(* Assignment-3/Receiver.c: the client that stores what it receives in     *)
(* recv.txt and measures how long each half took.  One action per recv()   *)
(* together with the code up to the next one.                              *)
(***************************************************************************)
EXTENDS Wire

CONSTANT MaxMarks   \* bound: measurements kept (time_measurements holds 1000)

ASSUME ReceiverAssumption == MaxMarks \in Nat

VARIABLES
    rpc,       \* where main() is
    rcounter,  \* counter: bytes of this round written to the file
    rfile,     \* recv.txt: for each byte its place in send.txt, 0 for others
    marks,     \* time_measurements: for each entry the half it is taken for
    recvCC     \* congestion control of sock

receiverVars == <<rpc, rcounter, rfile, marks, recvCC>>

ReceiverCCs == {"default", "reno", "cubic"}

Live    == {"size", "open", "loop", "ok", "next", "sendEnd", "endAck"}
Stopped == {"off", "done", "failed", "killed"}

ReceiverTypeOK ==
    /\ rpc \in Live \cup Stopped
    /\ rcounter \in Nat
    /\ rfile \in Seq(Nat)
    /\ marks \in Seq({1, 2})
    /\ recvCC \in ReceiverCCs

ReceiverInit ==
    /\ rpc = "off"
    /\ rcounter = 0
    /\ rfile = <<>>
    /\ marks = <<>>
    /\ recvCC = "default"

---------------------------------------------------------------------------
\* What fwrite() adds to the file.
Positions(buf) == [i \in 1..Len(buf) |-> IF buf[i].of = "FILE" THEN buf[i].at ELSE 0]

\* return -1: the socket is closed, and leaving main flushes the file.
Fail == rpc' = "failed" /\ ropen' = FALSE

\* Mutant: the first half counts as over with each of its chunks.
FirstHalfEndsEarly(buf, n) == rcounter + n <= size \div 2 /\ ~Reads(buf, "SEND_KEY")

\* The two tests that follow every recv() of the loop; n is its result.
FirstHalfEnds(buf, n)  == rcounter + n = size \div 2 /\ ~Reads(buf, "SEND_KEY")
SecondHalfEnds(buf, n) == rcounter + n = size /\ ~Reads(buf, "FIN")

Measured(ms, cond, which) == IF cond /\ Len(ms) < MaxMarks THEN Append(ms, which) ELSE ms

Measure(buf, n) ==
    marks' = Measured(Measured(marks, FirstHalfEnds(buf, n), 1), SecondHalfEnds(buf, n), 2)

\* recv_file_size: whatever comes first is parsed as the size.
RecvFileSize ==
    /\ rpc = "size"
    /\ \E n \in ReadLens(s2r, BufferSize) : s2r' = Left(s2r, n)
    /\ SendToSender(Message("ACK"))
    /\ rpc' = "open"
    /\ UNCHANGED <<faulty, size, mimic, sopen, ropen, rcounter, rfile, marks, recvCC>>

\* Mutant: the file is opened for appending.
OpenFileAppends ==
    /\ rpc = "open"
    /\ recvCC' = "reno"
    /\ rpc' = "loop"
    /\ UNCHANGED <<faulty, size, mimic, s2r, r2s, sopen, ropen, rcounter, rfile, marks>>

\* fopen(.., "w") truncates what a former round or session left.
OpenFile ==
    /\ rpc = "open"
    /\ rfile' = <<>>
    /\ recvCC' = "reno"
    /\ rpc' = "loop"
    /\ UNCHANGED <<faulty, size, mimic, s2r, r2s, sopen, ropen, rcounter, marks>>

\* The test "size == 0" stands where the result of recv() is meant: an empty
\* file ends the program at its first read.
RecvForEmptyFile ==
    /\ rpc = "loop"
    /\ size = 0
    /\ \E n \in ReadLens(s2r, BufferSize) :
           /\ s2r' = Left(s2r, n)
           /\ Measure(Taken(s2r, n), n)
    /\ Fail
    /\ UNCHANGED <<faulty, size, mimic, r2s, sopen, rcounter, rfile, recvCC>>

RecvSendKey ==
    /\ rpc = "loop"
    /\ size # 0
    /\ \E n \in ReadLens(s2r, BufferSize) :
           /\ Reads(Taken(s2r, n), "SEND_KEY")
           /\ s2r' = Left(s2r, n)
           /\ Measure(Taken(s2r, n), n)
    /\ SendToSender(Message("KEY"))
    /\ rpc' = "ok"
    /\ UNCHANGED <<faulty, size, mimic, sopen, ropen, rcounter, rfile, recvCC>>

RecvFin ==
    /\ rpc = "loop"
    /\ size # 0
    /\ \E n \in ReadLens(s2r, BufferSize) :
           /\ ~Reads(Taken(s2r, n), "SEND_KEY")
           /\ Reads(Taken(s2r, n), "FIN")
           /\ s2r' = Left(s2r, n)
           /\ Measure(Taken(s2r, n), n)
    /\ SendToSender(Message("ACK"))
    /\ rpc' = "next"
    /\ UNCHANGED <<faulty, size, mimic, sopen, ropen, rcounter, rfile, recvCC>>

\* Anything else is a chunk: written and acknowledged before it is counted.
RecvChunk ==
    /\ rpc = "loop"
    /\ size # 0
    /\ \E n \in ReadLens(s2r, BufferSize) :
           /\ ~Reads(Taken(s2r, n), "SEND_KEY")
           /\ ~Reads(Taken(s2r, n), "FIN")
           /\ s2r' = Left(s2r, n)
           /\ Measure(Taken(s2r, n), n)
           /\ rfile' = rfile \o Positions(Taken(s2r, n))
           /\ rcounter' = rcounter + n
    /\ SendToSender(Message("ACK"))
    /\ \/ rcounter' <= size /\ rpc' = "loop" /\ UNCHANGED ropen
       \/ rcounter' > size /\ Fail
    /\ UNCHANGED <<faulty, size, mimic, sopen, recvCC>>

\* recv() returns 0, the server having closed: a chunk of no bytes is written
\* and acknowledged, and the loop goes on.
RecvNothing ==
    /\ rpc = "loop"
    /\ size # 0
    /\ ~sopen /\ s2r = <<>>
    /\ Measure(<<>>, 0)
    /\ SendToSender(Message("ACK"))
    /\ UNCHANGED <<faulty, size, mimic, s2r, sopen, ropen, rpc, rcounter, rfile, recvCC>>

\* send_key's answer; the second half is received under cubic.
RecvOk ==
    /\ rpc = "ok"
    /\ \E n \in ReadLens(s2r, MsgLen("OK")) :
           /\ Reads(Taken(s2r, n), "OK")
           /\ s2r' = Left(s2r, n)
    /\ recvCC' = "cubic"
    /\ rpc' = "loop"
    /\ UNCHANGED <<faulty, size, mimic, r2s, sopen, ropen, rcounter, rfile, marks>>

\* The file is removed and the outer loop starts again.
RecvAgain ==
    /\ rpc = "next"
    /\ \E n \in ReadLens(s2r, BufferSize) :
           /\ Reads(Taken(s2r, n), "AGAIN")
           /\ s2r' = Left(s2r, n)
    /\ SendToSender(Message("ACK"))
    /\ rfile' = <<>>
    /\ rcounter' = 0
    /\ rpc' = "open"
    /\ UNCHANGED <<faulty, size, mimic, sopen, ropen, marks, recvCC>>

\* Mutant: the END is not acknowledged.
RecvEndWithoutAck ==
    /\ rpc = "next"
    /\ \E n \in ReadLens(s2r, BufferSize) :
           /\ ~Reads(Taken(s2r, n), "AGAIN")
           /\ Reads(Taken(s2r, n), "END")
           /\ s2r' = Left(s2r, n)
    /\ rpc' = "sendEnd"
    /\ UNCHANGED <<faulty, size, mimic, r2s, sopen, ropen, rcounter, rfile, marks, recvCC>>

\* Mutant: the client's own END goes out before the acknowledgement.
RecvEndAnswersFirst ==
    /\ rpc = "next"
    /\ \E n \in ReadLens(s2r, BufferSize) :
           /\ ~Reads(Taken(s2r, n), "AGAIN")
           /\ Reads(Taken(s2r, n), "END")
           /\ s2r' = Left(s2r, n)
    /\ SendToSender(Message("END") \o Message("ACK"))
    /\ rpc' = "endAck"
    /\ UNCHANGED <<faulty, size, mimic, sopen, ropen, rcounter, rfile, marks, recvCC>>

RecvEnd ==
    /\ rpc = "next"
    /\ \E n \in ReadLens(s2r, BufferSize) :
           /\ ~Reads(Taken(s2r, n), "AGAIN")
           /\ Reads(Taken(s2r, n), "END")
           /\ s2r' = Left(s2r, n)
    /\ SendToSender(Message("ACK"))
    /\ rpc' = "sendEnd"
    /\ UNCHANGED <<faulty, size, mimic, sopen, ropen, rcounter, rfile, marks, recvCC>>

SendOwnEnd ==
    /\ rpc = "sendEnd"
    /\ SendToSender(Message("END"))
    /\ rpc' = "endAck"
    /\ UNCHANGED <<faulty, size, mimic, s2r, sopen, ropen, rcounter, rfile, marks, recvCC>>

\* The server's ACK ends the program, which flushes and closes the file.
RecvOwnEndAck ==
    /\ rpc = "endAck"
    /\ \E n \in ReadLens(s2r, BufferSize) :
           /\ Reads(Taken(s2r, n), "ACK")
           /\ s2r' = Left(s2r, n)
    /\ rpc' = "done"
    /\ ropen' = FALSE
    /\ UNCHANGED <<faulty, size, mimic, r2s, sopen, rcounter, rfile, marks, recvCC>>

\* recv() returned a string that the place it is read at does not know.
Unexpected(buf) ==
    \/ rpc = "ok" /\ ~Reads(buf, "OK")
    \/ rpc = "next" /\ ~Reads(buf, "AGAIN") /\ ~Reads(buf, "END")
    \/ rpc = "endAck" /\ ~Reads(buf, "ACK")

ReceiverRefuses ==
    /\ \E n \in ReadLens(s2r, IF rpc = "ok" THEN MsgLen("OK") ELSE BufferSize) :
           /\ Unexpected(Taken(s2r, n))
           /\ s2r' = Left(s2r, n)
    /\ Fail
    /\ UNCHANGED <<faulty, size, mimic, r2s, sopen, rcounter, rfile, marks, recvCC>>

\* Mutant: the loop over empty reads lasts.
ReceiverLosesPeerOutsideLoop ==
    /\ rpc \in Live \ {"open", "loop"}
    /\ ~sopen /\ s2r = <<>>
    /\ Fail
    /\ UNCHANGED <<faulty, size, mimic, s2r, r2s, sopen, rcounter, rfile, marks, recvCC>>

\* The server is gone: recv() returns -1, or 0 where 0 is looked at.
ReceiverLosesPeer ==
    /\ rpc \in Live \ {"open"}
    /\ ~sopen /\ s2r = <<>>
    /\ Fail
    /\ UNCHANGED <<faulty, size, mimic, s2r, r2s, sopen, rcounter, rfile, marks, recvCC>>

\* One of its calls fails for a reason of its own (fopen, remove, setsockopt,
\* send, recv, or strtol through an uninitialised end pointer).
ReceiverFails ==
    /\ faulty
    /\ rpc \in Live
    /\ Fail
    /\ UNCHANGED <<faulty, size, mimic, s2r, r2s, sopen, rcounter, rfile, marks, recvCC>>

\* The process is killed, by anybody or by the SIGPIPE it does not ignore; what
\* stdio had not flushed of an open file is lost.
ReceiverKilled ==
    /\ rpc \in Live
    /\ faulty \/ (~sopen /\ rpc \in {"size", "loop", "next", "sendEnd"})
    /\ rpc' = "killed"
    /\ ropen' = FALSE
    /\ \/ rpc \in {"size", "open"} /\ UNCHANGED rfile
       \/ rpc \notin {"size", "open"} /\ \E n \in 0..Len(rfile) : rfile' = SubSeq(rfile, 1, n)
    /\ UNCHANGED <<faulty, size, mimic, s2r, r2s, sopen, rcounter, marks, recvCC>>

ReceiverStep ==
    \/ RecvFileSize \/ OpenFile
    \/ RecvForEmptyFile \/ RecvSendKey \/ RecvFin \/ RecvChunk
    \/ RecvOk \/ RecvAgain \/ RecvEnd \/ SendOwnEnd \/ RecvOwnEndAck
    \/ ReceiverRefuses \/ ReceiverLosesPeer
=============================================================================
