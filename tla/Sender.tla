------------------------------- MODULE Sender -------------------------------
(***************************************************************************)
(* Assignment-3/Sender.c: the server that sends send.txt in two halves,    *)
(* asks for a key between them and repeats the whole when its user says so.*)
(* One action per send() or recv() together with the code up to the next   *)
(* one; a recv() is named after what it waits for.                         *)
(***************************************************************************)
EXTENDS Wire

CONSTANT MaxRounds   \* bound: how often the user answers 'y' in a session

ASSUME SenderAssumption == MaxRounds \in Nat

VARIABLES
    spc,       \* where main() is
    half,      \* which call of send_file runs or ran last: 1 or 2
    counter,   \* bytes of this round the client has acknowledged
    fpos,      \* position of the FILE *fp
    rounds,    \* 'y' answers of this session
    listenCC,  \* congestion control of listen_sock
    connCC     \* congestion control of client_sock

senderVars == <<spc, half, counter, fpos, rounds, listenCC, connCC>>

CCs == {"default", "reno", "cubic"}

\* The states that wait in recv() and the string each of them accepts.
Awaits == {"sizeAck", "fileAck", "keyRecv", "finAck", "againAck", "endAck", "endEnd"}
Expected(pc) ==
    CASE pc = "keyRecv" -> "KEY"
      [] pc = "endEnd"  -> "END"
      [] OTHER          -> "ACK"

\* The states whose next step makes a send().
Sends == {"size", "file", "key", "keyRecv", "fin", "ask", "endEnd"}

SenderStates == {"accept", "exited"} \cup Sends \cup Awaits

SenderTypeOK ==
    /\ spc \in SenderStates
    /\ half \in {1, 2}
    /\ counter \in 0..size
    /\ fpos \in counter..size
    /\ rounds \in 0..MaxRounds
    /\ listenCC \in CCs
    /\ connCC \in CCs

SenderInit ==
    /\ spc = "accept"
    /\ half = 1
    /\ counter = 0
    /\ fpos = 0
    /\ rounds = 0
    /\ listenCC = "default"
    /\ connCC = "default"

---------------------------------------------------------------------------
\* recv(client_sock, buffer, l, 0) of exactly the string the code compares
\* with; l is that string's length everywhere in Sender.c.
Receives(k) ==
    \E n \in ReadLens(r2s, MsgLen(k)) :
        /\ Reads(Taken(r2s, n), k)
        /\ r2s' = Left(r2s, n)

\* Every error path closes both sockets and returns from main.
Exit == spc' = "exited" /\ sopen' = FALSE

\* send_file's size parameter: size / 2, then size.
Limit == IF half = 1 THEN size \div 2 ELSE size

\* num_bytes, both before the loop and at its end.
NumBytes == MinOf(BufferSize, Limit - counter)

\* The loop's condition: bytes are left and fread could read num_bytes.
MoreToSend == counter < Limit /\ fpos + NumBytes <= size

SendFileSize ==
    /\ spc = "size"
    /\ SendToReceiver(Message("SIZE"))
    /\ spc' = "sizeAck"
    /\ UNCHANGED <<faulty, size, mimic, r2s, sopen, ropen, half, counter, fpos, rounds, listenCC, connCC>>

\* The size is acknowledged; the outer loop starts by choosing reno.
RecvSizeAck ==
    /\ spc = "sizeAck"
    /\ Receives("ACK")
    /\ spc' = "file"
    /\ half' = 1
    /\ listenCC' = "reno"
    /\ UNCHANGED <<faulty, size, mimic, s2r, sopen, ropen, counter, fpos, rounds, connCC>>

\* Mutant: the chunk is read from where the last one was.
SendChunkWithoutAdvance ==
    /\ spc = "file"
    /\ MoreToSend
    /\ SendToReceiver(Chunk(fpos, NumBytes))
    /\ spc' = "fileAck"
    /\ UNCHANGED <<faulty, size, mimic, r2s, sopen, ropen, half, counter, fpos, rounds, listenCC, connCC>>

SendChunk ==
    /\ spc = "file"
    /\ MoreToSend
    /\ SendToReceiver(Chunk(fpos, NumBytes))
    /\ fpos' = fpos + NumBytes
    /\ spc' = "fileAck"
    /\ UNCHANGED <<faulty, size, mimic, r2s, sopen, ropen, half, counter, rounds, listenCC, connCC>>

\* Mutant: a full buffer is counted for every chunk.
RecvChunkAckCountsBuffer ==
    /\ spc = "fileAck"
    /\ Receives("ACK")
    /\ counter' = counter + BufferSize
    /\ spc' = "file"
    /\ UNCHANGED <<faulty, size, mimic, s2r, sopen, ropen, half, fpos, rounds, listenCC, connCC>>

RecvChunkAck ==
    /\ spc = "fileAck"
    /\ Receives("ACK")
    /\ counter' = counter + NumBytes
    /\ spc' = "file"
    /\ UNCHANGED <<faulty, size, mimic, s2r, sopen, ropen, half, fpos, rounds, listenCC, connCC>>

\* send_file returns: after the first half the key is asked for whatever the
\* count, after the second the count must be the size.
HalfSent ==
    /\ spc = "file"
    /\ ~MoreToSend
    /\ \/ half = 1 /\ spc' = "key" /\ UNCHANGED sopen
       \/ half = 2 /\ counter = size /\ spc' = "fin" /\ UNCHANGED sopen
       \/ half = 2 /\ counter # size /\ Exit
    /\ UNCHANGED <<faulty, size, mimic, s2r, r2s, ropen, half, counter, fpos, rounds, listenCC, connCC>>

AskKey ==
    /\ spc = "key"
    /\ SendToReceiver(Message("SEND_KEY"))
    /\ spc' = "keyRecv"
    /\ UNCHANGED <<faulty, size, mimic, r2s, sopen, ropen, half, counter, fpos, rounds, listenCC, connCC>>

\* Mutant: the second half starts with a rewound file.
RecvKeyRewinds ==
    /\ spc = "keyRecv"
    /\ Receives("KEY")
    /\ SendToReceiver(Message("OK"))
    /\ listenCC' = "cubic"
    /\ half' = 2
    /\ fpos' = 0
    /\ spc' = "file"
    /\ UNCHANGED <<faulty, size, mimic, sopen, ropen, counter, rounds, connCC>>

\* The key matches: OK is sent and cubic chosen for the second half.
RecvKey ==
    /\ spc = "keyRecv"
    /\ Receives("KEY")
    /\ SendToReceiver(Message("OK"))
    /\ listenCC' = "cubic"
    /\ half' = 2
    /\ spc' = "file"
    /\ UNCHANGED <<faulty, size, mimic, sopen, ropen, counter, fpos, rounds, connCC>>

SendFin ==
    /\ spc = "fin"
    /\ SendToReceiver(Message("FIN"))
    /\ spc' = "finAck"
    /\ UNCHANGED <<faulty, size, mimic, r2s, sopen, ropen, half, counter, fpos, rounds, listenCC, connCC>>

RecvFinAck ==
    /\ spc = "finAck"
    /\ Receives("ACK")
    /\ spc' = "ask"
    /\ UNCHANGED <<faulty, size, mimic, s2r, sopen, ropen, half, counter, fpos, rounds, listenCC, connCC>>

\* The user answers 'y'.
SendAgain ==
    /\ spc = "ask"
    /\ rounds < MaxRounds
    /\ rounds' = rounds + 1
    /\ counter' = 0
    /\ fpos' = 0
    /\ SendToReceiver(Message("AGAIN"))
    /\ spc' = "againAck"
    /\ UNCHANGED <<faulty, size, mimic, r2s, sopen, ropen, half, listenCC, connCC>>

RecvAgainAck ==
    /\ spc = "againAck"
    /\ Receives("ACK")
    /\ spc' = "file"
    /\ half' = 1
    /\ listenCC' = "reno"
    /\ UNCHANGED <<faulty, size, mimic, s2r, sopen, ropen, counter, fpos, rounds, connCC>>

\* The user answers anything else.
SendEnd ==
    /\ spc = "ask"
    /\ SendToReceiver(Message("END"))
    /\ spc' = "endAck"
    /\ UNCHANGED <<faulty, size, mimic, r2s, sopen, ropen, half, counter, fpos, rounds, listenCC, connCC>>

RecvEndAck ==
    /\ spc = "endAck"
    /\ Receives("ACK")
    /\ spc' = "endEnd"
    /\ UNCHANGED <<faulty, size, mimic, s2r, sopen, ropen, half, counter, fpos, rounds, listenCC, connCC>>

\* The client's own END is acknowledged and the connection closed; the server
\* goes back to accept.
RecvEndEnd ==
    /\ spc = "endEnd"
    /\ Receives("END")
    /\ SendToReceiver(Message("ACK"))
    /\ spc' = "accept"
    /\ sopen' = FALSE
    /\ UNCHANGED <<faulty, size, mimic, ropen, half, counter, fpos, rounds, listenCC, connCC>>

\* recv() returned something else than the string the code compares with.
SenderRefuses ==
    /\ spc \in Awaits
    /\ \E n \in ReadLens(r2s, MsgLen(Expected(spc))) :
           /\ ~Reads(Taken(r2s, n), Expected(spc))
           /\ r2s' = Left(r2s, n)
    /\ Exit
    /\ UNCHANGED <<faulty, size, mimic, s2r, ropen, half, counter, fpos, rounds, listenCC, connCC>>

\* Mutant: recv() returning 0 is not looked at.
SenderLosesPeerAtSends ==
    /\ sopen /\ ~ropen
    /\ spc \in Sends
    /\ Exit
    /\ UNCHANGED <<faulty, size, mimic, s2r, r2s, ropen, half, counter, fpos, rounds, listenCC, connCC>>

\* Mutant: a lost client sends the server back to accept().
SenderLosesPeerAndGoesOn ==
    /\ sopen /\ ~ropen
    /\ spc \in Sends \/ r2s = <<>>
    /\ spc' = "accept" /\ sopen' = FALSE
    /\ UNCHANGED <<faulty, size, mimic, s2r, r2s, ropen, half, counter, fpos, rounds, listenCC, connCC>>

\* The client is gone: recv() returns 0 or -1, or send() returns -1, which
\* SIGPIPE being ignored leads to the same exit.
SenderLosesPeer ==
    /\ sopen /\ ~ropen
    /\ spc \in Sends \/ r2s = <<>>
    /\ Exit
    /\ UNCHANGED <<faulty, size, mimic, s2r, r2s, ropen, half, counter, fpos, rounds, listenCC, connCC>>

\* The process is killed, or one of its calls fails for a reason of its own:
\* accept(), fopen(), setsockopt(), send() and recv() all lead to return -1,
\* and so may send_file_size, which returns no value on success.
SenderDies ==
    /\ faulty
    /\ spc # "exited"
    /\ Exit
    /\ UNCHANGED <<faulty, size, mimic, s2r, r2s, ropen, half, counter, fpos, rounds, listenCC, connCC>>

SenderStep ==
    \/ SendFileSize \/ RecvSizeAck
    \/ SendChunk \/ RecvChunkAck \/ HalfSent
    \/ AskKey \/ RecvKey
    \/ SendFin \/ RecvFinAck
    \/ SendAgain \/ RecvAgainAck
    \/ SendEnd \/ RecvEndAck \/ RecvEndEnd
    \/ SenderRefuses \/ SenderLosesPeer
=============================================================================
