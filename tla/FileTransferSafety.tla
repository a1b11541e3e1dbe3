-------------------------- MODULE FileTransferSafety --------------------------
(***************************************************************************)
(* The two programs of Assignment-3 run in lockstep when chunks arrive     *)
(* whole and no passage of the file reads as a control string: for every   *)
(* size, buffer, number of rounds and sessions, and whoever fails.         *)
(***************************************************************************)
EXTENDS FileTransferTypes

\* The hypotheses of this module's theorems.
Lockstep == Segment = 0 /\ \A m \in Mimics : m.as = "none"

ACK == Message("ACK")

\* Receiver stands at its reads of the file with its first n bytes written.
Holds(n) ==
    /\ rcounter = n
    /\ \/ rpc = "open" /\ n = 0
       \/ rpc = "loop" /\ rfile = File(n)

HoldsAll == rcounter = size /\ Intact

\* The chunk that Sender awaits the acknowledgement of.
Pending == Chunk(counter, NumBytes)

\* Nothing is under way.
Quiet ==
    /\ s2r = <<>> /\ r2s = <<>>
    /\ \/ spc = "size" /\ rpc = "size" /\ counter = 0 /\ rcounter = 0
       \/ spc \in {"file", "key"} /\ half = 1 /\ counter <= size \div 2 /\ Holds(counter)
       \/ spc = "file" /\ half = 2 /\ size > 0 /\ Holds(counter) /\ rpc = "loop"
       \/ spc = "fin" /\ size > 0 /\ Holds(size) /\ rpc = "loop"
       \/ spc = "ask" /\ rpc = "next" /\ HoldsAll /\ size > 0
       \/ spc = "endEnd" /\ rpc = "sendEnd" /\ HoldsAll

\* Sender has asked for something that Receiver has not read yet.
Asked ==
    /\ r2s = <<>>
    /\ \/ spc = "sizeAck" /\ s2r = Message("SIZE") /\ rpc = "size" /\ counter = 0 /\ rcounter = 0
       \/ spc = "fileAck" /\ s2r = Pending /\ half = 1 /\ counter < size \div 2 /\ Holds(counter)
       \/ spc = "fileAck" /\ s2r = Pending /\ half = 2 /\ size > 0 /\ Holds(counter) /\ rpc = "loop"
       \/ spc = "keyRecv" /\ s2r = Message("SEND_KEY") /\ half = 1 /\ counter <= size \div 2 /\ Holds(counter)
       \/ spc = "finAck" /\ s2r = Message("FIN") /\ Holds(size) /\ rpc = "loop" /\ size > 0
       \/ spc = "againAck" /\ s2r = Message("AGAIN") /\ rpc = "next" /\ HoldsAll /\ counter = 0 /\ size > 0
       \/ spc = "endAck" /\ s2r = Message("END") /\ rpc = "next" /\ HoldsAll

\* Receiver has answered and Sender has not read the answer yet.
Answered ==
    /\ s2r = <<>>
    /\ \/ spc \in {"sizeAck", "againAck"} /\ r2s = ACK /\ counter = 0 /\ Holds(0)
       \/ spc = "fileAck" /\ r2s = ACK /\ rpc = "loop" /\ Holds(fpos) /\ size > 0
          /\ (half = 1 => counter < size \div 2)
       \/ spc = "keyRecv" /\ r2s = Message("KEY") /\ half = 1 /\ counter <= size \div 2 /\ size > 0
          /\ rpc = "ok" /\ rcounter = counter /\ rfile = File(counter)
       \/ spc = "finAck" /\ r2s = ACK /\ rpc = "next" /\ HoldsAll /\ size > 0
       \/ spc = "endAck" /\ r2s = ACK /\ rpc = "sendEnd" /\ HoldsAll
       \/ spc = "endAck" /\ r2s = ACK \o Message("END") /\ rpc = "endAck" /\ HoldsAll
       \/ spc = "endEnd" /\ r2s = Message("END") /\ rpc = "endAck" /\ HoldsAll

\* The OK is under way, alone or with the first chunk of the second half.
OkUnderWay ==
    /\ r2s = <<>>
    /\ half = 2 /\ size > 0 /\ counter <= size \div 2
    /\ rpc = "ok" /\ rcounter = counter /\ rfile = File(counter)
    /\ \/ spc = "file" /\ s2r = Message("OK")
       \/ spc = "fileAck" /\ s2r = Message("OK") \o Pending

Both == Quiet \/ Asked \/ Answered \/ OkUnderWay

\* What Receiver may still find in the stream, whatever became of Sender.
ReceiverView ==
    \/ rpc = "size" /\ rcounter = 0 /\ s2r \in {<<>>, Message("SIZE")}
    \/ /\ rpc \in {"open", "loop"} /\ rcounter <= size /\ Holds(rcounter)
       /\ \/ s2r \in {<<>>, Message("SEND_KEY")}
          \/ s2r = Message("FIN") /\ rcounter = size /\ rpc = "loop"
          \/ \E n \in 1..BufferSize : rcounter + n <= size /\ s2r = Chunk(rcounter, n)
    \/ /\ rpc = "ok" /\ rcounter <= size /\ rfile = File(rcounter)
       /\ \/ s2r \in {<<>>, Message("OK")}
          \/ \E n \in 1..BufferSize :
                 rcounter + n <= size /\ s2r = Message("OK") \o Chunk(rcounter, n)
    \/ rpc = "next" /\ HoldsAll /\ s2r \in {<<>>, Message("AGAIN"), Message("END")}
    \/ rpc = "sendEnd" /\ HoldsAll /\ s2r = <<>>
    \/ rpc = "endAck" /\ HoldsAll /\ s2r \in {<<>>, ACK}

\* What Sender may still find in the stream, whatever became of Receiver.
SenderView ==
    \/ r2s = <<>>
    \/ spc \in {"sizeAck", "fileAck", "finAck", "againAck", "endAck"} /\ r2s = ACK
    \/ spc = "keyRecv" /\ r2s = Message("KEY")
    \/ spc = "endAck" /\ r2s = ACK \o Message("END") /\ (rpc # "killed" => Intact)
    \/ spc = "endEnd" /\ r2s = Message("END") /\ (rpc # "killed" => Intact)

\* Which states go with which ends being open.
Ends ==
    /\ sopen <=> spc \notin {"accept", "exited"}
    /\ ropen <=> rpc \in Live
    /\ rpc = "off" => ~sopen
    /\ rpc = "done" => Intact
    /\ spc = "accept" => rpc \in {"off", "killed"} \/ (Intact /\ rpc \in {"endAck", "done", "failed"})

IInv ==
    /\ TypeInv
    /\ Ends
    /\ sopen /\ ropen => Both
    /\ ropen => ReceiverView
    /\ sopen => SenderView
---------------------------------------------------------------------------
LEMMA Names ==
    {"SIZE", "ACK", "SEND_KEY", "KEY", "OK", "FIN", "AGAIN", "END"} \subseteq Control
  BY DEF Control

\* While both ends are open, each side's view follows from where both stand.
LEMMA BothViews == TypeInv /\ Both => ReceiverView /\ SenderView
<1> SUFFICES ASSUME TypeInv, Both PROVE ReceiverView /\ SenderView
  OBVIOUS
<1>t. /\ size \in Nat /\ counter \in 0..size /\ rcounter \in Nat /\ half \in {1, 2}
      /\ spc = "fileAck" => counter < Limit /\ fpos = counter + NumBytes
      /\ BufferSize \in Nat
  BY WireAssumption DEF TypeInv, TypeOK, WireTypeOK, SenderTypeOK, ReceiverTypeOK, FilePosition
<1>n. spc = "fileAck" =>
          NumBytes \in 1..BufferSize /\ counter + NumBytes <= size
  BY <1>t, NumBytesType
<1>h. size \div 2 <= size
  BY <1>t
<1>1. CASE Quiet
  <2>1. ReceiverView
    BY <1>1, <1>t, <1>h DEF Quiet, ReceiverView, Holds, HoldsAll
  <2>2. SenderView
    BY <1>1 DEF Quiet, SenderView
  <2> QED
    BY <2>1, <2>2
<1>2. CASE Asked
  <2>1. ReceiverView
    BY <1>2, <1>t, <1>n, <1>h DEF Asked, ReceiverView, Holds, HoldsAll, Pending
  <2>2. SenderView
    BY <1>2 DEF Asked, SenderView
  <2> QED
    BY <2>1, <2>2
<1>3. CASE Answered
  <2>1. ReceiverView
    BY <1>3, <1>t, <1>n, <1>h DEF Answered, ReceiverView, Holds, HoldsAll
  <2>2. SenderView
    BY <1>3 DEF Answered, SenderView, HoldsAll
  <2> QED
    BY <2>1, <2>2
<1>4. CASE OkUnderWay
  <2>0. rpc = "ok" /\ rcounter = counter /\ counter <= size /\ rfile = File(rcounter)
    BY <1>4, <1>t, <1>h DEF OkUnderWay
  <2>1. ReceiverView
    <3>1. CASE spc = "file" /\ s2r = Message("OK")
      BY <2>0, <3>1 DEF ReceiverView
    <3>2. CASE spc = "fileAck" /\ s2r = Message("OK") \o Pending
      <4>1. s2r = Message("OK") \o Chunk(rcounter, NumBytes)
        BY <2>0, <3>2 DEF Pending
      <4> QED
        BY <2>0, <3>2, <4>1, <1>n DEF ReceiverView
    <3> QED
      BY <1>4, <3>1, <3>2 DEF OkUnderWay
  <2>2. SenderView
    BY <1>4 DEF OkUnderWay, SenderView
  <2> QED
    BY <2>1, <2>2
<1> QED
  BY <1>1, <1>2, <1>3, <1>4 DEF Both

\* A control string, whole or followed by more, is what recv() returns.
LEMMA ReadString ==
    ASSUME Lockstep, NEW k \in Control, NEW t \in Seq(Byte),
           NEW limit \in Nat, limit >= MsgLen(k),
           limit = MsgLen(k) \/ t = <<>>,
           NEW n \in ReadLens(Message(k) \o t, limit)
    PROVE  /\ n = MsgLen(k)
           /\ Taken(Message(k) \o t, n) = Message(k)
           /\ Left(Message(k) \o t, n) = t
  BY MessageType, MessageSolid, ReadSolid DEF Lockstep

LEMMA ReadOneString ==
    ASSUME Lockstep, NEW k \in Control, NEW limit \in Nat, limit >= MsgLen(k),
           NEW n \in ReadLens(Message(k), limit)
    PROVE  n = MsgLen(k) /\ Taken(Message(k), n) = Message(k) /\ Left(Message(k), n) = <<>>
<1>1. Message(k) \o <<>> = Message(k)
  BY MessageType, ConcatEmptySeq
<1>2. <<>> \in Seq(Byte)
  BY EmptySeq
<1> QED
  BY <1>1, <1>2, ReadString

LEMMA ReadOneChunk ==
    ASSUME Lockstep, NEW from \in Nat, NEW m \in 1..BufferSize,
           NEW n \in ReadLens(Chunk(from, m), BufferSize)
    PROVE  n = m /\ Taken(Chunk(from, m), n) = Chunk(from, m) /\ Left(Chunk(from, m), n) = <<>>
<1>0. m \in Nat \ {0} /\ BufferSize \in Nat /\ m <= BufferSize
  BY WireAssumption
<1>1. /\ Chunk(from, m) \in Seq(Byte) /\ Len(Chunk(from, m)) = m
      /\ Chunk(from, m) \o <<>> = Chunk(from, m)
  BY <1>0, ChunkType, ConcatEmptySeq
<1>2. <<>> \in Seq(Byte)
  BY EmptySeq
<1>3. Chunk(from, m) # <<>> /\ Solid(Chunk(from, m))
  BY <1>0, ChunkSolid
<1> QED
  BY <1>0, <1>1, <1>2, <1>3, ReadSolid DEF Lockstep

\* Sender reads exactly the string it waits for.
LEMMA SenderReads ==
    ASSUME Lockstep, SenderView, spc \in Awaits,
           NEW n \in ReadLens(r2s, MsgLen(Expected(spc)))
    PROVE  /\ Taken(r2s, n) = Message(Expected(spc))
           /\ \/ r2s = Message(Expected(spc)) /\ Left(r2s, n) = <<>>
              \/ /\ spc = "endAck" /\ r2s = ACK \o Message("END")
                 /\ Left(r2s, n) = Message("END")
<1>1. /\ Expected(spc) \in Control /\ MsgLen(Expected(spc)) \in Nat
      /\ spc = "keyRecv" => Expected(spc) = "KEY"
      /\ spc = "endEnd" => Expected(spc) = "END"
      /\ spc \notin {"keyRecv", "endEnd"} => Expected(spc) = "ACK"
  <2>1. Expected(spc) \in Control
    BY Names DEF Expected
  <2> QED
    BY <2>1, MessageType DEF Expected
<1>2. CASE r2s = <<>>
  BY <1>1, <1>2, ReadEmpty
<1>3. CASE r2s = Message(Expected(spc))
  BY <1>1, <1>3, ReadOneString
<1>4. CASE spc = "endAck" /\ r2s = ACK \o Message("END")
  <2>1. n \in ReadLens(Message("ACK") \o Message("END"), MsgLen("ACK"))
    BY <1>1, <1>4 DEF ACK
  <2>2. /\ "ACK" \in Control
        /\ Message("END") \in Seq(Byte)
        /\ MsgLen("ACK") \in Nat /\ MsgLen("ACK") >= MsgLen("ACK")
    BY Names, MessageType
  <2>3. /\ Taken(Message("ACK") \o Message("END"), n) = Message("ACK")
        /\ Left(Message("ACK") \o Message("END"), n) = Message("END")
    BY <2>1, <2>2, ReadString
  <2> QED
    BY <1>1, <1>4, <2>3 DEF ACK
<1> QED
  BY <1>1, <1>2, <1>3, <1>4 DEF SenderView, ACK

\* Receiver reads exactly what is in the stream; after the key it reads the OK.
LEMMA ReceiverReads ==
    ASSUME Lockstep, TypeInv, ReceiverView, rpc # "ok",
           NEW n \in ReadLens(s2r, BufferSize)
    PROVE  s2r # <<>> /\ n = Len(s2r) /\ Taken(s2r, n) = s2r /\ Left(s2r, n) = <<>>
<1>1. BufferSize \in Nat /\ BufferSize >= 9 /\ rcounter \in Nat
  BY WireAssumption DEF TypeInv, TypeOK, ReceiverTypeOK
<1>2. CASE s2r = <<>>
  BY <1>1, <1>2, ReadEmpty
<1>3. ASSUME NEW k \in Control, s2r = Message(k)
      PROVE  n = Len(s2r) /\ Taken(s2r, n) = s2r /\ Left(s2r, n) = <<>> /\ s2r # <<>>
  BY <1>1, <1>3, MessageType, MessageSolid, ReadOneString
<1>4. ASSUME NEW m \in 1..BufferSize, s2r = Chunk(rcounter, m)
      PROVE  n = Len(s2r) /\ Taken(s2r, n) = s2r /\ Left(s2r, n) = <<>> /\ s2r # <<>>
  <2>1. m \in Nat \ {0}
    BY <1>1
  <2>2. Len(s2r) = m /\ s2r # <<>>
    BY <1>1, <1>4, <2>1, ChunkType, ChunkSolid
  <2>3. n \in ReadLens(Chunk(rcounter, m), BufferSize)
    BY <1>4
  <2>4. n = m /\ Taken(Chunk(rcounter, m), n) = Chunk(rcounter, m) /\ Left(Chunk(rcounter, m), n) = <<>>
    BY <1>1, <2>3, ReadOneChunk
  <2> QED
    BY <1>4, <2>2, <2>4
<1>5. s2r = <<>> \/ (\E k \in Control : s2r = Message(k))
      \/ \E m \in 1..BufferSize : s2r = Chunk(rcounter, m)
  BY Names DEF ReceiverView, ACK
<1> QED
  BY <1>2, <1>3, <1>4, <1>5

LEMMA ReceiverReadsOk ==
    ASSUME Lockstep, TypeInv, ReceiverView, rpc = "ok",
           NEW n \in ReadLens(s2r, MsgLen("OK"))
    PROVE  /\ Taken(s2r, n) = Message("OK")
           /\ \/ s2r = Message("OK") /\ Left(s2r, n) = <<>>
              \/ \E m \in 1..BufferSize : rcounter + m <= size /\ Left(s2r, n) = Chunk(rcounter, m)
<1>1. "OK" \in Control /\ MsgLen("OK") \in Nat /\ rcounter \in Nat /\ BufferSize \in Nat
  BY WireAssumption, Names, MessageType DEF TypeInv, TypeOK, ReceiverTypeOK
<1>2. CASE s2r = <<>>
  BY <1>1, <1>2, ReadEmpty
<1>3. CASE s2r = Message("OK")
  BY <1>1, <1>3, ReadOneString
<1>4. ASSUME NEW m \in 1..BufferSize, rcounter + m <= size, s2r = Message("OK") \o Chunk(rcounter, m)
      PROVE  Taken(s2r, n) = Message("OK") /\ Left(s2r, n) = Chunk(rcounter, m)
  <2>1. Chunk(rcounter, m) \in Seq(Byte)
    BY <1>1, ChunkType
  <2> QED
    BY <1>1, <1>4, <2>1, ReadString
<1> QED
  BY <1>2, <1>3, <1>4 DEF ReceiverView

\* The bytes of a message go to an empty stream.
LEMMA SendOnEmpty ==
    ASSUME NEW m \in Seq(Byte)
    PROVE  /\ ropen /\ s2r = <<>> /\ SendToReceiver(m) => s2r' = m
           /\ sopen /\ r2s = <<>> /\ SendToSender(m) => r2s' = m
           /\ ~ropen /\ SendToReceiver(m) => s2r' = s2r
           /\ ~sopen /\ SendToSender(m) => r2s' = r2s
  BY ConcatEmptySeq DEF SendToReceiver, SendToSender

\* A recv() of Sender that succeeds empties its stream, but for the client's END.
LEMMA SenderGets ==
    ASSUME Lockstep, SenderView, spc \in Awaits, Receives(Expected(spc))
    PROVE  \/ r2s = Message(Expected(spc)) /\ r2s' = <<>>
           \/ spc = "endAck" /\ r2s = ACK \o Message("END") /\ r2s' = Message("END")
<1>1. PICK n \in ReadLens(r2s, MsgLen(Expected(spc))) : r2s' = Left(r2s, n)
  BY DEF Receives
<1> QED
  BY <1>1, SenderReads

---------------------------------------------------------------------------
LEMMA SafetyInit == Init => IInv
<1> SUFFICES ASSUME Init PROVE IInv
  OBVIOUS
<1>1. TypeInv
  BY TypeInit
<1>2. Ends
  BY DEF Init, WireInit, SenderInit, ReceiverInit, Ends, Live
<1> QED
  BY <1>1, <1>2 DEF Init, WireInit, IInv

\* One step of Sender.  The views follow from BothViews while both ends are open.
LEMMA SenderSafetyStep ==
    Lockstep /\ IInv /\ TypeInv' /\ (SenderStep \/ SenderDies) /\ ReceiverStill => IInv'
<1> SUFFICES ASSUME Lockstep, IInv, TypeInv', SenderStep \/ SenderDies, ReceiverStill
             PROVE  IInv'
  OBVIOUS
<1>t. /\ TypeInv /\ Ends /\ (sopen /\ ropen => Both)
      /\ (ropen => ReceiverView) /\ (sopen => SenderView)
      /\ size \in Nat /\ counter \in 0..size /\ half \in {1, 2} /\ sopen \in BOOLEAN
      /\ ropen \in BOOLEAN
      /\ spc \notin {"fileAck", "exited"} => fpos = counter
      /\ spc = "fileAck" => counter < Limit /\ fpos = counter + NumBytes
  BY WireAssumption DEF IInv, TypeInv, TypeOK, WireTypeOK, SenderTypeOK, FilePosition
<1>f. /\ rpc' = rpc /\ rcounter' = rcounter /\ rfile' = rfile
      /\ Live' = Live
  BY DEF ReceiverStill, receiverVars
<1>m. \A k \in Control : Message(k) \in Seq(Byte) /\ Message(k) # <<>>
  BY MessageType, MessageSolid
<1>v. (Both => ReceiverView /\ SenderView)'
  <2>1. (TypeInv /\ Both => ReceiverView /\ SenderView)'
    BY BothViews, PTL
  <2> QED
    BY <2>1
<1>w. ASSUME Ends', sopen' /\ ropen' => Both',
             ropen' /\ ~sopen' => ReceiverView', sopen' /\ ~ropen' => SenderView'
      PROVE  IInv'
  BY <1>v, <1>w DEF IInv
<1>b. spc = "fileAck" => NumBytes \in 1..BufferSize /\ counter + NumBytes <= Limit
  BY <1>t, NumBytesType
<1>d. ACK \o Message("END") # ACK /\ ACK \o Message("END") # <<>>
  <2>1. /\ Message("ACK") \in Seq(Byte) /\ Message("END") \in Seq(Byte)
        /\ Len(Message("ACK")) = MsgLen("ACK") /\ Len(Message("END")) = MsgLen("END")
    BY Names, MessageType
  <2>2. MsgLen("ACK") = 4 /\ MsgLen("END") = 4
    BY DEF MsgLen
  <2>3. Len(Message("ACK") \o Message("END")) = 8
    BY <2>1, <2>2, ConcatProperties
  <2> QED
    BY <2>1, <2>2, <2>3 DEF ACK
<1>e. rpc \in Live \cup Stopped
  BY <1>t DEF TypeInv, TypeOK, ReceiverTypeOK
<1>1. CASE SendFileSize
  <2>1. Ends' /\ sopen' /\ ropen' = ropen
    BY <1>1, <1>t, <1>f DEF SendFileSize, Ends, Intact
  <2>2. CASE ropen
    <3>1. Quiet
      BY <1>1, <1>t, <1>m, <2>2, Names DEF SendFileSize, Ends, Both, Asked, Answered, OkUnderWay
    <3>2. s2r' = Message("SIZE") /\ r2s' = <<>>
      BY <1>1, <1>m, <2>2, <3>1, Names, SendOnEmpty DEF SendFileSize, Quiet
    <3>3. Asked'
      BY <1>1, <1>t, <1>f, <3>1, <3>2 DEF SendFileSize, Quiet, Asked, Holds, HoldsAll, Intact
    <3> QED
      BY <1>v, <1>w, <2>1, <2>2, <3>3 DEF Both
  <2>3. CASE ~ropen
    <3>1. r2s = <<>>
      BY <1>1, <1>t DEF SendFileSize, Ends, SenderView
    <3>2. SenderView'
      BY <1>1, <3>1 DEF SendFileSize, SenderView
    <3> QED
      BY <1>w, <2>1, <2>3, <3>2
  <2> QED
    BY <2>2, <2>3
<1>2. CASE AskKey
  <2>1. Ends' /\ sopen' /\ ropen' = ropen
    BY <1>2, <1>t, <1>f DEF AskKey, Ends, Intact
  <2>2. CASE ropen
    <3>1. Quiet
      BY <1>2, <1>t, <1>m, <2>2, Names DEF AskKey, Ends, Both, Asked, Answered, OkUnderWay
    <3>2. s2r' = Message("SEND_KEY") /\ r2s' = <<>>
      BY <1>2, <1>m, <2>2, <3>1, Names, SendOnEmpty DEF AskKey, Quiet
    <3>3. Asked'
      BY <1>2, <1>t, <1>f, <3>1, <3>2 DEF AskKey, Quiet, Asked, Holds, HoldsAll, Intact
    <3> QED
      BY <1>v, <1>w, <2>1, <2>2, <3>3 DEF Both
  <2>3. CASE ~ropen
    <3>1. r2s = <<>>
      BY <1>2, <1>t DEF AskKey, Ends, SenderView
    <3>2. SenderView'
      BY <1>2, <3>1 DEF AskKey, SenderView
    <3> QED
      BY <1>w, <2>1, <2>3, <3>2
  <2> QED
    BY <2>2, <2>3
<1>3. CASE SendFin
  <2>1. Ends' /\ sopen' /\ ropen' = ropen
    BY <1>3, <1>t, <1>f DEF SendFin, Ends, Intact
  <2>2. CASE ropen
    <3>1. Quiet
      BY <1>3, <1>t, <1>m, <2>2, Names DEF SendFin, Ends, Both, Asked, Answered, OkUnderWay
    <3>2. s2r' = Message("FIN") /\ r2s' = <<>>
      BY <1>3, <1>m, <2>2, <3>1, Names, SendOnEmpty DEF SendFin, Quiet
    <3>3. Asked'
      BY <1>3, <1>t, <1>f, <3>1, <3>2 DEF SendFin, Quiet, Asked, Holds, HoldsAll, Intact
    <3> QED
      BY <1>v, <1>w, <2>1, <2>2, <3>3 DEF Both
  <2>3. CASE ~ropen
    <3>1. r2s = <<>>
      BY <1>3, <1>t DEF SendFin, Ends, SenderView
    <3>2. SenderView'
      BY <1>3, <3>1 DEF SendFin, SenderView
    <3> QED
      BY <1>w, <2>1, <2>3, <3>2
  <2> QED
    BY <2>2, <2>3
<1>4. CASE SendAgain
  <2>1. Ends' /\ sopen' /\ ropen' = ropen
    BY <1>4, <1>t, <1>f DEF SendAgain, Ends, Intact
  <2>2. CASE ropen
    <3>1. Quiet
      BY <1>4, <1>t, <1>m, <2>2, Names DEF SendAgain, Ends, Both, Asked, Answered, OkUnderWay
    <3>2. s2r' = Message("AGAIN") /\ r2s' = <<>>
      BY <1>4, <1>m, <2>2, <3>1, Names, SendOnEmpty DEF SendAgain, Quiet
    <3>3. Asked'
      BY <1>4, <1>t, <1>f, <3>1, <3>2 DEF SendAgain, Quiet, Asked, Holds, HoldsAll, Intact
    <3> QED
      BY <1>v, <1>w, <2>1, <2>2, <3>3 DEF Both
  <2>3. CASE ~ropen
    <3>1. r2s = <<>>
      BY <1>4, <1>t DEF SendAgain, Ends, SenderView
    <3>2. SenderView'
      BY <1>4, <3>1 DEF SendAgain, SenderView
    <3> QED
      BY <1>w, <2>1, <2>3, <3>2
  <2> QED
    BY <2>2, <2>3
<1>5. CASE SendEnd
  <2>1. Ends' /\ sopen' /\ ropen' = ropen
    BY <1>5, <1>t, <1>f DEF SendEnd, Ends, Intact
  <2>2. CASE ropen
    <3>1. Quiet
      BY <1>5, <1>t, <1>m, <2>2, Names DEF SendEnd, Ends, Both, Asked, Answered, OkUnderWay
    <3>2. s2r' = Message("END") /\ r2s' = <<>>
      BY <1>5, <1>m, <2>2, <3>1, Names, SendOnEmpty DEF SendEnd, Quiet
    <3>3. Asked'
      BY <1>5, <1>t, <1>f, <3>1, <3>2 DEF SendEnd, Quiet, Asked, Holds, HoldsAll, Intact
    <3> QED
      BY <1>v, <1>w, <2>1, <2>2, <3>3 DEF Both
  <2>3. CASE ~ropen
    <3>1. r2s = <<>>
      BY <1>5, <1>t DEF SendEnd, Ends, SenderView
    <3>2. SenderView'
      BY <1>5, <3>1 DEF SendEnd, SenderView
    <3> QED
      BY <1>w, <2>1, <2>3, <3>2
  <2> QED
    BY <2>2, <2>3
<1>6. CASE RecvSizeAck
  <2>1. Ends' /\ sopen' /\ ropen' = ropen
    BY <1>6, <1>t, <1>f DEF RecvSizeAck, Ends, Intact
  <2>2. r2s = ACK /\ r2s' = <<>>
    <3>1. Expected(spc) = "ACK" /\ spc \in Awaits
      BY <1>6 DEF RecvSizeAck, Expected, Awaits
    <3> QED
      BY <1>6, <1>t, <3>1, SenderGets DEF RecvSizeAck, Ends, ACK
  <2>3. CASE ropen
    <3>1. Answered
      BY <1>6, <1>t, <1>m, <2>2, <2>3, Names DEF RecvSizeAck, Ends, ACK, Both, Quiet, Asked, OkUnderWay
    <3>2. Quiet'
      BY <1>6, <1>t, <1>f, <2>2, <3>1 DEF RecvSizeAck, Quiet, Answered, Holds, HoldsAll, Intact
    <3> QED
      BY <1>v, <1>w, <2>1, <2>3, <3>2 DEF Both
  <2>4. CASE ~ropen
    <3>2. SenderView'
      BY <2>2 DEF SenderView
    <3> QED
      BY <1>w, <2>1, <2>4, <3>2
  <2> QED
    BY <2>3, <2>4
<1>7. CASE RecvChunkAck
  <2>1. Ends' /\ sopen' /\ ropen' = ropen
    BY <1>7, <1>t, <1>f DEF RecvChunkAck, Ends, Intact
  <2>2. r2s = ACK /\ r2s' = <<>>
    <3>1. Expected(spc) = "ACK" /\ spc \in Awaits
      BY <1>7 DEF RecvChunkAck, Expected, Awaits
    <3> QED
      BY <1>7, <1>t, <3>1, SenderGets DEF RecvChunkAck, Ends, ACK
  <2>3. CASE ropen
    <3>1. Answered
      BY <1>7, <1>t, <1>m, <2>2, <2>3, Names DEF RecvChunkAck, Ends, ACK, Both, Quiet, Asked, OkUnderWay
    <3>2. Quiet'
      <4>1. counter' = fpos /\ counter' <= Limit /\ spc' = "file" /\ half' = half /\ s2r' = s2r
        BY <1>7, <1>t, <1>b DEF RecvChunkAck
      <4>2. rpc = "loop" /\ Holds(fpos) /\ size > 0 /\ s2r = <<>>
        BY <1>7, <3>1 DEF RecvChunkAck, Answered
      <4>3. Holds(counter)' /\ size' = size
        BY <1>7, <1>f, <4>1, <4>2 DEF RecvChunkAck, Holds
      <4> QED
        BY <1>t, <1>f, <2>2, <4>1, <4>2, <4>3 DEF Quiet, Limit
    <3> QED
      BY <1>v, <1>w, <2>1, <2>3, <3>2 DEF Both
  <2>4. CASE ~ropen
    <3>2. SenderView'
      BY <2>2 DEF SenderView
    <3> QED
      BY <1>w, <2>1, <2>4, <3>2
  <2> QED
    BY <2>3, <2>4
<1>8. CASE RecvFinAck
  <2>1. Ends' /\ sopen' /\ ropen' = ropen
    BY <1>8, <1>t, <1>f DEF RecvFinAck, Ends, Intact
  <2>2. r2s = ACK /\ r2s' = <<>>
    <3>1. Expected(spc) = "ACK" /\ spc \in Awaits
      BY <1>8 DEF RecvFinAck, Expected, Awaits
    <3> QED
      BY <1>8, <1>t, <3>1, SenderGets DEF RecvFinAck, Ends, ACK
  <2>3. CASE ropen
    <3>1. Answered
      BY <1>8, <1>t, <1>m, <2>2, <2>3, Names DEF RecvFinAck, Ends, ACK, Both, Quiet, Asked, OkUnderWay
    <3>2. Quiet'
      BY <1>8, <1>t, <1>f, <2>2, <3>1 DEF RecvFinAck, Quiet, Answered, Holds, HoldsAll, Intact
    <3> QED
      BY <1>v, <1>w, <2>1, <2>3, <3>2 DEF Both
  <2>4. CASE ~ropen
    <3>2. SenderView'
      BY <2>2 DEF SenderView
    <3> QED
      BY <1>w, <2>1, <2>4, <3>2
  <2> QED
    BY <2>3, <2>4
<1>9. CASE RecvAgainAck
  <2>1. Ends' /\ sopen' /\ ropen' = ropen
    BY <1>9, <1>t, <1>f DEF RecvAgainAck, Ends, Intact
  <2>2. r2s = ACK /\ r2s' = <<>>
    <3>1. Expected(spc) = "ACK" /\ spc \in Awaits
      BY <1>9 DEF RecvAgainAck, Expected, Awaits
    <3> QED
      BY <1>9, <1>t, <3>1, SenderGets DEF RecvAgainAck, Ends, ACK
  <2>3. CASE ropen
    <3>1. Answered
      BY <1>9, <1>t, <1>m, <2>2, <2>3, Names DEF RecvAgainAck, Ends, ACK, Both, Quiet, Asked, OkUnderWay
    <3>2. Quiet'
      BY <1>9, <1>t, <1>f, <2>2, <3>1 DEF RecvAgainAck, Quiet, Answered, Holds, HoldsAll, Intact
    <3> QED
      BY <1>v, <1>w, <2>1, <2>3, <3>2 DEF Both
  <2>4. CASE ~ropen
    <3>2. SenderView'
      BY <2>2 DEF SenderView
    <3> QED
      BY <1>w, <2>1, <2>4, <3>2
  <2> QED
    BY <2>3, <2>4
<1>10. CASE SendChunk
  <2>1. Ends' /\ sopen' /\ ropen' = ropen
    BY <1>10, <1>t, <1>f DEF SendChunk, Ends, Intact
  <2>2. /\ NumBytes \in 1..BufferSize /\ counter < Limit /\ fpos = counter
        /\ NumBytes' = NumBytes /\ Limit' = Limit /\ counter' = counter
        /\ half' = half /\ size' = size
        /\ Chunk(fpos, NumBytes) = Pending /\ Pending' = Pending
        /\ Pending \in Seq(Byte)
    <3>1. NumBytes \in 1..BufferSize /\ counter < Limit /\ fpos = counter /\ BufferSize \in Nat
      BY <1>10, <1>t, NumBytesType, WireAssumption DEF SendChunk, MoreToSend
    <3>2. NumBytes \in Nat /\ counter \in Nat
      BY <1>t, <3>1
    <3> QED
      BY <1>10, <1>t, <3>1, <3>2, ChunkType DEF SendChunk, NumBytes, Limit, Pending
  <2>3. CASE ropen
    <3>1. CASE Quiet
      <4>1. s2r' = Pending' /\ r2s' = <<>>
        BY <1>10, <2>2, <2>3, <3>1, SendOnEmpty DEF SendChunk, Quiet
      <4>2. Asked'
        BY <1>10, <1>t, <1>f, <2>2, <3>1, <4>1 DEF SendChunk, Quiet, Asked, Holds, Limit
      <4> QED
        BY <1>v, <1>w, <2>1, <2>3, <4>2 DEF Both
    <3>2. CASE OkUnderWay
      <4>1. s2r' = Message("OK") \o Pending' /\ r2s' = <<>>
        BY <1>10, <2>2, <2>3, <3>2 DEF SendChunk, OkUnderWay, SendToReceiver
      <4>2. OkUnderWay'
        BY <1>10, <1>t, <1>f, <2>2, <3>2, <4>1 DEF SendChunk, OkUnderWay
      <4> QED
        BY <1>v, <1>w, <2>1, <2>3, <4>2 DEF Both
    <3> QED
      BY <1>10, <1>t, <2>3, <3>1, <3>2 DEF SendChunk, Ends, Both, Asked, Answered
  <2>4. CASE ~ropen
    <3>1. SenderView'
      BY <1>10, <1>t DEF SendChunk, Ends, SenderView
    <3> QED
      BY <1>w, <2>1, <2>4, <3>1
  <2> QED
    BY <2>3, <2>4
<1>11. CASE HalfSent
  <2>1. counter < Limit => MoreToSend
    <3>1. counter \in Nat /\ fpos = counter
      BY <1>11, <1>t DEF HalfSent
    <3> QED
      BY <1>t, <3>1, NumBytesType DEF MoreToSend
  <2>2. Ends' /\ ropen' = ropen
    BY <1>11, <1>t, <1>f DEF HalfSent, Exit, Ends, Intact
  <2>3. CASE ropen
    <3>1. Quiet
      BY <1>11, <1>t, <2>1, <2>3 DEF HalfSent, Ends, Both, Asked, Answered, OkUnderWay, Limit
    <3>2. Quiet' /\ sopen'
      <4>1. CASE half = 1
        BY <1>11, <1>t, <1>f, <3>1, <4>1 DEF HalfSent, Ends, Quiet, Holds
      <4>2. CASE half = 2
        <5>1. counter = size /\ Holds(size) /\ rpc = "loop" /\ size > 0
          BY <1>11, <1>t, <2>1, <3>1, <4>2 DEF HalfSent, Quiet, Limit
        <5> QED
          BY <1>11, <1>t, <1>f, <3>1, <4>2, <5>1 DEF HalfSent, Ends, Quiet, Holds
      <4> QED
        BY <1>t, <4>1, <4>2
    <3> QED
      BY <1>v, <1>w, <2>2, <2>3, <3>2 DEF Both
  <2>4. CASE ~ropen
    <3>1. sopen' => SenderView'
      BY <1>11, <1>t DEF HalfSent, Ends, SenderView
    <3> QED
      BY <1>w, <2>2, <2>4, <3>1
  <2> QED
    BY <2>3, <2>4
<1>12. CASE RecvKey
  <2>1. Ends' /\ sopen' /\ ropen' = ropen
    BY <1>12, <1>t, <1>f DEF RecvKey, Ends, Intact
  <2>2. r2s = Message("KEY") /\ r2s' = <<>>
    <3>1. Expected(spc) = "KEY" /\ spc \in Awaits
      BY <1>12 DEF RecvKey, Expected, Awaits
    <3> QED
      BY <1>12, <1>t, <3>1, SenderGets DEF RecvKey, Ends
  <2>3. CASE ropen
    <3>1. Answered
      BY <1>12, <1>t, <1>m, <2>2, <2>3, Names DEF RecvKey, Ends, Both, Quiet, Asked, OkUnderWay
    <3>2. s2r' = Message("OK")
      BY <1>12, <1>m, <2>3, <3>1, Names, SendOnEmpty DEF RecvKey, Answered
    <3>3. OkUnderWay'
      BY <1>12, <1>t, <1>f, <2>2, <3>1, <3>2 DEF RecvKey, Answered, OkUnderWay
    <3> QED
      BY <1>v, <1>w, <2>1, <2>3, <3>3 DEF Both
  <2>4. CASE ~ropen
    <3>2. SenderView'
      BY <2>2 DEF SenderView
    <3> QED
      BY <1>w, <2>1, <2>4, <3>2
  <2> QED
    BY <2>3, <2>4
<1>13. CASE RecvEndAck
  <2>1. Ends' /\ sopen' /\ ropen' = ropen
    BY <1>13, <1>t, <1>f DEF RecvEndAck, Ends, Intact
  <2>2. \/ r2s = ACK /\ r2s' = <<>>
        \/ r2s = ACK \o Message("END") /\ r2s' = Message("END")
    <3>1. Expected(spc) = "ACK" /\ spc \in Awaits
      BY <1>13 DEF RecvEndAck, Expected, Awaits
    <3> QED
      BY <1>13, <1>t, <3>1, SenderGets DEF RecvEndAck, Ends, ACK
  <2>3. CASE ropen
    <3>1. Answered
      BY <1>13, <1>t, <1>m, <1>d, <2>2, <2>3, Names
         DEF RecvEndAck, Ends, ACK, Both, Quiet, Asked, OkUnderWay
    <3>2. Quiet' \/ Answered'
      BY <1>13, <1>t, <1>f, <1>d, <2>2, <3>1 DEF RecvEndAck, Quiet, Answered, HoldsAll, Intact
    <3> QED
      BY <1>v, <1>w, <2>1, <2>3, <3>2 DEF Both
  <2>4. CASE ~ropen
    <3>2. SenderView'
      BY <1>13, <1>t, <1>f, <1>d, <2>2 DEF RecvEndAck, Ends, SenderView, Intact
    <3> QED
      BY <1>w, <2>1, <2>4, <3>2
  <2> QED
    BY <2>3, <2>4
<1>14. CASE RecvEndEnd
  <2>1. ~sopen' /\ ropen' = ropen
    BY <1>14 DEF RecvEndEnd
  <2>2. r2s = Message("END")
    <3>1. Expected(spc) = "END" /\ spc \in Awaits
      BY <1>14 DEF RecvEndEnd, Expected, Awaits
    <3> QED
      BY <1>14, <1>t, <3>1, SenderGets DEF RecvEndEnd, Ends
  <2>3. CASE ropen
    <3>1. rpc = "endAck" /\ HoldsAll /\ s2r = <<>>
      BY <1>14, <1>t, <1>m, <2>2, <2>3, Names
         DEF RecvEndEnd, Ends, Both, Quiet, Asked, Answered, OkUnderWay
    <3>2. s2r' = ACK
      BY <1>14, <1>m, <2>3, <3>1, Names, SendOnEmpty DEF RecvEndEnd, ACK
    <3>3. Ends' /\ ReceiverView'
      BY <1>14, <1>t, <1>f, <3>1, <3>2 DEF RecvEndEnd, Ends, ReceiverView, HoldsAll, Intact, Live
    <3> QED
      BY <1>w, <2>1, <3>3
  <2>4. CASE ~ropen
    <3>1. rpc # "killed" => Intact
      BY <1>14, <1>t, <1>m, <2>2, Names DEF RecvEndEnd, Ends, SenderView
    <3>2. Ends'
      BY <1>14, <1>t, <1>f, <1>e, <2>4, <3>1 DEF RecvEndEnd, Ends, Stopped, Intact
    <3> QED
      BY <1>w, <2>1, <2>4, <3>2
  <2> QED
    BY <2>3, <2>4
<1>15. CASE SenderRefuses
  <2>1. PICK n \in ReadLens(r2s, MsgLen(Expected(spc))) : ~Reads(Taken(r2s, n), Expected(spc))
    BY <1>15 DEF SenderRefuses
  <2>2. spc \in Awaits /\ SenderView
    BY <1>15, <1>t DEF SenderRefuses, Ends, Awaits
  <2>3. Taken(r2s, n) = Message(Expected(spc)) /\ Expected(spc) \in Control
    BY <2>1, <2>2, Names, SenderReads DEF Expected
  <2>4. mimic.as = "none"
    BY <1>t DEF Lockstep, TypeInv, TypeOK, WireTypeOK
  <2> QED
    BY <2>1, <2>3, <2>4, ReadsMessage
<1>16. CASE SenderLosesPeer \/ SenderDies
  <2>1. Ends' /\ ~sopen' /\ ropen' = ropen
    BY <1>16, <1>t, <1>f DEF SenderLosesPeer, SenderDies, Exit, Ends, Intact
  <2>2. ropen' => ReceiverView'
    BY <1>16, <1>t, <1>f
       DEF SenderLosesPeer, SenderDies, Exit, Ends, ReceiverView, Holds, HoldsAll, Intact
  <2> QED
    BY <1>w, <2>1, <2>2
<1> QED
  BY <1>1, <1>2, <1>3, <1>4, <1>5, <1>6, <1>7, <1>8, <1>9, <1>10, <1>11, <1>12, <1>13, <1>14,
     <1>15, <1>16 DEF SenderStep

---------------------------------------------------------------------------
\* An empty file is the beginning of length 0, and a chunk that follows the first
\* c bytes makes the beginning longer.
LEMMA FileEmpty == File(0) = <<>>
  BY DEF File

LEMMA FileGrows ==
    ASSUME NEW c \in Nat, NEW m \in Nat
    PROVE  File(c) \o Positions(Chunk(c, m)) = File(c + m)
<1>1. \A k \in Nat : /\ File(k) \in Seq(Nat) /\ Len(File(k)) = k
                     /\ \A i \in 1..k : File(k)[i] = i
  BY DEF File
<1>2. /\ Positions(Chunk(c, m)) \in Seq(Nat) /\ Len(Positions(Chunk(c, m))) = m
      /\ \A i \in 1..m : Positions(Chunk(c, m))[i] = c + i
  <2>1. Chunk(c, m) \in Seq(Byte) /\ Len(Chunk(c, m)) = m
    BY ChunkType
  <2>2. \A i \in 1..m : Chunk(c, m)[i].of = "FILE" /\ Chunk(c, m)[i].at = c + i
    BY ChunkType
  <2>3. Positions(Chunk(c, m)) \in Seq(Nat)
    BY <2>1, PositionsType
  <2>4. Positions(Chunk(c, m)) =
          [i \in 1..m |-> IF Chunk(c, m)[i].of = "FILE" THEN Chunk(c, m)[i].at ELSE 0]
    BY <2>1 DEF Positions
  <2>5. Len(Positions(Chunk(c, m))) = m
    BY <2>3, <2>4
  <2> QED
    BY <2>2, <2>3, <2>4, <2>5
<1> DEFINE joined == File(c) \o Positions(Chunk(c, m))
<1>3. /\ joined \in Seq(Nat) /\ Len(joined) = c + m
      /\ \A i \in 1..(c + m) : joined[i] = i
  <2>1. /\ joined \in Seq(Nat) /\ Len(joined) = c + m
        /\ \A i \in 1..(c + m) :
               joined[i] = IF i <= c THEN File(c)[i] ELSE Positions(Chunk(c, m))[i - c]
    <3>1. File(c) \in Seq(Nat) /\ Len(File(c)) = c
      BY <1>1
    <3>2. /\ joined \in Seq(Nat)
          /\ Len(joined) = Len(File(c)) + Len(Positions(Chunk(c, m)))
          /\ \A i \in 1..(Len(File(c)) + Len(Positions(Chunk(c, m)))) :
                 joined[i] = IF i <= Len(File(c)) THEN File(c)[i]
                             ELSE Positions(Chunk(c, m))[i - Len(File(c))]
      BY <1>2, <3>1, ConcatProperties
    <3> QED
      BY <1>2, <3>1, <3>2
  <2>2. ASSUME NEW i \in 1..(c + m) PROVE joined[i] = i
    <3>1. CASE i <= c
      BY <1>1, <2>1, <3>1
    <3>2. CASE i > c
      <4>1. i - c \in 1..m /\ c + (i - c) = i
        BY <3>2
      <4> QED
        BY <1>2, <2>1, <3>2, <4>1
    <3>3. i \in Int /\ c \in Int
      OBVIOUS
    <3>4. i <= c \/ i > c
      BY <3>3
    <3> QED
      BY <3>1, <3>2, <3>4
  <2> QED
    BY <2>1, <2>2
<1>4. c + m \in Nat
  OBVIOUS
<1> HIDE DEF joined
<1>5. joined = File(c + m)
  BY <1>1, <1>3, <1>4, SeqEqual
<1> QED
  BY <1>5 DEF joined

\* What RecvChunk writes are the next bytes of the file.
LEMMA ChunkWritten ==
    ASSUME Lockstep, IInv, RecvChunk
    PROVE  /\ s2r # <<>> /\ s2r' = <<>> /\ rpc = "loop" /\ rpc' = "loop" /\ ropen' = ropen
           /\ rfile = File(rcounter)
           /\ s2r # Message("SEND_KEY") /\ s2r # Message("FIN")
           /\ \E m \in 1..BufferSize :
                  /\ rcounter + m <= size
                  /\ s2r = Chunk(rcounter, m) /\ Len(s2r) = m
                  /\ rcounter' = rcounter + m
                  /\ rfile' = File(rcounter + m)
<1>t. /\ TypeInv /\ Ends /\ (ropen => ReceiverView)
      /\ size \in Nat /\ rcounter \in Nat /\ BufferSize \in Nat
  BY WireAssumption DEF IInv, TypeInv, TypeOK, WireTypeOK, ReceiverTypeOK
<1>n. mimic.as = "none"
  BY <1>t DEF Lockstep, TypeInv, TypeOK, WireTypeOK
<1>1. /\ s2r # <<>> /\ s2r' = <<>>
      /\ ~Reads(s2r, "SEND_KEY") /\ ~Reads(s2r, "FIN")
      /\ rfile' = rfile \o Positions(s2r)
      /\ rcounter' = rcounter + Len(s2r)
  <2>1. rpc = "loop" /\ ReceiverView
    BY <1>t DEF RecvChunk, Ends, Live
  <2>2. PICK n \in ReadLens(s2r, BufferSize) :
            /\ ~Reads(Taken(s2r, n), "SEND_KEY") /\ ~Reads(Taken(s2r, n), "FIN")
            /\ s2r' = Left(s2r, n)
            /\ rfile' = rfile \o Positions(Taken(s2r, n))
            /\ rcounter' = rcounter + n
    BY DEF RecvChunk
  <2>3. s2r # <<>> /\ n = Len(s2r) /\ Taken(s2r, n) = s2r /\ Left(s2r, n) = <<>>
    BY <1>t, <2>1, ReceiverReads
  <2> QED
    BY <2>2, <2>3
<1>2. s2r # Message("SEND_KEY") /\ s2r # Message("FIN")
  BY <1>n, <1>1, Names, ReadsMessage
<1>3. PICK m \in 1..BufferSize : rcounter + m <= size /\ s2r = Chunk(rcounter, m)
  BY <1>t, <1>1, <1>2 DEF RecvChunk, Ends, Live, ReceiverView
<1>4. rfile = File(rcounter)
  BY <1>t DEF RecvChunk, Ends, Live, ReceiverView, Holds
<1>5. m \in Nat /\ Len(s2r) = m
  <2>1. m \in Nat
    BY <1>t
  <2>2. Len(Chunk(rcounter, m)) = m
    BY <1>t, <2>1, ChunkType
  <2> QED
    BY <1>3, <2>1, <2>2
<1>6. rcounter' = rcounter + m /\ rcounter' <= size /\ rfile' = File(rcounter')
  BY <1>t, <1>1, <1>3, <1>4, <1>5, FileGrows
<1>7. ~(rcounter' > size)
  BY <1>t, <1>5, <1>6
<1>8. rpc = "loop" /\ rpc' = "loop" /\ ropen' = ropen
  BY <1>7 DEF RecvChunk
<1> QED
  BY <1>1, <1>2, <1>3, <1>4, <1>5, <1>6, <1>8

\* One step of Receiver.
LEMMA ReceiverSafetyStep ==
    /\ Lockstep /\ IInv /\ TypeInv'
    /\ ReceiverStep \/ RecvNothing \/ ReceiverFails \/ ReceiverKilled
    /\ SenderStill
    => IInv'
<1> SUFFICES ASSUME Lockstep, IInv, TypeInv',
                    ReceiverStep \/ RecvNothing \/ ReceiverFails \/ ReceiverKilled,
                    SenderStill
             PROVE  IInv'
  OBVIOUS
<1>t. /\ TypeInv /\ Ends /\ (sopen /\ ropen => Both)
      /\ (ropen => ReceiverView) /\ (sopen => SenderView)
      /\ size \in Nat /\ counter \in 0..size /\ half \in {1, 2} /\ sopen \in BOOLEAN
      /\ ropen \in BOOLEAN /\ rcounter \in Nat /\ BufferSize \in Nat
      /\ spc \notin {"fileAck", "exited"} => fpos = counter
      /\ spc = "fileAck" => counter < Limit /\ fpos = counter + NumBytes
  BY WireAssumption
     DEF IInv, TypeInv, TypeOK, WireTypeOK, SenderTypeOK, ReceiverTypeOK, FilePosition
<1>f. /\ spc' = spc /\ counter' = counter /\ half' = half /\ fpos' = fpos
  BY DEF SenderStill, senderVars
<1>m. \A k \in Control : Message(k) \in Seq(Byte) /\ Message(k) # <<>>
  BY MessageType, MessageSolid
<1>n. mimic.as = "none"
  BY <1>t DEF Lockstep, TypeInv, TypeOK, WireTypeOK
<1>v. (Both => ReceiverView /\ SenderView)'
  <2>1. (TypeInv /\ Both => ReceiverView /\ SenderView)'
    BY BothViews, PTL
  <2> QED
    BY <2>1
<1>w. ASSUME Ends', sopen' /\ ropen' => Both',
             ropen' /\ ~sopen' => ReceiverView', sopen' /\ ~ropen' => SenderView'
      PROVE  IInv'
  BY <1>v, <1>w DEF IInv
<1>b. spc = "fileAck" => NumBytes \in 1..BufferSize /\ counter + NumBytes <= Limit
  BY <1>t, NumBytesType
<1>c. spc = "fileAck" => NumBytes \in Nat \ {0} /\ counter \in Nat
  BY <1>t, <1>b
<1>p. size' = size => Pending' = Pending
  BY <1>f DEF Pending, NumBytes, Limit
<1>1. CASE RecvFileSize
  <2>1. s2r # <<>> /\ s2r' = <<>>
    <3>1. rpc = "size" /\ ReceiverView
      BY <1>1, <1>t DEF RecvFileSize, Ends, Live
    <3> QED
      BY <1>1, <1>t, <3>1, ReceiverReads DEF RecvFileSize
  <2>2. Ends' /\ ropen' /\ sopen' = sopen
    BY <1>1, <1>t, <1>f DEF RecvFileSize, Ends, Intact, Live
  <2>3. CASE sopen
    <3>1. Asked
      BY <1>1, <1>t, <2>1, <2>3 DEF RecvFileSize, Ends, Live, Both, Quiet, Answered, OkUnderWay
    <3>2. r2s' = ACK
      BY <1>1, <1>m, <2>3, <3>1, Names, SendOnEmpty DEF RecvFileSize, Asked, ACK
    <3>3. Answered'
      BY <1>1, <1>f, <2>1, <3>1, <3>2 DEF RecvFileSize, Asked, Answered, Holds
    <3> QED
      BY <1>w, <2>2, <2>3, <3>3 DEF Both
  <2>4. CASE ~sopen
    <3>1. rcounter = 0
      BY <1>1, <1>t DEF RecvFileSize, Ends, Live, ReceiverView
    <3>2. ReceiverView'
      BY <1>1, <1>t, <2>1, <3>1 DEF RecvFileSize, ReceiverView, Holds
    <3> QED
      BY <1>w, <2>2, <2>4, <3>2
  <2> QED
    BY <2>3, <2>4
<1>2. CASE OpenFile
  <2>1. Ends' /\ ropen' /\ sopen' = sopen /\ UNCHANGED <<s2r, r2s, rcounter, size>> /\ rpc' = "loop"
    BY <1>2, <1>t, <1>f DEF OpenFile, Ends, Intact, Live
  <2>2. rcounter = 0 /\ rfile' = File(0)
    BY <1>2, <1>t, FileEmpty DEF OpenFile, Ends, Live, ReceiverView, Holds
  <2>3. \A n : rpc = "open" /\ Holds(n) => n = 0 /\ Holds(n)'
    BY <1>2, <2>1, <2>2 DEF OpenFile, Holds
  <2>4. CASE sopen
    <3>1. Quiet => Quiet'
      BY <1>2, <1>f, <2>1, <2>3 DEF OpenFile, Quiet
    <3>2. Asked => Asked'
      BY <1>2, <1>f, <1>p, <2>1, <2>3 DEF OpenFile, Asked
    <3>3. Answered => Answered'
      BY <1>2, <1>f, <2>1, <2>3 DEF OpenFile, Answered
    <3>4. ~OkUnderWay
      BY <1>2 DEF OpenFile, OkUnderWay
    <3> QED
      BY <1>2, <1>t, <1>w, <2>1, <2>4, <3>1, <3>2, <3>3, <3>4 DEF OpenFile, Ends, Live, Both
  <2>5. CASE ~sopen
    <3>1. ReceiverView'
      BY <1>2, <1>t, <2>1, <2>2 DEF OpenFile, Ends, Live, ReceiverView, Holds
    <3> QED
      BY <1>w, <2>1, <2>5, <3>1
  <2> QED
    BY <2>4, <2>5
<1>3. CASE RecvSendKey
  <2>1. s2r # <<>> /\ s2r' = <<>> /\ Reads(s2r, "SEND_KEY")
    <3>1. rpc = "loop" /\ ReceiverView
      BY <1>3, <1>t DEF RecvSendKey, Ends, Live
    <3> QED
      BY <1>3, <1>t, <3>1, ReceiverReads DEF RecvSendKey
  <2>2. Ends' /\ ropen' /\ sopen' = sopen
    BY <1>3, <1>t, <1>f DEF RecvSendKey, Ends, Intact, Live
  <2>3. rcounter <= size /\ rfile = File(rcounter)
    BY <1>3, <1>t DEF RecvSendKey, Ends, Live, ReceiverView, Holds
  <2>4. CASE sopen
    <3>1. s2r # Message("FIN") /\ (spc = "fileAck" => s2r # Pending)
      BY <1>c, <1>n, <2>1, Names, ReadsMessage, ReadsChunk DEF Pending
    <3>2. Asked /\ spc = "keyRecv"
      BY <1>3, <1>t, <2>1, <2>4, <3>1
         DEF RecvSendKey, Ends, Live, Both, Quiet, Asked, Answered, OkUnderWay
    <3>3. r2s' = Message("KEY")
      BY <1>3, <1>m, <2>4, <3>2, Names, SendOnEmpty DEF RecvSendKey, Asked
    <3>4. Answered'
      BY <1>3, <1>t, <1>f, <2>1, <2>3, <3>2, <3>3 DEF RecvSendKey, Asked, Answered, Holds
    <3> QED
      BY <1>w, <2>2, <2>4, <3>4 DEF Both
  <2>5. CASE ~sopen
    <3>1. ReceiverView'
      BY <1>3, <2>1, <2>3 DEF RecvSendKey, ReceiverView
    <3> QED
      BY <1>w, <2>2, <2>5, <3>1
  <2> QED
    BY <2>4, <2>5
<1>4. CASE RecvFin
  <2>1. s2r # <<>> /\ s2r' = <<>> /\ Reads(s2r, "FIN")
    <3>1. rpc = "loop" /\ ReceiverView
      BY <1>4, <1>t DEF RecvFin, Ends, Live
    <3> QED
      BY <1>4, <1>t, <3>1, ReceiverReads DEF RecvFin
  <2>2. Ends' /\ ropen' /\ sopen' = sopen
    BY <1>4, <1>t, <1>f DEF RecvFin, Ends, Intact, Live
  <2>3. rcounter = size /\ rfile = File(size)
    <3>1. s2r # Message("SEND_KEY")
      BY <1>n, <2>1, Names, ReadsMessage
    <3>2. ASSUME NEW m \in 1..BufferSize PROVE s2r # Chunk(rcounter, m)
      <4>1. m \in Nat \ {0}
        BY <1>t
      <4> QED
        BY <1>t, <1>n, <2>1, <4>1, Names, ReadsChunk
    <3> QED
      BY <1>4, <1>t, <2>1, <3>1, <3>2 DEF RecvFin, Ends, Live, ReceiverView, Holds
  <2>4. CASE sopen
    <3>1. s2r # Message("SEND_KEY") /\ (spc = "fileAck" => s2r # Pending)
      BY <1>c, <1>n, <2>1, Names, ReadsMessage, ReadsChunk DEF Pending
    <3>2. Asked /\ spc = "finAck"
      BY <1>4, <1>t, <2>1, <2>4, <3>1
         DEF RecvFin, Ends, Live, Both, Quiet, Asked, Answered, OkUnderWay
    <3>3. r2s' = ACK
      BY <1>4, <1>m, <2>4, <3>2, Names, SendOnEmpty DEF RecvFin, Asked, ACK
    <3>4. Answered'
      BY <1>4, <1>t, <1>f, <2>1, <2>3, <3>2, <3>3
         DEF RecvFin, Asked, Answered, HoldsAll, Intact
    <3> QED
      BY <1>w, <2>2, <2>4, <3>4 DEF Both
  <2>5. CASE ~sopen
    <3>1. ReceiverView'
      BY <1>4, <2>1, <2>3 DEF RecvFin, ReceiverView, HoldsAll, Intact
    <3> QED
      BY <1>w, <2>2, <2>5, <3>1
  <2> QED
    BY <2>4, <2>5
<1>5. CASE RecvChunk
  <2>1. /\ s2r # <<>> /\ s2r' = <<>> /\ rpc = "loop" /\ rpc' = "loop" /\ ropen' = ropen
        /\ rfile = File(rcounter)
        /\ s2r # Message("SEND_KEY") /\ s2r # Message("FIN")
    BY <1>5, ChunkWritten
  <2>2. PICK m \in 1..BufferSize :
                  /\ rcounter + m <= size
                  /\ s2r = Chunk(rcounter, m) /\ Len(s2r) = m
                  /\ rcounter' = rcounter + m
                  /\ rfile' = File(rcounter + m)
    BY <1>5, ChunkWritten
  <2>3. m \in Nat
    BY <1>t
  <2>7. Ends' /\ ropen' /\ sopen' = sopen /\ size' = size
    <3>1. sopen' = sopen /\ size' = size
      BY <1>5 DEF RecvChunk
    <3> QED
      BY <1>t, <1>f, <2>1, <3>1 DEF Ends, Live
  <2>8. CASE sopen
    <3>1. Asked /\ spc = "fileAck" /\ s2r = Pending /\ size > 0 /\ rcounter = counter
      BY <1>t, <2>1, <2>7, <2>8
         DEF Ends, Live, Both, Quiet, Asked, Answered, OkUnderWay, Holds
    <3>2. m = NumBytes
      BY <1>c, <2>2, <3>1, ChunkType DEF Pending
    <3>3. Holds(fpos)'
      BY <1>t, <1>f, <2>1, <2>2, <3>1, <3>2 DEF Holds
    <3>4. r2s' = ACK
      BY <1>5, <1>m, <2>8, <3>1, Names, SendOnEmpty DEF RecvChunk, Asked, ACK
    <3>5. Answered'
      BY <1>f, <2>1, <2>7, <3>1, <3>3, <3>4 DEF Asked, Answered
    <3> QED
      BY <1>w, <2>7, <2>8, <3>5 DEF Both
  <2>9. CASE ~sopen
    <3>1. ReceiverView'
      BY <1>t, <2>1, <2>2, <2>3, <2>7 DEF ReceiverView, Holds
    <3> QED
      BY <1>w, <2>7, <2>9, <3>1
  <2> QED
    BY <2>8, <2>9
<1>6. CASE RecvNothing
  <2>1. Ends' /\ ReceiverView' /\ ~sopen'
    BY <1>6, <1>t, <1>f DEF RecvNothing, Ends, Live, ReceiverView, Holds, HoldsAll, Intact
  <2> QED
    BY <1>w, <2>1
<1>7. CASE RecvOk
  <2>1. rpc = "ok" /\ ReceiverView /\ ropen
    BY <1>7, <1>t DEF RecvOk, Ends, Live
  <2>2. PICK n \in ReadLens(s2r, MsgLen("OK")) : s2r' = Left(s2r, n)
    BY <1>7 DEF RecvOk
  <2>3. Ends' /\ ropen' /\ sopen' = sopen /\ rpc' = "loop" /\ UNCHANGED <<size, rcounter, rfile, r2s>>
    BY <1>7, <1>t, <1>f DEF RecvOk, Ends, Intact, Live
  <2>4. CASE sopen
    <3>1. OkUnderWay
      BY <1>t, <2>1, <2>4 DEF Both, Quiet, Asked, Answered, Holds, OkUnderWay, ReadLens, Cuts
    <3>2. "OK" \in Control /\ MsgLen("OK") \in Nat /\ MsgLen("OK") >= MsgLen("OK")
      BY Names, MessageType
    <3>3. CASE spc = "file" /\ s2r = Message("OK")
      <4>1. s2r' = <<>>
        BY <2>2, <3>2, <3>3, ReadOneString
      <4>2. Quiet'
        BY <1>f, <2>3, <3>1, <3>3, <4>1 DEF OkUnderWay, Quiet, Holds
      <4> QED
        BY <1>w, <2>3, <2>4, <4>2 DEF Both
    <3>4. CASE spc = "fileAck" /\ s2r = Message("OK") \o Pending
      <4>1. Pending \in Seq(Byte)
        BY <1>c, <3>4, ChunkType DEF Pending
      <4>2. s2r' = Pending
        BY <2>2, <3>2, <3>4, <4>1, ReadString
      <4>3. Asked'
        BY <1>f, <1>p, <2>3, <3>1, <3>4, <4>2 DEF OkUnderWay, Asked, Holds
      <4> QED
        BY <1>w, <2>3, <2>4, <4>3 DEF Both
    <3> QED
      BY <3>1, <3>3, <3>4 DEF OkUnderWay
  <2>5. CASE ~sopen
    <3>1. \/ s2r' = <<>>
          \/ \E m \in 1..BufferSize : rcounter + m <= size /\ s2r' = Chunk(rcounter, m)
      BY <1>t, <2>1, <2>2, ReceiverReadsOk
    <3>2. rcounter <= size /\ rfile = File(rcounter)
      BY <2>1 DEF ReceiverView
    <3>3. ReceiverView'
      BY <2>3, <3>1, <3>2 DEF ReceiverView, Holds
    <3> QED
      BY <1>w, <2>3, <2>5, <3>3
  <2> QED
    BY <2>4, <2>5
<1>8. CASE RecvAgain
  <2>1. s2r # <<>> /\ s2r' = <<>> /\ Reads(s2r, "AGAIN")
    <3>1. rpc = "next" /\ ReceiverView
      BY <1>8, <1>t DEF RecvAgain, Ends, Live
    <3> QED
      BY <1>8, <1>t, <3>1, ReceiverReads DEF RecvAgain
  <2>2. Ends' /\ ropen' /\ sopen' = sopen
    BY <1>8, <1>t, <1>f DEF RecvAgain, Ends, Intact, Live
  <2>3. CASE sopen
    <3>1. s2r # Message("END")
      BY <1>n, <2>1, Names, ReadsMessage
    <3>2. Asked /\ spc = "againAck"
      BY <1>8, <1>t, <2>1, <2>3, <3>1
         DEF RecvAgain, Ends, Live, Both, Quiet, Asked, Answered, OkUnderWay, Holds
    <3>3. r2s' = ACK
      BY <1>8, <1>m, <2>3, <3>2, Names, SendOnEmpty DEF RecvAgain, Asked, ACK
    <3>4. Answered'
      BY <1>8, <1>f, <2>1, <3>2, <3>3 DEF RecvAgain, Asked, Answered, Holds
    <3> QED
      BY <1>w, <2>2, <2>3, <3>4 DEF Both
  <2>4. CASE ~sopen
    <3>1. ReceiverView'
      BY <1>8, <1>t, <2>1 DEF RecvAgain, ReceiverView, Holds
    <3> QED
      BY <1>w, <2>2, <2>4, <3>1
  <2> QED
    BY <2>3, <2>4
<1>9. CASE RecvEnd
  <2>1. s2r # <<>> /\ s2r' = <<>> /\ Reads(s2r, "END")
    <3>1. rpc = "next" /\ ReceiverView
      BY <1>9, <1>t DEF RecvEnd, Ends, Live
    <3> QED
      BY <1>9, <1>t, <3>1, ReceiverReads DEF RecvEnd
  <2>2. Ends' /\ ropen' /\ sopen' = sopen
    BY <1>9, <1>t, <1>f DEF RecvEnd, Ends, Intact, Live
  <2>3. CASE sopen
    <3>1. s2r # Message("AGAIN")
      BY <1>n, <2>1, Names, ReadsMessage
    <3>2. Asked /\ spc = "endAck"
      BY <1>9, <1>t, <2>1, <2>3, <3>1
         DEF RecvEnd, Ends, Live, Both, Quiet, Asked, Answered, OkUnderWay, Holds
    <3>3. r2s' = ACK
      BY <1>9, <1>m, <2>3, <3>2, Names, SendOnEmpty DEF RecvEnd, Asked, ACK
    <3>4. Answered'
      BY <1>9, <1>f, <2>1, <3>2, <3>3 DEF RecvEnd, Asked, Answered, HoldsAll, Intact
    <3> QED
      BY <1>w, <2>2, <2>3, <3>4 DEF Both
  <2>4. CASE ~sopen
    <3>1. ReceiverView'
      BY <1>9, <1>t, <2>1 DEF RecvEnd, Ends, Live, ReceiverView, HoldsAll, Intact
    <3> QED
      BY <1>w, <2>2, <2>4, <3>1
  <2> QED
    BY <2>3, <2>4
<1>10. CASE SendOwnEnd
  <2>1. Ends' /\ ropen' /\ sopen' = sopen
    BY <1>10, <1>t, <1>f DEF SendOwnEnd, Ends, Intact, Live, ReceiverView, HoldsAll
  <2>2. CASE sopen
    <3>1. CASE Quiet
      <4>1. r2s' = Message("END")
        BY <1>10, <1>m, <2>2, <3>1, Names, SendOnEmpty DEF SendOwnEnd, Quiet
      <4>2. Answered'
        BY <1>10, <1>f, <3>1, <4>1 DEF SendOwnEnd, Quiet, Answered, Holds, HoldsAll, Intact
      <4> QED
        BY <1>w, <2>1, <2>2, <4>2 DEF Both
    <3>2. CASE Answered
      <4>1. r2s' = ACK \o Message("END")
        BY <1>10, <2>2, <3>2 DEF SendOwnEnd, Answered, Holds, SendToSender
      <4>2. Answered'
        BY <1>10, <1>f, <3>2, <4>1 DEF SendOwnEnd, Answered, Holds, HoldsAll, Intact
      <4> QED
        BY <1>w, <2>1, <2>2, <4>2 DEF Both
    <3> QED
      BY <1>10, <1>t, <2>2, <3>1, <3>2 DEF SendOwnEnd, Ends, Live, Both, Asked, OkUnderWay, Holds
  <2>3. CASE ~sopen
    <3>1. ReceiverView'
      BY <1>10, <1>t DEF SendOwnEnd, Ends, Live, ReceiverView, HoldsAll, Intact
    <3> QED
      BY <1>w, <2>1, <2>3, <3>1
  <2> QED
    BY <2>2, <2>3
<1>11. CASE RecvForEmptyFile \/ RecvOwnEndAck \/ ReceiverLosesPeer \/ ReceiverFails \/ ReceiverKilled
  <2>1. /\ ropen /\ ~ropen' /\ sopen' = sopen /\ r2s' = r2s /\ size' = size
        /\ rpc \in Live /\ rpc' \in {"done", "failed", "killed"}
        /\ rpc' # "killed" => rfile' = rfile
        /\ rpc' = "done" => rpc = "endAck"
    BY <1>11, <1>t DEF RecvForEmptyFile, RecvOwnEndAck, ReceiverLosesPeer, ReceiverFails,
                       ReceiverKilled, Fail, Ends, Live
  <2>2. rpc = "endAck" => Intact
    BY <1>t, <2>1 DEF ReceiverView, HoldsAll
  <2>3. Ends'
    BY <1>t, <1>f, <2>1, <2>2 DEF Ends, Live, Intact
  <2>4. sopen' => SenderView'
    BY <1>t, <1>f, <2>1 DEF SenderView, Intact, Live
  <2> QED
    BY <1>w, <2>1, <2>3, <2>4
<1>12. CASE ReceiverRefuses
  <2>1. PICK n \in ReadLens(s2r, IF rpc = "ok" THEN MsgLen("OK") ELSE BufferSize) :
            Unexpected(Taken(s2r, n))
    BY <1>12 DEF ReceiverRefuses
  <2>2. rpc \in {"ok", "next", "endAck"} /\ ReceiverView
    BY <1>t, <2>1 DEF Unexpected, Ends, Live
  <2>3. CASE rpc = "ok"
    <3>1. Taken(s2r, n) = Message("OK")
      BY <1>t, <2>1, <2>2, <2>3, ReceiverReadsOk
    <3> QED
      BY <1>n, <2>1, <2>3, <3>1, Names, ReadsMessage DEF Unexpected
  <2>4. CASE rpc # "ok"
    <3>1. s2r # <<>> /\ Taken(s2r, n) = s2r
      BY <1>t, <2>1, <2>2, <2>4, ReceiverReads
    <3>2. \/ rpc = "next" /\ s2r \in {Message("AGAIN"), Message("END")}
          \/ rpc = "endAck" /\ s2r = Message("ACK")
      BY <2>2, <2>4, <3>1 DEF ReceiverView, ACK
    <3> QED
      BY <1>n, <2>1, <3>1, <3>2, Names, ReadsMessage DEF Unexpected
  <2> QED
    BY <2>3, <2>4
<1> QED
  BY <1>1, <1>2, <1>3, <1>4, <1>5, <1>6, <1>7, <1>8, <1>9, <1>10, <1>11, <1>12 DEF ReceiverStep

---------------------------------------------------------------------------
LEMMA SafetyStep == Lockstep /\ IInv /\ [Next]_vars => IInv'
<1> SUFFICES ASSUME Lockstep, IInv, [Next]_vars PROVE IInv'
  OBVIOUS
<1>1. TypeInv'
  BY TypeStep DEF IInv
<1>2. CASE Connect
  <2>1. sopen' /\ ropen' /\ spc' = "size" /\ rpc' = "size"
    BY <1>2 DEF Connect
  <2>2. Ends'
    BY <2>1 DEF Ends, Live
  <2>3. Quiet'
    BY <1>2 DEF Connect, Quiet
  <2>4. (TypeInv /\ Both => ReceiverView /\ SenderView)'
    BY BothViews, PTL
  <2> QED
    BY <1>1, <2>1, <2>2, <2>3, <2>4 DEF IInv, Both
<1>3. CASE SenderNext \/ SenderCrash
  BY <1>1, <1>3, SenderSafetyStep DEF SenderNext, SenderCrash, ReceiverStill
<1>4. CASE ReceiverNext \/ ReceiverSpins \/ ReceiverCrash
  BY <1>1, <1>4, ReceiverSafetyStep DEF ReceiverNext, ReceiverSpins, ReceiverCrash, SenderStill
<1>5. CASE UNCHANGED vars
  <2>1. Ends' /\ (Quiet' <=> Quiet) /\ (Asked' <=> Asked) /\ (Answered' <=> Answered)
        /\ (OkUnderWay' <=> OkUnderWay)
    BY <1>5 DEF IInv, Ends, Quiet, Asked, Answered, OkUnderWay, Holds, HoldsAll, Intact, Pending,
                NumBytes, Limit, vars, wireVars, senderVars, receiverVars
  <2>2. (ReceiverView' <=> ReceiverView) /\ (SenderView' <=> SenderView)
    BY <1>5 DEF ReceiverView, SenderView, Holds, HoldsAll, Intact, vars, wireVars, senderVars,
                receiverVars
  <2> QED
    BY <1>1, <1>5, <2>1, <2>2 DEF IInv, Both, vars, wireVars
<1> QED
  BY <1>2, <1>3, <1>4, <1>5 DEF Next, Idle

LEMMA SafetyConsequences == Lockstep /\ IInv => CompletionIsSafe /\ NoMisread
<1> SUFFICES ASSUME Lockstep, IInv PROVE CompletionIsSafe /\ NoMisread
  OBVIOUS
<1>t. TypeInv /\ Ends /\ (ropen => ReceiverView) /\ (sopen => SenderView) /\ BufferSize \in Nat
      /\ rcounter \in Nat
  BY WireAssumption DEF IInv, TypeInv, TypeOK, ReceiverTypeOK
<1>1. CompletionIsSafe
  BY <1>t DEF CompletionIsSafe, Ends
<1>2. ASSUME spc \in Awaits, NEW n \in ReadLens(r2s, MsgLen(Expected(spc)))
      PROVE  Taken(r2s, n) = Message(Expected(spc))
  BY <1>t, <1>2, SenderReads DEF Ends, Awaits
<1>3. ASSUME rpc \in Live \ {"ok"}, NEW n \in ReadLens(s2r, BufferSize)
      PROVE  s2r # <<>> /\ n = Len(s2r) /\ Taken(s2r, n) = s2r /\ ReceiverView
  BY <1>t, <1>3, ReceiverReads DEF Ends
<1>4. ASSUME rpc = "size", NEW n \in ReadLens(s2r, BufferSize)
      PROVE  Taken(s2r, n) = Message("SIZE")
  BY <1>3, <1>4 DEF ReceiverView, Live
<1>5. ASSUME rpc = "loop", NEW n \in ReadLens(s2r, BufferSize)
      PROVE  \/ Taken(s2r, n) = Message("SEND_KEY")
             \/ Taken(s2r, n) = Message("FIN") /\ rcounter = size
             \/ Taken(s2r, n) = Chunk(rcounter, n) /\ rcounter + n <= size
  <2>1. s2r # <<>> /\ n = Len(s2r) /\ Taken(s2r, n) = s2r /\ ReceiverView
    BY <1>3, <1>5 DEF Live
  <2>2. CASE s2r = Message("SEND_KEY") \/ (s2r = Message("FIN") /\ rcounter = size)
    BY <2>1, <2>2
  <2>3. ASSUME NEW m \in 1..BufferSize, rcounter + m <= size, s2r = Chunk(rcounter, m)
        PROVE  Taken(s2r, n) = Chunk(rcounter, n) /\ rcounter + n <= size
    <3>1. m \in Nat
      BY <1>t
    <3>2. Len(Chunk(rcounter, m)) = m
      BY <1>t, <3>1, ChunkType
    <3> QED
      BY <2>1, <2>3, <3>2
  <2> QED
    BY <1>5, <2>1, <2>2, <2>3 DEF ReceiverView
<1>6. ASSUME rpc = "ok", NEW n \in ReadLens(s2r, MsgLen("OK"))
      PROVE  Taken(s2r, n) = Message("OK")
  BY <1>t, <1>6, ReceiverReadsOk DEF Ends, Live
<1>7. ASSUME rpc = "next", NEW n \in ReadLens(s2r, BufferSize)
      PROVE  Taken(s2r, n) \in {Message("AGAIN"), Message("END")}
  BY <1>3, <1>7 DEF ReceiverView, Live
<1>8. ASSUME rpc = "endAck", NEW n \in ReadLens(s2r, BufferSize)
      PROVE  Taken(s2r, n) = Message("ACK")
  BY <1>3, <1>8 DEF ReceiverView, Live, ACK
<1>9. NoMisread
  BY <1>2, <1>4, <1>5, <1>6, <1>7, <1>8 DEF NoMisread
<1> QED
  BY <1>1, <1>9

\* The invariant holds for every file, buffer, number of rounds and of sessions.
THEOREM LockstepInvariant == ASSUME Lockstep PROVE Spec => []IInv
<1>1. IInv /\ [Next]_vars => IInv'
  BY SafetyStep
<1> QED
  BY SafetyInit, <1>1, PTL DEF Spec

\* Neither side completes a session before recv.txt is whole (send_end of
\* Sender.c and of Receiver.c).
THEOREM CompletionSafe == ASSUME Lockstep PROVE Spec => []CompletionIsSafe
<1>1. IInv => CompletionIsSafe
  BY SafetyConsequences
<1> QED
  BY LockstepInvariant, <1>1, PTL

\* Every recv() of the two programs returns one whole message that the code at
\* that place handles; no strcmp after a recv() fails.
THEOREM NothingMisread == ASSUME Lockstep PROVE Spec => []NoMisread
<1>1. IInv => NoMisread
  BY SafetyConsequences
<1> QED
  BY LockstepInvariant, <1>1, PTL
---------------------------------------------------------------------------
\* time_measurements: the entries of the rounds that are over, and those of the
\* round Receiver is in, alternate as long as the array has room.

\* The array has room for two measurements of each round.
RoomForAllRounds == MaxMarks >= 2 * (MaxRounds + 1)

\* Neither half is over at an empty read, nor with the reading of SEND KEY.
UsualSize == size >= 2 /\ size - size \div 2 # 9

\* The halves of this round that Receiver has in its file.
HalvesHeld == IF rcounter < size \div 2 THEN 0 ELSE IF rcounter < size THEN 1 ELSE 2

\* Receiver has not read yet that the user asked for another round.
AgainUnread == spc = "againAck" /\ rpc = "next"

\* The first n measurements are there, those of the two halves by turns.
Timed(ms, n) ==
    /\ Len(ms) = n
    /\ \A i \in 1..n : ms[i] = IF i % 2 = 1 THEN 1 ELSE 2

\* The key is asked for, and the second half sent, after the first half.
HalvesInOrder ==
    /\ spc \in {"key", "keyRecv"} => counter >= size \div 2
    /\ half = 2 /\ spc \in {"file", "fileAck"} => counter >= size \div 2

\* While both programs run, the array holds the halves received so far; a
\* Receiver that is alone can end well only with the last ACK under way.
TimesKept ==
    UsualSize =>
        /\ sopen /\ ropen => Timed(marks, 2 * rounds + (IF AgainUnread THEN 0 ELSE HalvesHeld))
        /\ ropen /\ ~sopen /\ rpc = "endAck" /\ s2r # <<>> => Timed(marks, 2 * (rounds + 1))
        /\ rpc = "done" => ~sopen /\ Timed(marks, 2 * (rounds + 1))

LEMMA HalvesStep == TypeInv /\ HalvesInOrder /\ [Next]_vars => HalvesInOrder'
<1> SUFFICES ASSUME TypeInv, HalvesInOrder, [Next]_vars PROVE HalvesInOrder'
  OBVIOUS
<1>t. /\ size \in Nat /\ counter \in 0..size /\ half \in {1, 2} /\ BufferSize \in Nat
      /\ spc \notin {"fileAck", "exited"} => fpos = counter
      /\ spc = "fileAck" => counter < Limit
  BY WireAssumption DEF TypeInv, TypeOK, WireTypeOK, SenderTypeOK, FilePosition
<1>1. CASE RecvChunkAck /\ ReceiverStill
  <2>1. counter' = counter + NumBytes /\ half' = half /\ size' = size /\ NumBytes \in Nat
    BY <1>1, <1>t, NumBytesType DEF RecvChunkAck
  <2> QED
    BY <1>1, <1>t, <2>1 DEF RecvChunkAck, HalvesInOrder
<1>2. CASE HalfSent /\ ReceiverStill
  <2>1. counter < Limit => MoreToSend
    <3>1. counter \in Nat /\ fpos = counter
      BY <1>2, <1>t DEF HalfSent
    <3> QED
      BY <1>t, <3>1, NumBytesType DEF MoreToSend
  <2>2. half = 1 => counter >= size \div 2
    BY <1>2, <1>t, <2>1 DEF HalfSent, Limit
  <2> QED
    BY <1>2, <1>t, <2>2 DEF HalfSent, Exit, HalvesInOrder
<1>3. CASE (SendChunk \/ AskKey \/ RecvKey) /\ ReceiverStill
  BY <1>3 DEF SendChunk, AskKey, RecvKey, HalvesInOrder
<1>4. CASE (SendFileSize \/ RecvSizeAck \/ SendFin \/ RecvFinAck) /\ ReceiverStill
  BY <1>4 DEF SendFileSize, RecvSizeAck, SendFin, RecvFinAck, HalvesInOrder
<1>5. CASE (SendAgain \/ RecvAgainAck \/ SendEnd \/ RecvEndAck \/ RecvEndEnd) /\ ReceiverStill
  BY <1>5 DEF SendAgain, RecvAgainAck, SendEnd, RecvEndAck, RecvEndEnd, HalvesInOrder
<1>6. CASE (SenderRefuses \/ SenderLosesPeer \/ SenderDies) /\ ReceiverStill
  BY <1>6 DEF SenderRefuses, SenderLosesPeer, SenderDies, Exit, HalvesInOrder
<1>7. CASE (ReceiverNext \/ ReceiverSpins \/ ReceiverCrash)
  <2>1. UNCHANGED senderVars /\ size' = size
    BY <1>7 DEF ReceiverNext, ReceiverSpins, ReceiverCrash, ReceiverStep, RecvFileSize, OpenFile,
                RecvForEmptyFile, RecvSendKey, RecvFin, RecvChunk, RecvOk, RecvAgain, RecvEnd,
                SendOwnEnd, RecvOwnEndAck, ReceiverRefuses, ReceiverLosesPeer, RecvNothing,
                ReceiverFails, ReceiverKilled
  <2> QED
    BY <2>1 DEF senderVars, HalvesInOrder
<1>8. CASE Connect \/ UNCHANGED vars
  BY <1>8 DEF Connect, vars, wireVars, senderVars, HalvesInOrder
<1> QED
  BY <1>1, <1>2, <1>3, <1>4, <1>5, <1>6, <1>7, <1>8
     DEF Next, Idle, SenderNext, SenderCrash, SenderStep, ReceiverStill
\* The measurements of a step that reads n bytes, none of them at an end of a half.
LEMMA NotMeasured ==
    ASSUME NEW buf, NEW n, ~FirstHalfEnds(buf, n), ~SecondHalfEnds(buf, n), Measure(buf, n)
    PROVE  marks' = marks
  BY DEF Measure, Measured

\* One measurement more keeps the turns.
LEMMA TimedOnce ==
    ASSUME NEW n \in Nat, NEW which \in {1, 2}, marks \in Seq({1, 2}),
           Timed(marks, n), which = (IF (n + 1) % 2 = 1 THEN 1 ELSE 2),
           marks' = Append(marks, which)
    PROVE  Timed(marks', n + 1)
<1>1. Len(marks) = n /\ \A i \in 1..n : marks[i] = IF i % 2 = 1 THEN 1 ELSE 2
  BY DEF Timed
<1>2. /\ Len(marks') = n + 1 /\ marks'[n + 1] = which
      /\ \A i \in 1..n : marks'[i] = marks[i]
  BY <1>1
<1>3. ASSUME NEW i \in 1..(n + 1) PROVE marks'[i] = IF i % 2 = 1 THEN 1 ELSE 2
  <2>1. i = n + 1 \/ i \in 1..n
    OBVIOUS
  <2>2. CASE i = n + 1
    BY <1>2, <2>2
  <2>3. CASE i \in 1..n
    BY <1>1, <1>2, <2>3
  <2> QED
    BY <2>1, <2>2, <2>3
<1> QED
  BY <1>2, <1>3 DEF Timed

\* A step of Sender leaves the array alone, and begins a round only when the
\* array holds both halves of the last.
LEMMA SenderTimes ==
    ASSUME Lockstep, IInv, TimesKept, SenderStep \/ SenderDies, ReceiverStill
    PROVE  TimesKept'
<1>t. /\ TypeInv /\ Ends /\ (sopen /\ ropen => Both) /\ (sopen => SenderView)
      /\ size \in Nat /\ rounds \in Nat /\ rcounter \in Nat
  BY WireAssumption DEF IInv, TypeInv, TypeOK, WireTypeOK, SenderTypeOK, ReceiverTypeOK
<1>m. \A k \in Control : Message(k) \in Seq(Byte) /\ Message(k) # <<>>
  BY MessageType, MessageSolid
<1>f. rpc' = rpc /\ rcounter' = rcounter /\ marks' = marks
  BY DEF ReceiverStill, receiverVars
<1>s. size' = size /\ ropen' = ropen
  BY DEF SenderStep, SendFileSize, RecvSizeAck, SendChunk, RecvChunkAck, HalfSent, AskKey, RecvKey,
         SendFin, RecvFinAck, SendAgain, RecvAgainAck, SendEnd, RecvEndAck, RecvEndEnd,
         SenderRefuses, SenderLosesPeer, SenderDies
<1>k. /\ HalvesHeld' = HalvesHeld
      /\ UsualSize' <=> UsualSize
  BY <1>f, <1>s DEF HalvesHeld, UsualSize
<1>d. rpc = "endAck" /\ sopen /\ ropen => s2r = <<>> /\ HoldsAll /\ ~AgainUnread
  BY <1>t, <1>m, Names DEF Both, Quiet, Asked, Answered, OkUnderWay, Holds, AgainUnread
<1>h. UsualSize /\ HoldsAll => HalvesHeld = 2
  BY <1>t DEF HoldsAll, HalvesHeld, UsualSize
<1>1. CASE RecvEndEnd
  <2>1. sopen /\ ~sopen' /\ rounds' = rounds /\ spc = "endEnd"
    BY <1>1, <1>t DEF RecvEndEnd, Ends
  <2>2. ropen /\ UsualSize => Timed(marks, 2 * (rounds + 1))
    <3>1. SUFFICES ASSUME ropen, UsualSize PROVE Timed(marks, 2 * (rounds + 1))
      OBVIOUS
    <3>2. HoldsAll /\ ~AgainUnread
      <4>1. r2s # <<>>
        <5>1. Expected(spc) = "END" /\ spc \in Awaits /\ Receives("END")
          BY <1>1 DEF RecvEndEnd, Expected, Awaits
        <5>2. r2s = Message("END")
          BY <1>t, <2>1, <5>1, SenderGets
        <5> QED
          BY <1>m, <5>2, Names
      <4> QED
        BY <1>t, <2>1, <3>1, <4>1 DEF Both, Quiet, Asked, Answered, OkUnderWay, AgainUnread
    <3>3. 2 * rounds + 2 = 2 * (rounds + 1)
      BY <1>t
    <3> QED
      BY <1>h, <2>1, <3>1, <3>2, <3>3 DEF TimesKept
  <2> QED
    BY <1>f, <1>s, <1>k, <2>1, <2>2 DEF TimesKept
<1>2. CASE (HalfSent /\ ~sopen') \/ SenderRefuses \/ SenderLosesPeer \/ SenderDies
  <2>1. ~sopen' /\ rounds' = rounds /\ s2r' = s2r
    BY <1>2 DEF HalfSent, SenderRefuses, SenderLosesPeer, SenderDies, Exit
  <2> QED
    BY <1>f, <1>s, <1>k, <1>d, <2>1 DEF TimesKept
<1>3. CASE SendAgain
  <2>1. sopen /\ sopen' /\ rounds' = rounds + 1 /\ spc = "ask" /\ spc' = "againAck"
    BY <1>3, <1>t DEF SendAgain, Ends
  <2>2. ropen => rpc = "next" /\ HoldsAll
    BY <1>t, <1>m, <2>1, Names DEF Both, Quiet, Asked, Answered, OkUnderWay
  <2>3. 2 * rounds' + 0 = 2 * rounds + 2
    BY <1>t, <2>1
  <2> QED
    BY <1>f, <1>s, <1>k, <1>h, <2>1, <2>2, <2>3 DEF TimesKept, AgainUnread
<1>4. CASE RecvAgainAck
  <2>1. sopen /\ sopen' /\ rounds' = rounds /\ spc = "againAck" /\ spc' = "file"
    BY <1>4, <1>t DEF RecvAgainAck, Ends
  <2>2. r2s = ACK
    <3>1. Expected(spc) = "ACK" /\ spc \in Awaits
      BY <2>1 DEF Expected, Awaits
    <3> QED
      BY <1>4, <1>t, <2>1, <3>1, SenderGets DEF RecvAgainAck, ACK
  <2>3. ropen => ~AgainUnread
    BY <1>t, <1>m, <2>1, <2>2, Names DEF ACK, Both, Quiet, Asked, Answered, OkUnderWay, Holds, AgainUnread
  <2> QED
    BY <1>f, <1>s, <1>k, <2>1, <2>3 DEF TimesKept, AgainUnread
<1>5. CASE \/ SendFileSize \/ RecvSizeAck \/ SendChunk \/ RecvChunkAck \/ (HalfSent /\ sopen')
           \/ AskKey \/ RecvKey \/ SendFin \/ RecvFinAck \/ SendEnd \/ RecvEndAck
  <2>1. sopen /\ sopen' /\ rounds' = rounds /\ spc # "againAck" /\ spc' # "againAck"
    BY <1>5, <1>t DEF Ends, SendFileSize, RecvSizeAck, SendChunk, RecvChunkAck, HalfSent, Exit,
       AskKey, RecvKey, SendFin, RecvFinAck, SendEnd, RecvEndAck
  <2> QED
    BY <1>f, <1>s, <1>k, <2>1 DEF TimesKept, AgainUnread
<1> QED
  BY <1>1, <1>2, <1>3, <1>4, <1>5 DEF SenderStep
\* A chunk ends the half it belongs to, or none.
LEMMA ChunkTimes ==
    ASSUME Lockstep, RoomForAllRounds, IInv, HalvesInOrder, UsualSize,
           Timed(marks, 2 * rounds + HalvesHeld), RecvChunk, sopen
    PROVE  Timed(marks', 2 * rounds + HalvesHeld')
<1>t. /\ TypeInv /\ Ends /\ (sopen /\ ropen => Both)
      /\ size \in Nat /\ counter \in Nat /\ rcounter \in Nat /\ BufferSize \in Nat
      /\ half \in {1, 2} /\ rounds \in 0..MaxRounds /\ marks \in Seq({1, 2}) /\ MaxMarks \in Nat
      /\ MaxRounds \in Nat /\ (spc = "fileAck" => counter < Limit)
  BY WireAssumption, SenderAssumption, ReceiverAssumption
     DEF IInv, TypeInv, TypeOK, WireTypeOK, SenderTypeOK, ReceiverTypeOK, FilePosition
<1>h. size \div 2 \in Nat /\ 1 <= size \div 2 /\ size \div 2 < size
  BY <1>t DEF UsualSize
<1>1. /\ s2r # <<>> /\ rpc = "loop"
      /\ s2r # Message("SEND_KEY") /\ s2r # Message("FIN")
  BY ChunkWritten
<1>2. spc = "fileAck" /\ s2r = Pending /\ rcounter = counter
  BY <1>t, <1>1 DEF RecvChunk, Ends, Live, Both, Quiet, Asked, Answered, OkUnderWay, Holds
<1>3. /\ NumBytes \in 1..BufferSize /\ counter + NumBytes <= Limit
      /\ NumBytes \in Nat /\ NumBytes >= 1 /\ Len(s2r) = NumBytes
  <2>1. NumBytes \in 1..BufferSize /\ counter + NumBytes <= Limit
    BY <1>t, <1>2, NumBytesType
  <2>2. NumBytes \in Nat /\ NumBytes >= 1
    BY <1>t, <2>1
  <2> QED
    BY <1>t, <1>2, <2>1, <2>2, ChunkType DEF Pending
<1>4. /\ ~Reads(s2r, "SEND_KEY") /\ ~Reads(s2r, "FIN")
      /\ Measure(s2r, NumBytes)
      /\ rcounter' = rcounter + NumBytes
      /\ size' = size
  <2>1. PICK n \in ReadLens(s2r, BufferSize) :
            /\ ~Reads(Taken(s2r, n), "SEND_KEY") /\ ~Reads(Taken(s2r, n), "FIN")
            /\ Measure(Taken(s2r, n), n)
            /\ rcounter' = rcounter + n
    BY DEF RecvChunk
  <2>2. n = Len(s2r) /\ Taken(s2r, n) = s2r
    BY <1>t, <1>1, ReceiverReads DEF IInv, RecvChunk, Ends, Live
  <2> QED
    BY <1>3, <2>1, <2>2 DEF RecvChunk
<1>5. /\ FirstHalfEnds(s2r, NumBytes) <=> rcounter' = size \div 2
      /\ SecondHalfEnds(s2r, NumBytes) <=> rcounter' = size
  BY <1>4 DEF FirstHalfEnds, SecondHalfEnds
<1>6. HalvesHeld \in {0, 1} => Len(marks) < MaxMarks
  BY <1>t DEF Timed, RoomForAllRounds
<1>7. CASE half = 1
  <2>1. HalvesHeld = 0 /\ rcounter < size \div 2 /\ rcounter' <= size \div 2 /\ rcounter' # size
    BY <1>t, <1>h, <1>2, <1>3, <1>4, <1>7 DEF HalvesHeld, Limit
  <2>2. CASE rcounter' = size \div 2
    <3>1. marks' = Append(marks, 1)
      BY <1>4, <1>5, <1>6, <2>1, <2>2 DEF Measure, Measured
    <3>2. HalvesHeld' = 1
      BY <1>h, <1>4, <2>2 DEF HalvesHeld
    <3>3. 2 * rounds \in Nat /\ (2 * rounds + 1) % 2 = 1 /\ 2 * rounds + 0 = 2 * rounds
      BY <1>t
    <3> QED
      BY <1>t, <2>1, <3>1, <3>2, <3>3, TimedOnce
  <2>3. CASE rcounter' # size \div 2
    <3>1. marks' = marks
      BY <1>4, <1>5, <2>1, <2>3, NotMeasured
    <3>2. HalvesHeld' = 0
      BY <1>t, <1>h, <1>3, <1>4, <2>1, <2>3 DEF HalvesHeld
    <3> QED
      BY <2>1, <3>1, <3>2 DEF Timed
  <2> QED
    BY <2>2, <2>3
<1>8. CASE half = 2
  <2>1. HalvesHeld = 1 /\ rcounter < size /\ rcounter' <= size /\ rcounter' > size \div 2
    BY <1>t, <1>h, <1>2, <1>3, <1>4, <1>8 DEF HalvesHeld, Limit, HalvesInOrder
  <2>2. CASE rcounter' = size
    <3>1. marks' = Append(marks, 2)
      BY <1>h, <1>4, <1>5, <1>6, <2>1, <2>2 DEF Measure, Measured
    <3>2. HalvesHeld' = 2
      BY <1>h, <1>4, <2>2 DEF HalvesHeld
    <3>3. 2 * rounds + 1 \in Nat /\ (2 * rounds + 1 + 1) % 2 # 1 /\ (2 * rounds + 1) + 1 = 2 * rounds + 2
      BY <1>t
    <3> QED
      BY <1>t, <2>1, <3>1, <3>2, <3>3, TimedOnce
  <2>3. CASE rcounter' # size
    <3>1. marks' = marks
      BY <1>h, <1>4, <1>5, <2>1, <2>3, NotMeasured
    <3>2. HalvesHeld' = 1
      BY <1>t, <1>h, <1>3, <1>4, <2>1, <2>3 DEF HalvesHeld
    <3> QED
      BY <2>1, <3>1, <3>2 DEF Timed
  <2> QED
    BY <2>2, <2>3
<1> QED
  BY <1>t, <1>7, <1>8
\* A step of Receiver.
LEMMA ReceiverTimes ==
    ASSUME Lockstep, RoomForAllRounds, IInv, HalvesInOrder, TimesKept,
           ReceiverStep \/ RecvNothing \/ ReceiverFails \/ ReceiverKilled, SenderStill
    PROVE  TimesKept'
<1>t. /\ TypeInv /\ Ends /\ (sopen /\ ropen => Both) /\ (ropen => ReceiverView)
      /\ size \in Nat /\ rounds \in Nat /\ rcounter \in Nat /\ counter \in Nat
  BY WireAssumption DEF IInv, TypeInv, TypeOK, WireTypeOK, SenderTypeOK, ReceiverTypeOK
<1>m. \A k \in Control : Message(k) \in Seq(Byte) /\ Message(k) # <<>>
  BY MessageType, MessageSolid
<1>n. mimic.as = "none"
  BY <1>t DEF Lockstep, TypeInv, TypeOK, WireTypeOK
<1>f. spc' = spc /\ rounds' = rounds
  BY DEF SenderStill, senderVars
<1>s. size' = size /\ sopen' = sopen /\ rpc \in Live
  BY DEF ReceiverStep, RecvFileSize, OpenFile, RecvForEmptyFile, RecvSendKey, RecvFin, RecvChunk,
         RecvOk, RecvAgain, RecvEnd, SendOwnEnd, RecvOwnEndAck, ReceiverRefuses, Unexpected,
         ReceiverLosesPeer, RecvNothing, ReceiverFails, ReceiverKilled, Live
<1>r. ropen /\ ReceiverView /\ rpc \notin Stopped /\ (sopen => Both)
  BY <1>t, <1>s DEF Ends, Live, Stopped
<1> SUFFICES ASSUME UsualSize
             PROVE  TimesKept'
  BY <1>s DEF TimesKept, UsualSize
<1>h. size \div 2 \in Nat /\ 1 <= size \div 2 /\ size \div 2 < size
  BY <1>t DEF UsualSize
\* What is left of the invariant when the two programs read their messages on.
<1>w. ASSUME rpc' \notin {"endAck", "done"}, sopen /\ ropen' => marks' = marks /\ rcounter' = rcounter,
             sopen /\ ropen' => ~AgainUnread /\ ~AgainUnread'
      PROVE  TimesKept'
  BY <1>f, <1>s, <1>r, <1>w DEF TimesKept, HalvesHeld
<1>1. CASE RecvFileSize \/ OpenFile \/ RecvOk
  BY <1>1, <1>f, <1>w DEF RecvFileSize, OpenFile, RecvOk, AgainUnread
<1>2. CASE RecvSendKey
  <2>1. sopen => marks' = marks
    <3> SUFFICES ASSUME sopen PROVE marks' = marks
      OBVIOUS
    <3>1. PICK n \in ReadLens(s2r, BufferSize) :
              Reads(Taken(s2r, n), "SEND_KEY") /\ Measure(Taken(s2r, n), n)
      BY <1>2 DEF RecvSendKey
    <3>2. s2r # <<>> /\ n = Len(s2r) /\ Taken(s2r, n) = s2r
      BY <1>2, <1>t, <1>r, ReceiverReads DEF RecvSendKey
    <3>3. s2r # Message("FIN") /\ (spc = "fileAck" => s2r # Pending)
      <4>1. spc = "fileAck" => NumBytes \in Nat \ {0}
        <5>1. half \in {1, 2} /\ counter \in 0..size /\ BufferSize \in Nat
              /\ (spc = "fileAck" => counter < Limit)
          BY <1>t, WireAssumption DEF TypeInv, TypeOK, SenderTypeOK, FilePosition
        <5> QED
          BY <1>t, <5>1, NumBytesType
      <4> QED
        BY <1>n, <1>t, <3>1, <3>2, <4>1, Names, ReadsMessage, ReadsChunk DEF Pending
    <3>4. spc = "keyRecv" /\ s2r = Message("SEND_KEY") /\ rcounter = counter /\ counter <= size \div 2
      BY <1>2, <1>r, <3>2, <3>3
         DEF RecvSendKey, Both, Quiet, Asked, Answered, OkUnderWay, Holds
    <3>5. n = 9
      BY <3>2, <3>4, Names, MessageType DEF MsgLen
    <3>6. rcounter = size \div 2
      BY <1>t, <1>h, <3>4 DEF HalvesInOrder
    <3>7. ~SecondHalfEnds(Taken(s2r, n), n)
      BY <1>t, <1>h, <3>5, <3>6 DEF SecondHalfEnds, UsualSize
    <3>8. ~FirstHalfEnds(Taken(s2r, n), n)
      BY <3>1 DEF FirstHalfEnds
    <3> QED
      BY <3>1, <3>7, <3>8, NotMeasured
  <2> QED
    BY <1>2, <1>f, <1>w, <2>1 DEF RecvSendKey, AgainUnread
<1>3. CASE RecvFin
  <2>1. sopen => marks' = marks /\ spc = "finAck"
    <3> SUFFICES ASSUME sopen PROVE marks' = marks /\ spc = "finAck"
      OBVIOUS
    <3>1. PICK n \in ReadLens(s2r, BufferSize) :
              Reads(Taken(s2r, n), "FIN") /\ Measure(Taken(s2r, n), n)
      BY <1>3 DEF RecvFin
    <3>2. s2r # <<>> /\ n = Len(s2r) /\ Taken(s2r, n) = s2r
      BY <1>3, <1>t, <1>r, ReceiverReads DEF RecvFin
    <3>3. s2r # Message("SEND_KEY") /\ (spc = "fileAck" => s2r # Pending)
      <4>1. spc = "fileAck" => NumBytes \in Nat \ {0}
        <5>1. half \in {1, 2} /\ counter \in 0..size /\ BufferSize \in Nat
              /\ (spc = "fileAck" => counter < Limit)
          BY <1>t, WireAssumption DEF TypeInv, TypeOK, SenderTypeOK, FilePosition
        <5> QED
          BY <1>t, <5>1, NumBytesType
      <4> QED
        BY <1>n, <1>t, <3>1, <3>2, <4>1, Names, ReadsMessage, ReadsChunk DEF Pending
    <3>4. spc = "finAck" /\ s2r = Message("FIN") /\ rcounter = size
      BY <1>3, <1>r, <3>2, <3>3
         DEF RecvFin, Both, Quiet, Asked, Answered, OkUnderWay, Holds
    <3>5. n = 4
      BY <3>2, <3>4, Names, MessageType DEF MsgLen
    <3>6. ~SecondHalfEnds(Taken(s2r, n), n) /\ ~FirstHalfEnds(Taken(s2r, n), n)
      BY <1>t, <1>h, <3>4, <3>5 DEF SecondHalfEnds, FirstHalfEnds
    <3> QED
      BY <3>1, <3>4, <3>6, NotMeasured
  <2> QED
    BY <1>3, <1>f, <1>w, <2>1 DEF RecvFin, AgainUnread
<1>4. CASE RecvChunk
  <2>1. rpc = "loop" /\ rpc' = "loop" /\ ropen' = ropen
    BY <1>4, ChunkWritten
  <2>2. sopen => Timed(marks', 2 * rounds + HalvesHeld')
    BY <1>4, <1>r, <2>1, ChunkTimes DEF TimesKept, AgainUnread
  <2> QED
    BY <1>f, <1>s, <2>1, <2>2 DEF TimesKept, AgainUnread
<1>5. CASE RecvNothing
  BY <1>5, <1>s, <1>w DEF RecvNothing
<1>6. CASE RecvAgain
  <2>1. sopen => spc = "againAck" /\ HoldsAll
    <3>1. s2r # <<>> /\ Reads(s2r, "AGAIN")
      BY <1>6, <1>t, <1>r, ReceiverReads DEF RecvAgain
    <3>2. s2r # Message("END")
      BY <1>n, <3>1, Names, ReadsMessage
    <3> QED
      BY <1>6, <1>r, <3>1, <3>2 DEF RecvAgain, Both, Quiet, Asked, Answered, OkUnderWay, Holds
  <2>2. rpc = "next" /\ rpc' = "open" /\ rcounter' = 0 /\ marks' = marks
    BY <1>6 DEF RecvAgain
  <2>3. HalvesHeld' = 0
    BY <1>h, <1>s, <2>2 DEF HalvesHeld
  <2> QED
    BY <1>f, <1>s, <1>r, <2>1, <2>2, <2>3 DEF TimesKept, AgainUnread
<1>7. CASE RecvEnd
  <2>1. sopen => spc = "endAck"
    <3>1. s2r # <<>> /\ Reads(s2r, "END")
      BY <1>7, <1>t, <1>r, ReceiverReads DEF RecvEnd
    <3>2. s2r # Message("AGAIN")
      BY <1>n, <3>1, Names, ReadsMessage
    <3> QED
      BY <1>7, <1>r, <3>1, <3>2 DEF RecvEnd, Both, Quiet, Asked, Answered, OkUnderWay, Holds
  <2> QED
    BY <1>7, <1>f, <1>w, <2>1 DEF RecvEnd, AgainUnread
<1>8. CASE SendOwnEnd
  <2>1. s2r' = <<>> /\ rpc = "sendEnd" /\ rpc' = "endAck" /\ marks' = marks /\ rcounter' = rcounter
    BY <1>8, <1>r DEF SendOwnEnd, ReceiverView
  <2> QED
    BY <1>f, <1>s, <1>r, <2>1 DEF TimesKept, AgainUnread, HalvesHeld
<1>9. CASE RecvOwnEndAck
  <2>1. s2r # <<>> /\ rpc = "endAck" /\ rpc' = "done" /\ ~ropen' /\ marks' = marks
    BY <1>9, <1>t, <1>r, ReceiverReads DEF RecvOwnEndAck
  <2>2. ~sopen
    BY <1>r, <2>1 DEF Both, Quiet, Asked, Answered, OkUnderWay, Holds
  <2> QED
    BY <1>f, <1>s, <1>r, <2>1, <2>2 DEF TimesKept
<1>10. CASE \/ RecvForEmptyFile \/ ReceiverRefuses \/ ReceiverLosesPeer
            \/ ReceiverFails \/ ReceiverKilled
  <2>1. ~ropen' /\ rpc' # "done"
    BY <1>10 DEF RecvForEmptyFile, ReceiverRefuses, ReceiverLosesPeer, ReceiverFails,
                 ReceiverKilled, Fail
  <2> QED
    BY <2>1 DEF TimesKept
<1> QED
  BY <1>1, <1>2, <1>3, <1>4, <1>5, <1>6, <1>7, <1>8, <1>9, <1>10 DEF ReceiverStep

LEMMA TimesStep ==
    ASSUME Lockstep, RoomForAllRounds, IInv, HalvesInOrder, TimesKept, [Next]_vars
    PROVE  TimesKept'
<1>1. CASE Connect
  <2>1. /\ sopen' /\ ropen' /\ rpc' = "size" /\ spc' = "size" /\ size' = size
        /\ rounds' = 0 /\ marks' = <<>> /\ rcounter' = 0
    BY <1>1 DEF Connect
  <2>2. size \in Nat
    BY WireAssumption DEF IInv, TypeInv, TypeOK, WireTypeOK
  <2>3. UsualSize' => HalvesHeld' = 0
    BY <2>1, <2>2 DEF HalvesHeld, UsualSize
  <2>4. Timed(<<>>, 0) /\ 2 * 0 + 0 = 0
    BY DEF Timed
  <2> QED
    BY <2>1, <2>3, <2>4 DEF TimesKept, AgainUnread
<1>2. CASE SenderNext \/ SenderCrash
  BY <1>2, SenderTimes DEF SenderNext, SenderCrash, ReceiverStill
<1>3. CASE ReceiverNext \/ ReceiverSpins \/ ReceiverCrash
  BY <1>3, ReceiverTimes DEF ReceiverNext, ReceiverSpins, ReceiverCrash, SenderStill
<1>4. CASE UNCHANGED vars
  BY <1>4 DEF TimesKept, UsualSize, AgainUnread, HalvesHeld, vars, wireVars, senderVars, receiverVars
<1> QED
  BY <1>1, <1>2, <1>3, <1>4 DEF Next, Idle

\* The comment above time_measurements in Receiver.c holds for every usual file:
\* two entries a round, first halves at the even places, second halves at the odd.
THEOREM TimingsSortedUsually ==
    ASSUME Lockstep, RoomForAllRounds PROVE Spec => []UsualTimingsSorted
<1>1. Init => HalvesInOrder /\ TimesKept
  BY DEF Init, WireInit, SenderInit, ReceiverInit, HalvesInOrder, TimesKept
<1>2. IInv /\ HalvesInOrder /\ TimesKept /\ [Next]_vars => HalvesInOrder' /\ TimesKept'
  BY HalvesStep, TimesStep DEF IInv
<1>3. IInv /\ TimesKept => UsualTimingsSorted
  <2> SUFFICES ASSUME IInv, TimesKept, UsualSize, rpc = "done" PROVE TimingsSorted
    BY DEF UsualTimingsSorted, UsualSize, TimingsSorted
  <2>1. Timed(marks, 2 * (rounds + 1))
    BY DEF TimesKept
  <2>2. DOMAIN marks = 1..Len(marks)
    BY DEF IInv, TypeInv, TypeOK, ReceiverTypeOK
  <2> QED
    BY <2>1, <2>2 DEF Timed, TimingsSorted
<1> QED
  BY LockstepInvariant, <1>1, <1>2, <1>3, PTL DEF Spec
---------------------------------------------------------------------------
\* FileTransfer implements FileDelivery under the same hypotheses: every change of
\* recv.txt is a step of FileDelivery.


\* What recv.txt holds is a beginning of send.txt, in every state: also when a
\* process stopped, and before a new session has truncated the file.
HoldsBeginning == \E n \in 0..size : rfile = File(n)

LEMMA BeginningInit == Init => HoldsBeginning
<1> SUFFICES ASSUME Init PROVE HoldsBeginning
  OBVIOUS
<1>1. size \in Nat /\ rfile = <<>>
  BY WireAssumption DEF Init, WireInit, ReceiverInit
<1>2. 0 \in 0..size /\ rfile = File(0)
  BY <1>1, FileEmpty
<1> QED
  BY <1>2 DEF HoldsBeginning

\* A killed client leaves a beginning of what it had written.
LEMMA CutBeginning ==
    ASSUME NEW k \in Nat, NEW n \in 0..Len(File(k))
    PROVE  n \in 0..k /\ SubSeq(File(k), 1, n) = File(n)
<1>1. File(k) \in Seq(Nat) /\ Len(File(k)) = k
  BY DEF File
<1>2. n \in 0..k
  BY <1>1
<1>3. SubSeq(File(k), 1, n) = [i \in 1..n |-> File(k)[1 + i - 1]]
  BY <1>1, <1>2
<1>4. \A i \in 1..n : File(k)[1 + i - 1] = i
  BY <1>2 DEF File
<1> QED
  BY <1>2, <1>3, <1>4 DEF File

LEMMA BeginningStep ==
    Lockstep /\ IInv /\ HoldsBeginning /\ [Next]_vars => HoldsBeginning'
<1> SUFFICES ASSUME Lockstep, IInv, HoldsBeginning, [Next]_vars PROVE HoldsBeginning'
  OBVIOUS
<1>t. size \in Nat /\ rcounter \in Nat
  BY WireAssumption DEF IInv, TypeInv, TypeOK, WireTypeOK, ReceiverTypeOK
<1>s. size' = size
  BY DEF Next, Connect, SenderNext, SenderCrash, ReceiverNext, ReceiverSpins, ReceiverCrash, Idle,
         SenderStep, SendFileSize, RecvSizeAck, SendChunk, RecvChunkAck, HalfSent, AskKey, RecvKey,
         SendFin, RecvFinAck, SendAgain, RecvAgainAck, SendEnd, RecvEndAck, RecvEndEnd,
         SenderRefuses, SenderLosesPeer, SenderDies,
         ReceiverStep, RecvFileSize, OpenFile, RecvForEmptyFile, RecvSendKey, RecvFin, RecvChunk,
         RecvNothing, RecvOk, RecvAgain, RecvEnd, SendOwnEnd, RecvOwnEndAck, ReceiverRefuses,
         ReceiverLosesPeer, ReceiverFails, ReceiverKilled, vars, wireVars
<1>1. CASE rfile' = rfile
  BY <1>1, <1>s DEF HoldsBeginning, File
<1>2. CASE rfile' = <<>>
  BY <1>2, <1>s, <1>t, FileEmpty DEF HoldsBeginning, File
<1>3. CASE RecvChunk
  <2>1. PICK m \in 1..BufferSize : rcounter + m <= size /\ rfile' = File(rcounter + m)
    BY <1>3, ChunkWritten
  <2>2. rcounter + m \in 0..size
    BY <1>t, <2>1, WireAssumption
  <2> QED
    BY <1>s, <2>1, <2>2 DEF HoldsBeginning, File
<1>4. CASE ReceiverKilled /\ rfile' # rfile
  <2>1. PICK k \in 0..size : rfile = File(k)
    BY DEF HoldsBeginning
  <2>2. PICK n \in 0..Len(rfile) : rfile' = SubSeq(rfile, 1, n)
    BY <1>4 DEF ReceiverKilled
  <2>3. n \in 0..k /\ rfile' = File(n)
    BY <1>t, <2>1, <2>2, CutBeginning
  <2>4. n \in 0..size
    BY <1>t, <2>1, <2>3
  <2> QED
    BY <1>s, <2>3, <2>4 DEF HoldsBeginning, File
<1> QED
  <2>1. rfile' = rfile \/ rfile' = <<>> \/ RecvChunk \/ (ReceiverKilled /\ rfile' # rfile)
    BY DEF Next, Connect, SenderNext, SenderCrash, ReceiverNext, ReceiverSpins, ReceiverCrash, Idle,
           ReceiverStep, RecvFileSize, OpenFile, RecvForEmptyFile, RecvSendKey, RecvFin,
           RecvNothing, RecvOk, RecvAgain, RecvEnd, SendOwnEnd, RecvOwnEndAck, ReceiverRefuses,
           ReceiverLosesPeer, ReceiverFails, vars, receiverVars
  <2> QED
    BY <1>1, <1>2, <1>3, <1>4, <2>1

LEMMA DeliveryInitially == Init => Delivery!DeliveryInit
  BY WireAssumption
     DEF Init, WireInit, ReceiverInit, Delivery!DeliveryInit, DeliveryStatus, DeliveredContent

\* A client that gives up leaves a beginning of the file.
LEMMA GivingUpAborts ==
    ASSUME HoldsBeginning', size' = size, rpc \in Live, rpc' \in {"failed", "killed"}
    PROVE  Delivery!Abort
<1>1. DeliveryStatus = "receiving"
  BY DEF DeliveryStatus, Live
<1>2. DeliveryStatus' = "failed" /\ DeliveredContent' = rfile'
  BY DEF DeliveryStatus, DeliveredContent
<1>3. PICK n \in 0..size : rfile' = File(n)
  BY DEF HoldsBeginning, File
<1>4. DeliveredContent' = Delivery!Beginning(n)
  BY <1>2, <1>3 DEF File, Delivery!Beginning
<1> QED
  BY <1>1, <1>2, <1>4 DEF Delivery!Abort

LEMMA DeliveryStep ==
    Lockstep /\ IInv /\ HoldsBeginning' /\ [Next]_vars => [Delivery!DeliveryNext]_Delivery!dvars
<1> SUFFICES ASSUME Lockstep, IInv, HoldsBeginning', [Next]_vars
             PROVE  Delivery!DeliveryNext \/ UNCHANGED Delivery!dvars
  OBVIOUS
<1>t. size \in Nat /\ rcounter \in Nat /\ BufferSize \in Nat /\ Ends /\ (ropen => ReceiverView)
  BY WireAssumption DEF IInv, TypeInv, TypeOK, WireTypeOK, ReceiverTypeOK
<1>1. CASE Connect
  <2>1. DeliveryStatus # "receiving"
    BY <1>1 DEF Connect, Stopped, DeliveryStatus
  <2>2. DeliveryStatus' = "receiving" /\ DeliveredContent' = <<>> /\ size' = size
    BY <1>1 DEF Connect, DeliveryStatus, DeliveredContent
  <2> QED
    BY <2>1, <2>2 DEF Delivery!DeliveryNext, Delivery!Start
<1>2. CASE UNCHANGED <<size, rpc, rfile>>
  BY <1>2 DEF DeliveryStatus, DeliveredContent, Delivery!dvars
<1>3. CASE RecvFileSize \/ OpenFile
  <2>1. DeliveryStatus' = DeliveryStatus /\ DeliveredContent' = DeliveredContent /\ size' = size
    BY <1>3 DEF RecvFileSize, OpenFile, DeliveryStatus, DeliveredContent
  <2> QED
    BY <2>1 DEF Delivery!dvars
<1>4. CASE RecvSendKey \/ RecvFin \/ RecvOk \/ RecvEnd \/ SendOwnEnd
  <2>1. DeliveryStatus' = DeliveryStatus /\ DeliveredContent' = DeliveredContent /\ size' = size
    BY <1>4 DEF RecvSendKey, RecvFin, RecvOk, RecvEnd, SendOwnEnd, DeliveryStatus, DeliveredContent
  <2> QED
    BY <2>1 DEF Delivery!dvars
<1>5. CASE RecvChunk
  <2>1. /\ rpc = "loop" /\ rpc' = "loop" /\ size' = size
        /\ rfile = File(rcounter)
    BY <1>5, ChunkWritten DEF RecvChunk
  <2>2. PICK m \in 1..BufferSize : rcounter + m <= size /\ rfile' = File(rcounter + m)
    BY <1>5, ChunkWritten
  <2>3. DeliveryStatus = "receiving" /\ DeliveryStatus' = "receiving"
        /\ DeliveredContent = rfile /\ DeliveredContent' = rfile'
    BY <2>1 DEF DeliveryStatus, DeliveredContent
  <2>4. Len(DeliveredContent) = rcounter
    BY <1>t, <2>1, <2>3 DEF File
  <2>5. rcounter + m \in (Len(DeliveredContent) + 1)..size
    BY <1>t, <2>2, <2>4
  <2>6. DeliveredContent' = Delivery!Beginning(rcounter + m)
    BY <2>2, <2>3 DEF File, Delivery!Beginning
  <2> QED
    BY <2>1, <2>3, <2>5, <2>6 DEF Delivery!DeliveryNext, Delivery!Grow
<1>6. CASE RecvAgain
  <2>1. rpc = "next" /\ rpc' = "open" /\ size' = size
    BY <1>6 DEF RecvAgain
  <2>2. rfile = File(size)
    BY <1>t, <2>1 DEF Ends, Live, ReceiverView, HoldsAll, Intact
  <2>3. DeliveryStatus = "receiving" /\ DeliveryStatus' = "receiving"
        /\ DeliveredContent = rfile /\ DeliveredContent' = <<>>
    BY <2>1 DEF DeliveryStatus, DeliveredContent
  <2> QED
    BY <2>1, <2>2, <2>3 DEF Delivery!DeliveryNext, Delivery!Restart, Delivery!Beginning, File
<1>7. CASE RecvOwnEndAck
  <2>1. rpc = "endAck" /\ rpc' = "done" /\ size' = size /\ rfile' = rfile
    BY <1>7 DEF RecvOwnEndAck
  <2>2. rfile = File(size)
    BY <1>t, <2>1 DEF Ends, Live, ReceiverView, HoldsAll, Intact
  <2>3. DeliveryStatus = "receiving" /\ DeliveryStatus' = "complete"
        /\ DeliveredContent = rfile /\ DeliveredContent' = rfile
    BY <2>1 DEF DeliveryStatus, DeliveredContent
  <2> QED
    BY <2>1, <2>2, <2>3 DEF Delivery!DeliveryNext, Delivery!Complete, Delivery!Beginning, File
<1>8. CASE RecvForEmptyFile \/ ReceiverRefuses \/ ReceiverLosesPeer \/ ReceiverFails \/ ReceiverKilled
  <2>1. rpc \in Live /\ rpc' \in {"failed", "killed"} /\ size' = size
    BY <1>8 DEF RecvForEmptyFile, ReceiverRefuses, Unexpected, ReceiverLosesPeer, ReceiverFails,
                ReceiverKilled, Fail, Live
  <2> QED
    BY <2>1, GivingUpAborts DEF Delivery!DeliveryNext
<1> QED
  <2>1. \/ Connect \/ ReceiverStep \/ RecvNothing \/ ReceiverFails \/ ReceiverKilled
        \/ UNCHANGED <<size, rpc, rfile>>
    BY DEF Next, SenderNext, SenderCrash, ReceiverNext, ReceiverSpins, ReceiverCrash, Idle,
         SenderStep, SendFileSize, RecvSizeAck, SendChunk, RecvChunkAck, HalfSent, AskKey, RecvKey,
         SendFin, RecvFinAck, SendAgain, RecvAgainAck, SendEnd, RecvEndAck, RecvEndEnd,
         SenderRefuses, SenderLosesPeer, SenderDies, vars, wireVars, receiverVars
  <2>2. RecvNothing => UNCHANGED <<size, rpc, rfile>>
    BY DEF RecvNothing
  <2> QED
    BY <1>1, <1>2, <1>3, <1>4, <1>5, <1>6, <1>7, <1>8, <2>1, <2>2 DEF ReceiverStep

\* Whatever changes recv.txt between fopen() and the end of either program adds
\* the next bytes of send.txt, starts anew after the whole of it, or stops with
\* a beginning of it; a client that ends in good order leaves the whole.
THEOREM FileDelivered == ASSUME Lockstep PROVE Spec => DeliversFile
<1>1. Init => HoldsBeginning /\ Delivery!DeliveryInit
  BY BeginningInit, DeliveryInitially
<1>2. IInv /\ HoldsBeginning /\ [Next]_vars => HoldsBeginning'
  BY BeginningStep
<1>3. IInv /\ HoldsBeginning' /\ [Next]_vars => [Delivery!DeliveryNext]_Delivery!dvars
  BY DeliveryStep
<1>4. Spec => []IInv
  BY LockstepInvariant
<1> QED
  BY <1>1, <1>2, <1>3, <1>4, PTL DEF Spec, DeliversFile, Delivery!DeliverySpec
===============================================================================
