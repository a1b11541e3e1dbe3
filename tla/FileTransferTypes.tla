-------------------------- MODULE FileTransferTypes --------------------------
(***************************************************************************)
(* Type correctness of FileTransfer, for every value of its constants:     *)
(* short reads, faults and passages that read as control strings included. *)
(***************************************************************************)
EXTENDS FileTransfer, SequenceTheorems, TLAPS

---------------------------------------------------------------------------
(***************************************************************************)
(* Facts about the streams of Wire: what recv() takes from a stream that   *)
(* holds one message, or one message and what follows it.                  *)
(***************************************************************************)

\* Every control string is a sequence of bytes of the length send() is given.
LEMMA MessageType ==
    ASSUME NEW k \in Control
    PROVE  /\ MsgLen(k) \in 2..9
           /\ Message(k) \in Seq(Byte)
           /\ Len(Message(k)) = MsgLen(k)
           /\ \A i \in 1..MsgLen(k) : Message(k)[i].of = k /\ Message(k)[i].at = i
<1>1. MsgLen(k) \in 2..9
  BY DEF MsgLen, Control
<1>2. \A i \in 1..MsgLen(k) : [of |-> k, at |-> i] \in Byte
  BY <1>1 DEF Byte
<1>3. Message(k) \in [1..MsgLen(k) -> Byte]
  BY <1>2 DEF Message
<1> QED
  BY <1>1, <1>3 DEF Message

\* A chunk is a sequence of n bytes of the file.
LEMMA ChunkType ==
    ASSUME NEW from \in Nat, NEW n \in Nat
    PROVE  /\ Chunk(from, n) \in Seq(Byte)
           /\ Len(Chunk(from, n)) = n
           /\ \A i \in 1..n : Chunk(from, n)[i].of = "FILE" /\ Chunk(from, n)[i].at = from + i
<1>1. \A i \in 1..n : [of |-> "FILE", at |-> from + i] \in Byte
  BY DEF Byte
<1>2. Chunk(from, n) \in [1..n -> Byte]
  BY <1>1 DEF Chunk
<1> QED
  BY <1>2 DEF Chunk

\* Taking from a stream leaves streams, whatever recv() returns.
LEMMA TakeType ==
    ASSUME NEW stream \in Seq(Byte), NEW limit \in Nat, NEW n \in ReadLens(stream, limit)
    PROVE  /\ n \in 0..Len(stream)
           /\ Taken(stream, n) \in Seq(Byte)
           /\ Len(Taken(stream, n)) = n
           /\ Left(stream, n) \in Seq(Byte)
<1>1. n \in 0..Len(stream)
  <2>1. PICK c \in Cuts(stream) : n = MinOf(limit, c)
    BY DEF ReadLens
  <2>2. c \in 1..Len(stream)
    BY DEF Cuts
  <2> QED
    BY <2>1, <2>2 DEF MinOf
<1>2. /\ Taken(stream, n) \in Seq(Byte)
      /\ Len(Taken(stream, n)) = n
  BY <1>1, SubSeqProperties DEF Taken
<1>3. Left(stream, n) \in Seq(Byte)
  <2>1. CASE n = Len(stream)
    BY <2>1, <1>1, SubSeqEmpty DEF Left
  <2>2. CASE n < Len(stream)
    BY <2>2, <1>1, SubSeqProperties DEF Left
  <2> QED
    BY <2>1, <2>2, <1>1
<1> QED
  BY <1>1, <1>2, <1>3

\* recv() waits on an empty stream.
LEMMA ReadEmpty ==
    ASSUME NEW limit \in Nat
    PROVE  ReadLens(<<>>, limit) = {}
  BY DEF ReadLens, Cuts

---------------------------------------------------------------------------
(***************************************************************************)
(* Streams that are not cut inside a chunk.                                *)
(***************************************************************************)

\* What one send() wrote: consecutive bytes of one string.
Solid(m) == \A i \in 1..(Len(m) - 1) : Follows(m[i], m[i + 1])

LEMMA MessageSolid ==
    ASSUME NEW k \in Control
    PROVE  Solid(Message(k)) /\ Message(k) # <<>>
<1>1. \A i \in 1..(Len(Message(k)) - 1) :
          /\ Message(k)[i].of = k /\ Message(k)[i].at = i
          /\ Message(k)[i + 1].of = k /\ Message(k)[i + 1].at = i + 1
  BY MessageType
<1> QED
  BY <1>1, MessageType DEF Solid, Follows

LEMMA ChunkSolid ==
    ASSUME NEW from \in Nat, NEW n \in Nat \ {0}
    PROVE  Solid(Chunk(from, n)) /\ Chunk(from, n) # <<>>
<1>1. Len(Chunk(from, n)) = n
  BY ChunkType
<1>2. ASSUME NEW i \in 1..(n - 1)
      PROVE  Follows(Chunk(from, n)[i], Chunk(from, n)[i + 1])
  <2>1. i \in 1..n /\ i + 1 \in 1..n
    OBVIOUS
  <2>2. Chunk(from, n)[i].of = "FILE" /\ Chunk(from, n)[i].at = from + i
    BY <2>1, ChunkType
  <2>3. Chunk(from, n)[i + 1].of = "FILE" /\ Chunk(from, n)[i + 1].at = from + (i + 1)
    BY <2>1, ChunkType
  <2> QED
    BY <2>2, <2>3 DEF Follows
<1> QED
  BY <1>1, <1>2 DEF Solid

\* recv() returns the first string of a stream, no less and no more, when it is
\* alone there or when recv() was asked for no more than its length.
LEMMA ReadSolid ==
    ASSUME Segment = 0,
           NEW m \in Seq(Byte), m # <<>>, Solid(m),
           NEW t \in Seq(Byte),
           NEW limit \in Nat, limit >= Len(m),
           limit = Len(m) \/ t = <<>>,
           NEW n \in ReadLens(m \o t, limit)
    PROVE  n = Len(m) /\ Taken(m \o t, n) = m /\ Left(m \o t, n) = t
<1> DEFINE s == m \o t
<1>1. /\ s \in Seq(Byte)
      /\ Len(s) = Len(m) + Len(t)
      /\ \A i \in 1..Len(m) : s[i] = m[i]
  BY ConcatProperties
<1>2. PICK c \in Cuts(s) : n = MinOf(limit, c)
  BY DEF ReadLens
<1>3. /\ c \in 1..Len(s)
      /\ c = Len(s) \/ ~Follows(s[c], s[c + 1])
  <2>1. ~(Segment > 0)
    OBVIOUS
  <2> QED
    BY <1>2, <2>1, Zenon DEF Cuts
<1>4. c >= Len(m)
  <2>1. SUFFICES ASSUME c < Len(m) PROVE FALSE
    BY <1>3
  <2>2. s[c] = m[c] /\ s[c + 1] = m[c + 1]
    BY <2>1, <1>1, <1>3
  <2>3. Follows(m[c], m[c + 1])
    BY <2>1, <1>3 DEF Solid
  <2> QED
    BY <2>1, <2>2, <2>3, <1>1, <1>3
<1>5. n = Len(m)
  <2>1. CASE limit = Len(m)
    BY <2>1, <1>2, <1>3, <1>4 DEF MinOf
  <2>2. CASE t = <<>>
    <3>1. Len(s) = Len(m) /\ Len(m) \in Nat
      BY <2>2, <1>1
    <3>2. c = Len(m)
      BY <3>1, <1>3, <1>4
    <3> QED
      BY <3>1, <3>2, <1>2 DEF MinOf
  <2> QED
    BY <2>1, <2>2
<1>6. Taken(s, n) = m
  <2>1. SubSeq(m \o t, 1, Len(m)) = SubSeq(m, 1, Len(m))
    BY SubSeqOfConcat1
  <2> QED
    BY <2>1, <1>5, SubSeqFull DEF Taken
<1>7. Left(s, n) = t
  <2>1. CASE t = <<>>
    BY <2>1, <1>1, <1>5, SubSeqEmpty DEF Left
  <2>2. CASE t # <<>>
    <3>1. Len(t) \in Nat \ {0}
      BY <2>2
    <3>2. SubSeq(m \o t, Len(m) + 1, Len(m) + Len(t)) = SubSeq(t, 1, Len(t))
      BY <3>1, SubSeqOfConcat2
    <3> QED
      BY <3>2, <1>1, <1>5, SubSeqFull DEF Left
  <2> QED
    BY <2>1, <2>2
<1> QED
  BY <1>5, <1>6, <1>7

\* A control string is not taken for another one, and a chunk for none, when no
\* passage of the file reads as one.
LEMMA ReadsMessage ==
    ASSUME NEW k \in Control, NEW j \in Control, mimic.as = "none"
    PROVE  Reads(Message(k), j) <=> k = j
<1>1. j # "none"
  BY DEF Control
<1>2. CASE k = j
  <2>1. SubSeq(Message(k), 1, MsgLen(k)) = Message(k)
    BY MessageType, SubSeqFull
  <2> QED
    BY <1>2, <2>1, MessageType DEF Reads
<1>3. CASE k # j
  <2>1. SUFFICES ASSUME Len(Message(k)) >= MsgLen(j),
                        SubSeq(Message(k), 1, MsgLen(j)) = Message(j)
                 PROVE  FALSE
    BY <1>1, <1>3 DEF Reads
  <2>2. \A i \in 1..MsgLen(j) : Message(k)[i] \in Byte
    BY <2>1, MessageType
  <2>3. SubSeq(Message(k), 1, MsgLen(j))[1] = Message(k)[1]
    BY <2>2, MessageType, SubSeqProperties
  <2>4. Message(k)[1].of = k /\ Message(j)[1].of = j
    BY MessageType
  <2> QED
    BY <1>3, <2>1, <2>3, <2>4
<1> QED
  BY <1>2, <1>3

LEMMA ReadsChunk ==
    ASSUME NEW from \in Nat, NEW n \in Nat \ {0}, NEW j \in Control, mimic.as = "none"
    PROVE  ~Reads(Chunk(from, n), j)
<1>1. j # "none" /\ j # "FILE"
  BY DEF Control
<1>2. SUFFICES ASSUME Len(Chunk(from, n)) >= MsgLen(j),
                      SubSeq(Chunk(from, n), 1, MsgLen(j)) = Message(j)
               PROVE  FALSE
  BY <1>1 DEF Reads
<1>3. \A i \in 1..MsgLen(j) : Chunk(from, n)[i] \in Byte
  <2>1. Chunk(from, n) \in Seq(Byte) /\ MsgLen(j) \in Nat
    BY ChunkType, MessageType
  <2> QED
    BY <2>1, <1>2
<1>4. SubSeq(Chunk(from, n), 1, MsgLen(j))[1] = Chunk(from, n)[1]
  BY <1>3, MessageType, SubSeqProperties
<1>5. Chunk(from, n)[1].of = "FILE"
  <2>1. 1 \in 1..n
    OBVIOUS
  <2> QED
    BY <2>1, ChunkType
<1>6. Message(j)[1].of = j
  BY MessageType
<1> QED
  BY <1>1, <1>2, <1>4, <1>5, <1>6

---------------------------------------------------------------------------
(***************************************************************************)
(* The invariant.                                                          *)
(***************************************************************************)

\* The position of fp is the count of acknowledged bytes, or one chunk ahead of
\* it while that chunk's acknowledgement is awaited.
FilePosition ==
    /\ spc \notin {"fileAck", "exited"} => fpos = counter
    /\ spc = "fileAck" => counter < Limit /\ fpos = counter + NumBytes

TypeInv == TypeOK /\ FilePosition

\* A chunk is between one byte and a buffer long, and ends inside its half.
LEMMA NumBytesType ==
    ASSUME size \in Nat, counter \in Nat, counter < Limit
    PROVE  /\ NumBytes \in 1..BufferSize
           /\ counter + NumBytes <= Limit
           /\ Limit \in 0..size
<1>1. BufferSize \in Nat /\ BufferSize >= 9
  BY WireAssumption
<1>2. Limit \in 0..size
  BY DEF Limit
<1>3. Limit - counter \in Nat \ {0}
  BY <1>2
<1> QED
  BY <1>1, <1>2, <1>3 DEF NumBytes, MinOf

LEMMA SendType ==
    ASSUME WireTypeOK, NEW bytes \in Seq(Byte)
    PROVE  /\ SendToReceiver(bytes) => s2r' \in Seq(Byte)
           /\ SendToSender(bytes) => r2s' \in Seq(Byte)
<1>1. s2r \o bytes \in Seq(Byte) /\ r2s \o bytes \in Seq(Byte)
  BY ConcatProperties DEF WireTypeOK
<1> QED
  BY <1>1 DEF WireTypeOK, SendToReceiver, SendToSender

LEMMA ReceivesType ==
    ASSUME WireTypeOK, NEW k \in Control, Receives(k)
    PROVE  r2s' \in Seq(Byte)
<1>1. r2s \in Seq(Byte) /\ MsgLen(k) \in Nat
  BY MessageType DEF WireTypeOK
<1>2. PICK n \in ReadLens(r2s, MsgLen(k)) : r2s' = Left(r2s, n)
  BY DEF Receives
<1> QED
  BY <1>1, <1>2, TakeType

\* What fwrite() adds are positions.
LEMMA PositionsType ==
    ASSUME NEW buf \in Seq(Byte)
    PROVE  Positions(buf) \in Seq(Nat)
<1>1. \A i \in 1..Len(buf) : buf[i].at \in Nat
  <2>1. \A i \in 1..Len(buf) : buf[i] \in Byte
    BY ElementOfSeq
  <2> QED
    BY <2>1 DEF Byte
<1>2. Positions(buf) \in [1..Len(buf) -> Nat]
  BY <1>1 DEF Positions
<1> QED
  BY <1>2

LEMMA MeasureType ==
    ASSUME ReceiverTypeOK, NEW buf, NEW n, Measure(buf, n)
    PROVE  marks' \in Seq({1, 2})
<1>1. ASSUME NEW ms \in Seq({1, 2}), NEW c \in BOOLEAN, NEW w \in {1, 2}
      PROVE  Measured(ms, c, w) \in Seq({1, 2})
  BY AppendProperties DEF Measured
<1>2. FirstHalfEnds(buf, n) \in BOOLEAN /\ SecondHalfEnds(buf, n) \in BOOLEAN
  BY DEF FirstHalfEnds, SecondHalfEnds
<1>3. Measured(marks, FirstHalfEnds(buf, n), 1) \in Seq({1, 2})
  BY <1>1, <1>2 DEF ReceiverTypeOK
<1> QED
  BY <1>1, <1>2, <1>3 DEF Measure

---------------------------------------------------------------------------
LEMMA TypeInit == Init => TypeInv
<1> SUFFICES ASSUME Init PROVE TypeInv
  OBVIOUS
<1>1. <<>> \in Seq(Byte) /\ <<>> \in Seq(Nat) /\ <<>> \in Seq({1, 2})
  BY EmptySeq
<1>2. WireTypeOK
  BY <1>1 DEF Init, WireInit, WireTypeOK
<1>3. SenderTypeOK
  BY WireAssumption, SenderAssumption
     DEF Init, WireInit, SenderInit, SenderTypeOK, SenderStates, Sends, Awaits, CCs
<1>4. ReceiverTypeOK
  BY <1>1 DEF Init, ReceiverInit, ReceiverTypeOK, Stopped, ReceiverCCs
<1>5. sessions \in 0..MaxSessions
  BY FileTransferAssumption DEF Init
<1>6. FilePosition
  BY DEF Init, SenderInit, FilePosition
<1> QED
  BY <1>2, <1>3, <1>4, <1>5, <1>6 DEF TypeInv, TypeOK

\* What is left of the state when the process that did not move is set aside.
ReceiverStill == UNCHANGED <<receiverVars, sessions>>
SenderStill   == UNCHANGED <<senderVars, sessions>>

\* One step of Sender.
LEMMA SenderTypeStep ==
    TypeInv /\ (SenderStep \/ SenderDies) /\ ReceiverStill => TypeInv'
<1> SUFFICES ASSUME TypeInv, SenderStep \/ SenderDies, ReceiverStill
             PROVE  TypeInv'
  OBVIOUS
<1>t. /\ WireTypeOK /\ SenderTypeOK /\ ReceiverTypeOK /\ sessions \in 0..MaxSessions
      /\ FilePosition
      /\ size \in Nat /\ counter \in Nat /\ MaxRounds \in Nat /\ rounds \in 0..MaxRounds
  BY WireAssumption, SenderAssumption DEF TypeInv, TypeOK, WireTypeOK, SenderTypeOK
<1>r. ReceiverTypeOK' /\ sessions' \in 0..MaxSessions
  BY <1>t DEF ReceiverStill, ReceiverTypeOK, receiverVars
<1>m. \A k \in Control : Message(k) \in Seq(Byte)
  BY MessageType
<1>c. {"SIZE", "ACK", "SEND_KEY", "KEY", "OK", "FIN", "AGAIN", "END"} \subseteq Control
  BY DEF Control
<1>w. SUFFICES s2r' \in Seq(Byte) /\ r2s' \in Seq(Byte) /\ sopen' \in BOOLEAN
               /\ UNCHANGED <<faulty, size, mimic, ropen>>
               /\ SenderTypeOK' /\ FilePosition'
  BY <1>t, <1>r DEF TypeInv, TypeOK, WireTypeOK
<1>1. CASE SendFileSize
  <2>1. s2r' \in Seq(Byte)
    BY <1>1, <1>t, <1>m, <1>c, SendType DEF SendFileSize
  <2>2. r2s' \in Seq(Byte)
    BY <1>1, <1>t DEF SendFileSize, WireTypeOK
  <2>3. SenderTypeOK'
    BY <1>1, <1>t DEF SendFileSize, SenderTypeOK, Exit, SenderStates, Sends, Awaits, CCs
  <2>4. FilePosition'
    BY <1>1, <1>t DEF SendFileSize, FilePosition, Exit
  <2> QED
    BY <1>1, <1>t, <2>1, <2>2, <2>3, <2>4 DEF SendFileSize, Exit, WireTypeOK
<1>2. CASE RecvSizeAck
  <2>1. s2r' \in Seq(Byte)
    BY <1>2, <1>t DEF RecvSizeAck, WireTypeOK
  <2>2. r2s' \in Seq(Byte)
    BY <1>2, <1>t, <1>c, ReceivesType DEF RecvSizeAck
  <2>3. SenderTypeOK'
    BY <1>2, <1>t DEF RecvSizeAck, SenderTypeOK, Exit, SenderStates, Sends, Awaits, CCs
  <2>4. FilePosition'
    BY <1>2, <1>t DEF RecvSizeAck, FilePosition, Exit
  <2> QED
    BY <1>2, <1>t, <2>1, <2>2, <2>3, <2>4 DEF RecvSizeAck, Exit, WireTypeOK
<1>3. CASE SendChunk
  <2>0. NumBytes \in 1..BufferSize /\ fpos + NumBytes <= size /\ fpos \in Nat /\ fpos = counter
    BY <1>3, <1>t, NumBytesType, WireAssumption DEF SendChunk, MoreToSend, FilePosition
  <2>1. s2r' \in Seq(Byte)
    BY <1>3, <1>t, <2>0, ChunkType, SendType DEF SendChunk
  <2>2. r2s' \in Seq(Byte)
    BY <1>3, <1>t DEF SendChunk, WireTypeOK
  <2>3. SenderTypeOK'
    BY <1>3, <1>t, <2>0 DEF SendChunk, SenderTypeOK, Exit, SenderStates, Sends, Awaits, CCs
  <2>4. FilePosition'
    BY <1>3, <1>t, <2>0 DEF SendChunk, FilePosition, Exit, Limit, NumBytes, MoreToSend
  <2> QED
    BY <1>3, <1>t, <2>1, <2>2, <2>3, <2>4 DEF SendChunk, Exit, WireTypeOK
<1>4. CASE RecvChunkAck
  <2>1. s2r' \in Seq(Byte)
    BY <1>4, <1>t DEF RecvChunkAck, WireTypeOK
  <2>2. r2s' \in Seq(Byte)
    BY <1>4, <1>t, <1>c, ReceivesType DEF RecvChunkAck
  <2>0. counter + NumBytes = fpos /\ fpos \in counter..size
    BY <1>4, <1>t DEF RecvChunkAck, FilePosition, SenderTypeOK
  <2>3. SenderTypeOK'
    BY <1>4, <1>t, <2>0 DEF RecvChunkAck, SenderTypeOK, Exit, SenderStates, Sends, Awaits, CCs
  <2>4. FilePosition'
    BY <1>4, <1>t, <2>0 DEF RecvChunkAck, FilePosition, Exit
  <2> QED
    BY <1>4, <1>t, <2>1, <2>2, <2>3, <2>4 DEF RecvChunkAck, Exit, WireTypeOK
<1>5. CASE HalfSent
  <2>1. s2r' \in Seq(Byte)
    BY <1>5, <1>t DEF HalfSent, WireTypeOK
  <2>2. r2s' \in Seq(Byte)
    BY <1>5, <1>t DEF HalfSent, WireTypeOK
  <2>3. SenderTypeOK'
    BY <1>5, <1>t DEF HalfSent, SenderTypeOK, Exit, SenderStates, Sends, Awaits, CCs
  <2>4. FilePosition'
    BY <1>5, <1>t DEF HalfSent, FilePosition, Exit
  <2> QED
    BY <1>5, <1>t, <2>1, <2>2, <2>3, <2>4 DEF HalfSent, Exit, WireTypeOK
<1>6. CASE AskKey
  <2>1. s2r' \in Seq(Byte)
    BY <1>6, <1>t, <1>m, <1>c, SendType DEF AskKey
  <2>2. r2s' \in Seq(Byte)
    BY <1>6, <1>t DEF AskKey, WireTypeOK
  <2>3. SenderTypeOK'
    BY <1>6, <1>t DEF AskKey, SenderTypeOK, Exit, SenderStates, Sends, Awaits, CCs
  <2>4. FilePosition'
    BY <1>6, <1>t DEF AskKey, FilePosition, Exit
  <2> QED
    BY <1>6, <1>t, <2>1, <2>2, <2>3, <2>4 DEF AskKey, Exit, WireTypeOK
<1>7. CASE RecvKey
  <2>1. s2r' \in Seq(Byte)
    BY <1>7, <1>t, <1>m, <1>c, SendType DEF RecvKey
  <2>2. r2s' \in Seq(Byte)
    BY <1>7, <1>t, <1>c, ReceivesType DEF RecvKey
  <2>3. SenderTypeOK'
    BY <1>7, <1>t DEF RecvKey, SenderTypeOK, Exit, SenderStates, Sends, Awaits, CCs
  <2>4. FilePosition'
    BY <1>7, <1>t DEF RecvKey, FilePosition, Exit
  <2> QED
    BY <1>7, <1>t, <2>1, <2>2, <2>3, <2>4 DEF RecvKey, Exit, WireTypeOK
<1>8. CASE SendFin
  <2>1. s2r' \in Seq(Byte)
    BY <1>8, <1>t, <1>m, <1>c, SendType DEF SendFin
  <2>2. r2s' \in Seq(Byte)
    BY <1>8, <1>t DEF SendFin, WireTypeOK
  <2>3. SenderTypeOK'
    BY <1>8, <1>t DEF SendFin, SenderTypeOK, Exit, SenderStates, Sends, Awaits, CCs
  <2>4. FilePosition'
    BY <1>8, <1>t DEF SendFin, FilePosition, Exit
  <2> QED
    BY <1>8, <1>t, <2>1, <2>2, <2>3, <2>4 DEF SendFin, Exit, WireTypeOK
<1>9. CASE RecvFinAck
  <2>1. s2r' \in Seq(Byte)
    BY <1>9, <1>t DEF RecvFinAck, WireTypeOK
  <2>2. r2s' \in Seq(Byte)
    BY <1>9, <1>t, <1>c, ReceivesType DEF RecvFinAck
  <2>3. SenderTypeOK'
    BY <1>9, <1>t DEF RecvFinAck, SenderTypeOK, Exit, SenderStates, Sends, Awaits, CCs
  <2>4. FilePosition'
    BY <1>9, <1>t DEF RecvFinAck, FilePosition, Exit
  <2> QED
    BY <1>9, <1>t, <2>1, <2>2, <2>3, <2>4 DEF RecvFinAck, Exit, WireTypeOK
<1>10. CASE SendAgain
  <2>1. s2r' \in Seq(Byte)
    BY <1>10, <1>t, <1>m, <1>c, SendType DEF SendAgain
  <2>2. r2s' \in Seq(Byte)
    BY <1>10, <1>t DEF SendAgain, WireTypeOK
  <2>3. SenderTypeOK'
    BY <1>10, <1>t DEF SendAgain, SenderTypeOK, Exit, SenderStates, Sends, Awaits, CCs
  <2>4. FilePosition'
    BY <1>10, <1>t DEF SendAgain, FilePosition, Exit
  <2> QED
    BY <1>10, <1>t, <2>1, <2>2, <2>3, <2>4 DEF SendAgain, Exit, WireTypeOK
<1>11. CASE RecvAgainAck
  <2>1. s2r' \in Seq(Byte)
    BY <1>11, <1>t DEF RecvAgainAck, WireTypeOK
  <2>2. r2s' \in Seq(Byte)
    BY <1>11, <1>t, <1>c, ReceivesType DEF RecvAgainAck
  <2>3. SenderTypeOK'
    BY <1>11, <1>t DEF RecvAgainAck, SenderTypeOK, Exit, SenderStates, Sends, Awaits, CCs
  <2>4. FilePosition'
    BY <1>11, <1>t DEF RecvAgainAck, FilePosition, Exit
  <2> QED
    BY <1>11, <1>t, <2>1, <2>2, <2>3, <2>4 DEF RecvAgainAck, Exit, WireTypeOK
<1>12. CASE SendEnd
  <2>1. s2r' \in Seq(Byte)
    BY <1>12, <1>t, <1>m, <1>c, SendType DEF SendEnd
  <2>2. r2s' \in Seq(Byte)
    BY <1>12, <1>t DEF SendEnd, WireTypeOK
  <2>3. SenderTypeOK'
    BY <1>12, <1>t DEF SendEnd, SenderTypeOK, Exit, SenderStates, Sends, Awaits, CCs
  <2>4. FilePosition'
    BY <1>12, <1>t DEF SendEnd, FilePosition, Exit
  <2> QED
    BY <1>12, <1>t, <2>1, <2>2, <2>3, <2>4 DEF SendEnd, Exit, WireTypeOK
<1>13. CASE RecvEndAck
  <2>1. s2r' \in Seq(Byte)
    BY <1>13, <1>t DEF RecvEndAck, WireTypeOK
  <2>2. r2s' \in Seq(Byte)
    BY <1>13, <1>t, <1>c, ReceivesType DEF RecvEndAck
  <2>3. SenderTypeOK'
    BY <1>13, <1>t DEF RecvEndAck, SenderTypeOK, Exit, SenderStates, Sends, Awaits, CCs
  <2>4. FilePosition'
    BY <1>13, <1>t DEF RecvEndAck, FilePosition, Exit
  <2> QED
    BY <1>13, <1>t, <2>1, <2>2, <2>3, <2>4 DEF RecvEndAck, Exit, WireTypeOK
<1>14. CASE RecvEndEnd
  <2>1. s2r' \in Seq(Byte)
    BY <1>14, <1>t, <1>m, <1>c, SendType DEF RecvEndEnd
  <2>2. r2s' \in Seq(Byte)
    BY <1>14, <1>t, <1>c, ReceivesType DEF RecvEndEnd
  <2>3. SenderTypeOK'
    BY <1>14, <1>t DEF RecvEndEnd, SenderTypeOK, Exit, SenderStates, Sends, Awaits, CCs
  <2>4. FilePosition'
    BY <1>14, <1>t DEF RecvEndEnd, FilePosition, Exit
  <2> QED
    BY <1>14, <1>t, <2>1, <2>2, <2>3, <2>4 DEF RecvEndEnd, Exit, WireTypeOK
<1>15. CASE SenderRefuses
  <2>1. s2r' \in Seq(Byte)
    BY <1>15, <1>t DEF SenderRefuses, WireTypeOK
  <2>2. r2s' \in Seq(Byte)
    <3>1. Expected(spc) \in Control
      BY <1>c DEF Expected
    <3> QED
      BY <1>15, <1>t, <3>1, MessageType, TakeType DEF SenderRefuses, WireTypeOK
  <2>3. SenderTypeOK'
    BY <1>15, <1>t DEF SenderRefuses, SenderTypeOK, Exit, SenderStates, Sends, Awaits, CCs
  <2>4. FilePosition'
    BY <1>15, <1>t DEF SenderRefuses, FilePosition, Exit, Awaits
  <2> QED
    BY <1>15, <1>t, <2>1, <2>2, <2>3, <2>4 DEF SenderRefuses, Exit, WireTypeOK
<1>16. CASE SenderLosesPeer
  <2>1. s2r' \in Seq(Byte)
    BY <1>16, <1>t DEF SenderLosesPeer, WireTypeOK
  <2>2. r2s' \in Seq(Byte)
    BY <1>16, <1>t DEF SenderLosesPeer, WireTypeOK
  <2>3. SenderTypeOK'
    BY <1>16, <1>t DEF SenderLosesPeer, SenderTypeOK, Exit, SenderStates, Sends, Awaits, CCs
  <2>4. FilePosition'
    BY <1>16, <1>t DEF SenderLosesPeer, FilePosition, Exit
  <2> QED
    BY <1>16, <1>t, <2>1, <2>2, <2>3, <2>4 DEF SenderLosesPeer, Exit, WireTypeOK
<1>17. CASE SenderDies
  <2>1. s2r' \in Seq(Byte)
    BY <1>17, <1>t DEF SenderDies, WireTypeOK
  <2>2. r2s' \in Seq(Byte)
    BY <1>17, <1>t DEF SenderDies, WireTypeOK
  <2>3. SenderTypeOK'
    BY <1>17, <1>t DEF SenderDies, SenderTypeOK, Exit, SenderStates, Sends, Awaits, CCs
  <2>4. FilePosition'
    BY <1>17, <1>t DEF SenderDies, FilePosition, Exit
  <2> QED
    BY <1>17, <1>t, <2>1, <2>2, <2>3, <2>4 DEF SenderDies, Exit, WireTypeOK
<1> QED
  BY <1>1, <1>2, <1>3, <1>4, <1>5, <1>6, <1>7, <1>8, <1>9, <1>10, <1>11, <1>12, <1>13, <1>14, <1>15, <1>16, <1>17 DEF SenderStep

\* One step of Receiver.
LEMMA ReceiverTypeStep ==
    /\ TypeInv
    /\ ReceiverStep \/ RecvNothing \/ ReceiverFails \/ ReceiverKilled
    /\ SenderStill
    => TypeInv'
<1> SUFFICES ASSUME TypeInv,
                    ReceiverStep \/ RecvNothing \/ ReceiverFails \/ ReceiverKilled,
                    SenderStill
             PROVE  TypeInv'
  OBVIOUS
<1>t. /\ WireTypeOK /\ SenderTypeOK /\ ReceiverTypeOK /\ sessions \in 0..MaxSessions
      /\ FilePosition
      /\ s2r \in Seq(Byte) /\ r2s \in Seq(Byte) /\ BufferSize \in Nat
      /\ rfile \in Seq(Nat) /\ rcounter \in Nat
  BY WireAssumption DEF TypeInv, TypeOK, WireTypeOK, ReceiverTypeOK
<1>m. \A k \in Control : Message(k) \in Seq(Byte) /\ MsgLen(k) \in Nat
  BY MessageType
<1>c. {"SIZE", "ACK", "SEND_KEY", "KEY", "OK", "FIN", "AGAIN", "END"} \subseteq Control
  BY DEF Control
<1>e. <<>> \in Seq(Nat)
  BY EmptySeq
<1>w. SUFFICES s2r' \in Seq(Byte) /\ r2s' \in Seq(Byte) /\ ropen' \in BOOLEAN
               /\ UNCHANGED <<faulty, size, mimic, sopen>>
               /\ ReceiverTypeOK'
  BY <1>t DEF TypeInv, TypeOK, WireTypeOK, SenderStill, senderVars, SenderTypeOK, FilePosition,
              NumBytes, Limit
<1>1. CASE RecvFileSize
  <2>1. PICK n \in ReadLens(s2r, BufferSize) :
                    s2r' = Left(s2r, n)
    BY <1>1 DEF RecvFileSize
  <2>2. n \in Nat /\ Taken(s2r, n) \in Seq(Byte) /\ Left(s2r, n) \in Seq(Byte)
    BY <1>t, <1>m, <1>c, TakeType
  <2>3. s2r' \in Seq(Byte)
    BY <2>1, <2>2
  <2>4. r2s' \in Seq(Byte)
    BY <1>1, <1>t, <1>m, <1>c, SendType DEF RecvFileSize
  <2>5. marks' \in Seq({1, 2})
    BY <1>1, <1>t DEF RecvFileSize, ReceiverTypeOK
  <2>6. rfile' \in Seq(Nat) /\ rcounter' \in Nat
    BY <1>1, <1>t, <1>e DEF RecvFileSize
  <2> QED
    BY <1>1, <1>t, <2>3, <2>4, <2>5, <2>6
       DEF RecvFileSize, Fail, ReceiverTypeOK, WireTypeOK, ReceiverCCs, Live, Stopped
<1>2. CASE OpenFile
  <2>3. s2r' \in Seq(Byte)
    BY <1>2, <1>t DEF OpenFile
  <2>4. r2s' \in Seq(Byte)
    BY <1>2, <1>t DEF OpenFile
  <2>5. marks' \in Seq({1, 2})
    BY <1>2, <1>t DEF OpenFile, ReceiverTypeOK
  <2>6. rfile' \in Seq(Nat) /\ rcounter' \in Nat
    BY <1>2, <1>t, <1>e DEF OpenFile
  <2> QED
    BY <1>2, <1>t, <2>3, <2>4, <2>5, <2>6
       DEF OpenFile, Fail, ReceiverTypeOK, WireTypeOK, ReceiverCCs, Live, Stopped
<1>3. CASE RecvForEmptyFile
  <2>1. PICK n \in ReadLens(s2r, BufferSize) :
                    s2r' = Left(s2r, n) /\ Measure(Taken(s2r, n), n)
    BY <1>3 DEF RecvForEmptyFile
  <2>2. n \in Nat /\ Taken(s2r, n) \in Seq(Byte) /\ Left(s2r, n) \in Seq(Byte)
    BY <1>t, <1>m, <1>c, TakeType
  <2>3. s2r' \in Seq(Byte)
    BY <2>1, <2>2
  <2>4. r2s' \in Seq(Byte)
    BY <1>3, <1>t DEF RecvForEmptyFile
  <2>5. marks' \in Seq({1, 2})
    BY <2>1, <1>t, MeasureType
  <2>6. rfile' \in Seq(Nat) /\ rcounter' \in Nat
    BY <1>3, <1>t, <1>e DEF RecvForEmptyFile
  <2> QED
    BY <1>3, <1>t, <2>3, <2>4, <2>5, <2>6
       DEF RecvForEmptyFile, Fail, ReceiverTypeOK, WireTypeOK, ReceiverCCs, Live, Stopped
<1>4. CASE RecvSendKey
  <2>1. PICK n \in ReadLens(s2r, BufferSize) :
                    s2r' = Left(s2r, n) /\ Measure(Taken(s2r, n), n)
    BY <1>4 DEF RecvSendKey
  <2>2. n \in Nat /\ Taken(s2r, n) \in Seq(Byte) /\ Left(s2r, n) \in Seq(Byte)
    BY <1>t, <1>m, <1>c, TakeType
  <2>3. s2r' \in Seq(Byte)
    BY <2>1, <2>2
  <2>4. r2s' \in Seq(Byte)
    BY <1>4, <1>t, <1>m, <1>c, SendType DEF RecvSendKey
  <2>5. marks' \in Seq({1, 2})
    BY <2>1, <1>t, MeasureType
  <2>6. rfile' \in Seq(Nat) /\ rcounter' \in Nat
    BY <1>4, <1>t, <1>e DEF RecvSendKey
  <2> QED
    BY <1>4, <1>t, <2>3, <2>4, <2>5, <2>6
       DEF RecvSendKey, Fail, ReceiverTypeOK, WireTypeOK, ReceiverCCs, Live, Stopped
<1>5. CASE RecvFin
  <2>1. PICK n \in ReadLens(s2r, BufferSize) :
                    s2r' = Left(s2r, n) /\ Measure(Taken(s2r, n), n)
    BY <1>5 DEF RecvFin
  <2>2. n \in Nat /\ Taken(s2r, n) \in Seq(Byte) /\ Left(s2r, n) \in Seq(Byte)
    BY <1>t, <1>m, <1>c, TakeType
  <2>3. s2r' \in Seq(Byte)
    BY <2>1, <2>2
  <2>4. r2s' \in Seq(Byte)
    BY <1>5, <1>t, <1>m, <1>c, SendType DEF RecvFin
  <2>5. marks' \in Seq({1, 2})
    BY <2>1, <1>t, MeasureType
  <2>6. rfile' \in Seq(Nat) /\ rcounter' \in Nat
    BY <1>5, <1>t, <1>e DEF RecvFin
  <2> QED
    BY <1>5, <1>t, <2>3, <2>4, <2>5, <2>6
       DEF RecvFin, Fail, ReceiverTypeOK, WireTypeOK, ReceiverCCs, Live, Stopped
<1>6. CASE RecvChunk
  <2>1. PICK n \in ReadLens(s2r, BufferSize) :
                    s2r' = Left(s2r, n) /\ Measure(Taken(s2r, n), n)
                    /\ rfile' = rfile \o Positions(Taken(s2r, n)) /\ rcounter' = rcounter + n
    BY <1>6 DEF RecvChunk
  <2>2. n \in Nat /\ Taken(s2r, n) \in Seq(Byte) /\ Left(s2r, n) \in Seq(Byte)
    BY <1>t, <1>m, <1>c, TakeType
  <2>3. s2r' \in Seq(Byte)
    BY <2>1, <2>2
  <2>4. r2s' \in Seq(Byte)
    BY <1>6, <1>t, <1>m, <1>c, SendType DEF RecvChunk
  <2>5. marks' \in Seq({1, 2})
    BY <2>1, <1>t, MeasureType
  <2>6. rfile' \in Seq(Nat) /\ rcounter' \in Nat
    BY <2>1, <2>2, <1>t, PositionsType, ConcatProperties
  <2> QED
    BY <1>6, <1>t, <2>3, <2>4, <2>5, <2>6
       DEF RecvChunk, Fail, ReceiverTypeOK, WireTypeOK, ReceiverCCs, Live, Stopped
<1>7. CASE RecvNothing
  <2>3. s2r' \in Seq(Byte)
    BY <1>7, <1>t DEF RecvNothing
  <2>4. r2s' \in Seq(Byte)
    BY <1>7, <1>t, <1>m, <1>c, SendType DEF RecvNothing
  <2>5. marks' \in Seq({1, 2})
    BY <1>7, <1>t, MeasureType DEF RecvNothing
  <2>6. rfile' \in Seq(Nat) /\ rcounter' \in Nat
    BY <1>7, <1>t, <1>e DEF RecvNothing
  <2> QED
    BY <1>7, <1>t, <2>3, <2>4, <2>5, <2>6
       DEF RecvNothing, Fail, ReceiverTypeOK, WireTypeOK, ReceiverCCs, Live, Stopped
<1>8. CASE RecvOk
  <2>1. PICK n \in ReadLens(s2r, MsgLen("OK")) :
                    s2r' = Left(s2r, n)
    BY <1>8 DEF RecvOk
  <2>2. n \in Nat /\ Taken(s2r, n) \in Seq(Byte) /\ Left(s2r, n) \in Seq(Byte)
    <3>1. MsgLen("OK") \in Nat
      BY <1>m, <1>c
    <3> QED
      BY <1>t, <3>1, TakeType
  <2>3. s2r' \in Seq(Byte)
    BY <2>1, <2>2
  <2>4. r2s' \in Seq(Byte)
    BY <1>8, <1>t DEF RecvOk
  <2>5. marks' \in Seq({1, 2})
    BY <1>8, <1>t DEF RecvOk, ReceiverTypeOK
  <2>6. rfile' \in Seq(Nat) /\ rcounter' \in Nat
    BY <1>8, <1>t, <1>e DEF RecvOk
  <2> QED
    BY <1>8, <1>t, <2>3, <2>4, <2>5, <2>6
       DEF RecvOk, Fail, ReceiverTypeOK, WireTypeOK, ReceiverCCs, Live, Stopped
<1>9. CASE RecvAgain
  <2>1. PICK n \in ReadLens(s2r, BufferSize) :
                    s2r' = Left(s2r, n)
    BY <1>9 DEF RecvAgain
  <2>2. n \in Nat /\ Taken(s2r, n) \in Seq(Byte) /\ Left(s2r, n) \in Seq(Byte)
    BY <1>t, <1>m, <1>c, TakeType
  <2>3. s2r' \in Seq(Byte)
    BY <2>1, <2>2
  <2>4. r2s' \in Seq(Byte)
    BY <1>9, <1>t, <1>m, <1>c, SendType DEF RecvAgain
  <2>5. marks' \in Seq({1, 2})
    BY <1>9, <1>t DEF RecvAgain, ReceiverTypeOK
  <2>6. rfile' \in Seq(Nat) /\ rcounter' \in Nat
    BY <1>9, <1>t, <1>e DEF RecvAgain
  <2> QED
    BY <1>9, <1>t, <2>3, <2>4, <2>5, <2>6
       DEF RecvAgain, Fail, ReceiverTypeOK, WireTypeOK, ReceiverCCs, Live, Stopped
<1>10. CASE RecvEnd
  <2>1. PICK n \in ReadLens(s2r, BufferSize) :
                    s2r' = Left(s2r, n)
    BY <1>10 DEF RecvEnd
  <2>2. n \in Nat /\ Taken(s2r, n) \in Seq(Byte) /\ Left(s2r, n) \in Seq(Byte)
    BY <1>t, <1>m, <1>c, TakeType
  <2>3. s2r' \in Seq(Byte)
    BY <2>1, <2>2
  <2>4. r2s' \in Seq(Byte)
    BY <1>10, <1>t, <1>m, <1>c, SendType DEF RecvEnd
  <2>5. marks' \in Seq({1, 2})
    BY <1>10, <1>t DEF RecvEnd, ReceiverTypeOK
  <2>6. rfile' \in Seq(Nat) /\ rcounter' \in Nat
    BY <1>10, <1>t, <1>e DEF RecvEnd
  <2> QED
    BY <1>10, <1>t, <2>3, <2>4, <2>5, <2>6
       DEF RecvEnd, Fail, ReceiverTypeOK, WireTypeOK, ReceiverCCs, Live, Stopped
<1>11. CASE SendOwnEnd
  <2>3. s2r' \in Seq(Byte)
    BY <1>11, <1>t DEF SendOwnEnd
  <2>4. r2s' \in Seq(Byte)
    BY <1>11, <1>t, <1>m, <1>c, SendType DEF SendOwnEnd
  <2>5. marks' \in Seq({1, 2})
    BY <1>11, <1>t DEF SendOwnEnd, ReceiverTypeOK
  <2>6. rfile' \in Seq(Nat) /\ rcounter' \in Nat
    BY <1>11, <1>t, <1>e DEF SendOwnEnd
  <2> QED
    BY <1>11, <1>t, <2>3, <2>4, <2>5, <2>6
       DEF SendOwnEnd, Fail, ReceiverTypeOK, WireTypeOK, ReceiverCCs, Live, Stopped
<1>12. CASE RecvOwnEndAck
  <2>1. PICK n \in ReadLens(s2r, BufferSize) :
                    s2r' = Left(s2r, n)
    BY <1>12 DEF RecvOwnEndAck
  <2>2. n \in Nat /\ Taken(s2r, n) \in Seq(Byte) /\ Left(s2r, n) \in Seq(Byte)
    BY <1>t, <1>m, <1>c, TakeType
  <2>3. s2r' \in Seq(Byte)
    BY <2>1, <2>2
  <2>4. r2s' \in Seq(Byte)
    BY <1>12, <1>t DEF RecvOwnEndAck
  <2>5. marks' \in Seq({1, 2})
    BY <1>12, <1>t DEF RecvOwnEndAck, ReceiverTypeOK
  <2>6. rfile' \in Seq(Nat) /\ rcounter' \in Nat
    BY <1>12, <1>t, <1>e DEF RecvOwnEndAck
  <2> QED
    BY <1>12, <1>t, <2>3, <2>4, <2>5, <2>6
       DEF RecvOwnEndAck, Fail, ReceiverTypeOK, WireTypeOK, ReceiverCCs, Live, Stopped
<1>13. CASE ReceiverRefuses
  <2>1. PICK n \in ReadLens(s2r, IF rpc = "ok" THEN MsgLen("OK") ELSE BufferSize) :
                    s2r' = Left(s2r, n)
    BY <1>13 DEF ReceiverRefuses
  <2>2. n \in Nat /\ Taken(s2r, n) \in Seq(Byte) /\ Left(s2r, n) \in Seq(Byte)
    <3>1. (IF rpc = "ok" THEN MsgLen("OK") ELSE BufferSize) \in Nat
      BY <1>t, <1>m, <1>c
    <3> QED
      BY <1>t, <3>1, TakeType
  <2>3. s2r' \in Seq(Byte)
    BY <2>1, <2>2
  <2>4. r2s' \in Seq(Byte)
    BY <1>13, <1>t DEF ReceiverRefuses
  <2>5. marks' \in Seq({1, 2})
    BY <1>13, <1>t DEF ReceiverRefuses, ReceiverTypeOK
  <2>6. rfile' \in Seq(Nat) /\ rcounter' \in Nat
    BY <1>13, <1>t, <1>e DEF ReceiverRefuses
  <2> QED
    BY <1>13, <1>t, <2>3, <2>4, <2>5, <2>6
       DEF ReceiverRefuses, Fail, ReceiverTypeOK, WireTypeOK, ReceiverCCs, Live, Stopped
<1>14. CASE ReceiverLosesPeer
  <2>3. s2r' \in Seq(Byte)
    BY <1>14, <1>t DEF ReceiverLosesPeer
  <2>4. r2s' \in Seq(Byte)
    BY <1>14, <1>t DEF ReceiverLosesPeer
  <2>5. marks' \in Seq({1, 2})
    BY <1>14, <1>t DEF ReceiverLosesPeer, ReceiverTypeOK
  <2>6. rfile' \in Seq(Nat) /\ rcounter' \in Nat
    BY <1>14, <1>t, <1>e DEF ReceiverLosesPeer
  <2> QED
    BY <1>14, <1>t, <2>3, <2>4, <2>5, <2>6
       DEF ReceiverLosesPeer, Fail, ReceiverTypeOK, WireTypeOK, ReceiverCCs, Live, Stopped
<1>15. CASE ReceiverFails
  <2>3. s2r' \in Seq(Byte)
    BY <1>15, <1>t DEF ReceiverFails
  <2>4. r2s' \in Seq(Byte)
    BY <1>15, <1>t DEF ReceiverFails
  <2>5. marks' \in Seq({1, 2})
    BY <1>15, <1>t DEF ReceiverFails, ReceiverTypeOK
  <2>6. rfile' \in Seq(Nat) /\ rcounter' \in Nat
    BY <1>15, <1>t, <1>e DEF ReceiverFails
  <2> QED
    BY <1>15, <1>t, <2>3, <2>4, <2>5, <2>6
       DEF ReceiverFails, Fail, ReceiverTypeOK, WireTypeOK, ReceiverCCs, Live, Stopped
<1>16. CASE ReceiverKilled
  <2>3. s2r' \in Seq(Byte)
    BY <1>16, <1>t DEF ReceiverKilled
  <2>4. r2s' \in Seq(Byte)
    BY <1>16, <1>t DEF ReceiverKilled
  <2>5. marks' \in Seq({1, 2})
    BY <1>16, <1>t DEF ReceiverKilled, ReceiverTypeOK
  <2>6. rfile' \in Seq(Nat) /\ rcounter' \in Nat
    <3>1. \A n \in 0..Len(rfile) : SubSeq(rfile, 1, n) \in Seq(Nat)
      BY <1>t, SubSeqProperties
    <3> QED
      BY <1>16, <1>t, <3>1 DEF ReceiverKilled
  <2> QED
    BY <1>16, <1>t, <2>3, <2>4, <2>5, <2>6
       DEF ReceiverKilled, Fail, ReceiverTypeOK, WireTypeOK, ReceiverCCs, Live, Stopped
<1> QED
  BY <1>1, <1>2, <1>3, <1>4, <1>5, <1>6, <1>7, <1>8, <1>9, <1>10, <1>11, <1>12, <1>13, <1>14, <1>15, <1>16 DEF ReceiverStep

LEMMA TypeStep == TypeInv /\ [Next]_vars => TypeInv'
<1> SUFFICES ASSUME TypeInv, [Next]_vars PROVE TypeInv'
  OBVIOUS
<1>1. CASE Connect
  <2>1. <<>> \in Seq(Byte) /\ <<>> \in Seq({1, 2})
    BY EmptySeq
  <2>2. WireTypeOK'
    BY <1>1, <2>1 DEF Connect, TypeInv, TypeOK, WireTypeOK
  <2>3. SenderTypeOK'
    BY <1>1, WireAssumption, SenderAssumption
       DEF Connect, TypeInv, TypeOK, WireTypeOK, SenderTypeOK, SenderStates, Sends
  <2>4. ReceiverTypeOK'
    BY <1>1, <2>1 DEF Connect, TypeInv, TypeOK, ReceiverTypeOK, Live, ReceiverCCs
  <2>5. (sessions \in 0..MaxSessions)' /\ FilePosition'
    BY <1>1, FileTransferAssumption DEF Connect, TypeInv, TypeOK, FilePosition
  <2> QED
    BY <2>2, <2>3, <2>4, <2>5 DEF TypeInv, TypeOK
<1>2. CASE SenderNext \/ SenderCrash
  BY <1>2, SenderTypeStep DEF SenderNext, SenderCrash, ReceiverStill
<1>3. CASE ReceiverNext \/ ReceiverSpins \/ ReceiverCrash
  BY <1>3, ReceiverTypeStep DEF ReceiverNext, ReceiverSpins, ReceiverCrash, SenderStill
<1>4. CASE UNCHANGED vars
  BY <1>4 DEF vars, wireVars, senderVars, receiverVars, TypeInv, TypeOK, WireTypeOK, SenderTypeOK,
              ReceiverTypeOK, FilePosition, NumBytes, Limit
<1> QED
  BY <1>1, <1>2, <1>3, <1>4 DEF Next, Idle

\* Every variable of Sender.c, Receiver.c and the connection keeps its type,
\* and Sender's counts stay within the file.
THEOREM TypeCorrect == Spec => []TypeOK
<1>1. TypeInv /\ [Next]_vars => TypeInv'
  BY TypeStep
<1>2. TypeInv => TypeOK
  BY DEF TypeInv
<1> QED
  BY TypeInit, <1>1, <1>2, PTL DEF Spec
==============================================================================
