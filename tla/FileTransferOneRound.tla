------------------------- MODULE FileTransferOneRound -------------------------
(***************************************************************************)
(* A session in which the user never asks for the file again ends with the *)
(* whole file, however its chunks are cut on their way: the two programs   *)
(* are out of step then, but no byte is lost between them.                 *)
(***************************************************************************)
EXTENDS FileTransferSafety

---------------------------------------------------------------------------
\* Reading from a stream, byte by byte.

LEMMA ReadBytes ==
    ASSUME NEW s \in Seq(Byte), NEW limit \in Nat \ {0}, NEW n \in ReadLens(s, limit)
    PROVE  /\ n \in 1..Len(s) /\ n <= limit
           /\ Taken(s, n) \in Seq(Byte) /\ Len(Taken(s, n)) = n
           /\ \A i \in 1..n : Taken(s, n)[i] = s[i]
           /\ Left(s, n) \in Seq(Byte) /\ Len(Left(s, n)) = Len(s) - n
           /\ \A i \in 1..(Len(s) - n) : Left(s, n)[i] = s[n + i]
<1>1. n \in 1..Len(s) /\ n <= limit
  <2>1. PICK c \in Cuts(s) : n = MinOf(limit, c)
    BY DEF ReadLens
  <2> QED
    BY <2>1 DEF Cuts, MinOf
<1>2. \A i \in 1..Len(s) : s[i] \in Byte
  OBVIOUS
<1>3. /\ Taken(s, n) \in Seq(Byte) /\ Len(Taken(s, n)) = n
      /\ \A i \in 1..n : Taken(s, n)[i] = s[i]
  <2>1. \A i \in 1..n : s[i] \in Byte
    BY <1>1, <1>2
  <2> QED
    BY <1>1, <2>1, SubSeqProperties DEF Taken
<1>4. /\ Left(s, n) \in Seq(Byte) /\ Len(Left(s, n)) = Len(s) - n
      /\ \A i \in 1..(Len(s) - n) : Left(s, n)[i] = s[n + i]
  <2>1. \A i \in (n + 1)..Len(s) : s[i] \in Byte
    BY <1>1, <1>2
  <2>2. /\ Left(s, n) \in Seq(Byte)
        /\ Len(Left(s, n)) = IF n + 1 <= Len(s) THEN Len(s) - (n + 1) + 1 ELSE 0
        /\ \A i \in 1..(Len(s) - (n + 1) + 1) : Left(s, n)[i] = s[(n + 1) + i - 1]
    BY <1>1, <2>1, SubSeqProperties DEF Left
  <2> QED
    BY <1>1, <2>2
<1> QED
  BY <1>1, <1>3, <1>4

\* Without mimicry, a buffer that reads as a control string begins with it.
LEMMA ReadsBytes ==
    ASSUME NEW buf \in Seq(Byte), NEW k \in Control, mimic.as = "none", Reads(buf, k)
    PROVE  /\ Len(buf) >= MsgLen(k)
           /\ \A i \in 1..MsgLen(k) : buf[i].of = k /\ buf[i].at = i
<1>1. k # "none" /\ MsgLen(k) \in Nat
  BY MessageType DEF Control
<1>2. Len(buf) >= MsgLen(k) /\ SubSeq(buf, 1, MsgLen(k)) = Message(k)
  BY <1>1 DEF Reads
<1>3. \A i \in 1..MsgLen(k) : buf[i] \in Byte
  BY <1>1, <1>2
<1>4. \A i \in 1..MsgLen(k) : SubSeq(buf, 1, MsgLen(k))[i] = buf[i]
  BY <1>1, <1>3, SubSeqProperties
<1> QED
  BY <1>2, <1>4, MessageType

\* A buffer that begins with a control string reads as it.
LEMMA BytesRead ==
    ASSUME NEW buf \in Seq(Byte), NEW k \in Control, Len(buf) >= MsgLen(k),
           \A i \in 1..MsgLen(k) : buf[i] = Message(k)[i]
    PROVE  Reads(buf, k)
<1>1. MsgLen(k) \in Nat /\ MsgLen(k) <= Len(buf)
  BY MessageType
<1>2. \A i \in 1..MsgLen(k) : buf[i] \in Byte
  BY <1>1
<1>3. /\ SubSeq(buf, 1, MsgLen(k)) \in Seq(Byte) /\ Len(SubSeq(buf, 1, MsgLen(k))) = MsgLen(k)
      /\ \A i \in 1..MsgLen(k) : SubSeq(buf, 1, MsgLen(k))[i] = buf[i]
  BY <1>1, <1>2, SubSeqProperties
<1>4. Message(k) \in Seq(Byte) /\ Len(Message(k)) = MsgLen(k)
  BY MessageType
<1>5. SubSeq(buf, 1, MsgLen(k)) = Message(k)
  BY <1>1, <1>3, <1>4, SeqEqual
<1> QED
  BY <1>5 DEF Reads

\* Control strings are never split: recv() of at least its length returns the
\* first one whole.
LEMMA ReadsWhole ==
    ASSUME NEW k \in Control, NEW t \in Seq(Byte),
           NEW limit \in Nat, limit >= MsgLen(k),
           NEW n \in ReadLens(Message(k) \o t, limit)
    PROVE  n >= MsgLen(k)
<1> DEFINE s == Message(k) \o t
<1>1. /\ MsgLen(k) \in 2..9 /\ Len(Message(k)) = MsgLen(k) /\ Message(k) \in Seq(Byte)
      /\ \A i \in 1..MsgLen(k) : Message(k)[i].of = k /\ Message(k)[i].at = i
  BY MessageType DEF MsgLen, Control
<1>2. /\ s \in Seq(Byte) /\ Len(s) = MsgLen(k) + Len(t)
      /\ \A i \in 1..MsgLen(k) : s[i] = Message(k)[i]
  BY <1>1, ConcatProperties
<1> HIDE DEF s
<1>3. PICK c \in Cuts(s) : n = MinOf(limit, c)
  BY DEF ReadLens, s
<1>4. /\ c \in 1..Len(s)
      /\ c = Len(s) \/ ~Follows(s[c], s[c + 1]) \/ s[c].of = "FILE"
  BY <1>3, Zenon DEF Cuts
<1>5. c >= MsgLen(k)
  <2> SUFFICES ASSUME c < MsgLen(k) PROVE FALSE
    BY <1>1, <1>4
  <2>1. c \in 1..MsgLen(k) /\ c + 1 \in 1..MsgLen(k) /\ c # Len(s)
    BY <1>1, <1>2, <1>4
  <2>2. s[c].of = k /\ s[c].at = c /\ s[c + 1].of = k /\ s[c + 1].at = c + 1
    BY <1>1, <1>2, <2>1
  <2>3. k # "FILE"
    BY DEF Control
  <2> QED
    BY <1>4, <2>1, <2>2, <2>3 DEF Follows
<1> QED
  BY <1>1, <1>3, <1>4, <1>5 DEF MinOf

\* File bytes, and what was sent behind them.
LEMMA StreamBytes ==
    ASSUME NEW c \in Nat, NEW m \in Nat, NEW t \in Seq(Byte)
    PROVE  /\ Chunk(c, m) \o t \in Seq(Byte)
           /\ Len(Chunk(c, m) \o t) = m + Len(t)
           /\ \A i \in 1..m : /\ (Chunk(c, m) \o t)[i].of = "FILE"
                              /\ (Chunk(c, m) \o t)[i] = [of |-> "FILE", at |-> c + i]
           /\ \A i \in 1..Len(t) : (Chunk(c, m) \o t)[m + i] = t[i]
<1>1. Chunk(c, m) \in Seq(Byte) /\ Len(Chunk(c, m)) = m
  BY ChunkType
<1>2. \A i \in 1..m : Chunk(c, m)[i] = [of |-> "FILE", at |-> c + i]
  BY DEF Chunk
<1>3. /\ Chunk(c, m) \o t \in Seq(Byte)
      /\ Len(Chunk(c, m) \o t) = m + Len(t)
      /\ \A i \in 1..(m + Len(t)) :
             (Chunk(c, m) \o t)[i] = IF i <= m THEN Chunk(c, m)[i] ELSE t[i - m]
  <2>1. /\ Chunk(c, m) \o t \in Seq(Byte)
        /\ Len(Chunk(c, m) \o t) = Len(Chunk(c, m)) + Len(t)
        /\ \A i \in 1..(Len(Chunk(c, m)) + Len(t)) :
               (Chunk(c, m) \o t)[i] =
                   IF i <= Len(Chunk(c, m)) THEN Chunk(c, m)[i] ELSE t[i - Len(Chunk(c, m))]
    BY <1>1, ConcatProperties
  <2> QED
    BY <1>1, <2>1
<1>4. ASSUME NEW i \in 1..m PROVE (Chunk(c, m) \o t)[i] = [of |-> "FILE", at |-> c + i]
  <2>1. i \in 1..(m + Len(t)) /\ i <= m
    OBVIOUS
  <2> QED
    BY <1>2, <1>3, <2>1
<1>5. ASSUME NEW i \in 1..Len(t) PROVE (Chunk(c, m) \o t)[m + i] = t[i]
  <2>1. m + i \in 1..(m + Len(t)) /\ ~(m + i <= m) /\ (m + i) - m = i
    OBVIOUS
  <2> QED
    BY <1>3, <2>1
<1> QED
  BY <1>3, <1>4, <1>5

LEMMA NoChunk == ASSUME NEW c, NEW t \in Seq(Byte) PROVE Chunk(c, 0) = <<>> /\ Chunk(c, 0) \o t = t
<1>1. Chunk(c, 0) = <<>>
  BY DEF Chunk
<1> QED
  BY <1>1, ConcatEmptySeq

\* Two chunks that follow each other.
LEMMA ChunksJoin ==
    ASSUME NEW c \in Nat, NEW l \in Nat, NEW m \in 0..l
    PROVE  Chunk(c, m) \o Chunk(c + m, l - m) = Chunk(c, l)
<1>0. PICK d \in Nat, n \in Nat : d = c + m /\ n = l - m /\ l = m + n /\ m \in Nat
  OBVIOUS
<1>1. PICK t \in Seq(Byte) : t = Chunk(d, n)
  BY <1>0, ChunkType
<1>2. PICK u \in Seq(Byte) : u = Chunk(c, l)
  BY ChunkType
<1>3. Len(t) = n /\ \A i \in 1..n : t[i] = [of |-> "FILE", at |-> d + i]
  BY <1>0, <1>1, ChunkType DEF Chunk
<1>4. Len(u) = l /\ \A i \in 1..l : u[i] = [of |-> "FILE", at |-> c + i]
  BY <1>0, <1>2, ChunkType DEF Chunk
<1>5. PICK s \in Seq(Byte) : s = Chunk(c, m) \o t
  BY <1>0, StreamBytes
<1>6. /\ Len(s) = m + n
      /\ \A i \in 1..m : s[i] = [of |-> "FILE", at |-> c + i]
      /\ \A i \in 1..n : s[m + i] = t[i]
  <2>1. PICK f \in Seq(Byte) : f = Chunk(c, m)
    BY <1>0, ChunkType
  <2>2. Len(f) = m /\ \A i \in 1..m : f[i] = [of |-> "FILE", at |-> c + i]
    BY <1>0, <2>1, ChunkType DEF Chunk
  <2>3. s = f \o t
    BY <1>5, <2>1
  <2>4. /\ Len(s) = Len(f) + Len(t)
        /\ \A i \in 1..(Len(f) + Len(t)) : s[i] = IF i <= Len(f) THEN f[i] ELSE t[i - Len(f)]
    BY <2>3, ConcatProperties
  <2>5. \A i \in 1..m : s[i] = f[i]
    BY <1>0, <1>3, <2>2, <2>4
  <2>6. ASSUME NEW i \in 1..n PROVE s[m + i] = t[i]
    <3>1. m + i \in 1..(m + n) /\ ~(m + i <= m) /\ (m + i) - m = i
      BY <1>0
    <3> QED
      BY <1>3, <2>2, <2>4, <3>1
  <2> QED
    BY <1>3, <2>2, <2>4, <2>5, <2>6
<1>7. ASSUME NEW i \in 1..l PROVE s[i] = u[i]
  <2>1. CASE i <= m
    BY <1>0, <1>4, <1>6, <2>1
  <2>2. CASE i > m
    <3>1. PICK j \in 1..n : i = m + j
      <4>1. i - m \in 1..n /\ i = m + (i - m)
        BY <1>0, <2>2
      <4> QED
        BY <4>1
    <3>2. s[i] = t[j] /\ t[j] = [of |-> "FILE", at |-> d + j]
      BY <1>3, <1>6, <3>1
    <3>3. d + j = c + i
      BY <1>0, <3>1
    <3> QED
      BY <1>4, <3>2, <3>3
  <2> QED
    BY <1>0, <2>1, <2>2
<1>8. s = u
  BY <1>0, <1>4, <1>6, <1>7, SeqEqual
<1> QED
  BY <1>0, <1>1, <1>2, <1>5, <1>8

\* Reading the first of two parts of a stream leaves the second.
LEMMA SplitStream ==
    ASSUME NEW f \in Seq(Byte), NEW r \in Seq(Byte)
    PROVE  Taken(f \o r, Len(f)) = f /\ Left(f \o r, Len(f)) = r
<1>1. Len(f) \in Nat /\ Len(f \o r) = Len(f) + Len(r)
  BY ConcatProperties
<1>2. SubSeq(f \o r, 1, Len(f)) = f
  <2>1. SubSeq(f \o r, 1, Len(f)) = SubSeq(f, 1, Len(f)) /\ SubSeq(f, 1, Len(f)) = f
    BY SubSeqOfConcat1, SubSeqFull
  <2> QED
    BY <2>1
<1>3. SubSeq(f \o r, Len(f) + 1, Len(f \o r)) = r
  <2>1. CASE r = <<>>
    <3>1. Len(f \o r) = Len(f)
      BY <1>1, <2>1
    <3> QED
      BY <1>1, <2>1, <3>1, SubSeqEmpty
  <2>2. CASE r # <<>>
    <3>1. Len(r) \in Nat \ {0}
      BY <2>2
    <3>2. SubSeq(f \o r, Len(f) + 1, Len(f) + Len(r)) = SubSeq(r, 1, Len(r)) /\ SubSeq(r, 1, Len(r)) = r
      BY <3>1, SubSeqOfConcat2, SubSeqFull
    <3> QED
      BY <1>1, <3>2
  <2> QED
    BY <2>1, <2>2
<1> QED
  BY <1>2, <1>3 DEF Taken, Left

\* Reading file bytes only.
LEMMA ReadAhead ==
    ASSUME NEW c \in Nat, NEW m \in Nat, NEW t \in Seq(Byte), NEW n \in 0..m
    PROVE  /\ Taken(Chunk(c, m) \o t, n) = Chunk(c, n)
           /\ Left(Chunk(c, m) \o t, n) = Chunk(c + n, m - n) \o t
<1>1. PICK d \in Nat, l \in Nat : d = c + n /\ l = m - n
  OBVIOUS
<1>2. n \in Nat /\ m = n + l
  BY <1>1
<1>3. PICK f \in Seq(Byte) : f = Chunk(c, n)
  BY <1>2, ChunkType
<1>4. PICK g \in Seq(Byte) : g = Chunk(d, l)
  BY <1>1, ChunkType
<1>5. Len(f) = n
  BY <1>2, <1>3, ChunkType
<1>6. Chunk(c, m) \o t = f \o (g \o t)
  <2>1. Chunk(c, n) \o Chunk(c + n, m - n) = Chunk(c, m)
    BY ChunksJoin
  <2>2. f \o g = Chunk(c, m)
    BY <1>1, <1>3, <1>4, <2>1
  <2>3. (f \o g) \o t = f \o (g \o t)
    BY ConcatAssociative
  <2> QED
    BY <2>2, <2>3
<1>7. PICK r \in Seq(Byte) : r = g \o t
  BY ConcatProperties
<1>8. Taken(f \o r, Len(f)) = f /\ Left(f \o r, Len(f)) = r
  BY SplitStream
<1> QED
  BY <1>1, <1>3, <1>4, <1>5, <1>6, <1>7, <1>8

\* Of two control strings recv() returns the first one or both.
LEMMA ReadsTwo ==
    ASSUME NEW k \in Control, NEW j \in Control,
           NEW limit \in Nat, limit >= MsgLen(k),
           NEW n \in ReadLens(Message(k) \o Message(j), limit), n < MsgLen(k) + MsgLen(j)
    PROVE  limit < MsgLen(k) + MsgLen(j) \/ n = MsgLen(k)
<1> SUFFICES ASSUME limit >= MsgLen(k) + MsgLen(j) PROVE n = MsgLen(k)
  BY MessageType
<1>1. PICK a \in 2..9, b \in 2..9 : a = MsgLen(k) /\ b = MsgLen(j)
  BY MessageType
<1>2. PICK f \in Seq(Byte), r \in Seq(Byte) : f = Message(k) /\ r = Message(j)
  BY MessageType
<1>3. /\ Len(f) = a /\ Len(r) = b
      /\ \A i \in 1..b : r[i].of = j /\ r[i].at = i
  BY <1>1, <1>2, MessageType
<1>4. PICK s \in Seq(Byte) : s = f \o r
  BY ConcatProperties
<1>5. /\ Len(s) = a + b
      /\ \A i \in 1..b : s[a + i] = r[i]
  <2>1. Len(s) = Len(f) + Len(r) /\ \A i \in 1..(Len(f) + Len(r)) : s[i] = IF i <= Len(f) THEN f[i] ELSE r[i - Len(f)]
    BY <1>4, ConcatProperties
  <2>2. ASSUME NEW i \in 1..b PROVE s[a + i] = r[i]
    <3>1. a + i \in 1..(a + b) /\ ~(a + i <= a) /\ (a + i) - a = i
      BY <1>1
    <3> QED
      BY <1>3, <2>1, <3>1
  <2> QED
    BY <1>3, <2>1, <2>2
<1>6. n \in ReadLens(s, limit) /\ n >= a
  <2>1. n >= MsgLen(k)
    BY ReadsWhole, MessageType
  <2> QED
    BY <1>1, <1>2, <1>4, <2>1
<1>7. PICK c \in Cuts(s) : n = MinOf(limit, c)
  BY <1>6 DEF ReadLens
<1>8. /\ c \in 1..Len(s)
      /\ c = Len(s) \/ ~Follows(s[c], s[c + 1]) \/ s[c].of = "FILE"
  BY <1>7, Zenon DEF Cuts
<1>9. n = c /\ c >= a /\ c < a + b
  BY <1>1, <1>5, <1>6, <1>7, <1>8 DEF MinOf
<1>10. ~(c > a)
  <2> SUFFICES ASSUME c > a PROVE FALSE
    OBVIOUS
  <2>1. PICK i \in 1..b : c = a + i /\ i + 1 \in 1..b /\ c + 1 = a + (i + 1)
    <3>1. c - a \in 1..b /\ c = a + (c - a) /\ (c - a) + 1 \in 1..b /\ c + 1 = a + ((c - a) + 1)
      BY <1>1, <1>5, <1>8, <1>9
    <3> QED
      BY <3>1
  <2>2. s[c].of = j /\ s[c].at = i /\ s[c + 1].of = j /\ s[c + 1].at = i + 1
    <3>1. PICK e \in 1..b : e = i + 1
      BY <2>1
    <3>2. s[c] = r[i] /\ s[c + 1] = r[e]
      BY <1>5, <2>1, <3>1
    <3> QED
      BY <1>3, <3>1, <3>2
  <2>3. j # "FILE" /\ c # Len(s)
    BY <1>5, <1>9 DEF Control
  <2> QED
    BY <1>8, <2>2, <2>3 DEF Follows
<1> QED
  BY <1>1, <1>8, <1>9, <1>10

---------------------------------------------------------------------------
(***************************************************************************)
(* The invariant: where the two programs may stand, and what may be under  *)
(* way, while the first round of a session lasts.                          *)
(***************************************************************************)
Calm == rounds = 0 /\ mimic.as = "none"

FinEnd == Message("FIN") \o Message("END")

\* What Sender may have sent behind the bytes of the file, and what it has.
Tails == {<<>>, Message("SEND_KEY"), Message("FIN"), FinEnd}

TailOf ==
    CASE spc = "keyRecv" -> Message("SEND_KEY")
      [] spc \in {"finAck", "ask"} -> Message("FIN")
      [] spc \in {"endAck", "endEnd"} -> FinEnd
      [] OTHER -> <<>>

\* A FIN is sent behind the last byte only.
Behind(m, tail) ==
    /\ m \in 0..(size - rcounter)
    /\ tail \in Tails
    /\ tail \in {Message("FIN"), FinEnd} => rcounter + m = size

\* The next bytes of the file are on their way to Receiver, and what follows them.
Ahead(s) == \E m \in Nat, tail \in Tails : Behind(m, tail) /\ s = Chunk(rcounter, m) \o tail

\* All that Sender has sent since the byte Receiver counted last.
Sent == Chunk(rcounter, fpos - rcounter) \o TailOf

\* Receiver has written what it counted.
Clean == rcounter <= size /\ rfile = File(rcounter)

\* recv() has cut a SEND KEY: its beginning is in the file and the rest will be.
Spoiled ==
    /\ rpc = "loop"
    /\ \A i \in 1..Len(s2r) : s2r[i].of = "SEND_KEY" /\ s2r[i].at # 1

\* Receiver has sent acknowledgements, or these and behind them the key.
AcksOnly == \A i \in 1..Len(r2s) : r2s[i].of = "ACK"

KeyLast ==
    \E s \in Seq(Byte) :
        r2s = s \o Message("KEY") /\ \A i \in 1..Len(s) : s[i].of = "ACK"

EndSent == \E i \in 1..Len(r2s) : r2s[i].of = "END"

\* What Receiver may still find in the stream, whatever became of Sender.
View ==
    \/ rpc = "size" /\ rcounter = 0 /\ s2r \in {<<>>, Message("SIZE")}
    \/ rpc = "open" /\ rcounter = 0 /\ Ahead(s2r)
    \/ rpc = "loop" /\ Clean /\ Ahead(s2r)
    \/ Spoiled
    \/ /\ rpc = "ok" /\ Clean
       /\ s2r = <<>> \/ \E s \in Seq(Byte) : s2r = Message("OK") \o s /\ Ahead(s)
    \/ rpc = "next" /\ HoldsAll /\ s2r \in {<<>>, Message("END")}
    \/ rpc = "sendEnd" /\ HoldsAll /\ s2r = <<>>
    \/ rpc = "endAck" /\ HoldsAll /\ s2r \in {<<>>, ACK}

\* Both ends are open.  Receiver has not read the size yet;
Greeting ==
    /\ rpc = "size" /\ rcounter = 0 /\ fpos = 0 /\ r2s = <<>>
    /\ \/ spc = "size" /\ s2r = <<>>
       \/ spc = "sizeAck" /\ s2r = Message("SIZE")

\* it reads the file, with Sender ahead of it by what is under way;
Reading ==
    /\ spc # "size" /\ AcksOnly /\ rcounter <= fpos
    /\ \/ rpc = "open" /\ rcounter = 0 /\ s2r = Sent
       \/ rpc = "loop" /\ rfile = File(rcounter) /\ s2r = Sent
       \/ rpc = "ok" /\ rfile = File(rcounter) /\ half = 2 /\ s2r = Message("OK") \o Sent

\* it waits for an OK that Sender has not sent;
Keyed ==
    /\ rpc = "ok" /\ rfile = File(rcounter) /\ rcounter = fpos
    /\ spc = "keyRecv" /\ s2r = <<>> /\ KeyLast

\* it has missed the SEND KEY that Sender awaits the answer of;
Astray == Spoiled /\ spc = "keyRecv" /\ AcksOnly

\* or it holds the whole file and both are at their good-byes.
Parting ==
    /\ HoldsAll
    /\ \/ /\ rpc = "next" /\ s2r = <<>> /\ AcksOnly
          /\ spc \in {"finAck", "ask", "endAck", "endEnd"}
       \/ rpc = "next" /\ s2r = Message("END") /\ spc \in {"endAck", "endEnd"} /\ AcksOnly
       \/ rpc = "sendEnd" /\ s2r = <<>> /\ spc \in {"endAck", "endEnd"} /\ AcksOnly
       \/ rpc = "endAck" /\ s2r = <<>> /\ spc \in {"endAck", "endEnd"}

Link == Greeting \/ Reading \/ Keyed \/ Astray \/ Parting

\* In which half Sender is, and that it says FIN with the whole file sent.
InHalves ==
    /\ spc \in {"fin", "finAck", "ask", "endAck", "endEnd"} => fpos = size
    /\ spc \in {"size", "sizeAck", "key", "keyRecv"} => half = 1
    /\ spc # "againAck"

Orderly ==
    /\ Ends
    /\ InHalves
    /\ ropen => View
    /\ sopen /\ ropen => Link
    /\ sopen /\ EndSent => rpc = "killed" \/ Intact

OInv == TypeInv /\ (Calm => Orderly)

---------------------------------------------------------------------------
\* What Receiver reads of the file and of what follows it.

LEMMA StringFacts ==
    /\ Message("SEND_KEY") \in Seq(Byte) /\ Len(Message("SEND_KEY")) = 9
    /\ \A i \in 1..9 : Message("SEND_KEY")[i].of = "SEND_KEY" /\ Message("SEND_KEY")[i].at = i
    /\ Message("FIN") \in Seq(Byte) /\ Len(Message("FIN")) = 4
    /\ \A i \in 1..4 : Message("FIN")[i].of = "FIN" /\ Message("FIN")[i].at = i
    /\ Message("END") \in Seq(Byte) /\ Len(Message("END")) = 4
    /\ \A i \in 1..4 : Message("END")[i].of = "END" /\ Message("END")[i].at = i
    /\ FinEnd \in Seq(Byte) /\ Len(FinEnd) = 8
    /\ \A i \in 1..4 : FinEnd[i] = Message("FIN")[i]
<1>1. MsgLen("SEND_KEY") = 9 /\ MsgLen("FIN") = 4 /\ MsgLen("END") = 4
  BY DEF MsgLen
<1>2. /\ Message("SEND_KEY") \in Seq(Byte) /\ Len(Message("SEND_KEY")) = 9
      /\ \A i \in 1..9 : Message("SEND_KEY")[i].of = "SEND_KEY" /\ Message("SEND_KEY")[i].at = i
  BY <1>1, Names, MessageType
<1>3. /\ Message("FIN") \in Seq(Byte) /\ Len(Message("FIN")) = 4
      /\ \A i \in 1..4 : Message("FIN")[i].of = "FIN" /\ Message("FIN")[i].at = i
  BY <1>1, Names, MessageType
<1>4. /\ Message("END") \in Seq(Byte) /\ Len(Message("END")) = 4
      /\ \A i \in 1..4 : Message("END")[i].of = "END" /\ Message("END")[i].at = i
  BY <1>1, Names, MessageType
<1>5. /\ FinEnd \in Seq(Byte) /\ Len(FinEnd) = 8
      /\ \A i \in 1..4 : FinEnd[i] = Message("FIN")[i]
  <2>1. PICK f \in Seq(Byte), r \in Seq(Byte) : f = Message("FIN") /\ r = Message("END")
    BY <1>3, <1>4
  <2>2. /\ f \o r \in Seq(Byte) /\ Len(f \o r) = Len(f) + Len(r)
        /\ \A i \in 1..(Len(f) + Len(r)) : (f \o r)[i] = IF i <= Len(f) THEN f[i] ELSE r[i - Len(f)]
    BY ConcatProperties
  <2>3. Len(f) = 4 /\ Len(r) = 4
    BY <1>3, <1>4, <2>1
  <2>4. ASSUME NEW i \in 1..4 PROVE (f \o r)[i] = f[i]
    <3>1. i \in 1..(4 + 4) /\ i <= 4
      OBVIOUS
    <3> QED
      BY <2>2, <2>3, <3>1
  <2>5. f \o r \in Seq(Byte) /\ Len(f \o r) = 8
    BY <2>2, <2>3
  <2>6. FinEnd = f \o r
    BY <2>1 DEF FinEnd
  <2> QED
    BY <2>1, <2>4, <2>5, <2>6
<1> QED
  BY <1>2, <1>3, <1>4, <1>5

LEMMA TailFacts ==
    ASSUME NEW tail \in Tails
    PROVE  /\ tail \in Seq(Byte)
           /\ tail # <<>> =>
                 \/ tail = Message("SEND_KEY") /\ tail[1].of = "SEND_KEY" /\ Len(tail) = 9
                 \/ tail = Message("FIN") /\ tail[1].of = "FIN" /\ Len(tail) = 4
                 \/ tail = FinEnd /\ tail[1].of = "FIN" /\ Len(tail) = 8
<1>1. CASE tail = <<>>
  BY <1>1, EmptySeq
<1>2. CASE tail = Message("SEND_KEY")
  <2>1. tail \in Seq(Byte) /\ Len(tail) = 9 /\ \A i \in 1..9 : tail[i].of = "SEND_KEY"
    BY <1>2, StringFacts
  <2> QED
    BY <1>2, <2>1
<1>3. CASE tail = Message("FIN")
  <2>1. tail \in Seq(Byte) /\ Len(tail) = 4 /\ \A i \in 1..4 : tail[i].of = "FIN"
    BY <1>3, StringFacts
  <2> QED
    BY <1>3, <2>1
<1>4. CASE tail = FinEnd
  <2>1. tail \in Seq(Byte) /\ Len(tail) = 8 /\ \A i \in 1..4 : tail[i].of = "FIN"
    BY <1>4, StringFacts
  <2> QED
    BY <1>4, <2>1
<1> QED
  BY <1>1, <1>2, <1>3, <1>4 DEF Tails

LEMMA TailsDiffer ==
    /\ <<>> \notin {Message("SEND_KEY"), Message("FIN"), FinEnd}
    /\ Message("SEND_KEY") \notin {Message("FIN"), FinEnd}
    /\ Message("FIN") # FinEnd
<1>1. Len(<<>>) = 0
  OBVIOUS
<1>2. <<>> # Message("SEND_KEY") /\ <<>> # Message("FIN") /\ <<>> # FinEnd
  <2>1. 0 # 9 /\ 0 # 4 /\ 0 # 8
    OBVIOUS
  <2> QED
    BY <1>1, <2>1, StringFacts, Zenon
<1>3. Message("SEND_KEY") # Message("FIN") /\ Message("SEND_KEY") # FinEnd /\ Message("FIN") # FinEnd
  <2>1. 9 # 4 /\ 9 # 8 /\ 4 # 8
    OBVIOUS
  <2> QED
    BY <2>1, StringFacts, Zenon
<1> QED
  BY <1>2, <1>3

LEMMA TailOfFacts == TailOf \in Tails
  BY DEF TailOf, Tails

\* A read that begins with SEND KEY or FIN comes when no byte of the file is on its
\* way, and leaves at most an END.
LEMMA ReadsTail ==
    ASSUME TypeInv, mimic.as = "none", NEW c \in Nat, NEW m \in Nat, NEW tail \in Tails,
           NEW n \in ReadLens(Chunk(c, m) \o tail, BufferSize),
           NEW k \in {"SEND_KEY", "FIN"}, Reads(Taken(Chunk(c, m) \o tail, n), k)
    PROVE  /\ m = 0
           /\ k = "SEND_KEY" => tail = Message("SEND_KEY") /\ Left(Chunk(c, m) \o tail, n) = <<>>
           /\ k = "FIN" =>
                 \/ tail = Message("FIN") /\ Left(Chunk(c, m) \o tail, n) = <<>>
                 \/ tail = FinEnd /\ Left(Chunk(c, m) \o tail, n) \in {<<>>, Message("END")}
<1>b. BufferSize \in Nat /\ BufferSize >= 9
  BY WireAssumption
<1>t. tail \in Seq(Byte)
  BY TailFacts
<1>1. PICK s \in Seq(Byte) : s = Chunk(c, m) \o tail
  BY <1>t, StreamBytes
<1>2. /\ n \in 1..Len(s) /\ Taken(s, n) \in Seq(Byte) /\ Len(Taken(s, n)) = n
      /\ \A i \in 1..n : Taken(s, n)[i] = s[i]
  <2>1. n \in ReadLens(s, BufferSize) /\ BufferSize \in Nat \ {0}
    BY <1>1, <1>b
  <2> QED
    BY <2>1, ReadBytes
<1>3. k \in Control /\ MsgLen(k) \in 2..9
  BY Names, MessageType
<1>4. n >= MsgLen(k) /\ Taken(s, n)[1].of = k
  BY <1>1, <1>2, <1>3, ReadsBytes
<1>5. s[1].of = k
  BY <1>2, <1>3, <1>4
<1>6. m = 0
  <2>1. \A i \in 1..m : (Chunk(c, m) \o tail)[i].of = "FILE"
    BY <1>t, StreamBytes
  <2>2. \A i \in 1..m : s[i].of = "FILE"
    BY <1>1, <2>1
  <2> QED
    BY <1>5, <2>2
<1>7. s = tail
  BY <1>1, <1>6, <1>t, NoChunk
<1>8. CASE k = "SEND_KEY"
  <2>1. tail = Message("SEND_KEY") /\ Len(s) = 9
    BY <1>2, <1>5, <1>7, <1>8, TailFacts
  <2>2. n = Len(s)
    BY <1>2, <1>4, <1>8, <2>1 DEF MsgLen
  <2>3. Left(s, n) = <<>>
    BY <2>1, <2>2, SubSeqEmpty DEF Left
  <2> QED
    BY <1>1, <1>6, <1>8, <2>1, <2>3
<1>9. CASE k = "FIN"
  <2>0. n >= 4 /\ s # <<>>
    BY <1>2, <1>4, <1>9 DEF MsgLen
  <2>1. CASE tail = Message("FIN")
    <3>1. n = Len(s) /\ Len(s) = 4
      BY <1>2, <1>7, <2>0, <2>1, StringFacts
    <3>2. Left(s, n) = <<>>
      BY <3>1, SubSeqEmpty DEF Left
    <3> QED
      BY <1>1, <1>6, <1>9, <2>1, <3>2
  <2>2. CASE tail = FinEnd
    <3>1. Len(s) = 8
      BY <1>7, <2>2, StringFacts
    <3>2. CASE n = 8
      <4>1. Left(s, n) = <<>>
        BY <3>1, <3>2, SubSeqEmpty DEF Left
      <4> QED
        BY <1>1, <1>6, <1>9, <2>2, <4>1
    <3>3. CASE n < 8
      <4>1. n \in ReadLens(Message("FIN") \o Message("END"), BufferSize)
        BY <1>1, <1>7, <2>2 DEF FinEnd
      <4>2. n = MsgLen("FIN")
        <5>1. MsgLen("FIN") = 4 /\ MsgLen("END") = 4
          BY DEF MsgLen
        <5>2. \/ BufferSize < MsgLen("FIN") + MsgLen("END")
              \/ n = MsgLen("FIN")
          BY <1>b, <3>3, <4>1, <5>1, Names, ReadsTwo
        <5> QED
          BY <1>b, <5>1, <5>2
      <4>3. Left(Message("FIN") \o Message("END"), Len(Message("FIN"))) = Message("END")
        BY StringFacts, SplitStream
      <4>4. Left(s, n) = Message("END")
        BY <1>7, <2>2, <4>2, <4>3, StringFacts DEF FinEnd, MsgLen
      <4> QED
        BY <1>1, <1>6, <1>9, <2>2, <4>4
    <3> QED
      BY <1>2, <3>1, <3>2, <3>3
  <2> QED
    BY <1>5, <1>7, <1>9, <2>0, <2>1, <2>2, TailFacts
<1> QED
  BY <1>8, <1>9

\* Any other read takes bytes of the file, unless it reaches into what follows them:
\* then a SEND KEY has lost its beginning, or more is taken than the file has.
LEMMA ReadsFile ==
    ASSUME TypeInv, NEW c \in Nat, NEW m \in Nat, NEW tail \in Tails,
           NEW n \in ReadLens(Chunk(c, m) \o tail, BufferSize),
           ~Reads(Taken(Chunk(c, m) \o tail, n), "SEND_KEY"),
           ~Reads(Taken(Chunk(c, m) \o tail, n), "FIN")
    PROVE  /\ n \in Nat
           /\ \/ n <= m
              \/ /\ n > m /\ tail = Message("SEND_KEY")
                 /\ \A i \in 1..Len(Left(Chunk(c, m) \o tail, n)) :
                        /\ Left(Chunk(c, m) \o tail, n)[i].of = "SEND_KEY"
                        /\ Left(Chunk(c, m) \o tail, n)[i].at # 1
              \/ n > m /\ tail \in {Message("FIN"), FinEnd}
<1>b. BufferSize \in Nat /\ BufferSize >= 9
  BY WireAssumption
<1>t. tail \in Seq(Byte)
  BY TailFacts
<1>1. PICK s \in Seq(Byte) : s = Chunk(c, m) \o tail
  BY <1>t, StreamBytes
<1>2. /\ n \in 1..Len(s) /\ Taken(s, n) \in Seq(Byte) /\ Len(Taken(s, n)) = n
      /\ \A i \in 1..n : Taken(s, n)[i] = s[i]
      /\ Left(s, n) \in Seq(Byte) /\ Len(Left(s, n)) = Len(s) - n
      /\ \A i \in 1..(Len(s) - n) : Left(s, n)[i] = s[n + i]
  <2>1. n \in ReadLens(s, BufferSize) /\ BufferSize \in Nat \ {0}
    BY <1>1, <1>b
  <2> QED
    BY <2>1, ReadBytes
<1>3. Len(s) = m + Len(tail) /\ \A i \in 1..Len(tail) : s[m + i] = tail[i]
  <2>1. \A i \in 1..Len(tail) : (Chunk(c, m) \o tail)[m + i] = tail[i]
    BY <1>t, StreamBytes
  <2>2. Len(Chunk(c, m) \o tail) = m + Len(tail)
    BY <1>t, StreamBytes
  <2> QED
    BY <1>1, <2>1, <2>2
<1>4. CASE n > m /\ tail = Message("SEND_KEY")
  <2>1. m > 0
    <3> SUFFICES ASSUME m = 0 PROVE FALSE
      OBVIOUS
    <3>1. s = Message("SEND_KEY")
      BY <1>1, <1>4, <1>t, NoChunk
    <3>2. Message("SEND_KEY") \o <<>> = Message("SEND_KEY") /\ <<>> \in Seq(Byte)
      BY StringFacts, ConcatEmptySeq, EmptySeq
    <3>3. n >= MsgLen("SEND_KEY")
      <4>1. n \in ReadLens(Message("SEND_KEY") \o <<>>, BufferSize)
        BY <1>1, <3>1, <3>2
      <4>2. BufferSize >= MsgLen("SEND_KEY")
        BY <1>b DEF MsgLen
      <4> QED
        BY <1>b, <3>2, <4>1, <4>2, Names, ReadsWhole
    <3>4. \A i \in 1..MsgLen("SEND_KEY") : Taken(s, n)[i] = Message("SEND_KEY")[i]
      BY <1>2, <3>1, <3>3 DEF MsgLen
    <3>5. Reads(Taken(s, n), "SEND_KEY")
      BY <1>2, <3>3, <3>4, Names, BytesRead
    <3> QED
      BY <1>1, <3>5
  <2>2. Len(tail) = 9 /\ \A i \in 1..9 : tail[i].of = "SEND_KEY" /\ tail[i].at = i
    BY <1>4, StringFacts
  <2>3. ASSUME NEW i \in 1..Len(Left(s, n)) PROVE Left(s, n)[i].of = "SEND_KEY" /\ Left(s, n)[i].at # 1
    <3>1. PICK j \in 1..9 : n + i = m + j /\ j # 1
      <4>1. Len(Left(s, n)) = m + 9 - n /\ n \in Nat
        <5>1. Len(Left(s, n)) = Len(s) - n /\ n \in Nat
          BY <1>2
        <5>2. Len(s) = m + Len(tail)
          BY <1>3
        <5> QED
          BY <2>2, <5>1, <5>2
      <4>2. n + i - m \in 1..9 /\ n + i = m + (n + i - m) /\ n + i - m # 1
        BY <1>4, <2>1, <4>1
      <4> QED
        BY <4>2
    <3>2. Left(s, n)[i] = s[n + i]
      BY <1>2
    <3>3. s[m + j] = tail[j]
      BY <1>3, <2>2
    <3> QED
      BY <2>2, <3>1, <3>2, <3>3
  <2> QED
    BY <1>1, <1>2, <1>4, <2>3
<1>5. CASE n > m /\ tail \in {Message("FIN"), FinEnd}
  BY <1>2, <1>5
<1>6. CASE n <= m
  BY <1>2, <1>6
<1>7. ~(n > m /\ tail = <<>>)
  BY <1>2, <1>3
<1> QED
  BY <1>2, <1>4, <1>5, <1>6, <1>7 DEF Tails

---------------------------------------------------------------------------
\* The invariant's parts, together and one step on.

LEMMA Values ==
    ASSUME TypeInv
    PROVE  /\ size \in Nat /\ rcounter \in Nat /\ fpos \in Nat /\ fpos <= size
           /\ counter \in Nat /\ counter <= size /\ half \in {1, 2} /\ rounds \in Nat
           /\ spc \in SenderStates /\ rpc \in Live \cup Stopped
           /\ sopen \in BOOLEAN /\ ropen \in BOOLEAN
           /\ s2r \in Seq(Byte) /\ r2s \in Seq(Byte)
           /\ spc \notin {"fileAck", "exited"} => fpos = counter
           /\ BufferSize \in Nat /\ BufferSize >= 9
<1>1. size \in Nat /\ BufferSize \in Nat /\ BufferSize >= 9 /\ MaxRounds \in Nat
  BY WireAssumption, SenderAssumption DEF TypeInv, TypeOK, WireTypeOK
<1>2. counter \in Nat /\ fpos \in Nat /\ fpos <= size /\ counter <= size
  BY <1>1 DEF TypeInv, TypeOK, SenderTypeOK
<1>3. rounds \in Nat
  BY <1>1 DEF TypeInv, TypeOK, SenderTypeOK
<1> QED
  BY <1>1, <1>2, <1>3 DEF TypeInv, TypeOK, WireTypeOK, SenderTypeOK, ReceiverTypeOK, FilePosition

LEMMA NothingAhead == TypeInv /\ rcounter <= size => Ahead(<<>>)
<1> SUFFICES ASSUME TypeInv, rcounter <= size PROVE Ahead(<<>>)
  OBVIOUS
<1>1. Chunk(rcounter, 0) \o <<>> = <<>>
  BY NoChunk, EmptySeq
<1>2. <<>> \in Tails /\ <<>> \notin {Message("FIN"), FinEnd}
  BY TailsDiffer DEF Tails
<1>3. Behind(0, <<>>)
  BY <1>2, Values DEF Behind
<1> QED
  BY <1>1, <1>2, <1>3 DEF Ahead

LEMMA SentAhead ==
    ASSUME TypeInv, InHalves, rcounter <= fpos
    PROVE  /\ fpos - rcounter \in Nat
           /\ Behind(fpos - rcounter, TailOf)
           /\ Ahead(Sent) /\ Sent \in Seq(Byte)
<1>1. PICK m \in Nat : m = fpos - rcounter /\ m \in 0..(size - rcounter)
  BY Values
<1>2. TailOf \in {Message("FIN"), FinEnd} => spc \in {"finAck", "ask", "endAck", "endEnd"}
  <2>1. spc \notin {"finAck", "ask", "endAck", "endEnd"} => TailOf \in {<<>>, Message("SEND_KEY")}
    BY DEF TailOf
  <2>2. /\ <<>> \notin {Message("FIN"), FinEnd}
        /\ Message("SEND_KEY") \notin {Message("FIN"), FinEnd}
    BY TailsDiffer
  <2> QED
    BY <2>1, <2>2
<1>3. Behind(m, TailOf)
  <2>1. fpos = size => rcounter + m = size
    BY <1>1, Values
  <2> QED
    BY <1>1, <1>2, <2>1, TailOfFacts DEF Behind, InHalves
<1>4. Sent \in Seq(Byte)
  BY <1>1, Values, StreamBytes, TailOfFacts, TailFacts DEF Sent
<1> QED
  BY <1>1, <1>3, <1>4, TailOfFacts DEF Ahead, Sent

\* While both ends are open, what Receiver may find follows from where both stand.
LEMMA LinkView == TypeInv /\ InHalves /\ Link => View
<1> SUFFICES ASSUME TypeInv, InHalves, Link PROVE View
  OBVIOUS
<1>1. CASE Greeting
  BY <1>1 DEF Greeting, View
<1>2. CASE Reading
  <2>1. Ahead(Sent) /\ Sent \in Seq(Byte) /\ rcounter <= size
    <3>1. rcounter <= fpos
      BY <1>2 DEF Reading
    <3> QED
      BY <3>1, SentAhead, Values
  <2> QED
    BY <1>2, <2>1 DEF Reading, View, Clean
<1>3. CASE Keyed
  BY <1>3, Values DEF Keyed, View, Clean
<1>4. CASE Astray
  BY <1>4 DEF Astray, View
<1>5. CASE Parting
  BY <1>5 DEF Parting, View
<1> QED
  BY <1>1, <1>2, <1>3, <1>4, <1>5 DEF Link

LEMMA KeyFacts ==
    /\ Message("KEY") \in Seq(Byte) /\ Len(Message("KEY")) = 5
    /\ \A j \in 1..5 : Message("KEY")[j].of = "KEY"
<1>1. MsgLen("KEY") = 5
  BY DEF MsgLen
<1> QED
  BY <1>1, Names, MessageType

\* Acknowledgements hold no END, nor does a key behind them.
LEMMA NoEndYet == TypeInv /\ (AcksOnly \/ KeyLast) => ~EndSent
<1>1. ASSUME NEW s \in Seq(Byte), r2s = s \o Message("KEY"), \A i \in 1..Len(s) : s[i].of = "ACK",
             NEW i \in 1..Len(r2s)
      PROVE  r2s[i].of # "END"
  <2>1. PICK k \in Seq(Byte) : k = Message("KEY") /\ Len(k) = 5 /\ \A j \in 1..5 : k[j].of = "KEY"
    BY KeyFacts
  <2>2. /\ Len(r2s) = Len(s) + Len(k)
        /\ \A j \in 1..(Len(s) + Len(k)) : r2s[j] = IF j <= Len(s) THEN s[j] ELSE k[j - Len(s)]
    <3>1. r2s = s \o k
      BY <1>1, <2>1
    <3> QED
      BY <3>1, ConcatProperties
  <2>3. Len(s) \in Nat /\ Len(r2s) = Len(s) + 5
    BY <2>1, <2>2
  <2>4. CASE i <= Len(s)
    <3>1. i \in 1..Len(s) /\ r2s[i] = s[i]
      BY <2>1, <2>2, <2>3, <2>4
    <3> QED
      BY <1>1, <3>1
  <2>5. CASE i > Len(s)
    <3>1. PICK j \in 1..5 : j = i - Len(s)
      BY <2>3, <2>5
    <3>2. r2s[i] = k[j]
      BY <2>1, <2>2, <2>3, <2>5, <3>1
    <3> QED
      BY <2>1, <3>2
  <2> QED
    BY <2>3, <2>4, <2>5
<1> QED
  BY <1>1 DEF AcksOnly, KeyLast, EndSent

\* Receiver's END is under way only when it holds the whole file.
LEMMA LinkEnd ==
    ASSUME TypeInv, Link, EndSent
    PROVE  rpc = "endAck" /\ HoldsAll /\ s2r = <<>> /\ spc \in {"endAck", "endEnd"}
<1>1. ~AcksOnly /\ ~KeyLast
  BY NoEndYet
<1>2. r2s # <<>>
  BY DEF EndSent
<1> QED
  BY <1>1, <1>2 DEF Link, Greeting, Reading, Keyed, Astray, Parting

\* What a recv() of Sender that succeeds says of the stream it reads.
LEMMA ReceivesFacts ==
    ASSUME TypeInv, mimic.as = "none", NEW k \in Control, Receives(k)
    PROVE  /\ r2s # <<>>
           /\ AcksOnly => AcksOnly' /\ k = "ACK"
           /\ EndSent' => EndSent
           /\ k = "END" => EndSent
           /\ KeyLast /\ k = "KEY" => r2s' = <<>>
<1>1. PICK n \in ReadLens(r2s, MsgLen(k)) : Reads(Taken(r2s, n), k) /\ r2s' = Left(r2s, n)
  BY DEF Receives
<1>2. /\ n \in 1..Len(r2s) /\ Taken(r2s, n) \in Seq(Byte) /\ Len(Taken(r2s, n)) = n
      /\ \A i \in 1..n : Taken(r2s, n)[i] = r2s[i]
      /\ r2s' \in Seq(Byte) /\ Len(r2s') = Len(r2s) - n
      /\ \A i \in 1..(Len(r2s) - n) : r2s'[i] = r2s[n + i]
  <2>0. MsgLen(k) \in 2..9
    BY MessageType
  <2>1. r2s \in Seq(Byte) /\ MsgLen(k) \in Nat \ {0}
    BY <2>0, Values
  <2> QED
    BY <1>1, <2>1, ReadBytes
<1>3. n >= MsgLen(k) /\ MsgLen(k) \in 2..9 /\ r2s[1].of = k /\ 1 \in 1..Len(r2s)
  <2>1. MsgLen(k) \in 2..9 /\ n >= MsgLen(k) /\ Taken(r2s, n)[1].of = k
    BY <1>1, <1>2, MessageType, ReadsBytes
  <2> QED
    BY <1>2, <2>1
<1>4. \A i \in 1..Len(r2s') : n + i \in 1..Len(r2s) /\ r2s'[i] = r2s[n + i]
  BY <1>2
<1>5. KeyLast /\ k = "KEY" => r2s' = <<>>
  <2> SUFFICES ASSUME KeyLast, k = "KEY" PROVE r2s' = <<>>
    OBVIOUS
  <2>1. PICK s \in Seq(Byte) : r2s = s \o Message("KEY") /\ \A i \in 1..Len(s) : s[i].of = "ACK"
    BY DEF KeyLast
  <2>2. PICK b \in Seq(Byte) : b = Message("KEY") /\ Len(b) = 5
    BY KeyFacts
  <2>3. /\ Len(r2s) = Len(s) + Len(b)
        /\ \A i \in 1..(Len(s) + Len(b)) : r2s[i] = IF i <= Len(s) THEN s[i] ELSE b[i - Len(s)]
    <3>1. r2s = s \o b
      BY <2>1, <2>2
    <3> QED
      BY <3>1, ConcatProperties
  <2>4. Len(s) = 0
    <3> SUFFICES ASSUME Len(s) # 0 PROVE FALSE
      OBVIOUS
    <3>1. Len(s) \in Nat \ {0} /\ 1 \in 1..Len(s)
      OBVIOUS
    <3>2. r2s[1] = s[1]
      BY <2>2, <2>3, <3>1
    <3> QED
      BY <1>3, <2>1, <3>1, <3>2
  <2>5. Len(r2s') = 0
    BY <1>2, <1>3, <2>2, <2>3, <2>4 DEF MsgLen
  <2> QED
    BY <1>2, <2>5
<1>6. AcksOnly => AcksOnly' /\ k = "ACK"
  BY <1>3, <1>4 DEF AcksOnly
<1>7. EndSent' => EndSent
  BY <1>4 DEF EndSent
<1>8. k = "END" => EndSent
  BY <1>3 DEF EndSent
<1>9. r2s # <<>>
  BY <1>3
<1> QED
  BY <1>5, <1>6, <1>7, <1>8, <1>9

---------------------------------------------------------------------------
\* One step of Sender.

ReceiverSame == UNCHANGED <<size, rpc, rcounter, rfile>>

LEMMA SenderFrame ==
    ASSUME SenderStep \/ SenderDies, ReceiverStill
    PROVE  ReceiverSame /\ ropen' = ropen /\ mimic' = mimic /\ (rounds' = rounds \/ SendAgain)
<1>1. CASE SendAgain
  BY <1>1 DEF SendAgain, ReceiverSame, ReceiverStill, receiverVars
<1>2. CASE ~SendAgain
  BY <1>2
     DEF ReceiverSame, ReceiverStill, receiverVars, SenderStep, SendFileSize, RecvSizeAck, SendChunk,
         RecvChunkAck, HalfSent, AskKey, RecvKey, SendFin, RecvFinAck, RecvAgainAck, SendEnd,
         RecvEndAck, RecvEndEnd, SenderRefuses, SenderLosesPeer, SenderDies
<1> QED
  BY <1>1, <1>2

LEMMA SenderRounds ==
    ASSUME TypeInv, SenderStep \/ SenderDies, ReceiverStill, Calm'
    PROVE  Calm /\ ~SendAgain
<1>1. ~SendAgain
  BY Values DEF SendAgain, Calm
<1> QED
  BY <1>1, SenderFrame DEF Calm

\* A step that sends nothing and leaves Sender where its last bytes put it.
LEMMA LinkStays ==
    ASSUME Link, ReceiverSame, UNCHANGED <<s2r, fpos>>, rpc # "size", spc # "keyRecv",
           TailOf' = TailOf, AcksOnly => AcksOnly', half' = half \/ half # 2, spc' # "size",
           spc \in {"finAck", "ask", "endAck", "endEnd"} => spc' \in {"finAck", "ask", "endAck", "endEnd"},
           spc \in {"endAck", "endEnd"} => spc' \in {"endAck", "endEnd"}
    PROVE  Link'
<1>1. Sent' = Sent
  BY DEF Sent, ReceiverSame, Chunk
<1>2. CASE Reading
  <2>1. Reading'
    BY <1>1, <1>2 DEF Reading, ReceiverSame, File
  <2> QED
    BY <2>1 DEF Link
<1>3. CASE Parting
  <2>1. HoldsAll'
    BY <1>3 DEF Parting, HoldsAll, Intact, ReceiverSame, File
  <2>2. Parting'
    BY <1>3, <2>1 DEF Parting, ReceiverSame
  <2> QED
    BY <2>2 DEF Link
<1> QED
  BY <1>2, <1>3 DEF Link, Greeting, Keyed, Astray

\* A step that sends on while Receiver reads the file.
LEMMA SendsMore ==
    ASSUME TypeInv, InHalves, Reading, ReceiverSame, UNCHANGED <<r2s, half>>, ropen, spc' # "size",
           NEW b \in Seq(Byte), SendToReceiver(b), Sent' = Sent \o b, rcounter' <= fpos'
    PROVE  Link'
<1>1. Sent \in Seq(Byte)
  BY SentAhead DEF Reading
<1>2. s2r' = s2r \o b
  BY DEF SendToReceiver
<1>3. CASE rpc = "ok"
  <2>1. PICK k \in Seq(Byte) : k = Message("OK")
    BY Names, MessageType
  <2>2. s2r = k \o Sent
    BY <1>3, <2>1 DEF Reading
  <2>3. s2r' = k \o (Sent \o b)
    BY <1>1, <1>2, <2>2, ConcatAssociative
  <2>4. s2r' = Message("OK") \o Sent'
    BY <2>1, <2>3
  <2> QED
    BY <1>3, <2>4 DEF Reading, ReceiverSame, File, AcksOnly, Link
<1>4. CASE rpc # "ok"
  <2>1. s2r' = Sent'
    BY <1>2, <1>4 DEF Reading
  <2> QED
    BY <1>4, <2>1 DEF Reading, ReceiverSame, File, AcksOnly, Link
<1> QED
  BY <1>3, <1>4

\* The bytes of the next chunk, or of the next string, join those under way.
LEMMA SentGrows ==
    ASSUME TypeInv, rcounter <= fpos, rcounter' = rcounter, TailOf = <<>>
    PROVE  /\ fpos' = fpos => Sent' = Sent \o TailOf'
           /\ \A m \in Nat : fpos' = fpos + m /\ TailOf' = <<>> => Sent' = Sent \o Chunk(fpos, m)
<1>1. PICK k \in Nat : k = fpos - rcounter
  BY Values
<1>2. PICK c \in Seq(Byte) : c = Chunk(rcounter, k)
  BY Values, ChunkType
<1>3. Sent = c
  <2>1. c \o <<>> = c
    BY ConcatEmptySeq
  <2> QED
    BY <1>1, <1>2, <2>1 DEF Sent
<1>4. ASSUME fpos' = fpos PROVE Sent' = Sent \o TailOf'
  BY <1>1, <1>2, <1>3, <1>4 DEF Sent, Chunk
<1>5. ASSUME NEW m \in Nat, fpos' = fpos + m, TailOf' = <<>> PROVE Sent' = Sent \o Chunk(fpos, m)
  <2>1. PICK l \in Nat : l = k + m /\ k \in 0..l /\ l - k = m /\ rcounter + k = fpos /\ fpos' - rcounter = l
    <3>1. k + m \in Nat /\ k \in 0..(k + m) /\ (k + m) - k = m /\ rcounter + k = fpos
          /\ fpos' - rcounter = k + m
      <4>1. fpos \in Nat /\ rcounter \in Nat
        BY Values
      <4> QED
        BY <1>1, <1>5, <4>1
    <3> QED
      BY <3>1
  <2>2. Chunk(rcounter, k) \o Chunk(rcounter + k, l - k) = Chunk(rcounter, l)
    BY <2>1, Values, ChunksJoin
  <2>3. Chunk(rcounter, k) \o Chunk(fpos, m) = Chunk(rcounter, l)
    BY <2>1, <2>2
  <2>4. PICK u \in Seq(Byte) : u = Chunk(rcounter, l)
    BY Values, ChunkType
  <2>5. u \o <<>> = u
    BY ConcatEmptySeq
  <2>6. Sent' = u
    BY <1>5, <2>1, <2>4, <2>5 DEF Sent, Chunk
  <2> QED
    BY <1>2, <1>3, <2>3, <2>4, <2>6
<1> QED
  BY <1>4, <1>5

LEMMA SenderOrder ==
    ASSUME TypeInv, TypeInv', Calm, Orderly, SenderStep \/ SenderDies, ~SendAgain, ReceiverStill
    PROVE  Orderly'
<1>f. /\ size' = size /\ rpc' = rpc /\ rcounter' = rcounter /\ rfile' = rfile
      /\ ropen' = ropen /\ mimic.as = "none" /\ ReceiverSame
  BY SenderFrame DEF ReceiverSame, Calm
<1>o. /\ Ends /\ InHalves /\ (ropen => View) /\ (sopen /\ ropen => Link)
      /\ (sopen /\ EndSent => rpc = "killed" \/ Intact)
  BY DEF Orderly
<1>i. Intact' = Intact /\ HoldsAll' = HoldsAll
  BY <1>f DEF Intact, HoldsAll, File
\* Sender closes, having sent nothing.
<1>c. ASSUME spc' = "exited", sopen' = FALSE, s2r' = s2r PROVE Orderly'
  <2>1. Ends'
    BY <1>c, <1>f, <1>o, <1>i DEF Ends, Live
  <2>2. View' <=> View
    BY <1>c, <1>f, <1>i DEF View, Spoiled, Clean, File, Ahead, Behind, Chunk
  <2> QED
    BY <1>c, <1>f, <1>o, <2>1, <2>2 DEF Orderly, InHalves
\* Sender goes on.
<1>k. ASSUME spc \notin {"accept", "exited"}, spc' \notin {"accept", "exited"}, sopen' = sopen,
             InHalves', EndSent' => EndSent, ropen => Link'
      PROVE  Orderly'
  <2>1. Ends' /\ sopen
    BY <1>k, <1>f, <1>o, <1>i DEF Ends, Live
  <2>2. (TypeInv /\ InHalves /\ Link => View)'
    BY LinkView, PTL
  <2> QED
    BY <1>k, <1>f, <1>o, <1>i, <2>1, <2>2 DEF Orderly
<1>s. spc \notin {"accept", "exited"} => sopen
  BY <1>o DEF Ends
<1>m. \A k \in Control : Message(k) \in Seq(Byte)
  BY MessageType
<1>1. CASE SendFileSize
  <2>1. InHalves'
    BY <1>1, <1>o DEF SendFileSize, InHalves
  <2>2. ASSUME ropen PROVE Link'
    <3>1. Greeting /\ s2r = <<>>
      BY <1>1, <1>o, <1>s, <2>2 DEF SendFileSize, Link, Greeting, Reading, Keyed, Astray, Parting
    <3>2. s2r' = Message("SIZE")
      BY <1>1, <1>m, <2>2, <3>1, Names, SendOnEmpty DEF SendFileSize
    <3> QED
      BY <1>1, <1>f, <3>1, <3>2 DEF SendFileSize, Greeting, Link
  <2> QED
    BY <1>1, <1>k, <2>1, <2>2 DEF SendFileSize, EndSent
<1>2. CASE RecvSizeAck
  <2>1. InHalves'
    BY <1>2, <1>o DEF RecvSizeAck, InHalves
  <2>2. r2s # <<>> /\ (AcksOnly => AcksOnly') /\ (EndSent' => EndSent)
    BY <1>2, <1>f, Names, ReceivesFacts DEF RecvSizeAck
  <2>3. ASSUME ropen PROVE Link'
    <3>1. Link /\ rpc # "size"
      BY <1>2, <1>o, <1>s, <2>2, <2>3 DEF RecvSizeAck, Link, Greeting, Reading, Keyed, Astray, Parting, Spoiled
    <3>2. TailOf' = TailOf /\ half # 2
      BY <1>2, <1>o DEF RecvSizeAck, TailOf, InHalves
    <3> QED
      BY <1>2, <1>f, <2>2, <3>1, <3>2, LinkStays DEF RecvSizeAck
  <2> QED
    BY <1>2, <1>k, <2>1, <2>2, <2>3 DEF RecvSizeAck
<1>3. CASE SendChunk
  <2>1. InHalves'
    BY <1>3, <1>o DEF SendChunk, InHalves
  <2>2. ASSUME ropen PROVE Link'
    <3>1. Reading
      BY <1>3, <1>o, <1>s, <2>2 DEF SendChunk, Link, Greeting, Keyed, Astray, Parting
    <3>2. PICK m \in Nat : m = NumBytes
      <4>1. NumBytes \in 1..BufferSize /\ BufferSize \in Nat
        BY <1>3, Values, NumBytesType DEF SendChunk, MoreToSend
      <4> QED
        BY <4>1
    <3>3. TailOf = <<>> /\ TailOf' = <<>> /\ fpos' = fpos + m
      BY <1>3, <3>2 DEF SendChunk, TailOf
    <3>4. PICK b \in Seq(Byte) : b = Chunk(fpos, m)
      BY Values, ChunkType
    <3>5. Sent' = Sent \o b
      BY <1>f, <3>1, <3>3, <3>4, SentGrows DEF Reading
    <3>6. SendToReceiver(b)
      BY <1>3, <3>2, <3>4 DEF SendChunk
    <3>7. rcounter' <= fpos'
      BY <1>f, <3>1, <3>3, Values DEF Reading
    <3> QED
      BY <1>3, <1>f, <1>o, <2>2, <3>1, <3>5, <3>6, <3>7, SendsMore DEF SendChunk
  <2> QED
    BY <1>3, <1>k, <2>1, <2>2 DEF SendChunk, EndSent
<1>4. CASE RecvChunkAck
  <2>1. InHalves'
    BY <1>4, <1>o DEF RecvChunkAck, InHalves
  <2>2. r2s # <<>> /\ (AcksOnly => AcksOnly') /\ (EndSent' => EndSent)
    BY <1>4, <1>f, Names, ReceivesFacts DEF RecvChunkAck
  <2>3. ASSUME ropen PROVE Link'
    <3>1. Link /\ rpc # "size"
      BY <1>4, <1>o, <1>s, <2>2, <2>3 DEF RecvChunkAck, Link, Greeting, Reading, Keyed, Astray, Parting, Spoiled
    <3>2. TailOf' = TailOf
      BY <1>4 DEF RecvChunkAck, TailOf
    <3> QED
      BY <1>4, <1>f, <2>2, <3>1, <3>2, LinkStays DEF RecvChunkAck
  <2> QED
    BY <1>4, <1>k, <2>1, <2>2, <2>3 DEF RecvChunkAck
<1>5. CASE HalfSent
  <2>1. CASE spc' = "exited"
    BY <1>5, <1>c, <2>1 DEF HalfSent, Exit
  <2>2. CASE spc' # "exited"
    <3>1. /\ sopen' = sopen /\ spc = "file" /\ spc' \in {"key", "fin"} /\ UNCHANGED <<s2r, r2s, fpos, half>>
          /\ spc' = "key" => half = 1
          /\ spc' = "fin" => counter = size
      BY <1>5, <2>2 DEF HalfSent, Exit
    <3>2. InHalves'
      BY <1>f, <3>1, Values DEF InHalves
    <3>3. ASSUME ropen PROVE Link'
      <4>1. Link /\ rpc # "size"
        BY <1>o, <1>s, <3>1, <3>3 DEF Link, Greeting, Reading, Keyed, Astray, Parting, Spoiled
      <4>2. TailOf' = TailOf
        BY <3>1 DEF TailOf
      <4> QED
        BY <1>f, <3>1, <4>1, <4>2, LinkStays DEF AcksOnly
    <3> QED
      BY <1>k, <3>1, <3>2, <3>3 DEF EndSent
  <2> QED
    BY <2>1, <2>2
<1>6. CASE AskKey
  <2>1. InHalves'
    BY <1>6, <1>o DEF AskKey, InHalves
  <2>2. ASSUME ropen PROVE Link'
    <3>1. Reading
      BY <1>6, <1>o, <1>s, <2>2 DEF AskKey, Link, Greeting, Keyed, Astray, Parting
    <3>2. TailOf = <<>> /\ TailOf' = Message("SEND_KEY") /\ fpos' = fpos
      BY <1>6 DEF AskKey, TailOf
    <3>3. Sent' = Sent \o Message("SEND_KEY")
      BY <1>f, <3>1, <3>2, SentGrows DEF Reading
    <3> QED
      BY <1>6, <1>f, <1>o, <1>m, <2>2, <3>1, <3>2, <3>3, Names, SendsMore DEF AskKey, Reading
  <2> QED
    BY <1>6, <1>k, <2>1, <2>2 DEF AskKey, EndSent
<1>7. CASE RecvKey
  <2>1. InHalves'
    BY <1>7, <1>o DEF RecvKey, InHalves
  <2>2. /\ AcksOnly => "KEY" = "ACK"
        /\ KeyLast => r2s' = <<>>
        /\ EndSent' => EndSent
    BY <1>7, <1>f, Names, ReceivesFacts DEF RecvKey
  <2>3. ASSUME ropen PROVE Link'
    <3>1. Keyed
      BY <1>7, <1>o, <1>s, <2>2, <2>3 DEF RecvKey, Link, Greeting, Reading, Astray, Parting
    <3>2. r2s' = <<>> /\ s2r' = Message("OK")
      BY <1>7, <1>m, <2>2, <2>3, <3>1, Names, SendOnEmpty DEF RecvKey, Keyed
    <3>3. Sent' = <<>>
      <4>1. TailOf' = <<>> /\ fpos' = rcounter'
        BY <1>7, <1>f, <3>1 DEF RecvKey, Keyed, TailOf
      <4>2. fpos' - rcounter' = 0
        BY <4>1, <1>f, Values
      <4>3. Chunk(rcounter', 0) \o <<>> = <<>>
        BY NoChunk, EmptySeq
      <4> QED
        BY <4>1, <4>2, <4>3 DEF Sent, Chunk
    <3>4. s2r' = Message("OK") \o Sent'
      BY <1>m, <3>2, <3>3, Names, ConcatEmptySeq
    <3>5. rcounter' <= fpos'
      BY <1>7, <1>f, <3>1, Values DEF RecvKey, Keyed
    <3>6. AcksOnly'
      BY <3>2 DEF AcksOnly
    <3> QED
      BY <1>7, <1>f, <3>1, <3>4, <3>5, <3>6 DEF RecvKey, Keyed, Reading, Link, File
  <2> QED
    BY <1>7, <1>k, <2>1, <2>2, <2>3 DEF RecvKey
<1>8. CASE SendFin
  <2>1. InHalves'
    BY <1>8, <1>o, <1>f DEF SendFin, InHalves
  <2>2. ASSUME ropen PROVE Link'
    <3>1. Reading
      BY <1>8, <1>o, <1>s, <2>2 DEF SendFin, Link, Greeting, Keyed, Astray, Parting
    <3>2. TailOf = <<>> /\ TailOf' = Message("FIN") /\ fpos' = fpos
      BY <1>8 DEF SendFin, TailOf
    <3>3. Sent' = Sent \o Message("FIN")
      BY <1>f, <3>1, <3>2, SentGrows DEF Reading
    <3> QED
      BY <1>8, <1>f, <1>o, <1>m, <2>2, <3>1, <3>2, <3>3, Names, SendsMore DEF SendFin, Reading
  <2> QED
    BY <1>8, <1>k, <2>1, <2>2 DEF SendFin, EndSent
<1>9. CASE RecvFinAck
  <2>1. InHalves'
    BY <1>9, <1>o, <1>f DEF RecvFinAck, InHalves
  <2>2. r2s # <<>> /\ (AcksOnly => AcksOnly') /\ (EndSent' => EndSent)
    BY <1>9, <1>f, Names, ReceivesFacts DEF RecvFinAck
  <2>3. ASSUME ropen PROVE Link'
    <3>1. Link /\ rpc # "size"
      BY <1>9, <1>o, <1>s, <2>2, <2>3 DEF RecvFinAck, Link, Greeting, Reading, Keyed, Astray, Parting, Spoiled
    <3>2. TailOf' = TailOf
      BY <1>9 DEF RecvFinAck, TailOf
    <3> QED
      BY <1>9, <1>f, <2>2, <3>1, <3>2, LinkStays DEF RecvFinAck
  <2> QED
    BY <1>9, <1>k, <2>1, <2>2, <2>3 DEF RecvFinAck
<1>10. CASE RecvAgainAck
  BY <1>10, <1>o DEF RecvAgainAck, InHalves
<1>11. CASE SendEnd
  <2>1. InHalves'
    BY <1>11, <1>o, <1>f DEF SendEnd, InHalves
  <2>2. ASSUME ropen, Reading PROVE Link'
    <3>1. PICK c \in Seq(Byte), f \in Seq(Byte), e \in Seq(Byte) :
              c = Chunk(rcounter, fpos - rcounter) /\ f = Message("FIN") /\ e = Message("END")
      BY <1>m, <2>2, Names, SentAhead, ChunkType, Values, <1>o DEF Reading
    <3>2. Sent = c \o f /\ Sent' = c \o (f \o e)
      BY <1>11, <1>f, <3>1 DEF SendEnd, Sent, TailOf, FinEnd, Chunk
    <3>3. Sent' = Sent \o e
      BY <3>2, ConcatAssociative
    <3> QED
      BY <1>11, <1>f, <1>o, <2>2, <3>1, <3>3, SendsMore DEF SendEnd, Reading
  <2>3. ASSUME ropen, Parting PROVE Link'
    <3>1. rpc = "next" /\ s2r = <<>> /\ AcksOnly
      BY <1>11, <2>3 DEF SendEnd, Parting
    <3>2. s2r' = Message("END")
      BY <1>11, <1>m, <2>3, <3>1, Names, SendOnEmpty DEF SendEnd
    <3> QED
      BY <1>11, <1>f, <1>i, <2>3, <3>1, <3>2 DEF SendEnd, Parting, AcksOnly, Link
  <2>4. ropen => Reading \/ Parting
    BY <1>11, <1>o, <1>s DEF SendEnd, Link, Greeting, Keyed, Astray
  <2> QED
    BY <1>11, <1>k, <2>1, <2>2, <2>3, <2>4 DEF SendEnd, EndSent
<1>12. CASE RecvEndAck
  <2>1. InHalves'
    BY <1>12, <1>o, <1>f DEF RecvEndAck, InHalves
  <2>2. r2s # <<>> /\ (AcksOnly => AcksOnly') /\ (EndSent' => EndSent)
    BY <1>12, <1>f, Names, ReceivesFacts DEF RecvEndAck
  <2>3. ASSUME ropen PROVE Link'
    <3>1. Link /\ rpc # "size"
      BY <1>12, <1>o, <1>s, <2>2, <2>3 DEF RecvEndAck, Link, Greeting, Reading, Keyed, Astray, Parting, Spoiled
    <3>2. TailOf' = TailOf
      BY <1>12 DEF RecvEndAck, TailOf
    <3> QED
      BY <1>12, <1>f, <2>2, <3>1, <3>2, LinkStays DEF RecvEndAck
  <2> QED
    BY <1>12, <1>k, <2>1, <2>2, <2>3 DEF RecvEndAck
<1>13. CASE RecvEndEnd
  <2>1. EndSent /\ sopen
    BY <1>13, <1>f, <1>s, Names, ReceivesFacts DEF RecvEndEnd
  <2>2. rpc = "killed" \/ Intact
    BY <1>o, <2>1
  <2>3. ropen => rpc = "endAck" /\ HoldsAll /\ s2r = <<>>
    BY <1>o, <2>1, LinkEnd
  <2>4. ropen => s2r' = ACK
    BY <1>13, <1>m, <2>3, Names, SendOnEmpty DEF RecvEndEnd, ACK
  <2>5. Ends'
    <3>1. rpc \in {"killed", "done", "failed", "endAck"}
      BY <1>o, <2>1, <2>3, Values DEF Ends, Live, Stopped
    <3> QED
      BY <1>13, <1>f, <1>i, <1>o, <2>2, <3>1 DEF RecvEndEnd, Ends, Live
  <2>6. ropen' => View'
    BY <1>f, <1>i, <2>3, <2>4 DEF View, ACK
  <2> QED
    BY <1>13, <2>5, <2>6 DEF RecvEndEnd, Orderly, InHalves
<1>14. CASE SenderRefuses
  BY <1>14, <1>c DEF SenderRefuses, Exit
<1>15. CASE SenderLosesPeer
  BY <1>15, <1>c DEF SenderLosesPeer, Exit
<1>16. CASE SenderDies
  BY <1>16, <1>c DEF SenderDies, Exit
<1> QED
  BY <1>1, <1>2, <1>3, <1>4, <1>5, <1>6, <1>7, <1>8, <1>9, <1>10, <1>11, <1>12, <1>13, <1>14,
     <1>15, <1>16 DEF SenderStep

---------------------------------------------------------------------------
\* One step of Receiver.

\* A control string that is alone in the stream is read whole.
LEMMA ReadsOne ==
    ASSUME NEW k \in Control, NEW limit \in Nat, limit >= MsgLen(k),
           NEW n \in ReadLens(Message(k), limit)
    PROVE  n = Len(Message(k)) /\ Left(Message(k), n) = <<>> /\ Taken(Message(k), n) = Message(k)
<1>1. PICK f \in Seq(Byte) : f = Message(k) /\ Len(f) = MsgLen(k) /\ MsgLen(k) \in 2..9
  BY MessageType
<1>2. f \o <<>> = f /\ <<>> \in Seq(Byte)
  BY ConcatEmptySeq, EmptySeq
<1>3. n >= MsgLen(k)
  <2>1. n \in ReadLens(Message(k) \o <<>>, limit)
    BY <1>1, <1>2
  <2> QED
    BY <1>2, <2>1, ReadsWhole
<1>4. n \in 1..Len(f)
  <2>1. n \in ReadLens(f, limit) /\ limit \in Nat \ {0}
    BY <1>1
  <2> QED
    BY <2>1, ReadBytes
<1>5. n = Len(f)
  BY <1>1, <1>3, <1>4
<1>6. Taken(f \o <<>>, Len(f)) = f /\ Left(f \o <<>>, Len(f)) = <<>>
  BY <1>2, SplitStream
<1> QED
  BY <1>1, <1>2, <1>5, <1>6

\* The first of two strings is read alone when recv() is asked for no more.
LEMMA ReadsOnlyOk ==
    ASSUME NEW s \in Seq(Byte), NEW n \in ReadLens(Message("OK") \o s, MsgLen("OK"))
    PROVE  Left(Message("OK") \o s, n) = s
<1>1. PICK f \in Seq(Byte) : f = Message("OK") /\ Len(f) = MsgLen("OK") /\ MsgLen("OK") \in 2..9
  BY Names, MessageType
<1>2. n >= MsgLen("OK")
  BY <1>1, Names, ReadsWhole
<1>3. n <= MsgLen("OK") /\ n \in Nat
  <2>1. f \o s \in Seq(Byte) /\ MsgLen("OK") \in Nat \ {0} /\ n \in ReadLens(f \o s, MsgLen("OK"))
    BY <1>1, ConcatProperties
  <2>2. n \in 1..Len(f \o s) /\ n <= MsgLen("OK")
    BY <2>1, ReadBytes
  <2>3. Len(f \o s) \in Nat
    BY <2>1
  <2> QED
    BY <2>2, <2>3
<1>4. n = Len(f)
  BY <1>1, <1>2, <1>3
<1>5. Left(f \o s, Len(f)) = s
  BY SplitStream
<1> QED
  BY <1>1, <1>4, <1>5

LEMMA AckAdds ==
    ASSUME TypeInv, AcksOnly, SendToSender(Message("ACK"))
    PROVE  AcksOnly'
<1>1. PICK a \in Seq(Byte) : a = Message("ACK") /\ Len(a) = MsgLen("ACK") /\ \A i \in 1..Len(a) : a[i].of = "ACK"
  BY Names, MessageType
<1>2. /\ r2s \in Seq(Byte) /\ Len(r2s \o a) = Len(r2s) + Len(a)
      /\ \A i \in 1..(Len(r2s) + Len(a)) : (r2s \o a)[i] = IF i <= Len(r2s) THEN r2s[i] ELSE a[i - Len(r2s)]
  BY Values, ConcatProperties
<1>3. ASSUME NEW i \in 1..(Len(r2s) + Len(a)) PROVE (r2s \o a)[i].of = "ACK"
  <2>1. CASE i <= Len(r2s)
    BY <1>2, <2>1 DEF AcksOnly
  <2>2. CASE i > Len(r2s)
    <3>1. PICK j \in 1..Len(a) : j = i - Len(r2s)
      BY <1>2, <2>2
    <3> QED
      BY <1>1, <1>2, <2>2, <3>1
  <2>3. Len(r2s) \in Nat
    BY <1>2
  <2> QED
    BY <2>1, <2>2, <2>3
<1>4. r2s' = r2s \/ r2s' = r2s \o a
  BY <1>1 DEF SendToSender
<1> QED
  BY <1>2, <1>3, <1>4 DEF AcksOnly

LEMMA KeyAdds ==
    ASSUME TypeInv, AcksOnly, sopen, SendToSender(Message("KEY"))
    PROVE  KeyLast'
<1>1. r2s \in Seq(Byte) /\ r2s' = r2s \o Message("KEY") /\ \A i \in 1..Len(r2s) : r2s[i].of = "ACK"
  BY Values DEF SendToSender, AcksOnly
<1> QED
  BY <1>1 DEF KeyLast

\* A string that comes behind the file is not read while recv() has cut a SEND KEY.
LEMMA SpoiledReads ==
    ASSUME TypeInv, mimic.as = "none", Spoiled, NEW n \in ReadLens(s2r, BufferSize)
    PROVE  /\ ~Reads(Taken(s2r, n), "SEND_KEY") /\ ~Reads(Taken(s2r, n), "FIN")
           /\ \A i \in 1..Len(Left(s2r, n)) :
                  Left(s2r, n)[i].of = "SEND_KEY" /\ Left(s2r, n)[i].at # 1
<1>1. /\ n \in 1..Len(s2r) /\ Taken(s2r, n) \in Seq(Byte) /\ Len(Taken(s2r, n)) = n
      /\ Taken(s2r, n)[1] = s2r[1]
      /\ Len(Left(s2r, n)) = Len(s2r) - n
      /\ \A i \in 1..(Len(s2r) - n) : Left(s2r, n)[i] = s2r[n + i]
  <2>1. s2r \in Seq(Byte) /\ BufferSize \in Nat \ {0}
    BY Values
  <2> QED
    BY <2>1, ReadBytes
<1>2. s2r[1].of = "SEND_KEY" /\ s2r[1].at # 1
  BY <1>1 DEF Spoiled
<1>3. ~Reads(Taken(s2r, n), "SEND_KEY") /\ ~Reads(Taken(s2r, n), "FIN")
  <2>1. ASSUME NEW k \in {"SEND_KEY", "FIN"}, Reads(Taken(s2r, n), k) PROVE FALSE
    <3>1. k \in Control /\ MsgLen(k) \in 2..9
      BY Names, MessageType
    <3>2. Taken(s2r, n)[1].of = k /\ Taken(s2r, n)[1].at = 1
      BY <1>1, <2>1, <3>1, ReadsBytes
    <3> QED
      BY <1>1, <1>2, <3>2
  <2> QED
    BY <2>1
<1>4. ASSUME NEW i \in 1..Len(Left(s2r, n))
      PROVE  Left(s2r, n)[i].of = "SEND_KEY" /\ Left(s2r, n)[i].at # 1
  <2>1. PICK j \in 1..Len(s2r) : j = n + i /\ i \in 1..(Len(s2r) - n)
    BY <1>1
  <2> QED
    BY <1>1, <2>1 DEF Spoiled
<1> QED
  BY <1>3, <1>4

\* What RecvChunk does to a stream that holds the next bytes of the file: it takes
\* some of them, cuts the SEND KEY behind them, or counts more than the file has.
LEMMA ChunkRead ==
    ASSUME TypeInv, rfile = File(rcounter), RecvChunk,
           NEW m \in Nat, NEW tail \in Tails, Behind(m, tail), s2r = Chunk(rcounter, m) \o tail
    PROVE  \/ /\ \E n \in 0..m : /\ rcounter' = rcounter + n
                                 /\ s2r' = Chunk(rcounter + n, m - n) \o tail
              /\ rcounter' <= size /\ rfile' = File(rcounter')
              /\ rpc' = "loop" /\ ropen' = ropen
           \/ /\ tail = Message("SEND_KEY")
              /\ \A i \in 1..Len(s2r') : s2r'[i].of = "SEND_KEY" /\ s2r'[i].at # 1
              /\ rpc' = "loop" /\ ropen' = ropen
           \/ Fail
<1>1. PICK n \in ReadLens(s2r, BufferSize) :
          /\ ~Reads(Taken(s2r, n), "SEND_KEY") /\ ~Reads(Taken(s2r, n), "FIN")
          /\ s2r' = Left(s2r, n)
          /\ rfile' = rfile \o Positions(Taken(s2r, n))
          /\ rcounter' = rcounter + n
  BY DEF RecvChunk
<1>2. \/ rcounter' <= size /\ rpc' = "loop" /\ ropen' = ropen
      \/ rcounter' > size /\ Fail
  BY DEF RecvChunk
<1>3. /\ n \in Nat
      /\ \/ n <= m
         \/ /\ n > m /\ tail = Message("SEND_KEY")
            /\ \A i \in 1..Len(s2r') : s2r'[i].of = "SEND_KEY" /\ s2r'[i].at # 1
         \/ n > m /\ tail \in {Message("FIN"), FinEnd}
  <2>1. /\ n \in ReadLens(Chunk(rcounter, m) \o tail, BufferSize)
        /\ ~Reads(Taken(Chunk(rcounter, m) \o tail, n), "SEND_KEY")
        /\ ~Reads(Taken(Chunk(rcounter, m) \o tail, n), "FIN")
        /\ s2r' = Left(Chunk(rcounter, m) \o tail, n)
    BY <1>1
  <2>2. rcounter \in Nat
    BY Values
  <2> QED
    BY <2>1, <2>2, ReadsFile
<1>4. CASE n <= m
  <2>1. n \in 0..m /\ rcounter \in Nat /\ size \in Nat /\ m \in 0..(size - rcounter)
    BY <1>3, <1>4, Values DEF Behind
  <2>2. Taken(s2r, n) = Chunk(rcounter, n) /\ s2r' = Chunk(rcounter + n, m - n) \o tail
    <3>1. /\ Taken(Chunk(rcounter, m) \o tail, n) = Chunk(rcounter, n)
          /\ Left(Chunk(rcounter, m) \o tail, n) = Chunk(rcounter + n, m - n) \o tail
      BY <2>1, TailFacts, ReadAhead
    <3> QED
      BY <1>1, <3>1
  <2>3. rfile' = File(rcounter')
    BY <1>1, <1>3, <2>1, <2>2, FileGrows
  <2>4. rcounter' <= size
    BY <1>1, <2>1
  <2>5. rpc' = "loop" /\ ropen' = ropen
    BY <1>1, <1>2, <2>1, <2>4
  <2> QED
    BY <1>1, <2>1, <2>2, <2>3, <2>4, <2>5
<1>5. CASE n > m /\ tail \in {Message("FIN"), FinEnd}
  <2>1. rcounter + m = size /\ rcounter \in Nat /\ size \in Nat
    BY <1>5, Values DEF Behind
  <2>2. ~(rcounter' <= size)
    BY <1>1, <1>3, <1>5, <2>1
  <2> QED
    BY <1>2, <2>2
<1> QED
  BY <1>2, <1>3, <1>4, <1>5

LEMMA ReceiverOrder ==
    ASSUME TypeInv, TypeInv', Calm, Orderly,
           ReceiverStep \/ RecvNothing \/ ReceiverFails \/ ReceiverKilled, SenderStill
    PROVE  Orderly'
<1>f. /\ spc' = spc /\ fpos' = fpos /\ half' = half /\ counter' = counter /\ TailOf' = TailOf
      /\ mimic.as = "none"
  BY DEF SenderStill, senderVars, TailOf, Calm
<1>g. size' = size /\ sopen' = sopen
  BY DEF ReceiverStep, RecvFileSize, OpenFile, RecvForEmptyFile, RecvSendKey, RecvFin, RecvChunk,
         RecvNothing, RecvOk, RecvAgain, RecvEnd, SendOwnEnd, RecvOwnEndAck, ReceiverRefuses,
         ReceiverLosesPeer, ReceiverFails, ReceiverKilled
<1>o. /\ Ends /\ InHalves /\ (ropen => View) /\ (sopen /\ ropen => Link)
      /\ (sopen /\ EndSent => rpc = "killed" \/ Intact)
  BY DEF Orderly
<1>h. InHalves'
  BY <1>f, <1>g, <1>o DEF InHalves
<1>m. \A k \in Control : Message(k) \in Seq(Byte)
  BY MessageType
<1>b. BufferSize \in Nat /\ \A k \in Control : BufferSize >= MsgLen(k)
  <2>1. BufferSize \in Nat /\ BufferSize >= 9
    BY Values
  <2>2. \A k \in Control : MsgLen(k) \in 2..9
    BY MessageType
  <2> QED
    BY <2>1, <2>2
<1>l. rpc \in Live => ropen /\ View /\ (sopen => Link)
  BY <1>o DEF Ends
<1>e. ReadLens(<<>>, BufferSize) = {} /\ ReadLens(<<>>, MsgLen("OK")) = {}
  <2>1. MsgLen("OK") \in Nat
    BY Names, MessageType
  <2> QED
    BY <1>b, <2>1, ReadEmpty
\* Receiver closes.
<1>x. ASSUME ropen' = FALSE, rpc \in Live, rpc' \in {"failed", "done", "killed"},
             rfile' = rfile \/ rpc' = "killed" \/ rpc = "loop",
             rpc' = "done" => HoldsAll /\ rfile' = rfile,
             r2s' = r2s \/ (sopen => AcksOnly')
      PROVE  Orderly'
  <2>1. rfile' = rfile => Intact' = Intact
    BY <1>g DEF Intact, File
  <2>2. spc = "accept" => rpc = "endAck" /\ Intact
    BY <1>o, <1>x DEF Ends, Live
  <2>3. Ends'
    BY <1>f, <1>g, <1>o, <1>x, <2>1, <2>2 DEF Ends, Live, HoldsAll
  <2>4. ASSUME sopen, EndSent' PROVE rpc' = "killed" \/ Intact'
    <3>1. (TypeInv /\ (AcksOnly \/ KeyLast) => ~EndSent)'
      BY NoEndYet, PTL
    <3>2. r2s' = r2s
      BY <1>x, <2>4, <3>1
    <3>3. EndSent
      BY <2>4, <3>2 DEF EndSent
    <3>4. rpc = "endAck" /\ Intact
      BY <1>l, <1>x, <2>4, <3>3, LinkEnd DEF HoldsAll
    <3> QED
      BY <1>x, <2>1, <3>4
  <2> QED
    BY <1>g, <1>h, <1>x, <2>3, <2>4 DEF Orderly
\* Receiver goes on.
<1>k. ASSUME rpc \in Live \ {"endAck"}, rpc' \in Live, ropen' = ropen,
             sopen => Link', ~sopen => View'
      PROVE  Orderly'
  <2>1. (TypeInv /\ InHalves /\ Link => View)'
    BY LinkView, PTL
  <2>2. View'
    BY <1>h, <1>k, <2>1
  <2>3. sopen /\ EndSent' => Intact'
    <3>1. ASSUME TypeInv', Link', EndSent' PROVE HoldsAll'
      <4>1. (TypeInv /\ Link /\ EndSent => HoldsAll)'
        <5>1. TypeInv /\ Link /\ EndSent => HoldsAll
          BY LinkEnd
        <5> QED
          BY LinkEnd, PTL
      <4> QED
        BY <3>1, <4>1
    <3> QED
      BY <1>k, <3>1 DEF HoldsAll
  <2>4. Ends'
    BY <1>f, <1>g, <1>k, <1>o DEF Ends, Live, Stopped
  <2> QED
    BY <1>g, <1>h, <1>k, <2>2, <2>3, <2>4 DEF Orderly
<1>n. (TypeInv /\ rcounter <= size => Ahead(<<>>))'
  BY NothingAhead, PTL
<1>1. CASE RecvFileSize
  <2>1. PICK n \in ReadLens(s2r, BufferSize) : s2r' = Left(s2r, n)
    BY <1>1 DEF RecvFileSize
  <2>2. rpc = "size" /\ rcounter = 0 /\ s2r = Message("SIZE")
    BY <1>1, <1>e, <1>l, <2>1 DEF RecvFileSize, View, Spoiled, Live
  <2>3. s2r' = <<>>
    BY <1>b, <2>1, <2>2, Names, ReadsOne
  <2>4. rpc' = "open" /\ rcounter' = 0 /\ ropen' = ropen
    BY <1>1, <2>2 DEF RecvFileSize
  <2>5. View'
    <3>1. rcounter' <= size'
      BY <1>g, <2>4, Values
    <3>2. Ahead(<<>>)'
      BY <1>n, <3>1
    <3> QED
      BY <2>3, <2>4, <3>2 DEF View, Ahead, Behind, Chunk
  <2>6. ASSUME sopen PROVE Link'
    <3>0. s2r # <<>>
      BY <1>e, <2>1
    <3>1. Greeting /\ spc = "sizeAck"
      BY <1>l, <2>2, <2>6, <3>0 DEF Link, Greeting, Reading, Keyed, Astray, Parting, Spoiled, Live
    <3>2. AcksOnly
      BY <3>1 DEF Greeting, AcksOnly
    <3>3. AcksOnly'
      BY <1>1, <3>2, AckAdds DEF RecvFileSize
    <3>4. Sent' = <<>>
      <4>1. TailOf' = <<>> /\ fpos' = 0 /\ rcounter' = 0 /\ fpos' - rcounter' = 0
        BY <1>f, <2>4, <3>1 DEF Greeting, TailOf
      <4>2. Chunk(0, 0) \o <<>> = <<>>
        BY NoChunk, EmptySeq
      <4> QED
        BY <4>1, <4>2 DEF Sent, Chunk
    <3>5. rcounter' <= fpos'
      BY <1>f, <2>4, <3>1 DEF Greeting
    <3> QED
      BY <1>f, <2>3, <2>4, <3>1, <3>3, <3>4, <3>5 DEF Reading, Link
  <2> QED
    BY <1>k, <2>2, <2>4, <2>5, <2>6 DEF Live
<1>2. CASE OpenFile
  <2>1. /\ rpc = "open" /\ rpc' = "loop" /\ rfile' = <<>> /\ UNCHANGED <<rcounter, s2r, r2s, ropen>>
        /\ rpc \in Live
    BY <1>2 DEF OpenFile, Live
  <2>2. rcounter = 0 /\ Ahead(s2r)
    BY <1>l, <2>1 DEF View, Spoiled
  <2>3. rfile' = File(rcounter')
    BY <2>1, <2>2, FileEmpty
  <2>4. View'
    <3>1. Ahead(s2r)'
      BY <1>g, <2>1, <2>2 DEF Ahead, Behind, Chunk
    <3>2. rcounter' <= size'
      BY <1>g, <2>1, <2>2, Values
    <3> QED
      BY <2>1, <2>3, <3>1, <3>2 DEF View, Clean
  <2>5. ASSUME sopen PROVE Link'
    <3>1. Reading /\ s2r = Sent
      BY <1>l, <2>1, <2>5 DEF Link, Greeting, Reading, Keyed, Astray, Parting, Spoiled
    <3>2. Sent' = Sent
      BY <1>f, <2>1 DEF Sent, Chunk
    <3> QED
      BY <1>f, <2>1, <2>3, <3>1, <3>2 DEF Reading, AcksOnly, Link
  <2> QED
    BY <1>k, <2>1, <2>4, <2>5 DEF Live
<1>3. CASE RecvForEmptyFile
  BY <1>3, <1>x DEF RecvForEmptyFile, Fail, Live
<1>4. CASE RecvSendKey
  <2>1. PICK n \in ReadLens(s2r, BufferSize) :
            Reads(Taken(s2r, n), "SEND_KEY") /\ s2r' = Left(s2r, n)
    BY <1>4 DEF RecvSendKey
  <2>2. /\ rpc = "loop" /\ rpc' = "ok" /\ UNCHANGED <<rcounter, rfile, ropen>> /\ rpc \in Live
        /\ SendToSender(Message("KEY"))
    BY <1>4 DEF RecvSendKey, Live
  <2>3. ~Spoiled
    BY <1>f, <2>1, SpoiledReads
  <2>4. ASSUME NEW m \in Nat, NEW tail \in Tails, s2r = Chunk(rcounter, m) \o tail
        PROVE  m = 0 /\ tail = Message("SEND_KEY") /\ s2r' = <<>>
    <3>1. /\ n \in ReadLens(Chunk(rcounter, m) \o tail, BufferSize) /\ rcounter \in Nat
          /\ Reads(Taken(Chunk(rcounter, m) \o tail, n), "SEND_KEY")
          /\ s2r' = Left(Chunk(rcounter, m) \o tail, n)
      BY <2>1, <2>4, Values
    <3> QED
      BY <1>f, <3>1, ReadsTail
  <2>5. View'
    <3>1. Clean /\ Ahead(s2r)
      BY <1>l, <2>2, <2>3 DEF View
    <3>2. s2r' = <<>>
      BY <2>4, <3>1 DEF Ahead
    <3> QED
      BY <1>g, <2>2, <3>1, <3>2 DEF View, Clean, File
  <2>6. ASSUME sopen PROVE Link'
    <3>1. Reading /\ rfile = File(rcounter) /\ s2r = Sent /\ rcounter <= fpos
      BY <1>l, <2>2, <2>3, <2>6 DEF Link, Greeting, Reading, Keyed, Astray, Parting
    <3>2. fpos - rcounter \in Nat
      BY <1>o, <3>1, SentAhead
    <3>3. fpos - rcounter = 0 /\ TailOf = Message("SEND_KEY") /\ s2r' = <<>>
      BY <2>4, <3>1, <3>2, TailOfFacts DEF Sent
    <3>4. spc = "keyRecv"
      BY <3>3, TailsDiffer DEF TailOf
    <3>5. fpos = rcounter
      BY <3>3, Values
    <3>6. KeyLast'
      BY <2>2, <2>6, <3>1, KeyAdds DEF Reading
    <3> QED
      BY <1>f, <2>2, <3>1, <3>3, <3>4, <3>5, <3>6 DEF Keyed, Link, File
  <2> QED
    BY <1>k, <2>2, <2>5, <2>6 DEF Live
<1>5. CASE RecvFin
  <2>1. PICK n \in ReadLens(s2r, BufferSize) :
            Reads(Taken(s2r, n), "FIN") /\ s2r' = Left(s2r, n)
    BY <1>5 DEF RecvFin
  <2>2. /\ rpc = "loop" /\ rpc' = "next" /\ UNCHANGED <<rcounter, rfile, ropen>> /\ rpc \in Live
        /\ SendToSender(Message("ACK"))
    BY <1>5 DEF RecvFin, Live
  <2>3. ~Spoiled
    BY <1>f, <2>1, SpoiledReads
  <2>4. ASSUME NEW m \in Nat, NEW tail \in Tails, s2r = Chunk(rcounter, m) \o tail
        PROVE  /\ m = 0
               /\ \/ tail = Message("FIN") /\ s2r' = <<>>
                  \/ tail = FinEnd /\ s2r' \in {<<>>, Message("END")}
    <3>1. /\ n \in ReadLens(Chunk(rcounter, m) \o tail, BufferSize) /\ rcounter \in Nat
          /\ Reads(Taken(Chunk(rcounter, m) \o tail, n), "FIN")
          /\ s2r' = Left(Chunk(rcounter, m) \o tail, n)
      BY <2>1, <2>4, Values
    <3> QED
      BY <1>f, <3>1, ReadsTail
  <2>5. Clean /\ Ahead(s2r)
    BY <1>l, <2>2, <2>3 DEF View
  <2>6. PICK m \in Nat, tail \in Tails : Behind(m, tail) /\ s2r = Chunk(rcounter, m) \o tail
    BY <2>5 DEF Ahead
  <2>7. HoldsAll' /\ s2r' \in {<<>>, Message("END")}
    <3>1. m = 0 /\ rcounter + m = size /\ s2r' \in {<<>>, Message("END")}
      BY <2>4, <2>6 DEF Behind
    <3>2. rcounter = size
      BY <3>1, Values
    <3> QED
      BY <1>g, <2>2, <2>5, <3>1, <3>2 DEF HoldsAll, Intact, Clean, File
  <2>8. View'
    BY <2>2, <2>7 DEF View
  <2>9. ASSUME sopen PROVE Link'
    <3>1. Reading /\ s2r = Sent /\ rcounter <= fpos
      BY <1>l, <2>2, <2>3, <2>9 DEF Link, Greeting, Reading, Keyed, Astray, Parting
    <3>2. fpos - rcounter \in Nat
      BY <1>o, <3>1, SentAhead
    <3>3. \/ TailOf = Message("FIN") /\ s2r' = <<>>
          \/ TailOf = FinEnd /\ s2r' \in {<<>>, Message("END")}
      BY <2>4, <3>1, <3>2, TailOfFacts DEF Sent
    <3>4. \/ spc \in {"finAck", "ask"} /\ s2r' = <<>>
          \/ spc \in {"endAck", "endEnd"} /\ s2r' \in {<<>>, Message("END")}
      BY <3>3, TailsDiffer DEF TailOf
    <3>5. AcksOnly'
      BY <2>2, <3>1, AckAdds DEF Reading
    <3> QED
      BY <1>f, <2>2, <2>7, <3>4, <3>5 DEF Parting, Link
  <2> QED
    BY <1>k, <2>2, <2>8, <2>9 DEF Live
<1>6. CASE RecvChunk
  <2>1. /\ rpc = "loop" /\ rpc \in Live /\ SendToSender(Message("ACK"))
        /\ (rpc' = "loop" /\ ropen' = ropen) \/ Fail
    BY <1>6 DEF RecvChunk, Live
  <2>2. sopen => Reading \/ Astray
    BY <1>l, <2>1 DEF Link, Greeting, Keyed, Parting
  <2>3. sopen => AcksOnly'
    BY <2>1, <2>2, AckAdds DEF Reading, Astray
  <2>4. CASE Fail
    BY <1>x, <2>1, <2>3, <2>4 DEF Fail
  <2>5. CASE rpc' = "loop" /\ ropen' = ropen /\ ~Fail
    <3>1. ASSUME Spoiled PROVE Spoiled'
      <4>1. PICK n \in ReadLens(s2r, BufferSize) : s2r' = Left(s2r, n)
        BY <1>6 DEF RecvChunk
      <4>2. \A i \in 1..Len(Left(s2r, n)) :
                Left(s2r, n)[i].of = "SEND_KEY" /\ Left(s2r, n)[i].at # 1
        BY <1>f, <3>1, SpoiledReads
      <4> QED
        BY <2>5, <4>1, <4>2 DEF Spoiled
    <3>2. ASSUME rfile = File(rcounter), NEW m \in Nat, NEW tail \in Tails, Behind(m, tail),
                 s2r = Chunk(rcounter, m) \o tail
          PROVE  \/ /\ \E n \in 0..m : /\ rcounter' = rcounter + n
                                       /\ s2r' = Chunk(rcounter', m - n) \o tail
                    /\ rcounter' <= size /\ rfile' = File(rcounter')
                 \/ tail = Message("SEND_KEY") /\ Spoiled'
      BY <1>6, <2>5, <3>2, ChunkRead DEF Spoiled
    <3>3. ASSUME ~sopen PROVE View'
      <4>1. CASE Spoiled
        BY <3>1, <4>1 DEF View
      <4>2. CASE Clean /\ Ahead(s2r)
        <5>1. PICK m \in Nat, tail \in Tails : Behind(m, tail) /\ s2r = Chunk(rcounter, m) \o tail
          BY <4>2 DEF Ahead
        <5>2. CASE Spoiled'
          BY <5>2 DEF View
        <5>3. CASE ~Spoiled'
          <6>1. /\ rcounter' <= size /\ rfile' = File(rcounter')
                /\ \E n \in 0..m : /\ rcounter' = rcounter + n
                                   /\ s2r' = Chunk(rcounter', m - n) \o tail
            BY <3>2, <4>2, <5>1, <5>3 DEF Clean
          <6>2. PICK n \in 0..m : rcounter' = rcounter + n /\ s2r' = Chunk(rcounter', m - n) \o tail
            BY <6>1
          <6>3. PICK l \in Nat : l = m - n
            OBVIOUS
          <6>4. /\ rcounter \in Nat /\ size \in Nat /\ m \in 0..(size - rcounter)
                /\ tail \in {Message("FIN"), FinEnd} => rcounter + m = size
            BY <5>1, Values DEF Behind
          <6>5. /\ l \in 0..(size - rcounter')
                /\ tail \in {Message("FIN"), FinEnd} => rcounter' + l = size
            BY <6>2, <6>3, <6>4
          <6>6. Behind(l, tail)'
            BY <1>g, <6>5 DEF Behind
          <6>7. Ahead(s2r)'
            BY <6>2, <6>3, <6>6 DEF Ahead, Chunk
          <6> QED
            BY <1>g, <2>5, <6>1, <6>7 DEF View, Clean, File
        <5> QED
          BY <5>2, <5>3
      <4> QED
        BY <1>l, <2>1, <4>1, <4>2 DEF View
    <3>4. ASSUME sopen PROVE Link'
      <4>1. CASE Astray
        BY <1>f, <2>3, <3>1, <3>4, <4>1 DEF Astray, Link
      <4>2. CASE Reading
        <5>1. rfile = File(rcounter) /\ s2r = Sent /\ rcounter <= fpos /\ spc # "size"
          BY <2>1, <4>2 DEF Reading
        <5>2. PICK m \in Nat : m = fpos - rcounter
          BY <5>1, Values
        <5>3. Behind(m, TailOf) /\ s2r = Chunk(rcounter, m) \o TailOf /\ TailOf \in Tails
          BY <1>o, <5>1, <5>2, SentAhead, TailOfFacts DEF Sent
        <5>4. CASE TailOf = Message("SEND_KEY") /\ Spoiled'
          <6>1. spc = "keyRecv"
            BY <5>4, TailsDiffer DEF TailOf
          <6> QED
            BY <1>f, <2>3, <3>4, <5>4, <6>1 DEF Astray, Link
        <5>5. CASE ~(TailOf = Message("SEND_KEY") /\ Spoiled')
          <6>1. /\ rfile' = File(rcounter')
                /\ \E n \in 0..m : /\ rcounter' = rcounter + n
                                   /\ s2r' = Chunk(rcounter', m - n) \o TailOf
            BY <3>2, <5>1, <5>3, <5>5
          <6>2. PICK n \in 0..m : rcounter' = rcounter + n /\ s2r' = Chunk(rcounter', m - n) \o TailOf
            BY <6>1
          <6>3. m - n = fpos' - rcounter' /\ rcounter' <= fpos'
            <7>1. rcounter \in Nat /\ fpos \in Nat
              BY Values
            <7> QED
              BY <1>f, <5>2, <6>2, <7>1
          <6>4. s2r' = Sent'
            BY <1>f, <6>2, <6>3 DEF Sent, Chunk
          <6> QED
            BY <1>f, <2>3, <2>5, <3>4, <5>1, <6>1, <6>3, <6>4 DEF Reading, Link, File
        <5> QED
          BY <5>4, <5>5
      <4> QED
        BY <2>2, <3>4, <4>1, <4>2
    <3> QED
      BY <1>k, <2>1, <2>5, <3>3, <3>4 DEF Live
  <2> QED
    BY <2>1, <2>4, <2>5
<1>7. CASE RecvNothing
  <2>1. /\ rpc = "loop" /\ rpc \in Live /\ ~sopen
        /\ UNCHANGED <<s2r, rpc, ropen, rcounter, rfile>>
    BY <1>7 DEF RecvNothing, Live
  <2>2. View'
    BY <1>g, <1>l, <2>1 DEF View, Spoiled, Clean, File, Ahead, Behind, Chunk
  <2> QED
    BY <1>k, <2>1, <2>2
<1>8. CASE RecvOk
  <2>1. PICK n \in ReadLens(s2r, MsgLen("OK")) : s2r' = Left(s2r, n)
    BY <1>8 DEF RecvOk
  <2>2. /\ rpc = "ok" /\ rpc \in Live /\ rpc' = "loop"
        /\ UNCHANGED <<r2s, ropen, rcounter, rfile>>
    BY <1>8 DEF RecvOk, Live
  <2>3. ASSUME NEW s \in Seq(Byte), s2r = Message("OK") \o s PROVE s2r' = s
    BY <2>1, <2>3, ReadsOnlyOk
  <2>4. View'
    <3>1. PICK s \in Seq(Byte) : Clean /\ s2r = Message("OK") \o s /\ Ahead(s)
      BY <1>e, <1>l, <2>1, <2>2 DEF View, Spoiled
    <3>2. s2r' = s
      BY <2>3, <3>1
    <3>3. Ahead(s2r)'
      BY <1>g, <2>2, <3>1, <3>2 DEF Ahead, Behind, Chunk
    <3> QED
      BY <1>g, <2>2, <3>1, <3>3 DEF View, Clean, File
  <2>5. ASSUME sopen PROVE Link'
    <3>1. Reading /\ rfile = File(rcounter) /\ s2r = Message("OK") \o Sent
      BY <1>e, <1>l, <2>1, <2>2, <2>5 DEF Link, Greeting, Reading, Keyed, Astray, Parting, Spoiled
    <3>2. Sent \in Seq(Byte)
      BY <1>o, <3>1, SentAhead DEF Reading
    <3>3. Sent' = Sent
      BY <1>f, <2>2 DEF Sent, Chunk
    <3> QED
      BY <1>f, <2>2, <2>3, <3>1, <3>2, <3>3 DEF Reading, AcksOnly, Link, File
  <2> QED
    BY <1>k, <2>2, <2>4, <2>5 DEF Live
<1>9. ASSUME rpc = "next", NEW n \in ReadLens(s2r, BufferSize)
      PROVE  /\ s2r = Message("END") /\ HoldsAll
             /\ Left(s2r, n) = <<>> /\ ~Reads(Taken(s2r, n), "AGAIN")
  <2>1. s2r = Message("END") /\ HoldsAll
    BY <1>e, <1>l, <1>9 DEF View, Spoiled, Live
  <2>2. Left(s2r, n) = <<>> /\ Taken(s2r, n) = Message("END")
    BY <1>b, <1>9, <2>1, Names, ReadsOne
  <2> QED
    BY <1>f, <2>1, <2>2, Names, ReadsMessage
<1>10. CASE RecvAgain
  BY <1>9, <1>10 DEF RecvAgain
<1>11. CASE RecvEnd
  <2>1. /\ rpc = "next" /\ rpc \in Live /\ rpc' = "sendEnd" /\ UNCHANGED <<ropen, rcounter, rfile>>
        /\ SendToSender(Message("ACK"))
    BY <1>11 DEF RecvEnd, Live
  <2>2. s2r = Message("END") /\ HoldsAll /\ s2r' = <<>>
    BY <1>9, <1>11 DEF RecvEnd
  <2>3. HoldsAll'
    BY <1>g, <2>1, <2>2 DEF HoldsAll, Intact, File
  <2>4. View'
    BY <2>1, <2>2, <2>3 DEF View
  <2>5. ASSUME sopen PROVE Link'
    <3>1. Len(Message("END")) # Len(<<>>)
      BY StringFacts
    <3>2. Parting /\ AcksOnly /\ spc \in {"endAck", "endEnd"}
      BY <1>l, <2>1, <2>2, <2>5, <3>1 DEF Link, Greeting, Reading, Keyed, Astray, Parting, Spoiled
    <3>3. AcksOnly'
      BY <2>1, <3>2, AckAdds
    <3> QED
      BY <1>f, <2>1, <2>2, <2>3, <3>2, <3>3 DEF Parting, Link
  <2> QED
    BY <1>k, <2>1, <2>4, <2>5 DEF Live
<1>12. CASE SendOwnEnd
  <2>1. rpc = "sendEnd" /\ rpc \in Live /\ rpc' = "endAck" /\ UNCHANGED <<s2r, ropen, rcounter, rfile>>
    BY <1>12 DEF SendOwnEnd, Live
  <2>2. HoldsAll /\ s2r = <<>>
    BY <1>l, <2>1 DEF View, Spoiled
  <2>3. HoldsAll'
    BY <1>g, <2>1, <2>2 DEF HoldsAll, Intact, File
  <2>4. View'
    BY <2>1, <2>2, <2>3 DEF View
  <2>5. ASSUME sopen PROVE Link'
    <3>1. spc \in {"endAck", "endEnd"}
      BY <1>l, <2>1, <2>5 DEF Link, Greeting, Reading, Keyed, Astray, Parting, Spoiled
    <3> QED
      BY <1>f, <2>1, <2>2, <2>3, <3>1 DEF Parting, Link
  <2> QED
    BY <1>k, <2>1, <2>4, <2>5 DEF Live
<1>13. CASE RecvOwnEndAck
  <2>1. /\ rpc = "endAck" /\ rpc \in Live /\ rpc' = "done" /\ ropen' = FALSE
        /\ UNCHANGED <<r2s, rfile>>
    BY <1>13 DEF RecvOwnEndAck, Live
  <2>2. HoldsAll
    BY <1>l, <2>1 DEF View, Spoiled
  <2> QED
    BY <1>x, <2>1, <2>2
<1>14. CASE ReceiverRefuses
  BY <1>14, <1>x DEF ReceiverRefuses, Unexpected, Fail, Live
<1>15. CASE ReceiverLosesPeer
  BY <1>15, <1>x DEF ReceiverLosesPeer, Fail
<1>16. CASE ReceiverFails
  BY <1>16, <1>x DEF ReceiverFails, Fail
<1>17. CASE ReceiverKilled
  BY <1>17, <1>x DEF ReceiverKilled
<1> QED
  BY <1>1, <1>2, <1>3, <1>4, <1>5, <1>6, <1>7, <1>8, <1>10, <1>11, <1>12, <1>13, <1>14, <1>15,
     <1>16, <1>17 DEF ReceiverStep

---------------------------------------------------------------------------
LEMMA OrderInit == Init => OInv
<1> SUFFICES ASSUME Init PROVE OInv
  OBVIOUS
<1>1. sopen = FALSE /\ ropen = FALSE /\ spc = "accept" /\ rpc = "off"
  BY DEF Init, WireInit, SenderInit, ReceiverInit
<1>2. Orderly
  BY <1>1 DEF Orderly, Ends, InHalves, Live
<1> QED
  BY <1>2, TypeInit DEF OInv

LEMMA OrderStep == OInv /\ [Next]_vars => OInv'
<1> SUFFICES ASSUME OInv, [Next]_vars, Calm' PROVE Orderly'
  BY TypeStep DEF OInv
<1>t. TypeInv /\ TypeInv' /\ (Calm => Orderly)
  BY TypeStep DEF OInv
<1>1. CASE Connect
  <2>1. /\ sopen' /\ ropen' /\ spc' = "size" /\ rpc' = "size"
        /\ Greeting' /\ half' = 1 /\ s2r' = <<>> /\ r2s' = <<>>
    BY <1>1 DEF Connect, Greeting
  <2>2. Ends' /\ InHalves'
    BY <2>1 DEF Ends, InHalves, Live
  <2>3. View' /\ ~EndSent'
    BY <2>1 DEF View, Greeting, EndSent
  <2> QED
    BY <2>1, <2>2, <2>3 DEF Orderly, Link
<1>2. CASE SenderNext \/ SenderCrash
  <2>1. (SenderStep \/ SenderDies) /\ ReceiverStill
    BY <1>2 DEF SenderNext, SenderCrash, ReceiverStill
  <2>2. Calm /\ ~SendAgain
    BY <1>t, <2>1, SenderRounds
  <2> QED
    BY <1>t, <2>1, <2>2, SenderOrder
<1>3. CASE ReceiverNext \/ ReceiverSpins \/ ReceiverCrash
  <2>1. (ReceiverStep \/ RecvNothing \/ ReceiverFails \/ ReceiverKilled) /\ SenderStill
    BY <1>3 DEF ReceiverNext, ReceiverSpins, ReceiverCrash, SenderStill
  <2>2. mimic' = mimic
    BY <2>1
       DEF ReceiverStep, RecvFileSize, OpenFile, RecvForEmptyFile, RecvSendKey, RecvFin, RecvChunk,
           RecvNothing, RecvOk, RecvAgain, RecvEnd, SendOwnEnd, RecvOwnEndAck, ReceiverRefuses,
           ReceiverLosesPeer, ReceiverFails, ReceiverKilled
  <2>3. Calm
    BY <2>1, <2>2 DEF Calm, SenderStill, senderVars
  <2> QED
    BY <1>t, <2>1, <2>3, ReceiverOrder
<1>4. CASE UNCHANGED vars
  <2>1. Calm /\ Orderly
    BY <1>4, <1>t DEF Calm, vars, wireVars, senderVars
  <2>2. (View' <=> View) /\ (Link' <=> Link) /\ (EndSent' <=> EndSent)
    BY <1>4 DEF View, Link, EndSent, Greeting, Reading, Keyed, Astray, Parting, Spoiled, Clean,
                HoldsAll, Intact, Ahead, Behind, Sent, TailOf, AcksOnly, KeyLast, File, Chunk,
                vars, wireVars, senderVars, receiverVars
  <2>3. (Ends' <=> Ends) /\ (InHalves' <=> InHalves) /\ (Intact' <=> Intact)
    BY <1>4 DEF Ends, InHalves, Intact, vars, wireVars, senderVars, receiverVars
  <2> QED
    BY <1>4, <2>1, <2>2, <2>3 DEF Orderly, vars, wireVars, receiverVars
<1> QED
  BY <1>1, <1>2, <1>3, <1>4 DEF Next, Idle

\* The invariant says that the file is whole where the two programs say so.
LEMMA OrderConsequence == OInv => OneRoundIsSafe
<1> SUFFICES ASSUME Orderly PROVE CompletionIsSafe /\ FinMeansWholeFile
  BY DEF OInv, OneRoundIsSafe, Calm
<1>1. CompletionIsSafe
  BY DEF Orderly, Ends, CompletionIsSafe
<1>2. rpc = "next" => View
  BY DEF Orderly, Ends, Live
<1> QED
  BY <1>1, <1>2 DEF FinMeansWholeFile, View, Spoiled, HoldsAll

\* However chunks are cut on their way (the recv() loop of Receiver.c), and whoever
\* fails: as long as the user has not asked for the file again, Receiver leaves its
\* loop, and either side completes the session, with recv.txt whole.
THEOREM OneRoundSafe == Spec => []OneRoundIsSafe
<1>1. OInv /\ [Next]_vars => OInv'
  BY OrderStep
<1>2. OInv => OneRoundIsSafe
  BY OrderConsequence
<1> QED
  BY OrderInit, <1>1, <1>2, PTL DEF Spec
===============================================================================
