-------------------------------- MODULE Wire --------------------------------
(***************************************************************************)
(* The TCP connection of Assignment-3 and the file that travels over it.   *)
(*                                                                         *)
(* The kernel's stream is external code: it is modelled from the calls     *)
(* Sender.c and Receiver.c make.  A stream is a sequence of bytes; a byte  *)
(* is known by the string it belongs to and its place in it, so a chunk of *)
(* the file and a control string can be told apart, cut and glued together *)
(* the way recv() glues what several send() calls wrote.                   *)
(***************************************************************************)
EXTENDS Integers, Sequences

CONSTANTS
    BufferSize,  \* BUFFER_SIZE, the longest chunk and the longest read
    Sizes,       \* the sizes send.txt may have
    Mimics,      \* the passages of send.txt that may read as a control string
    Segment,     \* a chunk may arrive cut after every Segment-th byte; 0: whole
    Faults       \* whether processes may stop at any moment, both to be tried

\* The control strings.  "SIZE" stands for the decimal digits of the size,
\* "KEY" for "8139", the digits of 1714 ^ 6521.
Control == {"SIZE", "ACK", "SEND_KEY", "KEY", "OK", "FIN", "AGAIN", "END"}

ASSUME WireAssumption ==
    /\ BufferSize \in Nat /\ BufferSize >= 9
    /\ Sizes \subseteq Nat
    /\ Mimics \subseteq [at : Nat, as : Control \cup {"none"}]
    /\ Segment \in Nat
    /\ Faults \subseteq BOOLEAN

VARIABLES
    faulty,  \* processes may stop at any moment
    size,    \* length of send.txt
    mimic,   \* the file's bytes from mimic.at on read as the string mimic.as
    s2r,     \* bytes on their way from Sender to Receiver
    r2s,     \* bytes on their way from Receiver to Sender
    sopen,   \* Sender holds its end of the connection
    ropen    \* Receiver holds its end of the connection

wireVars == <<faulty, size, mimic, s2r, r2s, sopen, ropen>>

\* The number of bytes each send() passes, the terminating NUL included.
MsgLen(k) ==
    CASE k = "SIZE"     -> 2
      [] k = "ACK"      -> 4
      [] k = "SEND_KEY" -> 9
      [] k = "KEY"      -> 5
      [] k = "OK"       -> 3
      [] k = "FIN"      -> 4
      [] k = "AGAIN"    -> 6
      [] k = "END"      -> 4

Byte == [of : Control \cup {"FILE"}, at : Nat]

Message(k) == [i \in 1..MsgLen(k) |-> [of |-> k, at |-> i]]

\* The n bytes of the file that follow its first "from" bytes.
Chunk(from, n) == [i \in 1..n |-> [of |-> "FILE", at |-> from + i]]

MinOf(a, b) == IF a < b THEN a ELSE b

\* Byte b is the one behind byte a in the same string.
Follows(a, b) == b.of = a.of /\ b.at = a.at + 1

\* Where the bytes that have arrived may end: at the end of what one send()
\* wrote and, if the network cuts chunks, inside a chunk.  Both programs run on
\* one host (SERVER_IP is 127.0.0.1), where a control string is never split.
Cuts(stream) ==
    {i \in 1..Len(stream) :
        \/ i = Len(stream)
        \/ ~Follows(stream[i], stream[i + 1])
        \/ Segment > 0 /\ stream[i].of = "FILE" /\ stream[i].at % Segment = 0}

\* The lengths recv(sock, buffer, limit, 0) may return from this stream.
ReadLens(stream, limit) == {MinOf(limit, c) : c \in Cuts(stream)}

Taken(stream, n) == SubSeq(stream, 1, n)
Left(stream, n)  == SubSeq(stream, n + 1, Len(stream))

\* strcmp(buffer, k) == 0 after recv() filled the buffer with buf.  The file may
\* hold the text of a control string; the NUL after it may come from the buffer,
\* which is taken to be cleared (what SEND KEY and AGAIN leave in it is ignored).
Reads(buf, k) ==
    \/ Len(buf) >= MsgLen(k) /\ SubSeq(buf, 1, MsgLen(k)) = Message(k)
    \/ /\ mimic.as = k
       /\ Len(buf) >= MsgLen(k) - 1
       /\ SubSeq(buf, 1, MsgLen(k) - 1) = Chunk(mimic.at, MsgLen(k) - 1)

\* send() on either end: bytes for a peer that closed are dropped.
SendToReceiver(bytes) == s2r' = IF ropen THEN s2r \o bytes ELSE s2r
SendToSender(bytes)   == r2s' = IF sopen THEN r2s \o bytes ELSE r2s

WireTypeOK ==
    /\ faulty \in Faults
    /\ size \in Sizes
    /\ mimic \in Mimics
    /\ s2r \in Seq(Byte)
    /\ r2s \in Seq(Byte)
    /\ sopen \in BOOLEAN
    /\ ropen \in BOOLEAN

\* No connection yet.
WireInit ==
    /\ faulty \in Faults
    /\ size \in Sizes
    /\ mimic \in Mimics
    /\ s2r = <<>>
    /\ r2s = <<>>
    /\ sopen = FALSE
    /\ ropen = FALSE
=============================================================================
