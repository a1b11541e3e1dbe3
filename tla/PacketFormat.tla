----------------------------- MODULE PacketFormat -----------------------------
(***************************************************************************)
(* Assignment-2/api.py: the twelve bytes in front of every packet.         *)
(*   unix time 32 | total length 16 | reserved 3, cache, steps, type,      *)
(*   status 10 | cache control 16 | padding 16                             *)
(***************************************************************************)
EXTENDS Integers

UInt16 == {n \in Nat : n <= 65535}
UInt10 == {n \in Nat : n <= 1023}

\* The values of the fields that fit their bits.
Fields == [stamp : Nat, total : UInt16, reserved : 0..7, cache : BOOLEAN, steps : BOOLEAN,
           isRequest : BOOLEAN, status : UInt10, cc : UInt16]

\* CalculatorHeader(...): the cache control is dropped without the flag, and the flag of
\* a response without a cache control.
Constructed(h) ==
    [h EXCEPT !.cache = h.cache /\ (h.isRequest \/ h.cc # 0),
              !.cc    = IF h.cache THEN h.cc ELSE 0]

Bit(b) == IF b THEN 1 ELSE 0

\* Mutant: the next bit is tested.
IsSetShifted(n, weight) == (n \div (2 * weight)) % 2 = 1

IsSet(n, weight) == (n \div weight) % 2 = 1

\* Mutant: the status code is given the bits of HTTP's three digits only.
PackFlagsNineBits(h) ==
    h.reserved * 4096 + Bit(h.cache) * 2048 + Bit(h.steps) * 1024 + Bit(h.isRequest) * 512 + h.status

\* pack_flags: its | is a sum, as the fields do not overlap.
PackFlags(h) ==
    h.reserved * 8192 + Bit(h.cache) * 4096 + Bit(h.steps) * 2048 + Bit(h.isRequest) * 1024 + h.status

\* struct.pack('!LHHHxx', ...), the most significant byte first.
Pack(h) ==
    LET flags == PackFlags(h)
    IN  << h.stamp \div 16777216, (h.stamp \div 65536) % 256, (h.stamp \div 256) % 256, h.stamp % 256,
           h.total \div 256, h.total % 256,
           flags \div 256, flags % 256,
           h.cc \div 256, h.cc % 256,
           0, 0 >>

Word(high, low) == high * 256 + low

\* unpack: struct.unpack, unpack_flags and the constructor.
Unpack(bytes) ==
    LET flags == Word(bytes[7], bytes[8])
    IN  Constructed(
          [stamp     |-> Word(bytes[1], bytes[2]) * 65536 + Word(bytes[3], bytes[4]),
           total     |-> Word(bytes[5], bytes[6]),
           reserved  |-> (flags \div 8192) % 8,
           cache     |-> IsSet(flags, 4096),
           steps     |-> IsSet(flags, 2048),
           isRequest |-> IsSet(flags, 1024),
           status    |-> flags % 1024,
           cc        |-> Word(bytes[9], bytes[10])])
===============================================================================
