---------------------------- MODULE WatchdogProofs ----------------------------
(***************************************************************************)
(* What Watchdog promises for any number of processes and any buffer of    *)
(* the connection: types, and that the running timer reads nothing but the *)
(* pong it waits for.                                                      *)
(***************************************************************************)
EXTENDS Watchdog, SequenceTheorems, TLAPS

\* What the original process sends next; "any" when it is dead.
Upcoming ==
    CASE place[1] = "address" -> "address"
      [] place[1] = "ping"    -> "ping"
      [] place[1] \in {"fork", "packet", "pong"} -> "pong"
      [] OTHER -> "any"

\* What may follow a string in the stream; behind a torn string, which was either, any.
Follows(a, b) ==
    \/ b = "any"
    \/ a = "ping" /\ b = "pong"
    \/ a \in {"address", "pong"} /\ b = "ping"
    \/ a = "g" /\ b \in {"ping", "pong"}

\* The stream is what one process sends, in turns; only its head can be torn.
InTurns ==
    /\ \A i \in 1..(Len(wire) - 1) : Follows(wire[i], wire[i + 1]) /\ wire[i + 1] # "any"
    /\ wire # <<>> => Follows(wire[Len(wire)], Upcoming)

\* Where the watchdog is in this stream.
ReadsInTurns ==
    /\ wd = "address" =>
           /\ IF wire = <<>> THEN place[1] \in {"address", "dead"} ELSE wire[1] = "address"
           /\ timer = 0
    /\ wd = "read" =>
           /\ place[1] # "address" /\ (wire # <<>> => wire[1] # "address")
           /\ timer = 0
    /\ wd = "timer" =>
           /\ IF wire = <<>> THEN Upcoming \in {"pong", "any"} ELSE wire[1] = "pong"
           /\ status = "ping"

\* Until the watchdog has hung up, the children only wait.
Undisturbed ==
    wd # "ended" =>
        /\ conn = "open"
        /\ place[1] # "child"
        /\ \A q \in Processes \ {1} : place[q] \in {"none", "child", "dead"}
        /\ InTurns /\ ReadsInTurns

Types ==
    /\ wd \in {"address", "read", "timer", "ended"}
    /\ timer \in 0..TIMEOUT
    /\ wd = "ended" => timer = 0 \/ status = "ping"
    /\ status \in Statuses
    /\ wire \in Seq(Strings) /\ Len(wire) <= MaxWire
    /\ conn \in {"open", "ended", "reset", "broken"}
    /\ place \in [Processes -> Places]
    /\ place[1] # "none"
    /\ answers \in BOOLEAN

Inv == Types /\ Undisturbed

LEMMA InvImplies == Inv => TypeOK /\ TimerSeesOnlyAnswers
  <1> SUFFICES ASSUME Inv PROVE TypeOK /\ TimerSeesOnlyAnswers
    OBVIOUS
  <1>1. timer > 0 => wd # "read" /\ status = "ping"
    BY DEF Inv, Types, Undisturbed, ReadsInTurns
  <1>2. TimerSeesOnlyAnswers
    BY DEF Inv, Types, Undisturbed, ReadsInTurns, TimerSeesOnlyAnswers
  <1> QED BY <1>1, <1>2 DEF Inv, Types, TypeOK

LEMMA InitInv == Init => Inv
  <1> SUFFICES ASSUME Init PROVE Inv
    OBVIOUS
  <1>1. 1 \in Processes /\ MaxWire \in Nat
    BY WatchdogAssumption DEF Processes
  <1>2. Types
    BY <1>1 DEF Init, Types, TIMEOUT, Strings, Places
  <1>3. Undisturbed
    BY <1>1 DEF Init, Undisturbed, InTurns, ReadsInTurns
  <1> QED BY <1>2, <1>3 DEF Inv

---------------------------------------------------------------------------
\* ---- new_ping.c

\* While the watchdog listens nobody but the original writes, and it writes in turns.
LEMMA SendInv ==
    ASSUME Inv, NEW p \in Processes, NEW string, NEW next, Sends(p, string, next),
           \/ place[p] = "address" /\ string = "address" /\ next = "ping"
           \/ place[p] = "ping" /\ string = "ping" /\ next = "fork"
           \/ place[p] = "pong" /\ string = "pong" /\ next = "ping",
           UNCHANGED <<watchdogVars, answers>>
    PROVE  Inv'
  <1>1. 1 \in Processes /\ MaxWire \in Nat
    BY WatchdogAssumption DEF Processes
  <1>2. string \in Strings /\ next \in Places \ {"none"} /\ "dead" \in Places \ {"none"}
    BY DEF Strings, Places
  <1>3. wire \in Seq(Strings) /\ Len(wire) \in Nat /\ Len(wire) <= MaxWire
    BY DEF Inv, Types
  <1>4. UNCHANGED <<wd, timer, status, answers>>
    BY DEF watchdogVars
  <1>5. wire' \in Seq(Strings) /\ Len(wire') <= MaxWire
    <2>1. CASE wire' = wire
      BY <1>3, <2>1
    <2>2. CASE Len(wire) < MaxWire /\ wire' = Append(wire, string)
      BY <1>1, <1>2, <1>3, <2>2, AppendProperties
    <2> QED BY <2>1, <2>2 DEF Sends
  <1>6. conn' \in {"open", "ended", "reset", "broken"}
    BY DEF Sends, Inv, Types
  <1>7. place' \in [Processes -> Places] /\ place'[1] # "none"
    BY <1>1, <1>2 DEF Sends, Goto, Inv, Types
  <1>8. Types'
    BY <1>4, <1>5, <1>6, <1>7 DEF Inv, Types
  <1>9. ASSUME wd # "ended" PROVE Undisturbed'
    <2>1. conn = "open" /\ p = 1
      BY <1>9 DEF Inv, Undisturbed
    <2>2. wire' = Append(wire, string) /\ place' = [place EXCEPT ![1] = next] /\ conn' = "open"
      BY <2>1 DEF Sends, Goto
    <2>3. /\ Len(wire') = Len(wire) + 1 /\ wire' # <<>> /\ wire'[Len(wire')] = string
          /\ \A i \in 1..Len(wire) : wire'[i] = wire[i]
      BY <1>2, <1>3, <2>2, AppendProperties
    <2>4. Upcoming = string /\ Follows(string, Upcoming')
      <3>1. place'[1] = next
        BY <1>1, <2>2 DEF Inv, Types
      <3> QED BY <2>1, <3>1 DEF Upcoming, Follows
    <2>5. InTurns'
      <3>1. ASSUME NEW i \in 1..(Len(wire') - 1)
            PROVE  Follows(wire'[i], wire'[i + 1]) /\ wire'[i + 1] # "any"
        <4>1. CASE i = Len(wire)
          <5>1. wire # <<>>
            BY <1>3, <4>1
          <5>2. wire'[i] = wire[Len(wire)] /\ wire'[i + 1] = string
            BY <1>3, <2>3, <4>1
          <5> QED BY <1>9, <2>4, <5>1, <5>2 DEF Inv, Undisturbed, InTurns
        <4>2. CASE i # Len(wire)
          <5>1. i \in 1..(Len(wire) - 1) /\ wire'[i] = wire[i] /\ wire'[i + 1] = wire[i + 1]
            BY <1>3, <2>3, <4>2
          <5> QED BY <1>9, <5>1 DEF Inv, Undisturbed, InTurns
        <4> QED BY <4>1, <4>2
      <3> QED BY <2>3, <2>4, <3>1 DEF InTurns, Follows
    <2>6. ReadsInTurns'
      <3>1. place'[1] # "address"
        BY <1>1, <2>2 DEF Inv, Types
      <3>2. wire = <<>> => wire'[1] = string
        BY <1>3, <2>3
      <3>3. wire # <<>> => wire'[1] = wire[1]
        BY <1>3, <2>3
      <3>4. wire # <<>> => Upcoming # "address"
        BY <1>9 DEF Inv, Undisturbed, InTurns, Follows
      <3> QED BY <1>4, <1>9, <2>1, <2>3, <2>4, <3>1, <3>2, <3>3, <3>4
              DEF Inv, Undisturbed, ReadsInTurns, Upcoming
    <2>7. place'[1] # "child" /\ \A q \in Processes \ {1} : place'[q] \in {"none", "child", "dead"}
      BY <1>1, <1>9, <2>2 DEF Inv, Types, Undisturbed
    <2> QED BY <2>2, <2>5, <2>6, <2>7 DEF Undisturbed
  <1> QED BY <1>4, <1>8, <1>9 DEF Inv, Undisturbed

\* A step that moves one process without writing.
LEMMA MoveInv ==
    ASSUME Inv, NEW p \in Processes, NEW next \in Places \ {"none"}, place[p] # "none",
           place' = [place EXCEPT ![p] = next], UNCHANGED <<watchdogVars, wire, conn, answers>>,
           \/ next = "dead"
           \/ place[p] = "packet" /\ next = "pong"
           \/ place[p] = "fork" /\ next = "packet"
    PROVE  Inv'
  <1>1. 1 \in Processes
    BY WatchdogAssumption DEF Processes
  <1>2. UNCHANGED <<wd, timer, status, wire, conn, answers>>
    BY DEF watchdogVars
  <1>3. Types'
    BY <1>1, <1>2 DEF Inv, Types
  <1>4. ASSUME wd # "ended" PROVE Undisturbed'
    <2>1. next = "dead" \/ p = 1
      BY <1>4 DEF Inv, Undisturbed
    <2>2. Upcoming' = Upcoming \/ (Upcoming' = "any" /\ place'[1] = "dead")
      BY <1>1, <2>1 DEF Upcoming, Inv, Types
    <2>3. InTurns'
      BY <1>2, <1>4, <2>2 DEF Inv, Undisturbed, InTurns, Follows
    <2>4. place'[1] = place[1] \/ place'[1] \in {"packet", "pong", "dead"}
      BY <1>1 DEF Inv, Types
    <2>5. place'[1] \in {"packet", "pong"} => place[1] \notin {"address", "ping"}
      BY <1>1 DEF Inv, Types
    <2>6. ReadsInTurns'
      BY <1>2, <1>4, <2>2, <2>4, <2>5 DEF Inv, Undisturbed, ReadsInTurns, Upcoming
    <2>7. place'[1] # "child" /\ \A q \in Processes \ {1} : place'[q] \in {"none", "child", "dead"}
      BY <1>1, <1>4, <2>1 DEF Inv, Types, Undisturbed
    <2> QED BY <1>2, <1>4, <2>3, <2>6, <2>7 DEF Inv, Undisturbed
  <1> QED BY <1>2, <1>3, <1>4 DEF Inv, Undisturbed

\* A new process waits: only the original forks while the watchdog listens.
LEMMA ForkInv ==
    ASSUME Inv, NEW p \in Processes, Forks(p)
    PROVE  Inv'
  <1>1. CASE place' = [place EXCEPT ![p] = "packet"]
    BY <1>1, MoveInv DEF Forks, Places
  <1>2. ASSUME NEW q \in Processes, place[q] = "none", place' = [place EXCEPT ![p] = "packet", ![q] = "child"]
        PROVE  Inv'
    <2>1. 1 \in Processes /\ q # 1 /\ q # p /\ place[p] = "fork"
      BY <1>2, WatchdogAssumption DEF Processes, Inv, Types, Forks
    <2>2. UNCHANGED <<wd, timer, status, wire, conn, answers>>
      BY DEF Forks, watchdogVars
    <2>3. /\ place' \in [Processes -> Places]
          /\ place'[q] = "child" /\ place'[p] = "packet"
          /\ \A r \in Processes \ {p, q} : place'[r] = place[r]
      BY <1>2, <2>1 DEF Inv, Types, Places
    <2>4. Types'
      BY <2>1, <2>2, <2>3 DEF Inv, Types
    <2>5. ASSUME wd # "ended" PROVE Undisturbed'
      <3>1. p = 1
        BY <2>1, <2>5 DEF Inv, Undisturbed
      <3>2. Upcoming' = Upcoming
        BY <2>1, <2>3, <3>1 DEF Upcoming
      <3>3. InTurns' /\ ReadsInTurns'
        BY <2>1, <2>2, <2>3, <2>5, <3>1, <3>2 DEF Inv, Undisturbed, InTurns, ReadsInTurns
      <3> QED BY <2>1, <2>2, <2>3, <2>5, <3>1, <3>3 DEF Inv, Undisturbed
    <2> QED BY <2>2, <2>4, <2>5 DEF Inv, Undisturbed
  <1> QED BY <1>1, <1>2 DEF Forks, Goto

\* A child goes on only when the watchdog has hung up.
LEMMA ChildInv ==
    ASSUME Inv, NEW p \in Processes, ChildReturns(p)
    PROVE  Inv'
  <1>1. wd = "ended" /\ UNCHANGED <<wd, timer, status, wire, answers>>
    BY DEF ChildReturns, watchdogVars, Inv, Undisturbed
  <1>2. place' \in [Processes -> Places] /\ place'[1] # "none"
    BY WatchdogAssumption DEF ChildReturns, Goto, Inv, Types, Places, Processes
  <1>3. conn' \in {"open", "ended", "reset", "broken"}
    BY DEF ChildReturns, Inv, Types
  <1> QED BY <1>1, <1>2, <1>3 DEF Inv, Types, Undisturbed

LEMMA ProcessInv ==
    ASSUME Inv, NEW p \in Processes, ProcessStep(p) \/ ReceivesPacket(p) \/ Killed(p)
    PROVE  Inv'
  <1>1. CASE SendsAddress(p) \/ SendsPing(p) \/ SendsPong(p)
    BY <1>1, SendInv DEF SendsAddress, SendsPing, SendsPong
  <1>2. CASE ReceivesPacket(p) \/ Killed(p)
    BY <1>2, MoveInv DEF ReceivesPacket, Killed, Goto, Places
  <1> QED BY <1>1, <1>2, ForkInv, ChildInv DEF ProcessStep

---------------------------------------------------------------------------
\* ---- watchdog.c

\* What is left in the buffer when a read has taken the strings before the k-th and torn
\* the one before it.
LEMMA TornStream ==
    ASSUME Inv, wd # "ended", NEW k \in {3, 4}, Len(wire) >= k - 1
    PROVE  LET t == <<"g">> \o SubSeq(wire, k, Len(wire))
           IN  /\ t \in Seq(Strings) /\ Len(t) <= MaxWire
               /\ t # <<>> /\ t[1] = "g"
               /\ \A i \in 1..(Len(t) - 1) : Follows(t[i], t[i + 1]) /\ t[i + 1] # "any"
               /\ Follows(t[Len(t)], Upcoming)
  <1> DEFINE s == SubSeq(wire, k, Len(wire))
             t == <<"g">> \o s
  <1>1. wire \in Seq(Strings) /\ Len(wire) \in Nat /\ Len(wire) <= MaxWire /\ MaxWire \in Nat
    BY WatchdogAssumption DEF Inv, Types
  <1>2. \A i \in k..Len(wire) : wire[i] \in Strings
    BY <1>1, ElementOfSeq
  <1>3. /\ s \in Seq(Strings) /\ Len(s) = Len(wire) - k + 1
        /\ \A i \in 1..Len(s) : s[i] = wire[k + i - 1]
    <2>1. Len(s) = IF k <= Len(wire) THEN Len(wire) - k + 1 ELSE 0
      BY <1>1, <1>2, SubSeqProperties
    <2> QED BY <1>1, <1>2, <2>1, SubSeqProperties
  <1> HIDE DEF s
  <1>4. <<"g">> \in Seq(Strings) /\ Len(<<"g">>) = 1 /\ <<"g">>[1] = "g"
    BY DEF Strings
  <1>5. /\ t \in Seq(Strings) /\ Len(t) = 1 + Len(s)
        /\ t[1] = "g" /\ \A i \in 2..Len(t) : t[i] = s[i - 1]
    BY <1>1, <1>3, <1>4, ConcatProperties
  <1>6. Len(t) = Len(wire) - k + 2 /\ \A i \in 2..Len(t) : t[i] = wire[k + i - 2]
    BY <1>1, <1>3, <1>5
  <1> HIDE DEF t
  <1>7. /\ \A i \in 1..(Len(wire) - 1) : Follows(wire[i], wire[i + 1]) /\ wire[i + 1] # "any"
        /\ Follows(wire[Len(wire)], Upcoming)
    <2>1. wire # <<>>
      BY <1>1
    <2> QED BY <2>1 DEF Inv, Undisturbed, InTurns
  <1>8. \A a, b : Follows(a, b) => Follows("g", b)
    BY DEF Follows
  <1>9. ASSUME NEW i \in 1..(Len(t) - 1) PROVE Follows(t[i], t[i + 1]) /\ t[i + 1] # "any"
    <2>1. k + i - 2 \in 1..(Len(wire) - 1) /\ t[i + 1] = wire[(k + i - 2) + 1]
      <3>1. i \in Int /\ i + 1 \in 2..Len(t) /\ k + i - 2 \in 1..(Len(wire) - 1)
        BY <1>1, <1>6
      <3>2. t[i + 1] = wire[k + (i + 1) - 2]
        BY <1>6, <3>1
      <3>3. k + (i + 1) - 2 = (k + i - 2) + 1
        BY <3>1
      <3> QED BY <3>1, <3>2, <3>3
    <2>2. Follows(wire[k + i - 2], t[i + 1]) /\ t[i + 1] # "any"
      BY <1>7, <2>1
    <2>3. CASE i = 1
      BY <1>5, <1>8, <2>2, <2>3
    <2>4. CASE i # 1
      <3>1. t[i] = wire[k + i - 2]
        BY <1>1, <1>6, <2>4
      <3> QED BY <2>2, <3>1
    <2> QED BY <2>3, <2>4
  <1>10. Follows(t[Len(t)], Upcoming)
    <2>1. CASE Len(t) = 1
      BY <1>5, <1>7, <1>8, <2>1
    <2>2. CASE Len(t) # 1
      <3>1. t[Len(t)] = wire[Len(wire)]
        BY <1>1, <1>6, <2>2
      <3> QED BY <1>7, <3>1
    <2> QED BY <2>1, <2>2
  <1>11. Len(t) <= MaxWire /\ t # <<>>
    BY <1>1, <1>5, <1>6
  <1> QED BY <1>5, <1>9, <1>10, <1>11 DEF t, s

\* The address is read, with or without what follows it.
LEMMA RecvAddressInv ==
    ASSUME Inv, RecvAddress
    PROVE  Inv'
  <1>1. wd = "address" /\ UNCHANGED <<timer, status, conn, place, answers>>
    BY DEF RecvAddress
  <1>2. Upcoming' = Upcoming
    BY <1>1 DEF Upcoming
  <1>3. wire \in Seq(Strings) /\ Len(wire) \in Nat /\ MaxWire \in Nat
    BY WatchdogAssumption DEF Inv, Types
  <1>4. \/ wire' = <<>>
        \/ /\ wire' \in Seq(Strings) /\ Len(wire') <= MaxWire /\ wire' # <<>> /\ wire'[1] = "g"
           /\ \A i \in 1..(Len(wire') - 1) : Follows(wire'[i], wire'[i + 1]) /\ wire'[i + 1] # "any"
           /\ Follows(wire'[Len(wire')], Upcoming)
    <2>1. CASE Len(wire) <= 2
      BY <2>1 DEF RecvAddress
    <2>2. CASE Len(wire) > 2
      <3>1. wire' = <<"g">> \o SubSeq(wire, 4, Len(wire))
        BY <1>3, <2>2 DEF RecvAddress
      <3>2. Len(wire) >= 4 - 1 /\ wd # "ended"
        BY <1>1, <1>3, <2>2
      <3> QED BY <3>1, <3>2, TornStream
    <2> QED BY <1>3, <2>1, <2>2
  <1>5. InTurns'
    BY <1>2, <1>3, <1>4 DEF InTurns
  <1>6. timer = 0
    BY <1>1 DEF Inv, Undisturbed, ReadsInTurns
  <1>7. Types'
    <2>1. wd' = "read"
      BY DEF RecvAddress
    <2>2. wire' \in Seq(Strings) /\ Len(wire') <= MaxWire
      <3>1. <<>> \in Seq(Strings) /\ Len(<<>>) <= MaxWire
        BY <1>3
      <3> QED BY <1>4, <3>1
    <2> QED BY <1>1, <1>6, <2>1, <2>2 DEF Inv, Types
  <1>8. ReadsInTurns'
    <2>1. wire # <<>> /\ wd' = "read"
      BY DEF RecvAddress
    <2>2. place[1] # "address"
      BY <1>1, <2>1 DEF Inv, Undisturbed, InTurns, Follows, Upcoming
    <2> QED BY <1>1, <1>4, <1>6, <2>1, <2>2 DEF ReadsInTurns
  <1> QED BY <1>1, <1>5, <1>7, <1>8 DEF Inv, Undisturbed

\* A read of the status finds the next string, or a torn one, and the stream goes on in turns.
LEMMA RecvTurns ==
    ASSUME Inv, wd \in {"read", "timer"}, Recv, UNCHANGED place
    PROVE  /\ wire # <<>> /\ status' = wire[1] /\ status' \in Statuses
           /\ wire' \in Seq(Strings) /\ Len(wire') <= MaxWire
           /\ InTurns'
           /\ wire' # <<>> => wire'[1] # "address"
           /\ status' = "ping" => IF wire' = <<>> THEN Upcoming' \in {"pong", "any"} ELSE wire'[1] = "pong"
           /\ wd = "timer" => status' = "pong"
  <1>1. /\ wire \in Seq(Strings) /\ Len(wire) \in Nat /\ MaxWire \in Nat /\ Len(wire) <= MaxWire
        /\ wire # <<>>
    BY WatchdogAssumption DEF Inv, Types, Recv
  <1>2. Head(wire) = wire[1] /\ Len(wire) >= 1 /\ wire[1] \in Strings
    BY <1>1
  <1>3. Upcoming' = Upcoming
    BY DEF Upcoming
  <1>4. status' = wire[1] /\ wire[1] # "address"
    BY <1>1, <1>2 DEF Recv, Inv, Undisturbed, ReadsInTurns
  <1>5. /\ \A i \in 1..(Len(wire) - 1) : Follows(wire[i], wire[i + 1]) /\ wire[i + 1] # "any"
        /\ Follows(wire[Len(wire)], Upcoming)
    BY <1>1 DEF Inv, Undisturbed, InTurns
  <1>6. CASE wire[1] = "g" /\ Len(wire) > 1
    <2>1. wire' = <<"g">> \o SubSeq(wire, 3, Len(wire))
      BY <1>2, <1>6 DEF Recv
    <2>2. Len(wire) >= 3 - 1 /\ wd # "ended"
      BY <1>1, <1>6
    <2>3. /\ wire' \in Seq(Strings) /\ Len(wire') <= MaxWire /\ wire' # <<>> /\ wire'[1] = "g"
          /\ \A i \in 1..(Len(wire') - 1) : Follows(wire'[i], wire'[i + 1]) /\ wire'[i + 1] # "any"
          /\ Follows(wire'[Len(wire')], Upcoming)
      BY <2>1, <2>2, TornStream
    <2>4. wd # "timer"
      BY <1>1, <1>6 DEF Inv, Undisturbed, ReadsInTurns
    <2> QED BY <1>1, <1>3, <1>4, <1>6, <2>3, <2>4 DEF InTurns, Statuses
  <1>7. CASE ~(wire[1] = "g" /\ Len(wire) > 1)
    <2>1. wire' = Tail(wire)
      BY <1>2, <1>7 DEF Recv
    <2>2. /\ wire' \in Seq(Strings) /\ Len(wire') = Len(wire) - 1
          /\ \A i \in 1..Len(wire') : wire'[i] = wire[i + 1]
      BY <1>1, <2>1, HeadTailProperties
    <2>3. InTurns'
      <3>1. ASSUME NEW i \in 1..(Len(wire') - 1)
            PROVE  Follows(wire'[i], wire'[i + 1]) /\ wire'[i + 1] # "any"
        <4>1. i + 1 \in 1..(Len(wire) - 1) /\ wire'[i] = wire[i + 1] /\ wire'[i + 1] = wire[(i + 1) + 1]
          BY <1>1, <2>2
        <4> QED BY <1>5, <4>1
      <3>2. wire' # <<>> => wire'[Len(wire')] = wire[Len(wire)]
        BY <1>1, <2>2
      <3> QED BY <1>3, <1>5, <3>1, <3>2 DEF InTurns
    <2>4. wire' # <<>> => 1 \in 1..(Len(wire) - 1) /\ wire'[1] = wire[2]
      BY <1>1, <2>2
    <2>5. wire' # <<>> => Follows(wire[1], wire'[1]) /\ wire'[1] # "any"
      BY <1>5, <2>4
    <2>6. wire' = <<>> => Len(wire) = 1
      BY <1>1, <2>2
    <2>7. status' = "ping" => IF wire' = <<>> THEN Upcoming' \in {"pong", "any"} ELSE wire'[1] = "pong"
      BY <1>3, <1>4, <1>5, <2>5, <2>6 DEF Follows
    <2>8. wd = "timer" => status' = "pong"
      BY <1>1, <1>4 DEF Inv, Undisturbed, ReadsInTurns
    <2>9. Len(wire') <= MaxWire
      BY <1>1, <2>2
    <2> QED BY <1>1, <1>2, <1>4, <2>2, <2>3, <2>5, <2>7, <2>8, <2>9 DEF Follows, Statuses, Strings
  <1> QED BY <1>6, <1>7

LEMMA RecvStatusInv ==
    ASSUME Inv, RecvStatus
    PROVE  Inv'
  <1>1. wd = "read" /\ wd' = (IF status' = "ping" THEN "timer" ELSE "read")
        /\ UNCHANGED <<timer, conn, place, answers>> /\ timer = 0 /\ place[1] # "address"
    BY DEF RecvStatus, Inv, Undisturbed, ReadsInTurns
  <1>2. /\ status' \in Statuses
        /\ wire' \in Seq(Strings) /\ Len(wire') <= MaxWire
        /\ InTurns'
        /\ wire' # <<>> => wire'[1] # "address"
        /\ status' = "ping" => IF wire' = <<>> THEN Upcoming' \in {"pong", "any"} ELSE wire'[1] = "pong"
    BY <1>1, RecvTurns DEF RecvStatus
  <1>3. Types'
    BY <1>1, <1>2 DEF Inv, Types
  <1>4. ReadsInTurns'
    BY <1>1, <1>2 DEF ReadsInTurns
  <1> QED BY <1>1, <1>2, <1>3, <1>4 DEF Inv, Undisturbed

LEMMA TimerReadsInv ==
    ASSUME Inv, TimerReads
    PROVE  Inv'
  <1>1. /\ wd = "timer" /\ timer < TIMEOUT
        /\ wd' = (IF status' = "pong" THEN "read" ELSE "timer")
        /\ timer' = (IF status' = "pong" THEN 0 ELSE timer + 1)
        /\ UNCHANGED <<conn, place, answers>>
    BY DEF TimerReads
  <1>2. timer' \in 0..TIMEOUT
    BY <1>1 DEF Inv, Types, TIMEOUT
  <1>3. Upcoming' = Upcoming
    BY <1>1 DEF Upcoming
  <1>4. CASE Recv
    <2>1. /\ wire # <<>> /\ status' = "pong"
          /\ wire' \in Seq(Strings) /\ Len(wire') <= MaxWire
          /\ InTurns' /\ (wire' # <<>> => wire'[1] # "address")
      BY <1>1, <1>4, RecvTurns
    <2>2. place[1] # "address"
      BY <1>1, <2>1 DEF Inv, Undisturbed, InTurns, Follows, Upcoming
    <2>3. Types'
      BY <1>1, <1>2, <2>1 DEF Inv, Types, Statuses
    <2>4. ReadsInTurns'
      BY <1>1, <2>1, <2>2 DEF ReadsInTurns
    <2> QED BY <1>1, <2>1, <2>3, <2>4 DEF Inv, Undisturbed
  <1>5. CASE wire = <<>> /\ UNCHANGED <<status, wire>>
    <2>1. status = "ping"
      BY <1>1 DEF Inv, Undisturbed, ReadsInTurns
    <2>2. Types'
      BY <1>1, <1>2, <1>5, <2>1 DEF Inv, Types
    <2>3. InTurns' /\ ReadsInTurns'
      BY <1>1, <1>3, <1>5, <2>1 DEF Inv, Undisturbed, InTurns, ReadsInTurns
    <2> QED BY <1>1, <2>2, <2>3 DEF Inv, Undisturbed
  <1> QED BY <1>4, <1>5 DEF TimerReads

LEMMA HangsUpInv ==
    ASSUME Inv, HangsUp
    PROVE  Inv'
  <1>1. /\ wd = "timer" /\ wd' = "ended" /\ wire' = <<>> /\ conn' \in {"ended", "reset"}
        /\ UNCHANGED <<timer, status, place, answers>>
    BY DEF HangsUp
  <1>2. status = "ping"
    BY <1>1 DEF Inv, Undisturbed, ReadsInTurns
  <1>3. <<>> \in Seq(Strings) /\ Len(<<>>) <= MaxWire
    BY WatchdogAssumption
  <1> QED BY <1>1, <1>2, <1>3 DEF Inv, Types, Undisturbed

---------------------------------------------------------------------------
LEMMA StepInv == Inv /\ [Next]_vars => Inv'
  <1> SUFFICES ASSUME Inv, [Next]_vars PROVE Inv'
    OBVIOUS
  <1>1. ASSUME NEW p \in Processes, ProcessStep(p) \/ ReceivesPacket(p) \/ Killed(p) PROVE Inv'
    BY <1>1, ProcessInv
  <1>2. CASE WatchdogStep
    BY <1>2, RecvAddressInv, RecvStatusInv, TimerReadsInv, HangsUpInv DEF WatchdogStep
  <1>3. CASE HostFallsSilent
    BY <1>3 DEF HostFallsSilent, watchdogVars, Inv, Types, Undisturbed, InTurns, ReadsInTurns, Upcoming
  <1>4. CASE UNCHANGED vars
    BY <1>4 DEF vars, watchdogVars, Inv, Types, Undisturbed, InTurns, ReadsInTurns, Upcoming
  <1> QED BY <1>1, <1>2, <1>3, <1>4 DEF Next

THEOREM Invariant == Spec => []Inv
  <1> QED BY InitInv, StepInv, PTL DEF Spec

\* The variables of the watchdog and of all processes of new_ping hold what the code can put
\* there, however many processes fork and die; the timer has run only since a ping.
THEOREM WatchdogTypeCorrect == Spec => []TypeOK
  <1> QED BY Invariant, InvImplies, PTL

\* However long the buffer of the connection and whatever the first reads tore apart: while the
\* timer runs, what comes next is the pong of the ping that started it (both loops of watchdog.c).
THEOREM TimerSeesAnswers == Spec => []TimerSeesOnlyAnswers
  <1> QED BY Invariant, InvImplies, PTL
===============================================================================
