------------------------------- MODULE Watchdog -------------------------------
(***************************************************************************)
(* Assignment-4: new_ping.c pings a host and tells watchdog.c, over a TCP  *)
(* connection, of every ping and pong; the watchdog hangs up when ten      *)
(* seconds pass without a pong.  new_ping.c forks a process in each round, *)
(* which shares both sockets.  Pauses between two calls are left out.      *)
(***************************************************************************)
EXTENDS Integers, Sequences

CONSTANTS
    MaxProcesses,  \* bound: processes before fork() fails
    MaxWire        \* bound: strings in the buffer of the connection before send() blocks

ASSUME WatchdogAssumption == MaxProcesses \in Nat \ {0} /\ MaxWire \in Nat \ {0, 1, 2}

VARIABLES
    wd,       \* where the watchdog is
    timer,    \* its timer, in seconds
    status,   \* what its ping_status reads as
    wire,     \* what it has not read yet
    conn,     \* the connection, as the processes of new_ping find it
    place,    \* where each of these is; 1 is the original
    answers   \* ICMP packets arrive

watchdogVars == <<wd, timer, status>>
vars == <<watchdogVars, wire, conn, place, answers>>

Processes == 1..MaxProcesses
TIMEOUT   == 10

\* The end of a string, G and NUL, is the same for "ping" and "pong".
Strings  == {"address", "ping", "pong", "g"}
Statuses == {"ping", "pong", "g"}
Places   == {"none", "address", "ping", "fork", "child", "packet", "pong", "dead"}

\* The two programs are connected; ping_status is not initialised.
Init ==
    /\ wd = "address"
    /\ timer = 0
    /\ status \in Statuses
    /\ wire = <<>>
    /\ conn = "open"
    /\ place = [p \in Processes |-> IF p = 1 THEN "address" ELSE "none"]
    /\ answers = TRUE

---------------------------------------------------------------------------
\* ---- new_ping.c

Goto(p, next) == place' = [place EXCEPT ![p] = next]

\* Mutant: SIGPIPE is ignored.
SendsWithoutSignal(p, string, next) ==
    /\ Goto(p, next)
    /\ \/ conn = "open" /\ Len(wire) < MaxWire /\ wire' = Append(wire, string) /\ UNCHANGED conn
       \/ conn # "open" /\ conn' = "broken" /\ UNCHANGED wire

\* send(), whose result nobody looks at.  The watchdog's end of the stream does not show here:
\* the first send() after it has hung up succeeds, or fails if it left something unread, and
\* a later one raises SIGPIPE.
Sends(p, string, next) ==
    \/ /\ conn = "open" /\ Len(wire) < MaxWire
       /\ wire' = Append(wire, string)
       /\ Goto(p, next)
       /\ UNCHANGED conn
    \/ conn \in {"ended", "reset"} /\ conn' = "broken" /\ Goto(p, next) /\ UNCHANGED wire
    \/ conn = "broken" /\ Goto(p, "dead") /\ UNCHANGED <<wire, conn>>

SendsAddress(p) ==
    /\ place[p] = "address"
    /\ Sends(p, "address", "ping")
    /\ UNCHANGED <<watchdogVars, answers>>

\* A round begins: the echo request, of which nobody knows whether it arrives, and "ping".
SendsPing(p) ==
    /\ place[p] = "ping"
    /\ Sends(p, "ping", "fork")
    /\ UNCHANGED <<watchdogVars, answers>>

\* Mutant: the new process does not wait.
ForksPinger(p) ==
    /\ place[p] = "fork"
    /\ \/ \E q \in Processes : place[q] = "none" /\ place' = [place EXCEPT ![p] = "packet", ![q] = "ping"]
       \/ (\A q \in Processes : place[q] # "none") /\ Goto(p, "packet")
    /\ UNCHANGED <<watchdogVars, wire, conn, answers>>

\* fork(): where it fails, the process goes on like the parent.
Forks(p) ==
    /\ place[p] = "fork"
    /\ \/ \E q \in Processes : place[q] = "none" /\ place' = [place EXCEPT ![p] = "packet", ![q] = "child"]
       \/ (\A q \in Processes : place[q] # "none") /\ Goto(p, "packet")
    /\ UNCHANGED <<watchdogVars, wire, conn, answers>>

\* The child waits for "Timeout", which nobody sends: its recv() returns when the watchdog
\* has hung up, and it goes on with a round of its own.
ChildReturns(p) ==
    /\ place[p] = "child"
    /\ conn # "open"
    /\ conn' = IF conn = "reset" THEN "broken" ELSE conn
    /\ Goto(p, "ping")
    /\ UNCHANGED <<watchdogVars, wire, answers>>

\* recvfrom() on the raw socket returns with any ICMP packet.
ReceivesPacket(p) ==
    /\ place[p] = "packet"
    /\ answers
    /\ Goto(p, "pong")
    /\ UNCHANGED <<watchdogVars, wire, conn, answers>>

SendsPong(p) ==
    /\ place[p] = "pong"
    /\ Sends(p, "pong", "ping")
    /\ UNCHANGED <<watchdogVars, answers>>

---------------------------------------------------------------------------
\* ---- watchdog.c

\* recv() of 16 bytes: behind the 8 of the address there is room for one string and for all
\* but the last two bytes of another one.  No recv() of the watchdog comes to an end of the
\* stream: new_ping forks it when tcp_socket is open, so it holds the far end of its own
\* connection, whoever else has died.
RecvAddress ==
    /\ wd = "address"
    /\ wire # <<>>
    /\ wd' = "read"
    /\ wire' = IF Len(wire) <= 2 THEN <<>> ELSE <<"g">> \o SubSeq(wire, 4, Len(wire))
    /\ UNCHANGED <<timer, status, conn, place, answers>>

\* recv() of 5 bytes, if there is something: a string, or what is left of one with as much
\* of the next.
Recv ==
    LET torn == Head(wire) = "g" /\ Len(wire) > 1
    IN  /\ wire # <<>>
        /\ status' = Head(wire)
        /\ wire' = IF torn THEN <<"g">> \o SubSeq(wire, 3, Len(wire)) ELSE Tail(wire)

\* A recv() that waits.
RecvStatus ==
    /\ wd = "read"
    /\ Recv
    /\ wd' = IF status' = "ping" THEN "timer" ELSE "read"
    /\ UNCHANGED <<timer, conn, place, answers>>

\* Mutants of the loop: one second more; recv() waits.
TimerReadsOnceMore ==
    /\ wd = "timer"
    /\ timer <= TIMEOUT
    /\ Recv \/ (wire = <<>> /\ UNCHANGED <<status, wire>>)
    /\ wd' = IF status' = "pong" THEN "read" ELSE "timer"
    /\ timer' = IF status' = "pong" THEN 0 ELSE timer + 1
    /\ UNCHANGED <<conn, place, answers>>
TimerWaits ==
    /\ wd = "timer"
    /\ timer < TIMEOUT
    /\ Recv
    /\ wd' = IF status' = "pong" THEN "read" ELSE "timer"
    /\ timer' = IF status' = "pong" THEN 0 ELSE timer + 1
    /\ UNCHANGED <<conn, place, answers>>

\* A second of the timer: recv() does not wait.
TimerReads ==
    /\ wd = "timer"
    /\ timer < TIMEOUT
    /\ Recv \/ (wire = <<>> /\ UNCHANGED <<status, wire>>)
    /\ wd' = IF status' = "pong" THEN "read" ELSE "timer"
    /\ timer' = IF status' = "pong" THEN 0 ELSE timer + 1
    /\ UNCHANGED <<conn, place, answers>>

\* The timer has run down: the watchdog hangs up, whatever has arrived in the last second.
HangsUp ==
    /\ wd = "timer"
    /\ timer = TIMEOUT
    /\ wd' = "ended"
    /\ conn' = IF wire = <<>> THEN "ended" ELSE "reset"
    /\ wire' = <<>>
    /\ UNCHANGED <<timer, status, place, answers>>

---------------------------------------------------------------------------
\* ---- the environment

HostFallsSilent ==
    /\ answers
    /\ answers' = FALSE
    /\ UNCHANGED <<watchdogVars, wire, conn, place>>

Killed(p) ==
    /\ place[p] \notin {"none", "dead"}
    /\ Goto(p, "dead")
    /\ UNCHANGED <<watchdogVars, wire, conn, answers>>

ProcessStep(p) == SendsAddress(p) \/ SendsPing(p) \/ Forks(p) \/ ChildReturns(p) \/ SendsPong(p)
WatchdogStep   == RecvAddress \/ RecvStatus \/ TimerReads \/ HangsUp

Next ==
    \/ \E p \in Processes : ProcessStep(p) \/ ReceivesPacket(p) \/ Killed(p)
    \/ WatchdogStep
    \/ HostFallsSilent

\* All processes are scheduled; no packet has to arrive.
Spec ==
    /\ Init /\ [][Next]_vars
    /\ WF_vars(WatchdogStep) /\ \A p \in Processes : WF_vars(ProcessStep(p))

---------------------------------------------------------------------------
TypeOK ==
    /\ wd \in {"address", "read", "timer", "ended"}
    /\ timer \in 0..TIMEOUT
    /\ timer > 0 => wd # "read" /\ status = "ping"
    /\ status \in Statuses
    /\ wire \in Seq(Strings) /\ Len(wire) <= MaxWire
    /\ conn \in {"open", "ended", "reset", "broken"}
    /\ place \in [Processes -> Places]
    /\ answers \in BOOLEAN

\* While the timer runs, the next string is the pong of the ping that started it: children do
\* not write, and the timer does not start on a torn string (the strcmp() of both loops).
TimerSeesOnlyAnswers == wd = "timer" /\ wire # <<>> => Head(wire) = "pong"

\* What has been sent will be read string by string.
NothingTorn == \A i \in DOMAIN wire : wire[i] # "g"

\* A ping is under way that the watchdog will read whole.
PingUnderWay ==
    \/ wd = "timer"
    \/ /\ wd = "read" /\ NothingTorn
       /\ place[1] = "ping" \/ \E i \in DOMAIN wire : wire[i] = "ping"

\* If the host is silent for good, the watchdog hangs up: but for the ping it may have read
\* together with the address, or torn, which never starts the timer.
DeadHostIsNoticed ==
    (PingUnderWay /\ ~answers) ~> (wd = "ended" \/ place[1] = "dead")

\* The processes that are left when the watchdog has hung up do not go on for ever: each one
\* dies of SIGPIPE, or waits for a packet and dies of SIGPIPE when there is one.  Nothing but a
\* packet ends those that wait: not the watchdog's timeout (new_ping.c:155, 158).
LeftoversOnlyWait ==
    (wd = "ended") ~> [](\A p \in Processes : place[p] \in {"none", "dead", "packet", "pong"})

\* The last string that was sent is a ping.
PingIsLast ==
    \/ wd = "timer" /\ wire = <<>>
    \/ wd \in {"read", "timer"} /\ wire # <<>> /\ NothingTorn /\ wire[Len(wire)] = "ping"

\* A watchdog is never told by its connection that the ping program has died (new_ping.c:56, 95):
\* it ends all the same if the last thing it was sent, behind whatever it has not read yet, is a
\* ping.  After a pong, or a torn ping, it waits for ever.
AbandonedPingIsNoticed == (place[1] = "dead" /\ PingIsLast) ~> (wd = "ended")
===============================================================================
