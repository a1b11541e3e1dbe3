------------------------------ MODULE NameServer ------------------------------
(***************************************************************************)
(* Final Project/Code/DNS_Server.py: one thread answers queries, another   *)
(* one takes updates of dns_cache, and nothing else is shared.  What it    *)
(* does not find there it asks a resolver.                                 *)
(***************************************************************************)
EXTENDS Integers, Sequences

CONSTANTS
    Askers,      \* who sends queries, each from a socket of its own
    Names,       \* the domain names
    Builtin,     \* those dns_cache begins with
    Updates,     \* what may be sent to it: [decodes, parts, name]
    MaxUpdates   \* bound: updates in the socket's buffer

ASSUME NameServerAssumption ==
    /\ Builtin \subseteq Names
    /\ Updates \subseteq [decodes : BOOLEAN, parts : Nat, name : Names]
    /\ MaxUpdates \in Nat

VARIABLES
    listening,   \* the threads that run, none before the process is started
    dns_cache,   \* the addresses, by key
    queries,     \* in the buffer of port 533
    updates,     \* in the buffer of port 9898
    replies,     \* in the buffers of the askers' sockets
    resolver     \* what the next server does with a question

nameVars == <<listening, dns_cache, queries, updates, replies, resolver>>

Threads == {"queries", "updates"}

\* The dictionary has texts for keys; a query is looked up under a Name object.
Text(name) == <<"text", name>>
LookedUp(name) == <<"Name", name>>

Reply   == [from : {"cache", "resolver"}, found : BOOLEAN]
Outcome == {"answer", "nxdomain", "failure"}

NameInit ==
    /\ listening = {}
    /\ dns_cache = [key \in {Text(name) : name \in Builtin} |-> "builtin"]
    /\ queries = <<>>
    /\ updates = <<>>
    /\ replies = [a \in Askers |-> <<>>]
    /\ resolver \in Outcome

NameServerStarts ==
    /\ listening = {}
    /\ listening' = Threads
    /\ UNCHANGED <<dns_cache, queries, updates, replies, resolver>>

\* Mutant: NXDOMAIN is one more exception.
HandleQueryWithoutNxdomain ==
    /\ "queries" \in listening
    /\ queries # <<>>
    /\ LET q == Head(queries)
       IN  IF LookedUp(q.name) \in DOMAIN dns_cache \/ resolver = "answer"
           THEN replies' = [replies EXCEPT ![q.from] = Append(@, [from |-> "resolver", found |-> TRUE])]
           ELSE UNCHANGED replies
    /\ queries' = Tail(queries)
    /\ UNCHANGED <<listening, dns_cache, updates, resolver>>

\* handle_dns_query: an exception other than NXDOMAIN is caught and nothing is sent.
HandleQuery ==
    /\ "queries" \in listening
    /\ queries # <<>>
    /\ LET q == Head(queries)
           Send(from, found) ==
               replies' = [replies EXCEPT ![q.from] = Append(@, [from |-> from, found |-> found])]
       IN  IF LookedUp(q.name) \in DOMAIN dns_cache THEN Send("cache", TRUE)
           ELSE \/ resolver = "answer"   /\ Send("resolver", TRUE)
                \/ resolver = "nxdomain" /\ Send("resolver", FALSE)
                \/ resolver = "failure"  /\ UNCHANGED replies
    /\ queries' = Tail(queries)
    /\ UNCHANGED <<listening, dns_cache, updates, resolver>>

\* recvfrom, decode and handle_dns_update: the decoding is outside of the try, and its
\* exception ends the thread.
HandleUpdate ==
    /\ "updates" \in listening
    /\ updates # <<>>
    /\ LET u == Head(updates)
       IN  /\ listening' = IF u.decodes THEN listening ELSE listening \ {"updates"}
           /\ dns_cache' = IF u.decodes /\ u.parts = 2
                           THEN [key \in DOMAIN dns_cache \cup {Text(u.name)} |->
                                    IF key = Text(u.name) THEN "updated" ELSE dns_cache[key]]
                           ELSE dns_cache
    /\ updates' = Tail(updates)
    /\ UNCHANGED <<queries, replies, resolver>>

\* Somebody sends an update; it is lost if nobody listens.
SendUpdate ==
    /\ Len(updates) < MaxUpdates
    /\ \E u \in Updates : updates' = IF "updates" \in listening THEN Append(updates, u) ELSE updates
    /\ UNCHANGED <<listening, dns_cache, queries, replies, resolver>>

ResolverChanges ==
    /\ resolver' \in Outcome
    /\ UNCHANGED <<listening, dns_cache, queries, updates, replies>>

NameTypeOK ==
    /\ listening \subseteq Threads
    /\ DOMAIN dns_cache \subseteq {Text(name) : name \in Names}
    /\ queries \in Seq([from : Askers, name : Names])
    /\ updates \in Seq(Updates) /\ Len(updates) <= MaxUpdates
    /\ replies \in [Askers -> Seq(Reply)]
    /\ resolver \in Outcome
===============================================================================
