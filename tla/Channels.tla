------------------------------ MODULE Channels ------------------------------
(***************************************************************************)
(* TCPTransport (transports/tcp_transport.py): at every rank a table of    *)
(* writers and a table of receive queues, both under channel keys that a   *)
(* HELLO frame announces.  A queue belongs to one end of one socket and is *)
(* filled by the reader of that end, whatever the tables say later; so a   *)
(* queue, and a writer, is named by its link.  Frames keep their order.    *)
(***************************************************************************)
EXTENDS Integers, Sequences

CONSTANTS
    Ranks,      \* the transports, one for each rank
    Keys,       \* channel keys
    MaxLinks,   \* bound: sockets ever opened
    None

ASSUME ChannelsAssumption == MaxLinks \in Nat /\ None \notin 1..MaxLinks

VARIABLES
    links,      \* the sockets opened so far, with the frames not yet taken
    queues,     \* [Ranks -> [Keys -> the link whose queue is installed]]
    writers,    \* [Ranks -> [Keys -> the link whose writer is installed]]
    serving     \* the ranks whose server accepts connections

channels == <<links, queues, writers, serving>>

ChannelsInit ==
    /\ links = <<>>
    /\ queues = [p \in Ranks |-> [c \in Keys |-> None]]
    /\ writers = [p \in Ranks |-> [c \in Keys |-> None]]
    /\ serving = Ranks

Link == DOMAIN links
Peer(l, p) == IF links[l].client = p THEN links[l].server ELSE links[l].client
Installed(table, p, c, l) == table' = [table EXCEPT ![p][c] = l]

\* connect() opens a socket only for a key that has no writer.
NoWriter(p, c) == writers[p][c] = None

(* connect(), past the test of its key: the socket opens, HELLO is sent,   *)
(* the caller installs its queue and writer, a reader task starts.         *)
Dial(p, to, c) ==
    LET l == Len(links) + 1 IN
    /\ to \in serving /\ l <= MaxLinks
    /\ links' = Append(links,
            [client |-> p, server |-> to, key |-> c, up |-> TRUE, hello |-> FALSE,
             readers |-> {p}, inbox |-> [r \in Ranks |-> <<>>]])
    /\ Installed(queues, p, c, l) /\ Installed(writers, p, c, l)
    /\ UNCHANGED serving

\* open_connection raises.
Refused(to) == to \notin serving \/ Len(links) = MaxLinks

(* The server's handler reads HELLO and installs its queue and writer      *)
(* under the key, in the place of whatever was there.                      *)
Hello(l) ==
    LET p == links[l].server
        c == links[l].key
    IN  /\ links[l].up /\ ~links[l].hello /\ p \in serving
        /\ links' = [links EXCEPT ![l].hello = TRUE, ![l].readers = @ \cup {p}]
        /\ Installed(queues, p, c, l) /\ Installed(writers, p, c, l)
        /\ UNCHANGED serving

(* The connection breaks; what either end had not taken may be lost.       *)
Break(l) ==
    /\ links[l].up
    /\ \E lost \in SUBSET {links[l].client, links[l].server} :
        links' = [links EXCEPT ![l].up = FALSE, ![l].inbox =
                    [p \in Ranks |-> IF p \in lost THEN <<>> ELSE @[p]]]
    /\ UNCHANGED <<queues, writers, serving>>

(* An end's reader finds the connection closed and pops its key, whichever *)
(* link stands under it by then: the client end the writer, the server end *)
(* the queue too.                                                          *)
ReaderEnds(l, p) ==
    /\ ~links[l].up /\ p \in links[l].readers
    /\ links' = [links EXCEPT ![l].readers = @ \ {p}]
    /\ Installed(writers, p, links[l].key, None)
    /\ IF p = links[l].server THEN Installed(queues, p, links[l].key, None)
                              ELSE UNCHANGED queues
    /\ UNCHANGED serving

\* send() writes to the writer installed; a broken link loses the frame.  What
\* drain() does after that is in the coroutine that awaits it.
Sent(p, c, frame) ==
    LET l == writers[p][c] IN
    /\ links' = IF links[l].up
                THEN [links EXCEPT ![l].inbox[Peer(l, p)] = Append(@, frame)]
                ELSE links
    /\ UNCHANGED <<queues, writers, serving>>

\* recv() waits on the queue it found under the key, not on the key.
Frames(p, l) == IF l = None THEN <<>> ELSE links[l].inbox[p]
Received(p, l) ==
    /\ links' = [links EXCEPT ![l].inbox[p] = Tail(@)]
    /\ UNCHANGED <<queues, writers, serving>>

(* close(): the server stops, the sockets in the table close, both tables  *)
(* are emptied.                                                            *)
CloseTransport(p) ==
    LET closed == {writers[p][c] : c \in Keys} IN
    /\ serving' = serving \ {p}
    /\ links' = [l \in Link |-> IF l \in closed THEN [links[l] EXCEPT !.up = FALSE]
                                                ELSE links[l]]
    /\ queues' = [queues EXCEPT ![p] = [c \in Keys |-> None]]
    /\ writers' = [writers EXCEPT ![p] = [c \in Keys |-> None]]

\* No HELLO is under way, and no end of a closed link is still to notice.
Settled == \A l \in Link : IF links[l].up THEN links[l].hello ELSE links[l].readers = {}

=============================================================================
