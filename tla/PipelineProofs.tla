--------------------------- MODULE PipelineProofs ---------------------------
(***************************************************************************)
(* Safety of Pipeline for rings of any size, any number of requests, any   *)
(* load, bound on faults and bound on sockets: the tables are well-typed,  *)
(* a run that overlaps no other takes the answer of its own step, and an   *)
(* error has a cause.                                                      *)
(***************************************************************************)
EXTENDS Pipeline, SequenceTheorems, TLAPS

-----------------------------------------------------------------------------
(* The channels: a socket joins two neighbours in the ring, or the last    *)
(* rank and the first, under the key of that place; and what a table holds *)
(* is a socket of its key, at one of its ends.                             *)

Frame == Requests \X Nat
LoopPlaces == {"boot", "booting", "read", "wait", "push", "pushing", "blocked", "dead"}

Sockets == [client : Ranks, server : Ranks, key : Keys, up : BOOLEAN, hello : BOOLEAN,
            readers : SUBSET Ranks, inbox : [Ranks -> Seq(Frame)]]
Tables == [Ranks -> [Keys -> Nat \cup {None}]]

Fits(p, q, c) ==
    \/ c = Result /\ p = last /\ q = 0
    \/ \E k \in 0..(last - 1) : c = Edge(k) /\ (\/ p = k /\ q = k + 1
                                                \/ p = k + 1 /\ q = k)

\* Nothing is ever sent to rank 0 but results.
Joined(s) == Fits(s.client, s.server, s.key) /\ (s.key # Result => s.inbox[0] = <<>>)

Holds(l, p, c) ==
    l \in Link /\ links[l].key = c /\ (p = links[l].client \/ p = links[l].server)

Entries(table) == \A p \in Ranks, c \in Keys : table[p][c] # None => Holds(table[p][c], p, c)

ChannelsOK ==
    /\ last \in DOMAIN Load
    /\ links \in Seq(Sockets) /\ Len(links) <= MaxLinks
    /\ \A l \in Link : Joined(links[l])
    /\ queues \in Tables /\ writers \in Tables
    /\ Entries(queues) /\ Entries(writers)

\* A step keeps what names the sockets there are.
Kept ==
    /\ last' = last
    /\ \A l \in Link : /\ l \in Link' /\ links'[l].key = links[l].key
                       /\ links'[l].client = links[l].client
                       /\ links'[l].server = links[l].server

LEMMA RingConstants ==
    ASSUME last \in DOMAIN Load
    PROVE  /\ last \in Nat /\ last > 0 /\ 0 \in Ranks /\ last \in Ranks
           /\ \A k \in 0..last : k \in Ranks
           /\ \A k \in 0..(last - 1) : Edge(k) \in Keys /\ Edge(k) # Result
           /\ Result \in Keys
<1>1. last \in Nat /\ last > 0 /\ 0..last \subseteq Ranks
  BY PipelineAssumption
<1>2. \A k \in 0..(last - 1) : Edge(k) \in Keys
  BY PipelineAssumption
<1>3. \A k \in 0..(last - 1) : Edge(k) # Result
  BY DEF Edge, Result
<1>4. Result \in Keys
  BY PipelineAssumption
<1>. QED
  BY <1>1, <1>2, <1>3, <1>4

LEMMA LinkNames ==
    ASSUME ChannelsOK
    PROVE  /\ Link = 1..Len(links) /\ Len(links) \in Nat /\ None \notin Link
           /\ \A l \in Link : l \in Nat /\ links[l] \in Sockets
<1>1. Link = 1..Len(links) /\ Len(links) \in Nat /\ \A l \in Link : links[l] \in Sockets
  BY ElementOfSeq, LenProperties DEF ChannelsOK, Link
<1>2. None \notin Link
  BY <1>1, ChannelsAssumption DEF ChannelsOK
<1>. QED
  BY <1>1, <1>2

LEMMA EdgesDiffer == \A j, k \in Nat : Edge(j) = Edge(k) => j = k
  BY DEF Edge

(* A step that keeps the names of the sockets keeps what holds them.       *)
LEMMA HoldsKept ==
    ASSUME Kept, NEW l, NEW p, NEW c, Holds(l, p, c)
    PROVE  Holds(l, p, c)'
  BY DEF Kept, Holds

LEMMA FitsKept ==
    ASSUME last' = last, NEW p, NEW q, NEW c
    PROVE  Fits(p, q, c)' <=> Fits(p, q, c)
  BY DEF Fits

-----------------------------------------------------------------------------
(* What each operation of the transport does to the sockets and tables.    *)

\* connect() adds a socket, under its key in both tables of the caller.
Dialled(p, to, c, n) ==
    /\ Link' = Link \cup {n} /\ n \notin Link /\ n \in Nat /\ n = Len(links) + 1
    /\ \A l \in Link : links'[l] = links[l]
    /\ links'[n] = [client |-> p, server |-> to, key |-> c, up |-> TRUE, hello |-> FALSE,
                    readers |-> {p}, inbox |-> [r \in Ranks |-> <<>>]]
    /\ \A q \in Ranks, d \in Keys :
        /\ queues'[q][d] = IF q = p /\ d = c THEN n ELSE queues[q][d]
        /\ writers'[q][d] = IF q = p /\ d = c THEN n ELSE writers[q][d]
    /\ serving' = serving

LEMMA DialKeeps ==
    ASSUME ChannelsOK, last' = last, NEW p, NEW to, NEW c, Fits(p, to, c), Dial(p, to, c)
    PROVE  ChannelsOK' /\ Kept /\ \E n \in Nat : Dialled(p, to, c, n)
<1>. SUFFICES ASSUME NEW n \in Nat, n = Len(links) + 1
              PROVE  ChannelsOK' /\ Kept /\ \E m \in Nat : Dialled(p, to, c, m)
  BY LinkNames
<1>. DEFINE s == [client |-> p, server |-> to, key |-> c, up |-> TRUE, hello |-> FALSE,
                  readers |-> {p}, inbox |-> [r \in Ranks |-> <<>>]]
<1>1. p \in Ranks /\ to \in Ranks /\ c \in Keys
  <2>1. \A k \in 0..(last - 1) : k \in 0..last /\ k + 1 \in 0..last
    BY PipelineAssumption DEF ChannelsOK
  <2>. QED
    BY <2>1, RingConstants DEF Fits, ChannelsOK
<1>2. s \in Sockets
  <2>1. [r \in Ranks |-> <<>>] \in [Ranks -> Seq(Frame)]
    BY EmptySeq
  <2>. QED
    BY <1>1, <2>1 DEF Sockets
<1>3. s.client = p /\ s.server = to /\ s.key = c /\ \A r \in Ranks : s.inbox[r] = <<>>
  OBVIOUS
<1>4. 0 \in Ranks
  BY RingConstants DEF ChannelsOK
<1>5. Joined(s)
  BY <1>3, <1>4 DEF Joined
<1>. HIDE DEF s
<1>6. /\ n <= MaxLinks /\ links' = Append(links, s) /\ serving' = serving
      /\ queues' = [queues EXCEPT ![p][c] = n] /\ writers' = [writers EXCEPT ![p][c] = n]
  BY DEF Dial, Installed, s
<1>7. /\ links' \in Seq(Sockets) /\ Len(links') = Len(links) + 1
      /\ \A l \in 1..Len(links) : links'[l] = links[l]
      /\ links'[Len(links) + 1] = s
  BY <1>2, <1>6, AppendProperties DEF ChannelsOK
<1>8. Link' = 1..Len(links') /\ Link = 1..Len(links) /\ Len(links) \in Nat
  <2>1. DOMAIN links' = 1..Len(links')
    BY <1>7, LenProperties
  <2>. QED
    BY <2>1, LinkNames DEF Link
<1>9. /\ Link' = Link \cup {n} /\ n \notin Link /\ n \in Nat
      /\ \A l \in Link : links'[l] = links[l]
      /\ links'[n] = s
  BY <1>7, <1>8
<1>10. /\ queues' \in Tables /\ writers' \in Tables
       /\ \A q \in Ranks, d \in Keys :
            /\ queues'[q][d] = IF q = p /\ d = c THEN n ELSE queues[q][d]
            /\ writers'[q][d] = IF q = p /\ d = c THEN n ELSE writers[q][d]
  <2>1. queues \in Tables /\ writers \in Tables /\ n \in Nat \cup {None}
    BY DEF ChannelsOK
  <2>2. /\ queues' \in Tables
        /\ \A q \in Ranks, d \in Keys :
             queues'[q][d] = IF q = p /\ d = c THEN n ELSE queues[q][d]
    BY <1>6, <2>1 DEF Tables
  <2>3. /\ writers' \in Tables
        /\ \A q \in Ranks, d \in Keys :
             writers'[q][d] = IF q = p /\ d = c THEN n ELSE writers[q][d]
    BY <1>6, <2>1 DEF Tables
  <2>. QED
    BY <2>2, <2>3, Zenon
<1>11. \E m \in Nat : Dialled(p, to, c, m)
  <2>1. Dialled(p, to, c, n)
    BY <1>6, <1>9, <1>10 DEF Dialled, s
  <2>. QED
    BY <1>9, <2>1
<1>12. Kept
  BY <1>9 DEF Kept
<1>13. Holds(n, p, c)'
  BY <1>3, <1>9, <1>7 DEF Holds
<1>14. Entries(queues)'
  BY <1>10, <1>12, <1>13, HoldsKept DEF ChannelsOK, Entries
<1>15. Entries(writers)'
  BY <1>10, <1>12, <1>13, HoldsKept DEF ChannelsOK, Entries
<1>16. \A l \in Link' : Joined(links[l])'
  <2>. SUFFICES ASSUME NEW l \in Link' PROVE Joined(links[l])'
    OBVIOUS
  <2>1. CASE l \in Link
    BY <1>9, <2>1 DEF ChannelsOK, Joined, Fits
  <2>2. CASE l = n
    BY <1>5, <1>9, <2>2 DEF Joined, Fits
  <2>. QED
    BY <1>9, <2>1, <2>2
<1>17. Len(links') <= MaxLinks
  BY <1>6, <1>7
<1>. QED
  BY <1>7, <1>10, <1>11, <1>12, <1>14, <1>15, <1>16, <1>17 DEF ChannelsOK

\* The other operations change one socket, or some, and add none.
Updated(l, s) ==
    /\ links' \in Seq(Sockets) /\ Len(links') = Len(links) /\ Link' = Link
    /\ \A m \in Link : links'[m] = IF m = l THEN s ELSE links[m]

LEMMA SocketUpdated ==
    ASSUME ChannelsOK, NEW l \in Link, NEW s \in Sockets, links' = [links EXCEPT ![l] = s]
    PROVE  Updated(l, s)
<1>1. l \in 1..Len(links) /\ links \in Seq(Sockets) /\ Len(links) \in Nat /\ Link = 1..Len(links)
  BY LinkNames DEF ChannelsOK
<1>2. links' \in Seq(Sockets) /\ Len(links') = Len(links)
  BY <1>1, ExceptSeq
<1>3. \A m \in Link : links'[m] = IF m = l THEN s ELSE links[m]
  BY DEF Link
<1>4. Link' = Link
  BY DEF Link
<1>. QED
  BY <1>2, <1>3, <1>4 DEF Updated

LEMMA SocketFields ==
    ASSUME NEW s \in Sockets
    PROVE  /\ s.client \in Ranks /\ s.server \in Ranks /\ s.key \in Keys
           /\ s.up \in BOOLEAN /\ s.hello \in BOOLEAN /\ s.readers \in SUBSET Ranks
           /\ s.inbox \in [Ranks -> Seq(Frame)]
  BY DEF Sockets

\* The names stay, and so does what nobody sends to rank 0.
Steady ==
    /\ links' \in Seq(Sockets) /\ Len(links') = Len(links) /\ Link' = Link
    /\ \A l \in Link : /\ links'[l].key = links[l].key
                       /\ links'[l].client = links[l].client
                       /\ links'[l].server = links[l].server
                       /\ links[l].key # Result => links'[l].inbox[0] = <<>>

Moves(table, new) ==
    \A p \in Ranks, c \in Keys :
        new[p][c] = table[p][c] \/ new[p][c] = None \/ Holds(new[p][c], p, c)

LEMMA SteadyKeeps ==
    ASSUME ChannelsOK, last' = last, Steady, queues' \in Tables, writers' \in Tables,
           Moves(queues, queues'), Moves(writers, writers')
    PROVE  ChannelsOK' /\ Kept
<1>1. Kept
  BY DEF Steady, Kept
<1>2. Entries(queues)'
  BY <1>1, HoldsKept DEF Entries, Moves, ChannelsOK
<1>3. Entries(writers)'
  BY <1>1, HoldsKept DEF Entries, Moves, ChannelsOK
<1>4. \A l \in Link' : Joined(links[l])'
  BY <1>1, FitsKept DEF Steady, ChannelsOK, Joined, Fits
<1>. QED
  BY <1>1, <1>2, <1>3, <1>4 DEF ChannelsOK, Steady

-----------------------------------------------------------------------------
\* HELLO arrives: the server installs the socket under its key.
Greeted(l) ==
    /\ Link' = Link /\ l \in Link /\ links[l].up /\ ~links[l].hello
    /\ \A m \in Link : /\ links'[m].up = links[m].up /\ links'[m].inbox = links[m].inbox
                       /\ (links'[m].hello <=> links[m].hello \/ m = l)
    /\ \A q \in Ranks, d \in Keys :
        LET here == q = links[l].server /\ d = links[l].key IN
        /\ queues'[q][d] = IF here THEN l ELSE queues[q][d]
        /\ writers'[q][d] = IF here THEN l ELSE writers[q][d]
    /\ serving' = serving

LEMMA HelloKeeps ==
    ASSUME ChannelsOK, last' = last, NEW l \in Link, Hello(l)
    PROVE  ChannelsOK' /\ Kept /\ Greeted(l)
<1>. DEFINE p == links[l].server
            c == links[l].key
            s == [links[l] EXCEPT !.hello = TRUE, !.readers = @ \cup {p}]
<1>1. links[l] \in Sockets /\ l \in Nat
  BY LinkNames
<1>2. p \in Ranks /\ c \in Keys /\ links[l].readers \in SUBSET Ranks
  BY <1>1, SocketFields
<1>3. /\ s \in Sockets /\ s.client = links[l].client /\ s.server = p /\ s.key = c
      /\ s.up = links[l].up /\ s.hello = TRUE /\ s.inbox = links[l].inbox
  BY <1>1, <1>2 DEF Sockets
<1>4. /\ links' = [links EXCEPT ![l] = s] /\ serving' = serving
      /\ queues' = [queues EXCEPT ![p][c] = l] /\ writers' = [writers EXCEPT ![p][c] = l]
      /\ links[l].up /\ ~links[l].hello
  BY DEF Hello, Installed
<1>. HIDE DEF s
<1>5. Updated(l, s)
  BY <1>3, <1>4, SocketUpdated
<1>6. /\ queues' \in Tables
      /\ \A q \in Ranks, d \in Keys :
           queues'[q][d] = IF q = p /\ d = c THEN l ELSE queues[q][d]
  BY <1>1, <1>4 DEF Tables, ChannelsOK
<1>7. /\ writers' \in Tables
      /\ \A q \in Ranks, d \in Keys :
           writers'[q][d] = IF q = p /\ d = c THEN l ELSE writers[q][d]
  BY <1>1, <1>4 DEF Tables, ChannelsOK
<1>8. Holds(l, p, c)
  BY DEF Holds
<1>9. Moves(queues, queues') /\ Moves(writers, writers')
  BY <1>6, <1>7, <1>8 DEF Moves
<1>10. Steady
  BY <1>3, <1>5 DEF Updated, Steady, ChannelsOK, Joined
<1>11. \A m \in Link : links[m].hello \in BOOLEAN /\ links[m].up \in BOOLEAN
  BY LinkNames, SocketFields
<1>12. Greeted(l)
  <2>1. \A m \in Link : /\ links'[m].up = links[m].up /\ links'[m].inbox = links[m].inbox
                        /\ (links'[m].hello <=> links[m].hello \/ m = l)
    BY <1>3, <1>4, <1>5, <1>11 DEF Updated
  <2>. QED
    BY <2>1, <1>4, <1>5, <1>6, <1>7 DEF Greeted, Updated
<1>. QED
  BY <1>6, <1>7, <1>9, <1>10, <1>12, SteadyKeeps

\* The connection breaks: what is lost is lost as a whole.
Broken(l) ==
    /\ Link' = Link /\ l \in Link
    /\ \A m \in Link : /\ (links'[m].up <=> links[m].up /\ m # l)
                       /\ links'[m].hello = links[m].hello
                       /\ \A q \in Ranks : links'[m].inbox[q] \in {links[m].inbox[q], <<>>}
    /\ queues' = queues /\ writers' = writers /\ serving' = serving

LEMMA BreakKeeps ==
    ASSUME ChannelsOK, last' = last, NEW l \in Link, Break(l)
    PROVE  ChannelsOK' /\ Kept /\ Broken(l)
<1>1. links[l] \in Sockets
  BY LinkNames
<1>2. PICK lost : links' = [links EXCEPT ![l].up = FALSE, ![l].inbox =
                              [p \in Ranks |-> IF p \in lost THEN <<>> ELSE @[p]]]
  BY DEF Break
<1>. DEFINE box == [p \in Ranks |-> IF p \in lost THEN <<>> ELSE links[l].inbox[p]]
            s == [links[l] EXCEPT !.up = FALSE, !.inbox = box]
<1>3. links' = [links EXCEPT ![l] = s]
  BY <1>1, <1>2 DEF Sockets
<1>4. /\ box \in [Ranks -> Seq(Frame)]
      /\ \A q \in Ranks : box[q] \in {links[l].inbox[q], <<>>}
  <2>1. links[l].inbox \in [Ranks -> Seq(Frame)] /\ <<>> \in Seq(Frame)
    BY <1>1, SocketFields, EmptySeq
  <2>. QED
    BY <2>1
<1>. HIDE DEF box
<1>5. /\ s \in Sockets /\ s.client = links[l].client /\ s.server = links[l].server
      /\ s.key = links[l].key /\ s.up = FALSE /\ s.hello = links[l].hello /\ s.inbox = box
  BY <1>1, <1>4 DEF Sockets
<1>. HIDE DEF s
<1>6. Updated(l, s)
  BY <1>3, <1>5, SocketUpdated
<1>7. /\ queues' = queues /\ writers' = writers /\ serving' = serving
      /\ queues' \in Tables /\ writers' \in Tables
  BY DEF Break, ChannelsOK
<1>8. Moves(queues, queues') /\ Moves(writers, writers')
  BY <1>7 DEF Moves
<1>9. 0 \in Ranks /\ \A m \in Link : links[m].key # Result => links[m].inbox[0] = <<>>
  BY RingConstants DEF ChannelsOK, Joined
<1>10. Steady
  BY <1>4, <1>5, <1>6, <1>9 DEF Updated, Steady
<1>11. \A m \in Link : links[m].up \in BOOLEAN
  BY LinkNames, SocketFields
<1>12. \A m \in Link : /\ (links'[m].up <=> links[m].up /\ m # l)
                       /\ links'[m].hello = links[m].hello
                       /\ \A q \in Ranks : links'[m].inbox[q] \in {links[m].inbox[q], <<>>}
  BY <1>4, <1>5, <1>6, <1>11 DEF Updated
<1>13. Broken(l)
  BY <1>6, <1>7, <1>12 DEF Broken, Updated
<1>. QED
  BY <1>7, <1>8, <1>10, <1>13, SteadyKeeps

\* A reader ends: entries of the tables go.
Ended(l) ==
    /\ Link' = Link /\ l \in Link /\ ~links[l].up
    /\ \A m \in Link : /\ (links'[m].up <=> links[m].up) /\ links'[m].inbox = links[m].inbox
                       /\ (links'[m].hello <=> links[m].hello)
    /\ \A q \in Ranks, d \in Keys : queues'[q][d] \in {queues[q][d], None}
    /\ serving' = serving

LEMMA ReaderEndsKeeps ==
    ASSUME ChannelsOK, last' = last, NEW l \in Link, NEW p \in Ranks, ReaderEnds(l, p)
    PROVE  ChannelsOK' /\ Kept /\ Ended(l)
<1>. DEFINE s == [links[l] EXCEPT !.readers = @ \ {p}]
            c == links[l].key
<1>1. links[l] \in Sockets
  BY LinkNames
<1>2. links[l].readers \in SUBSET Ranks /\ c \in Keys
  BY <1>1, SocketFields
<1>3. /\ s \in Sockets /\ s.client = links[l].client /\ s.server = links[l].server
      /\ s.key = c /\ s.up = links[l].up /\ s.hello = links[l].hello
      /\ s.inbox = links[l].inbox
  BY <1>1, <1>2 DEF Sockets
<1>4. /\ links' = [links EXCEPT ![l] = s] /\ serving' = serving /\ ~links[l].up
      /\ writers' = [writers EXCEPT ![p][c] = None]
      /\ queues' = [queues EXCEPT ![p][c] = None] \/ queues' = queues
  BY DEF ReaderEnds, Installed
<1>. HIDE DEF s, c
<1>5. Updated(l, s)
  BY <1>3, <1>4, SocketUpdated
<1>6. /\ queues' \in Tables
      /\ \A q \in Ranks, d \in Keys : queues'[q][d] \in {queues[q][d], None}
  <2>1. CASE queues' = queues
    BY <2>1 DEF ChannelsOK
  <2>2. CASE queues' = [queues EXCEPT ![p][c] = None]
    BY <2>2 DEF Tables, ChannelsOK
  <2>. QED
    BY <1>4, <2>1, <2>2
<1>7. /\ writers' \in Tables
      /\ \A q \in Ranks, d \in Keys : writers'[q][d] \in {writers[q][d], None}
  BY <1>4 DEF Tables, ChannelsOK
<1>8. Moves(queues, queues') /\ Moves(writers, writers')
  BY <1>6, <1>7 DEF Moves
<1>9. Steady
  BY <1>3, <1>5 DEF Updated, Steady, ChannelsOK, Joined, c
<1>10. \A m \in Link : /\ (links'[m].up <=> links[m].up) /\ links'[m].inbox = links[m].inbox
                       /\ (links'[m].hello <=> links[m].hello)
  BY <1>3, <1>5 DEF Updated
<1>11. Ended(l)
  BY <1>4, <1>5, <1>6, <1>10 DEF Ended, Updated
<1>. QED
  BY <1>6, <1>7, <1>8, <1>9, <1>11, SteadyKeeps

\* What changes in the inboxes only.
Posted(l, q, box) ==
    /\ Link' = Link /\ l \in Link
    /\ \A m \in Link : /\ (links'[m].up <=> links[m].up) /\ (links'[m].hello <=> links[m].hello)
                       /\ \A r \in Ranks : links'[m].inbox[r] =
                              IF m = l /\ r = q THEN box ELSE links[m].inbox[r]
    /\ queues' = queues /\ writers' = writers /\ serving' = serving

LEMMA PostKeeps ==
    ASSUME ChannelsOK, last' = last, NEW l \in Link, NEW q \in Ranks, NEW box \in Seq(Frame),
           links[l].key = Result \/ q # 0 \/ box = <<>>,
           links' = [links EXCEPT ![l].inbox[q] = box],
           UNCHANGED <<queues, writers, serving>>
    PROVE  ChannelsOK' /\ Kept /\ Posted(l, q, box)
<1>1. links[l] \in Sockets
  BY LinkNames
<1>2. links[l].inbox \in [Ranks -> Seq(Frame)]
  BY <1>1, SocketFields
<1>. DEFINE all == [links[l].inbox EXCEPT ![q] = box]
            s == [links[l] EXCEPT !.inbox = all]
<1>3. links' = [links EXCEPT ![l] = s]
  OBVIOUS
<1>4. /\ all \in [Ranks -> Seq(Frame)]
      /\ \A r \in Ranks : all[r] = IF r = q THEN box ELSE links[l].inbox[r]
  BY <1>2
<1>. HIDE DEF all
<1>5. /\ s \in Sockets /\ s.client = links[l].client /\ s.server = links[l].server
      /\ s.key = links[l].key /\ s.up = links[l].up /\ s.hello = links[l].hello
      /\ s.inbox = all
  BY <1>1, <1>4 DEF Sockets
<1>. HIDE DEF s
<1>6. Updated(l, s)
  BY <1>3, <1>5, SocketUpdated
<1>7. queues' \in Tables /\ writers' \in Tables
  BY DEF ChannelsOK
<1>8. Moves(queues, queues') /\ Moves(writers, writers')
  BY DEF Moves
<1>9. 0 \in Ranks /\ \A m \in Link : links[m].key # Result => links[m].inbox[0] = <<>>
  BY RingConstants DEF ChannelsOK, Joined
<1>10. Steady
  BY <1>4, <1>5, <1>6, <1>9 DEF Updated, Steady
<1>11. \A m \in Link : /\ (links'[m].up <=> links[m].up) /\ (links'[m].hello <=> links[m].hello)
                       /\ \A r \in Ranks : links'[m].inbox[r] =
                              IF m = l /\ r = q THEN box ELSE links[m].inbox[r]
  <2>. TAKE m \in Link
  <2>1. CASE m # l
    <3>1. links'[m] = links[m]
      BY <1>6, <2>1 DEF Updated
    <3>. QED
      BY <2>1, <3>1
  <2>2. CASE m = l
    <3>1. links'[m] = s
      BY <1>6, <2>2 DEF Updated
    <3>. QED
      BY <1>4, <1>5, <2>2, <3>1
  <2>. QED
    BY <2>1, <2>2
<1>12. Posted(l, q, box)
  BY <1>6, <1>11 DEF Posted, Updated
<1>. QED
  BY <1>7, <1>8, <1>10, <1>12, SteadyKeeps

LEMMA ReceivedKeeps ==
    ASSUME ChannelsOK, last' = last, NEW l \in Link, NEW p \in Ranks,
           Frames(p, l) # <<>>, Received(p, l)
    PROVE  ChannelsOK' /\ Kept /\ Posted(l, p, Tail(links[l].inbox[p]))
<1>1. /\ links[l].inbox[p] \in Seq(Frame) /\ links[l].inbox[p] # <<>>
      /\ links[l].key # Result => links[l].inbox[0] = <<>>
  BY LinkNames, SocketFields DEF ChannelsOK, Joined, Frames
<1>2. Tail(links[l].inbox[p]) \in Seq(Frame)
  BY <1>1, HeadTailProperties
<1>3. links' = [links EXCEPT ![l].inbox[p] = Tail(links[l].inbox[p])]
  BY LinkNames DEF Received, Sockets, ChannelsOK
<1>. QED
  BY <1>1, <1>2, <1>3, PostKeeps DEF Received

LEMMA EndsByKey ==
    ASSUME ChannelsOK, NEW l \in Link
    PROVE  /\ links[l].key = Result => links[l].client = last /\ links[l].server = 0
           /\ \A k \in 0..(last - 1) : links[l].key = Edge(k) =>
                \/ links[l].client = k /\ links[l].server = k + 1
                \/ links[l].client = k + 1 /\ links[l].server = k
           /\ links[l].key = Result \/ \E k \in 0..(last - 1) : links[l].key = Edge(k)
<1>1. /\ Fits(links[l].client, links[l].server, links[l].key)
      /\ last \in Nat /\ \A k \in 0..(last - 1) : Edge(k) # Result /\ k \in Nat
  BY RingConstants DEF ChannelsOK, Joined
<1>. QED
  BY <1>1, EdgesDiffer DEF Fits

LEMMA OutKeyFits ==
    ASSUME last \in DOMAIN Load, NEW k \in 0..last
    PROVE  /\ k \in Ranks /\ OutPeer(k) \in Ranks /\ OutKey(k) \in Keys
           /\ Fits(k, OutPeer(k), OutKey(k)) /\ (OutKey(k) = Result \/ OutPeer(k) # 0)
<1>1. last \in Nat /\ last > 0
  BY RingConstants
<1>2. CASE k = last
  <2>1. OutPeer(k) = 0 /\ OutKey(k) = Result
    BY <1>2 DEF OutPeer, OutKey
  <2>. QED
    BY <1>1, <1>2, <2>1, RingConstants DEF Fits
<1>3. CASE k # last
  <2>1. k \in 0..(last - 1) /\ OutPeer(k) = k + 1 /\ OutKey(k) = Edge(k) /\ k + 1 \in 0..last
    BY <1>1, <1>3 DEF OutPeer, OutKey
  <2>2. k \in Ranks /\ k + 1 \in Ranks /\ Edge(k) \in Keys
    BY <2>1, RingConstants
  <2>3. Fits(k, k + 1, Edge(k))
    BY <2>1 DEF Fits
  <2>. QED
    BY <2>1, <2>2, <2>3
<1>. QED
  BY <1>2, <1>3

LEMMA InKeyFits ==
    ASSUME last \in DOMAIN Load, NEW k \in Loops
    PROVE  /\ k \in Ranks /\ k - 1 \in Ranks /\ InKey(k) \in Keys /\ InKey(k) # Result
           /\ Fits(k, k - 1, InKey(k))
<1>1. last \in Nat /\ last > 0
  BY RingConstants
<1>2. k - 1 \in 0..(last - 1) /\ k \in 0..last /\ k - 1 \in 0..last /\ k = (k - 1) + 1
  BY <1>1 DEF Loops
<1>3. Fits(k, k - 1, Edge(k - 1))
  BY <1>2 DEF Fits
<1>. QED
  BY <1>2, <1>3, RingConstants DEF InKey

LEMMA SentKeeps ==
    ASSUME ChannelsOK, last' = last, NEW k \in 0..last, NEW frame \in Frame,
           ~NoWriter(k, OutKey(k)), Sent(k, OutKey(k), frame)
    PROVE  LET l == writers[k][OutKey(k)] IN
           /\ ChannelsOK' /\ Kept /\ Holds(l, k, OutKey(k))
           /\ IF links[l].up
              THEN Posted(l, OutPeer(k), Append(links[l].inbox[OutPeer(k)], frame))
              ELSE UNCHANGED channels
<1>. DEFINE l == writers[k][OutKey(k)]
<1>1. last \in DOMAIN Load
  BY DEF ChannelsOK
<1>2. k \in Ranks /\ OutPeer(k) \in Ranks /\ OutKey(k) \in Keys /\ (OutKey(k) = Result \/ OutPeer(k) # 0)
  BY <1>1, OutKeyFits
<1>3. Holds(l, k, OutKey(k))
  BY <1>2 DEF NoWriter, ChannelsOK, Entries
<1>4. l \in Link /\ links[l].key = OutKey(k)
  BY <1>3 DEF Holds
<1>5. Peer(l, k) = OutPeer(k)
  <2>1. last \in Nat /\ last > 0
    BY <1>1, RingConstants
  <2>2. CASE k = last
    <3>1. links[l].key = Result /\ OutPeer(k) = 0
      BY <1>4, <2>2 DEF OutKey, OutPeer
    <3>2. links[l].client = last /\ links[l].server = 0
      BY <1>4, <3>1, EndsByKey
    <3>. QED
      BY <2>2, <3>1, <3>2 DEF Peer
  <2>3. CASE k # last
    <3>1. k \in 0..(last - 1) /\ links[l].key = Edge(k) /\ OutPeer(k) = k + 1
      BY <1>4, <2>1, <2>3 DEF OutKey, OutPeer
    <3>2. \/ links[l].client = k /\ links[l].server = k + 1
          \/ links[l].client = k + 1 /\ links[l].server = k
      BY <1>4, <3>1, EndsByKey
    <3>. QED
      BY <2>1, <3>1, <3>2 DEF Peer
  <2>. QED
    BY <2>2, <2>3
<1>6. UNCHANGED <<queues, writers, serving>>
  BY DEF Sent
<1>7. CASE links[l].up
  <2>1. links[l].inbox[OutPeer(k)] \in Seq(Frame)
    BY <1>2, <1>4, LinkNames, SocketFields
  <2>2. Append(links[l].inbox[OutPeer(k)], frame) \in Seq(Frame)
    BY <2>1, AppendProperties
  <2>3. links' = [links EXCEPT ![l].inbox[OutPeer(k)] = Append(links[l].inbox[OutPeer(k)], frame)]
    <3>1. links' = [links EXCEPT ![l].inbox[Peer(l, k)] = Append(@, frame)]
      BY <1>7 DEF Sent
    <3>2. links[l].inbox \in [Ranks -> Seq(Frame)] /\ links[l] \in Sockets
      BY <1>4, LinkNames, SocketFields
    <3>. QED
      BY <1>4, <1>5, <3>1, <3>2 DEF Sockets, Link
  <2>. HIDE DEF l
  <2>4. ChannelsOK' /\ Kept /\ Posted(l, OutPeer(k), Append(links[l].inbox[OutPeer(k)], frame))
    BY <1>2, <1>4, <1>6, <2>2, <2>3, PostKeeps
  <2>. QED
    BY <1>3, <1>7, <2>4 DEF l
<1>8. CASE ~links[l].up
  <2>1. links' = links
    BY <1>8 DEF Sent
  <2>2. ChannelsOK' /\ Kept
    BY <1>6, <2>1 DEF ChannelsOK, Entries, Holds, Joined, Fits, Kept, Link
  <2>. QED
    BY <1>3, <1>6, <1>8, <2>1, <2>2 DEF channels
<1>. QED
  BY <1>7, <1>8

\* A transport closes: its sockets break, its tables are emptied.
Closed(p) ==
    /\ Link' = Link
    /\ \A m \in Link : /\ (links'[m].up => links[m].up) /\ links'[m].inbox = links[m].inbox
                       /\ (links'[m].hello <=> links[m].hello)
    /\ \A q \in Ranks, d \in Keys : queues'[q][d] \in {queues[q][d], None}

LEMMA CloseKeeps ==
    ASSUME ChannelsOK, last' = last, NEW p \in Ranks, CloseTransport(p)
    PROVE  ChannelsOK' /\ Kept /\ Closed(p)
<1>. DEFINE closed == {writers[p][c] : c \in Keys}
            down(l) == [links[l] EXCEPT !.up = FALSE]
<1>1. /\ links' = [l \in Link |-> IF l \in closed THEN down(l) ELSE links[l]]
      /\ queues' = [queues EXCEPT ![p] = [c \in Keys |-> None]]
      /\ writers' = [writers EXCEPT ![p] = [c \in Keys |-> None]]
  BY DEF CloseTransport
<1>2. \A l \in Link : links[l] \in Sockets
  BY LinkNames
<1>3. \A l \in Link : /\ down(l) \in Sockets /\ down(l).client = links[l].client
                      /\ down(l).server = links[l].server /\ down(l).key = links[l].key
                      /\ down(l).hello = links[l].hello /\ down(l).inbox = links[l].inbox
                      /\ ~down(l).up
  BY <1>2 DEF Sockets
<1>. HIDE DEF closed, down
<1>4. \A l \in Link : links'[l] \in Sockets /\ links'[l] \in {down(l), links[l]}
  BY <1>1, <1>2, <1>3
<1>5. links' \in Seq(Sockets) /\ Len(links') = Len(links) /\ Link' = Link
  <2>1. Link = 1..Len(links) /\ Len(links) \in Nat
    BY LinkNames
  <2>2. DOMAIN links' = 1..Len(links)
    BY <1>1, <2>1
  <2>3. links' \in [1..Len(links) -> Sockets]
    BY <1>1, <1>4, <2>1
  <2>4. links' \in Seq(Sockets)
    BY <2>1, <2>3, SeqDef
  <2>5. Len(links') \in Nat /\ DOMAIN links' = 1..Len(links')
    BY <2>4, LenProperties
  <2>6. Len(links') = Len(links)
    BY <2>1, <2>2, <2>5
  <2>. QED
    BY <2>2, <2>4, <2>6, <2>1 DEF Link
<1>6. /\ queues' \in Tables
      /\ \A q \in Ranks, d \in Keys : queues'[q][d] \in {queues[q][d], None}
  BY <1>1 DEF Tables, ChannelsOK
<1>7. /\ writers' \in Tables
      /\ \A q \in Ranks, d \in Keys : writers'[q][d] \in {writers[q][d], None}
  BY <1>1 DEF Tables, ChannelsOK
<1>8. Moves(queues, queues') /\ Moves(writers, writers')
  BY <1>6, <1>7 DEF Moves
<1>9. \A m \in Link : links[m].key # Result => links[m].inbox[0] = <<>>
  BY DEF ChannelsOK, Joined
<1>10. Steady
  BY <1>3, <1>4, <1>5, <1>9 DEF Steady
<1>11. Closed(p)
  BY <1>3, <1>4, <1>5, <1>6 DEF Closed
<1>. QED
  BY <1>6, <1>7, <1>8, <1>10, <1>11, SteadyKeeps

LEMMA StillKeeps ==
    ASSUME ChannelsOK, last' = last, UNCHANGED channels
    PROVE  ChannelsOK' /\ Kept
  BY DEF ChannelsOK, Entries, Holds, Joined, Fits, Kept, Link, channels

-----------------------------------------------------------------------------
(* The coroutines.                                                         *)

RunStates == [pc : Places, hop : 0..1, step : 0..Tokens, on : Nat \cup {None}, cur : {None}]
LoopStates == [pc : LoopPlaces, on : Nat \cup {None}, cur : Frame \cup {None}]
EngineStates == {"idle", "waiting", "done", "error"}

Quiet(pc) == pc \in {"idle", "done", "error"}
Reading(pc) == pc \in {"read", "wait"}
Owed(pc) == pc \in {"blocked", "read", "wait"}
Carrying(pc) == pc \in {"push", "pushing"}

AnswerKey == IF last = 1 THEN Result ELSE Edge(0)

RunOK(r) ==
    LET s == run[r] IN
    /\ Quiet(s.pc) => s.hop = 0 /\ s.step = 0
    /\ ~Quiet(s.pc) => s.step < Tokens
    /\ s.pc \in {"prefill", "send", "dialing", "blocked"} => s.hop = 0
    /\ s.pc \in {"tap", "tapping"} => s.hop = 1 /\ last > 1
    /\ Reading(s.pc) => s.hop = 1
    /\ s.pc = "wait" => Holds(s.on, 0, AnswerKey)
    /\ s.pc = "blocked" => Holds(s.on, 0, Edge(0))
    /\ s.pc \notin {"wait", "blocked"} => s.on = None

LoopOK(k) ==
    LET s == loop[k] IN
    /\ Carrying(s.pc) => s.cur \in Frame
    /\ s.pc = "wait" => Holds(s.on, k, InKey(k))
    /\ s.pc = "blocked" => Holds(s.on, k, OutKey(k))
    /\ s.pc \notin {"wait", "blocked"} => s.on = None

RunsOK ==
    /\ engine \in [Requests -> EngineStates]
    /\ run \in [Requests -> RunStates]
    /\ \A r \in Requests : RunOK(r) /\ (engine[r] = "idle" => run[r].pc = "idle")

LoopsOK == loop \in [Loops -> LoopStates] /\ \A k \in Loops : LoopOK(k)

Sound == ChannelsOK /\ RunsOK /\ LoopsOK /\ faults \in 0..MaxFaults[last]

\* A run, or a loop, takes a step, and the others do not.
RunBecomes(r, t) ==
    /\ run' \in [Requests -> RunStates] /\ run'[r] = t
    /\ \A q \in Requests \ {r} : run'[q] = run[q]
LoopBecomes(k, t) ==
    /\ loop' \in [Loops -> LoopStates] /\ loop'[k] = t
    /\ \A j \in Loops \ {k} : loop'[j] = loop[j]

LEMMA RunFields ==
    ASSUME NEW t \in RunStates
    PROVE  /\ t.pc \in Places /\ t.hop \in 0..1 /\ t.step \in 0..Tokens
           /\ t.on \in Nat \cup {None} /\ t.cur = None
           /\ DOMAIN t = {"pc", "hop", "step", "on", "cur"}
  BY DEF RunStates

LEMMA LoopFields ==
    ASSUME NEW t \in LoopStates
    PROVE  /\ t.pc \in LoopPlaces /\ t.on \in Nat \cup {None} /\ t.cur \in Frame \cup {None}
           /\ DOMAIN t = {"pc", "on", "cur"}
  BY DEF LoopStates

\* Some fields of a run, or of a loop, are assigned.
LEMMA RunAssigned ==
    ASSUME NEW t \in RunStates
    PROVE  /\ \A a : With(t, [pc |-> a])
                = [pc |-> a, hop |-> t.hop, step |-> t.step, on |-> t.on, cur |-> t.cur]
           /\ \A a, o : With(t, [pc |-> a, on |-> o])
                = [pc |-> a, hop |-> t.hop, step |-> t.step, on |-> o, cur |-> t.cur]
           /\ \A a, h, o : With(t, [hop |-> h, on |-> o, pc |-> a])
                = [pc |-> a, hop |-> h, step |-> t.step, on |-> o, cur |-> t.cur]
           /\ \A a, h, s, o : With(t, [pc |-> a, step |-> s, hop |-> h, on |-> o])
                = [pc |-> a, hop |-> h, step |-> s, on |-> o, cur |-> t.cur]
           /\ \A a : With(t, [pc |-> a, hop |-> 0, step |-> 0, on |-> None, cur |-> None])
                = [pc |-> a, hop |-> 0, step |-> 0, on |-> None, cur |-> None]
  BY RunFields DEF With

LEMMA LoopAssigned ==
    ASSUME NEW t \in LoopStates
    PROVE  /\ \A a : With(t, [pc |-> a]) = [pc |-> a, on |-> t.on, cur |-> t.cur]
           /\ \A a, o : With(t, [pc |-> a, on |-> o]) = [pc |-> a, on |-> o, cur |-> t.cur]
           /\ \A a, o, f : With(t, [pc |-> a, on |-> o, cur |-> f])
                = [pc |-> a, on |-> o, cur |-> f]
           /\ \A a, f : With(t, [pc |-> a, cur |-> f]) = [pc |-> a, on |-> t.on, cur |-> f]
  BY LoopFields DEF With

LEMMA RunGoes ==
    ASSUME run \in [Requests -> RunStates], NEW r \in Requests, NEW s, NEW t \in RunStates,
           With(run[r], s) = t, RootGoes(r, s)
    PROVE  RunBecomes(r, t)
  BY DEF RootGoes, RunBecomes

LEMMA LoopMoves ==
    ASSUME loop \in [Loops -> LoopStates], NEW k \in Loops, NEW s, NEW t \in LoopStates,
           With(loop[k], s) = t, LoopGoes(k, s)
    PROVE  LoopBecomes(k, t)
  BY DEF LoopGoes, LoopBecomes

LEMMA RunKept ==
    ASSUME Kept, NEW r \in Requests, RunOK(r), run'[r] = run[r]
    PROVE  RunOK(r)'
<1>1. last' = last /\ AnswerKey' = AnswerKey
  BY DEF Kept, AnswerKey
<1>2. run[r].pc = "wait" => Holds(run[r].on, 0, AnswerKey)'
  BY <1>1, HoldsKept DEF RunOK
<1>3. run[r].pc = "blocked" => Holds(run[r].on, 0, Edge(0))'
  BY HoldsKept DEF RunOK, Edge
<1>. QED
  BY <1>1, <1>2, <1>3 DEF RunOK, Holds, Link, Edge

LEMMA LoopKept ==
    ASSUME Kept, NEW k, LoopOK(k), loop'[k] = loop[k]
    PROVE  LoopOK(k)'
<1>1. InKey(k)' = InKey(k) /\ OutKey(k)' = OutKey(k)
  BY DEF Kept, InKey, OutKey, Edge, Result
<1>2. loop[k].pc = "wait" => Holds(loop[k].on, k, InKey(k))'
  BY <1>1 DEF LoopOK, Holds, Kept
<1>3. loop[k].pc = "blocked" => Holds(loop[k].on, k, OutKey(k))'
  BY <1>1 DEF LoopOK, Holds, Kept
<1>. QED
  BY <1>1, <1>2, <1>3 DEF LoopOK, Holds, Link

LEMMA RunsKept ==
    ASSUME RunsOK, Kept, engine' = engine, run' = run
    PROVE  RunsOK'
  BY RunKept DEF RunsOK

LEMMA LoopsKept ==
    ASSUME LoopsOK, Kept, loop' = loop
    PROVE  LoopsOK'
<1>1. Loops' = Loops
  BY DEF Kept, Loops
<1>. QED
  BY <1>1, LoopKept DEF LoopsOK

LEMMA OneRunMoves ==
    ASSUME RunsOK, Kept, engine' = engine, NEW r \in Requests, NEW t, RunBecomes(r, t),
           run[r].pc # "idle", RunOK(r)'
    PROVE  RunsOK'
<1>1. \A q \in Requests : RunOK(q)'
  BY RunKept DEF RunsOK, RunBecomes
<1>2. \A q \in Requests : engine'[q] = "idle" => run'[q].pc = "idle"
  BY DEF RunsOK, RunBecomes
<1>. QED
  BY <1>1, <1>2 DEF RunsOK, RunBecomes

LEMMA OneLoopMoves ==
    ASSUME LoopsOK, Kept, NEW k \in Loops, NEW t, LoopBecomes(k, t), LoopOK(k)'
    PROVE  LoopsOK'
<1>1. Loops' = Loops
  BY DEF Kept, Loops
<1>2. \A j \in Loops : LoopOK(j)'
  BY LoopKept DEF LoopsOK, LoopBecomes
<1>. QED
  BY <1>1, <1>2 DEF LoopsOK, LoopBecomes

-----------------------------------------------------------------------------
(* The steps keep the types, and what each of them does.                   *)

Others(r) == \A q \in Requests : q # r => run'[q] = run[q]


LEMMA AtRoot ==
    ASSUME Sound, NEW r \in Requests
    PROVE  /\ last \in Nat /\ last > 0 /\ 0 \in 0..last /\ OutKey(0) = Edge(0) /\ OutPeer(0) = 1
           /\ 0 \in Ranks /\ 1 \in Ranks
           /\ run[r] \in RunStates /\ RunOK(r)
           /\ run[r].pc \in {"send", "dialing", "tap", "tapping"}
                => RootKey(r) = Edge(0) /\ RootPeer(r) = 1
           /\ Reading(run[r].pc) => ReadKey(r) = AnswerKey
<1>1. last \in Nat /\ last > 0 /\ 0 \in Ranks /\ 0 \in 0..last /\ 1 \in Ranks
  BY RingConstants DEF Sound, ChannelsOK
<1>2. OutKey(0) = Edge(0) /\ OutPeer(0) = 1
  BY <1>1 DEF OutKey, OutPeer
<1>3. run[r] \in RunStates /\ RunOK(r)
  BY DEF Sound, RunsOK
<1>4. run[r].pc \in Places /\ run[r].hop \in 0..1
  BY <1>3, RunFields
<1>5. run[r].pc \in {"send", "dialing", "tap", "tapping"}
        => RootKey(r) = Edge(0) /\ RootPeer(r) = 1
  BY <1>3, <1>4 DEF RunOK, RootKey, RootPeer
<1>6. Reading(run[r].pc) => ReadKey(r) = AnswerKey
  BY <1>1, <1>3 DEF RunOK, ReadKey, AnswerKey, Reading
<1>. QED
  BY <1>1, <1>2, <1>3, <1>5, <1>6

LEMMA Submits ==
    ASSUME Sound, NEW r \in Requests, Submit(r)
    PROVE  /\ Sound' /\ Kept /\ UNCHANGED channels
           /\ run[r].pc = "idle" /\ run'[r].pc = "prefill" /\ Others(r)
<1>. DEFINE t == [pc |-> "prefill", hop |-> run[r].hop, step |-> run[r].step,
                  on |-> run[r].on, cur |-> run[r].cur]
<1>1. run[r] \in RunStates /\ RunOK(r) /\ run[r].pc = "idle" /\ engine[r] = "idle"
  BY DEF Submit, Sound, RunsOK
<1>2. /\ run[r].hop = 0 /\ run[r].step = 0 /\ run[r].on = None
      /\ t \in RunStates /\ With(run[r], [pc |-> "prefill"]) = t
  BY <1>1, RunFields, RunAssigned DEF RunOK, Quiet, RunStates, Places
<1>3. RunBecomes(r, t)
  BY <1>2, RunGoes DEF Submit, Sound, RunsOK
<1>4. t.pc = "prefill" /\ t.hop = 0 /\ t.step = 0 /\ t.on = None
  BY <1>2
<1>. HIDE DEF t
<1>5. ChannelsOK' /\ Kept
  BY StillKeeps DEF Submit, Sound
<1>6. RunOK(r)'
  BY <1>3, <1>4, PipelineAssumption DEF RunOK, RunBecomes, Quiet, Reading
<1>7. \A q \in Requests : RunOK(q)'
  BY <1>3, <1>5, <1>6, RunKept DEF Sound, RunsOK, RunBecomes
<1>8. /\ engine' \in [Requests -> EngineStates]
      /\ \A q \in Requests : engine'[q] = "idle" => run'[q].pc = "idle"
  BY <1>3 DEF Submit, Sound, RunsOK, EngineStates, RunBecomes
<1>9. LoopsOK'
  BY <1>5, LoopsKept DEF Submit, Sound
<1>10. faults' \in 0..MaxFaults'[last'] /\ UNCHANGED channels
  BY DEF Submit, Sound
<1>. QED
  BY <1>1, <1>3, <1>4, <1>5, <1>7, <1>8, <1>9, <1>10 DEF Sound, RunsOK, RunBecomes, Others

LEMMA Collects ==
    ASSUME Sound, NEW r \in Requests, Collect(r)
    PROVE  Sound' /\ Kept /\ UNCHANGED channels /\ run' = run
<1>1. ChannelsOK' /\ Kept
  BY StillKeeps DEF Collect, Sound
<1>2. /\ engine' \in [Requests -> EngineStates]
      /\ \A q \in Requests : engine'[q] = "idle" => run'[q].pc = "idle"
  BY DEF Collect, Sound, RunsOK, EngineStates
<1>3. \A q \in Requests : RunOK(q)'
  BY <1>1, RunKept DEF Collect, Sound, RunsOK
<1>4. LoopsOK'
  BY <1>1, LoopsKept DEF Collect, Sound
<1>. QED
  BY <1>1, <1>2, <1>3, <1>4 DEF Sound, RunsOK, Collect

LEMMA EngineExpiresSound ==
    ASSUME Sound, NEW r \in Requests, EngineExpires(r)
    PROVE  Sound' /\ Kept /\ early'
<1>1. ChannelsOK' /\ Kept
  BY StillKeeps DEF EngineExpires, Sound
<1>2. /\ engine' \in [Requests -> EngineStates]
      /\ \A q \in Requests : engine'[q] = "idle" => run'[q].pc = "idle"
  BY DEF EngineExpires, Sound, RunsOK, EngineStates
<1>3. \A q \in Requests : RunOK(q)'
  BY <1>1, RunKept DEF EngineExpires, Sound, RunsOK
<1>4. LoopsOK'
  BY <1>1, LoopsKept DEF EngineExpires, Sound
<1>. QED
  BY <1>1, <1>2, <1>3, <1>4 DEF Sound, RunsOK, EngineExpires

\* A step of one run, given the state it comes to.
LEMMA RunStepSound ==
    ASSUME Sound, ChannelsOK', Kept, NEW r \in Requests, NEW t, RunBecomes(r, t),
           run[r].pc # "idle", RunOK(r)', engine' = engine, loop' = loop,
           faults' \in 0..MaxFaults[last]
    PROVE  Sound' /\ Others(r)
<1>1. RunsOK'
  BY OneRunMoves DEF Sound
<1>2. LoopsOK'
  BY LoopsKept DEF Sound
<1>. QED
  BY <1>1, <1>2 DEF Sound, Others, RunBecomes, Kept

\* A run comes to the state t.
LEMMA RunComes ==
    ASSUME Sound, ChannelsOK', Kept, NEW r \in Requests, NEW s, NEW t \in RunStates,
           With(run[r], s) = t, RootGoes(r, s), run[r].pc # "idle",
           Quiet(t.pc) => t.hop = 0 /\ t.step = 0,
           ~Quiet(t.pc) => t.step < Tokens,
           t.pc \in {"prefill", "send", "dialing", "blocked"} => t.hop = 0,
           t.pc \in {"tap", "tapping"} => t.hop = 1 /\ last > 1,
           Reading(t.pc) => t.hop = 1,
           t.pc = "wait" => Holds(t.on, 0, AnswerKey),
           t.pc = "blocked" => Holds(t.on, 0, Edge(0)),
           t.pc \notin {"wait", "blocked"} => t.on = None,
           engine' = engine, loop' = loop, faults' \in 0..MaxFaults[last]
    PROVE  Sound' /\ Others(r) /\ run'[r] = t
<1>1. RunBecomes(r, t)
  BY RunGoes DEF Sound, RunsOK
<1>2. last' = last /\ AnswerKey' = AnswerKey /\ Edge(0)' = Edge(0)
  BY DEF Kept, AnswerKey, Edge, Result
<1>3. /\ t.pc = "wait" => Holds(t.on, 0, AnswerKey)'
      /\ t.pc = "blocked" => Holds(t.on, 0, Edge(0))'
  BY <1>2, HoldsKept
<1>4. run'[r] = t
  BY <1>1 DEF RunBecomes
<1>5. RunOK(r)'
  BY <1>2, <1>3, <1>4 DEF RunOK, Holds, Link
<1>6. Sound' /\ Others(r)
  BY <1>1, <1>5, RunStepSound
<1>. QED
  BY <1>4, <1>6

\* A run fails.
LEMMA RunFails ==
    ASSUME Sound, NEW r \in Requests, RootGoes(r, Failed), run[r].pc # "idle", last' = last,
           UNCHANGED channels, engine' = engine, loop' = loop, faults' \in 0..MaxFaults[last]
    PROVE  Sound' /\ Kept /\ Others(r) /\ run'[r].pc = "error"
<1>. DEFINE t == [pc |-> "error", hop |-> 0, step |-> 0, on |-> None, cur |-> None]
<1>1. run[r] \in RunStates
  BY DEF Sound, RunsOK
<1>2. t \in RunStates
  BY PipelineAssumption DEF RunStates, Places
<1>3. Failed = t
  BY DEF Failed, Idle
<1>4. With(run[r], Failed) = t
  BY <1>1, <1>3, RunAssigned
<1>5. t.pc = "error" /\ t.hop = 0 /\ t.step = 0 /\ t.on = None /\ Quiet(t.pc) /\ ~Reading(t.pc)
  BY DEF Quiet, Reading
<1>. HIDE DEF t
<1>6. ChannelsOK' /\ Kept
  BY StillKeeps DEF Sound
<1>7. Sound' /\ Others(r) /\ run'[r] = t
  BY <1>2, <1>4, <1>5, <1>6, RunComes
<1>. QED
  BY <1>5, <1>6, <1>7

LEMMA OneFaultMore ==
    ASSUME Sound, Fault
    PROVE  faults' \in 0..MaxFaults[last] /\ faults' > 0 /\ faults \in Nat
  BY PipelineAssumption DEF Sound, ChannelsOK, Fault

LEMMA RootPrefillsSound ==
    ASSUME Sound, NEW r \in Requests, RootPrefills(r)
    PROVE  /\ Sound' /\ Kept /\ UNCHANGED channels /\ Others(r)
           /\ run[r].pc = "prefill" /\ run'[r].pc \in {"send", "error"}
           /\ run'[r].pc = "send" => run'[r].step = run[r].step
           /\ run'[r].pc = "error" => faults' > 0
<1>1. /\ run[r] \in RunStates /\ RunOK(r) /\ run[r].pc = "prefill"
      /\ UNCHANGED <<last, channels, engine, loop>>
  BY AtRoot DEF RootPrefills
<1>2. CASE RootGoes(r, [pc |-> "send"]) /\ UNCHANGED faults
  <2>. DEFINE t == [pc |-> "send", hop |-> run[r].hop, step |-> run[r].step,
                    on |-> run[r].on, cur |-> run[r].cur]
  <2>1. t \in RunStates /\ With(run[r], [pc |-> "send"]) = t
    BY <1>1, RunFields, RunAssigned DEF RunStates, Places
  <2>2. /\ t.pc = "send" /\ t.hop = 0 /\ t.step = run[r].step /\ t.on = None
        /\ t.step < Tokens /\ ~Quiet(t.pc) /\ ~Reading(t.pc)
    BY <1>1 DEF RunOK, Quiet, Reading
  <2>. HIDE DEF t
  <2>3. ChannelsOK' /\ Kept
    BY <1>1, StillKeeps DEF Sound
  <2>4. faults' \in 0..MaxFaults[last]
    BY <1>2 DEF Sound
  <2>5. Sound' /\ Others(r) /\ run'[r] = t
    BY <1>1, <1>2, <2>1, <2>2, <2>3, <2>4, RunComes
  <2>. QED
    BY <1>1, <2>2, <2>3, <2>5
<1>3. CASE Fault /\ RootGoes(r, Failed)
  <2>1. faults' \in 0..MaxFaults[last] /\ faults' > 0
    BY <1>3, OneFaultMore
  <2>2. Sound' /\ Kept /\ Others(r) /\ run'[r].pc = "error"
    BY <1>1, <1>3, <2>1, RunFails
  <2>. QED
    BY <1>1, <2>1, <2>2
<1>. QED
  BY <1>2, <1>3 DEF RootPrefills

LEMMA RootConnectsSound ==
    ASSUME Sound, NEW r \in Requests, RootConnects(r)
    PROVE  /\ Sound' /\ Kept /\ UNCHANGED channels /\ Others(r)
           /\ run'[r].pc \in {"dialing", "tapping"} /\ ~Quiet(run[r].pc) /\ ~Reading(run[r].pc)
           /\ run'[r].step = run[r].step
<1>. DEFINE a == IF run[r].pc = "send" THEN "dialing" ELSE "tapping"
            t == [pc |-> a, hop |-> run[r].hop, step |-> run[r].step,
                  on |-> run[r].on, cur |-> run[r].cur]
<1>1. run[r] \in RunStates /\ RunOK(r) /\ run[r].pc \in {"send", "tap"}
  BY AtRoot DEF RootConnects
<1>2. t \in RunStates /\ With(run[r], [pc |-> a]) = t
  BY <1>1, RunFields, RunAssigned DEF RunStates, Places
<1>3. RunBecomes(r, t)
  BY <1>2, RunGoes DEF RootConnects, Sound, RunsOK
<1>4. t.pc = a /\ t.hop = run[r].hop /\ t.step = run[r].step /\ t.on = run[r].on
  OBVIOUS
<1>. HIDE DEF t
<1>5. ChannelsOK' /\ Kept
  BY StillKeeps DEF RootConnects, Sound
<1>6. RunOK(r)'
  BY <1>1, <1>3, <1>4, <1>5 DEF RunOK, RunBecomes, Quiet, Reading, Kept
<1>7. Sound' /\ Others(r)
  <2>1. faults' \in 0..MaxFaults[last]
    BY DEF RootConnects, Sound
  <2>. QED
    BY <1>1, <1>3, <1>5, <1>6, <2>1, RunStepSound DEF RootConnects
<1>. QED
  BY <1>1, <1>3, <1>4, <1>5, <1>7 DEF RootConnects, RunBecomes, Quiet, Reading

LEMMA RootDialsSound ==
    ASSUME Sound, NEW r \in Requests, RootDials(r)
    PROVE  /\ Sound' /\ Kept /\ Others(r) /\ ~Quiet(run[r].pc) /\ ~Reading(run[r].pc)
           /\ \/ /\ \E n \in Nat : Dialled(0, 1, Edge(0), n)
                 /\ run'[r].pc \in {"send", "tap"} /\ run'[r].step = run[r].step
              \/ UNCHANGED channels /\ run'[r].pc = "error" /\ Refused(1)
<1>1. /\ run[r] \in RunStates /\ RunOK(r) /\ run[r].pc \in {"dialing", "tapping"}
      /\ RootKey(r) = Edge(0) /\ RootPeer(r) = 1 /\ run[r].on = None
  BY AtRoot DEF RootDials, Quiet, RunOK
<1>2. ~Quiet(run[r].pc) /\ ~Reading(run[r].pc)
  BY <1>1 DEF Quiet, Reading
<1>3. CASE /\ Dial(0, 1, Edge(0))
           /\ RootGoes(r, [pc |-> IF run[r].pc = "dialing" THEN "send" ELSE "tap"])
  <2>. DEFINE a == IF run[r].pc = "dialing" THEN "send" ELSE "tap"
              t == [pc |-> a, hop |-> run[r].hop, step |-> run[r].step,
                    on |-> run[r].on, cur |-> run[r].cur]
  <2>1. t \in RunStates /\ With(run[r], [pc |-> a]) = t
    BY <1>1, RunFields, RunAssigned DEF RunStates, Places
  <2>2. RunBecomes(r, t)
    BY <1>3, <2>1, RunGoes DEF Sound, RunsOK
  <2>3. /\ t.pc = a /\ t.hop = run[r].hop /\ t.step = run[r].step /\ t.on = run[r].on
        /\ a \in {"send", "tap"}
    BY <1>1
  <2>. HIDE DEF t
  <2>4. Fits(0, 1, Edge(0))
    <3>1. Fits(0, OutPeer(0), OutKey(0))
      BY AtRoot, OutKeyFits DEF Sound, ChannelsOK
    <3>. QED
      BY <3>1, AtRoot
  <2>5. ChannelsOK' /\ Kept /\ \E n \in Nat : Dialled(0, 1, Edge(0), n)
    BY <1>3, <2>4, DialKeeps DEF Sound, RootDials
  <2>6. RunOK(r)'
    BY <1>1, <2>2, <2>3, <2>5 DEF RunOK, RunBecomes, Quiet, Reading, Kept
  <2>7. Sound' /\ Others(r)
    <3>1. faults' \in 0..MaxFaults[last]
      BY DEF RootDials, Sound
    <3>. QED
      BY <1>1, <2>2, <2>5, <2>6, <3>1, RunStepSound DEF RootDials
  <2>. QED
    BY <1>2, <2>2, <2>3, <2>5, <2>7 DEF RunBecomes, Reading
<1>4. CASE Refused(1) /\ RootGoes(r, Failed) /\ UNCHANGED channels
  <2>1. faults' \in 0..MaxFaults[last] /\ UNCHANGED <<last, engine, loop>>
    BY DEF RootDials, Sound
  <2>2. Sound' /\ Kept /\ Others(r) /\ run'[r].pc = "error"
    BY <1>1, <1>4, <2>1, RunFails
  <2>. QED
    BY <1>2, <1>4, <2>2
<1>. QED
  BY <1>1, <1>3, <1>4 DEF RootDials

LEMMA RootForwardsSound ==
    ASSUME Sound, NEW r \in Requests, RootForwards(r)
    PROVE  LET l == writers[0][Edge(0)] IN
           /\ Sound' /\ Kept /\ Others(r)
           /\ run[r].pc = "send" /\ run'[r].step = run[r].step
           /\ \/ run'[r].pc = IF last = 1 THEN "read" ELSE "tap"
              \/ run'[r].pc = "blocked" /\ faults' > 0
           /\ Holds(l, 0, Edge(0)) /\ <<r, run[r].step>> \in Frame
           /\ IF links[l].up
              THEN Posted(l, 1, Append(links[l].inbox[1], <<r, run[r].step>>))
              ELSE UNCHANGED channels
<1>. DEFINE l == writers[0][Edge(0)]
            f == <<r, run[r].step>>
<1>1. /\ run[r] \in RunStates /\ RunOK(r) /\ run[r].pc = "send" /\ run[r].hop = 0
      /\ RootKey(r) = Edge(0) /\ OutKey(0) = Edge(0) /\ OutPeer(0) = 1 /\ run[r].on = None
      /\ run[r].step < Tokens /\ last \in Nat /\ last > 0
  BY AtRoot DEF RootForwards, Quiet, RunOK
<1>2. /\ ~NoWriter(0, Edge(0)) /\ Sent(0, Edge(0), <<r, run[r].step>>)
      /\ UNCHANGED <<last, engine, loop>>
  BY <1>1 DEF RootForwards
<1>3. <<r, run[r].step>> \in Frame
  <2>1. run[r].step \in Nat
    BY <1>1, RunFields, PipelineAssumption
  <2>. QED
    BY <2>1 DEF Frame
<1>4. /\ ChannelsOK' /\ Kept /\ Holds(l, 0, Edge(0))
      /\ IF links[l].up THEN Posted(l, 1, Append(links[l].inbox[1], f))
                        ELSE UNCHANGED channels
  <2>. HIDE DEF f
  <2>1. f \in Frame /\ Sent(0, OutKey(0), f) /\ ~NoWriter(0, OutKey(0)) /\ 0 \in 0..last
    BY <1>1, <1>2, <1>3, AtRoot DEF f
  <2>2. last' = last /\ ChannelsOK
    BY DEF RootForwards, Sound
  <2>. QED
    BY <1>1, <2>1, <2>2, SentKeeps
<1>5. CASE RootGoes(r, Forwarded(r)) /\ UNCHANGED faults
  <2>. DEFINE a == IF last = 1 THEN "read" ELSE "tap"
  <2>1. Forwarded(r) = [hop |-> 1, on |-> None, pc |-> a]
    BY <1>1 DEF Forwarded
  <2>2. a \in {"read", "tap"} /\ a \in Places /\ (a = "tap" => last > 1)
    BY <1>1 DEF Places
  <2>. HIDE DEF a
  <2>. DEFINE t == [pc |-> a, hop |-> 1, step |-> run[r].step, on |-> None, cur |-> run[r].cur]
  <2>3. With(run[r], Forwarded(r)) = t
    BY <1>1, <2>1, RunAssigned
  <2>4. t \in RunStates
    BY <1>1, <2>2, RunFields DEF RunStates
  <2>5. /\ t.pc = a /\ t.hop = 1 /\ t.step = run[r].step /\ t.on = None /\ ~Quiet(t.pc)
    BY <2>2 DEF Quiet
  <2>. HIDE DEF t
  <2>6. faults' \in 0..MaxFaults[last]
    BY <1>5 DEF Sound
  <2>7. Sound' /\ Others(r) /\ run'[r] = t
    BY <1>1, <1>2, <1>4, <1>5, <2>2, <2>3, <2>4, <2>5, <2>6, RunComes
  <2>. QED
    BY <1>1, <1>3, <1>4, <2>5, <2>7 DEF a
<1>6. CASE Fault /\ RootGoes(r, [pc |-> "blocked", on |-> l])
  <2>1. l \in Nat
    BY <1>4, LinkNames DEF Holds, Sound
  <2>. HIDE DEF l, f
  <2>. DEFINE t == [pc |-> "blocked", hop |-> run[r].hop, step |-> run[r].step,
                    on |-> l, cur |-> run[r].cur]
  <2>2. With(run[r], [pc |-> "blocked", on |-> l]) = t
    BY <1>1, RunAssigned
  <2>3. t \in RunStates
    BY <1>1, <2>1, RunFields DEF RunStates, Places
  <2>4. /\ t.pc = "blocked" /\ t.hop = 0 /\ t.step = run[r].step /\ t.on = l /\ ~Quiet(t.pc)
        /\ ~Reading(t.pc)
    BY <1>1 DEF Quiet, Reading
  <2>. HIDE DEF t
  <2>5. faults' \in 0..MaxFaults[last] /\ faults' > 0
    BY <1>6, OneFaultMore
  <2>6. Sound' /\ Others(r) /\ run'[r] = t
    BY <1>1, <1>2, <1>4, <1>6, <2>2, <2>3, <2>4, <2>5, RunComes
  <2>. QED
    BY <1>1, <1>3, <1>4, <2>4, <2>5, <2>6 DEF l, f
<1>. QED
  BY <1>1, <1>5, <1>6 DEF RootForwards

LEMMA RootResumesSound ==
    ASSUME Sound, NEW r \in Requests, RootResumes(r)
    PROVE  /\ Sound' /\ Kept /\ Others(r) /\ UNCHANGED channels
           /\ run[r].pc = "blocked" /\ run'[r].step = run[r].step
           /\ run'[r].pc = IF last = 1 THEN "read" ELSE "tap"
<1>. DEFINE a == IF last = 1 THEN "read" ELSE "tap"
<1>1. /\ run[r] \in RunStates /\ RunOK(r) /\ run[r].pc = "blocked" /\ run[r].hop = 0
      /\ run[r].step < Tokens /\ last \in Nat /\ last > 0
      /\ UNCHANGED <<last, channels, engine, loop, faults>> /\ RootGoes(r, Forwarded(r))
  BY AtRoot DEF RootResumes, Quiet, RunOK
<1>2. Forwarded(r) = [hop |-> 1, on |-> None, pc |-> a]
  BY <1>1 DEF Forwarded
<1>3. a \in {"read", "tap"} /\ a \in Places /\ (a = "tap" => last > 1)
  BY <1>1 DEF Places
<1>. HIDE DEF a
<1>. DEFINE t == [pc |-> a, hop |-> 1, step |-> run[r].step, on |-> None, cur |-> run[r].cur]
<1>4. With(run[r], Forwarded(r)) = t
  BY <1>1, <1>2, RunAssigned
<1>5. t \in RunStates
  BY <1>1, <1>3, RunFields DEF RunStates
<1>6. /\ t.pc = a /\ t.hop = 1 /\ t.step = run[r].step /\ t.on = None /\ ~Quiet(t.pc)
  BY <1>3 DEF Quiet
<1>. HIDE DEF t
<1>7. ChannelsOK' /\ Kept
  BY <1>1, StillKeeps DEF Sound
<1>8. faults' \in 0..MaxFaults[last]
  BY <1>1 DEF Sound
<1>9. Sound' /\ Others(r) /\ run'[r] = t
  BY <1>1, <1>3, <1>4, <1>5, <1>6, <1>7, <1>8, RunComes
<1>. QED
  BY <1>1, <1>6, <1>7, <1>9 DEF a

LEMMA RootSendRaisesSound ==
    ASSUME Sound, NEW r \in Requests, RootSendRaises(r)
    PROVE  /\ Sound' /\ Kept /\ Others(r) /\ UNCHANGED channels /\ run'[r].pc = "error"
           /\ run[r].pc \in {"send", "blocked"} /\ (run[r].pc = "blocked" => early' = (early \/ ~Stuck))
           /\ \E l \in Link : ~links[l].up
<1>1. /\ run[r].pc \in {"send", "blocked"} /\ RootGoes(r, Failed) /\ faults' \in 0..MaxFaults[last]
      /\ UNCHANGED <<last, channels, engine, loop>>
  BY DEF RootSendRaises, Sound
<1>2. Sound' /\ Kept /\ Others(r) /\ run'[r].pc = "error"
  BY <1>1, RunFails
<1>3. CASE run[r].pc = "send"
  <2>1. RootKey(r) = Edge(0) /\ 0 \in Ranks /\ Edge(0) \in Keys
    BY <1>3, AtRoot, RingConstants DEF Sound, ChannelsOK
  <2>2. ~NoWriter(0, Edge(0)) /\ ~links[writers[0][Edge(0)]].up
    BY <1>3, <2>1 DEF RootSendRaises
  <2>3. writers[0][Edge(0)] \in Link
    BY <2>1, <2>2 DEF NoWriter, Sound, ChannelsOK, Entries, Holds
  <2>. QED
    BY <1>1, <1>2, <1>3, <2>2, <2>3
<1>4. CASE run[r].pc = "blocked"
  <2>1. run[r].on \in Link
    BY <1>4, AtRoot DEF RunOK, Holds
  <2>. QED
    BY <1>1, <1>2, <1>4, <2>1 DEF RootSendRaises
<1>. QED
  BY <1>1, <1>3, <1>4

LEMMA RootTapsSound ==
    ASSUME Sound, NEW r \in Requests, RootTaps(r)
    PROVE  Sound' /\ Kept /\ Others(r) /\ UNCHANGED channels /\ last > 1
<1>. DEFINE t == [pc |-> "read", hop |-> run[r].hop, step |-> run[r].step,
                  on |-> run[r].on, cur |-> run[r].cur]
<1>1. /\ run[r] \in RunStates /\ RunOK(r) /\ run[r].pc = "tap" /\ run[r].hop = 1
      /\ last > 1 /\ run[r].on = None
  BY AtRoot DEF RootTaps, RunOK
<1>2. t \in RunStates /\ With(run[r], [pc |-> "read"]) = t
  BY <1>1, RunFields, RunAssigned DEF RunStates, Places
<1>3. RunBecomes(r, t)
  BY <1>2, RunGoes DEF RootTaps, Sound, RunsOK
<1>4. t.pc = "read" /\ t.hop = run[r].hop /\ t.step = run[r].step /\ t.on = None
  BY <1>1
<1>. HIDE DEF t
<1>5. ChannelsOK' /\ Kept
  BY StillKeeps DEF RootTaps, Sound
<1>6. RunOK(r)'
  BY <1>1, <1>3, <1>4, <1>5 DEF RunOK, RunBecomes, Quiet, Reading, Kept
<1>7. Sound' /\ Others(r)
  <2>1. faults' \in 0..MaxFaults[last]
    BY DEF RootTaps, Sound
  <2>. QED
    BY <1>1, <1>3, <1>5, <1>6, <2>1, RunStepSound DEF RootTaps
<1>. QED
  BY <1>1, <1>5, <1>7 DEF RootTaps

LEMMA RootWaitsSound ==
    ASSUME Sound, NEW r \in Requests, RootWaits(r)
    PROVE  /\ Sound' /\ Kept /\ Others(r) /\ UNCHANGED channels
           /\ run[r].pc = "read" /\ run'[r].pc = "wait" /\ run'[r].step = run[r].step
           /\ run'[r].on = queues[0][AnswerKey] /\ AnswerKey \in Keys
<1>. DEFINE q == queues[0][AnswerKey]
            t == [pc |-> "wait", hop |-> run[r].hop, step |-> run[r].step,
                  on |-> q, cur |-> run[r].cur]
<1>1. /\ run[r] \in RunStates /\ RunOK(r) /\ run[r].pc = "read" /\ run[r].hop = 1
      /\ run[r].on = None /\ ReadKey(r) = AnswerKey
  BY AtRoot DEF RootWaits, RunOK, Reading
<1>2. AnswerKey \in Keys /\ 0 \in Ranks
  <2>1. last \in DOMAIN Load
    BY DEF Sound, ChannelsOK
  <2>2. last \in Nat /\ last > 0 /\ Result \in Keys /\ \A k \in 0..(last - 1) : Edge(k) \in Keys
    BY <2>1, RingConstants
  <2>. QED
    BY <2>1, <2>2, RingConstants DEF AnswerKey
<1>3. q # None /\ RootGoes(r, [pc |-> "wait", on |-> q])
  BY <1>1 DEF RootWaits
<1>4. Holds(q, 0, AnswerKey)
  BY <1>2, <1>3 DEF Sound, ChannelsOK, Entries
<1>5. q \in Nat
  BY <1>4, LinkNames DEF Holds, Sound
<1>. HIDE DEF q
<1>6. t \in RunStates /\ With(run[r], [pc |-> "wait", on |-> q]) = t
  <2>1. With(run[r], [pc |-> "wait", on |-> q]) = t
    BY <1>1, RunAssigned
  <2>2. t \in RunStates
    BY <1>1, <1>5, RunFields DEF RunStates, Places
  <2>. QED
    BY <2>1, <2>2
<1>7. RunBecomes(r, t)
  BY <1>3, <1>6, RunGoes DEF Sound, RunsOK
<1>8. t.pc = "wait" /\ t.hop = 1 /\ t.step = run[r].step /\ t.on = q
  BY <1>1
<1>. HIDE DEF t
<1>9. ChannelsOK' /\ Kept
  BY StillKeeps DEF RootWaits, Sound
<1>10. RunOK(r)'
  <2>1. AnswerKey' = AnswerKey /\ q' = q
    BY DEF RootWaits, AnswerKey, channels, q
  <2>2. Holds(q, 0, AnswerKey)'
    BY <1>4, <1>9, <2>1, HoldsKept
  <2>3. run'[r].on = q' /\ run'[r].pc = "wait" /\ run'[r].hop = 1
        /\ run'[r].step = run[r].step
    BY <1>7, <1>8, <2>1 DEF RunBecomes
  <2>. QED
    BY <1>1, <2>2, <2>3 DEF RunOK, Quiet, Reading
<1>11. Sound' /\ Others(r)
  <2>1. faults' \in 0..MaxFaults[last]
    BY DEF RootWaits, Sound
  <2>. QED
    BY <1>1, <1>7, <1>9, <1>10, <2>1, RunStepSound DEF RootWaits
<1>. QED
  BY <1>1, <1>2, <1>7, <1>8, <1>9, <1>11 DEF RootWaits, RunBecomes, q

LEMMA RootTakesSound ==
    ASSUME Sound, NEW r \in Requests, RootTakes(r)
    PROVE  LET l == run[r].on IN
           /\ Sound' /\ Kept /\ Others(r)
           /\ last = 1 /\ run[r].pc = "wait" /\ run'[r].pc \in {"prefill", "done"}
           /\ Holds(l, 0, Result) /\ links[l].inbox[0] # <<>>
           /\ Posted(l, 0, Tail(links[l].inbox[0]))
           /\ run'[r].pc = "prefill" => run'[r].step = run[r].step + 1
           /\ wrong' = IF Head(links[l].inbox[0]) # <<r, run[r].step>>
                       THEN wrong \cup {r} ELSE wrong
<1>. DEFINE l == run[r].on
            frame == Head(Frames(0, l))
<1>1. /\ run[r] \in RunStates /\ RunOK(r) /\ run[r].pc = "wait" /\ run[r].hop = 1
      /\ Holds(l, 0, AnswerKey) /\ 0 \in Ranks /\ last \in Nat /\ last > 0
      /\ run[r].step < Tokens
  BY AtRoot DEF RootTakes, RunOK, Reading, Quiet
<1>2. l \in Link /\ l # None
  BY <1>1, LinkNames DEF Holds, Sound
<1>3. Frames(0, l) = links[l].inbox[0] /\ links[l].inbox[0] # <<>>
  BY <1>2 DEF RootTakes, Frames
<1>4. last = 1 /\ AnswerKey = Result
  <2>1. links[l].key = Result
    BY <1>2, <1>3 DEF Sound, ChannelsOK, Joined
  <2>2. 0 \in 0..(last - 1)
    BY <1>1
  <2>3. Edge(0) # Result
    BY <2>2, RingConstants DEF Sound, ChannelsOK
  <2>. QED
    BY <1>1, <2>1, <2>3 DEF Holds, AnswerKey
<1>5. ChannelsOK' /\ Kept /\ Posted(l, 0, Tail(links[l].inbox[0]))
  <2>1. Frames(0, l) # <<>> /\ Received(0, l) /\ last' = last /\ ChannelsOK
    BY DEF RootTakes, Sound
  <2>. HIDE DEF l
  <2>. QED
    BY <1>1, <1>2, <2>1, ReceivedKeeps
<1>6. RootGoes(r, After(r, frame))
  BY DEF RootTakes
<1>7. PICK t \in RunStates :
        /\ RunBecomes(r, t) /\ t.pc \in {"prefill", "done"} /\ t.hop = 0 /\ t.on = None
        /\ IF t.pc = "prefill" THEN t.step < Tokens /\ t.step = run[r].step + 1
                             ELSE t.step = 0
  <2>1. run[r].step \in Nat /\ Tokens \in Nat /\ 0 \in 0..Tokens /\ ~(run[r].hop < last)
    BY <1>1, <1>4, RunFields, PipelineAssumption
  <2>2. CASE run[r].step + 1 < Tokens
    <3>. DEFINE n == run[r].step + 1
                t == [pc |-> "prefill", hop |-> 0, step |-> n, on |-> None, cur |-> run[r].cur]
    <3>1. n \in 0..Tokens /\ n < Tokens
      BY <2>1, <2>2
    <3>2. After(r, frame) = [pc |-> "prefill", step |-> n, hop |-> 0, on |-> None]
      BY <2>1, <2>2 DEF After
    <3>. HIDE DEF n
    <3>3. t \in RunStates
      BY <1>1, <3>1, RunFields DEF RunStates, Places
    <3>4. With(run[r], After(r, frame)) = t
      BY <1>1, <3>2, RunAssigned
    <3>5. RunBecomes(r, t)
      BY <1>6, <3>3, <3>4, RunGoes DEF Sound, RunsOK
    <3>. QED
      BY <3>1, <3>3, <3>5 DEF n
  <2>3. CASE ~(run[r].step + 1 < Tokens)
    <3>. DEFINE t == [pc |-> "done", hop |-> 0, step |-> 0, on |-> None, cur |-> None]
    <3>1. After(r, frame) = t
      BY <2>1, <2>3 DEF After, Idle
    <3>2. t \in RunStates
      BY <2>1 DEF RunStates, Places
    <3>3. With(run[r], After(r, frame)) = t
      BY <1>1, <3>1, RunAssigned
    <3>4. RunBecomes(r, t)
      BY <1>6, <3>2, <3>3, RunGoes DEF Sound, RunsOK
    <3>. QED
      BY <3>2, <3>4
  <2>. QED
    BY <2>2, <2>3
<1>8. RunOK(r)'
  BY <1>7 DEF RunOK, RunBecomes, Quiet, Reading
<1>9. Sound' /\ Others(r)
  <2>1. faults' \in 0..MaxFaults[last]
    BY DEF RootTakes, Sound
  <2>. QED
    BY <1>1, <1>5, <1>7, <1>8, <2>1, RunStepSound DEF RootTakes
<1>10. wrong' = IF frame # <<r, run[r].step>> THEN wrong \cup {r} ELSE wrong
  BY <1>1, <1>4 DEF RootTakes
<1>. QED
  BY <1>1, <1>3, <1>4, <1>5, <1>7, <1>9, <1>10 DEF RunBecomes

LEMMA RootExpiresSound ==
    ASSUME Sound, NEW r \in Requests, RootExpires(r)
    PROVE  /\ Sound' /\ Kept /\ Others(r) /\ UNCHANGED channels
           /\ Reading(run[r].pc) /\ run'[r].pc = "error"
<1>1. Reading(run[r].pc) /\ run[r].pc # "idle"
  BY DEF RootExpires, Reading
<1>2. faults' \in 0..MaxFaults[last]
  BY DEF RootExpires, Sound
<1>3. Sound' /\ Kept /\ Others(r) /\ run'[r].pc = "error"
  BY <1>1, <1>2, RunFails DEF RootExpires
<1>. QED
  BY <1>1, <1>3 DEF RootExpires

-----------------------------------------------------------------------------
LEMMA AtLoop ==
    ASSUME Sound, NEW k \in Loops
    PROVE  /\ last \in Nat /\ last > 0 /\ k \in 1..last /\ k \in 0..last /\ k \in Ranks
           /\ loop[k] \in LoopStates /\ LoopOK(k)
           /\ InKey(k) \in Keys /\ OutKey(k) \in Keys
           /\ LoopPeer(k) = IF loop[k].pc \in {"boot", "booting"} THEN k - 1 ELSE OutPeer(k)
<1>1. last \in Nat /\ last > 0 /\ k \in 1..last /\ k \in 0..last /\ k \in Ranks
  BY RingConstants DEF Sound, ChannelsOK, Loops
<1>2. loop[k] \in LoopStates /\ LoopOK(k)
  BY DEF Sound, LoopsOK
<1>3. InKey(k) \in Keys /\ OutKey(k) \in Keys
  BY <1>1, InKeyFits, OutKeyFits DEF Sound, ChannelsOK
<1>4. LoopPeer(k) = IF loop[k].pc \in {"boot", "booting"} THEN k - 1 ELSE OutPeer(k)
  BY DEF LoopPeer
<1>. QED
  BY <1>1, <1>2, <1>3, <1>4

OtherLoops(k) == \A j \in Loops : j # k => loop'[j] = loop[j]

LEMMA LoopStepSound ==
    ASSUME Sound, ChannelsOK', Kept, NEW k \in Loops, NEW t, LoopBecomes(k, t),
           LoopOK(k)', engine' = engine, run' = run, faults' \in 0..MaxFaults[last]
    PROVE  Sound' /\ OtherLoops(k)
<1>1. LoopsOK'
  BY OneLoopMoves DEF Sound
<1>2. RunsOK'
  BY RunsKept DEF Sound
<1>. QED
  BY <1>1, <1>2 DEF Sound, OtherLoops, LoopBecomes, Kept

\* A loop turns to another place, and the channels stand still.
LEMMA LoopTurns ==
    ASSUME Sound, NEW k \in Loops, NEW a \in LoopPlaces \ {"wait", "blocked"},
           Carrying(a) => Carrying(loop[k].pc), loop[k].pc \notin {"wait", "blocked"},
           LoopGoes(k, [pc |-> a]), UNCHANGED <<last, engine, run, faults>>, ChannelsOK', Kept
    PROVE  /\ Sound' /\ OtherLoops(k)
           /\ loop'[k].pc = a /\ loop'[k].cur = loop[k].cur /\ loop'[k].on = None
<1>. DEFINE t == [pc |-> a, on |-> loop[k].on, cur |-> loop[k].cur]
<1>1. loop[k] \in LoopStates /\ LoopOK(k)
  BY AtLoop
<1>2. With(loop[k], [pc |-> a]) = t /\ t \in LoopStates
  BY <1>1, LoopFields, LoopAssigned DEF LoopStates
<1>3. LoopBecomes(k, t)
  BY <1>2, LoopMoves DEF Sound, LoopsOK
<1>4. t.pc = a /\ t.on = None /\ t.cur = loop[k].cur
  BY <1>1 DEF LoopOK
<1>. HIDE DEF t
<1>5. LoopOK(k)'
  BY <1>1, <1>3, <1>4 DEF LoopOK, LoopBecomes
<1>6. Sound' /\ OtherLoops(k)
  BY <1>3, <1>5, LoopStepSound DEF Sound
<1>. QED
  BY <1>3, <1>4, <1>6 DEF LoopBecomes

\* A loop comes to the state t.
LEMMA LoopComes ==
    ASSUME Sound, ChannelsOK', Kept, NEW k \in Loops, NEW s, NEW t \in LoopStates,
           With(loop[k], s) = t, LoopGoes(k, s),
           Carrying(t.pc) => t.cur \in Frame,
           t.pc = "wait" => Holds(t.on, k, InKey(k)),
           t.pc = "blocked" => Holds(t.on, k, OutKey(k)),
           t.pc \notin {"wait", "blocked"} => t.on = None,
           engine' = engine, run' = run, faults' \in 0..MaxFaults[last]
    PROVE  Sound' /\ OtherLoops(k) /\ loop'[k] = t
<1>1. LoopBecomes(k, t)
  BY LoopMoves DEF Sound, LoopsOK
<1>2. /\ t.pc = "wait" => Holds(t.on, k, InKey(k))'
      /\ t.pc = "blocked" => Holds(t.on, k, OutKey(k))'
      /\ InKey(k)' = InKey(k) /\ OutKey(k)' = OutKey(k)
  BY HoldsKept DEF Kept, InKey, OutKey, Edge, Result
<1>3. LoopOK(k)'
  BY <1>1, <1>2 DEF LoopOK, LoopBecomes, Holds
<1>4. Sound' /\ OtherLoops(k)
  BY <1>1, <1>3, LoopStepSound
<1>. QED
  BY <1>1, <1>4 DEF LoopBecomes

LEMMA LoopConnectsSound ==
    ASSUME Sound, NEW k \in Loops, LoopConnects(k)
    PROVE  /\ Sound' /\ Kept /\ OtherLoops(k) /\ UNCHANGED channels
           /\ loop'[k].cur = loop[k].cur /\ loop'[k].on = None
           /\ \/ loop[k].pc = "boot" /\ loop'[k].pc = "booting"
              \/ loop[k].pc = "push" /\ loop'[k].pc = "pushing"
<1>. DEFINE a == IF loop[k].pc = "boot" THEN "booting" ELSE "pushing"
<1>1. ChannelsOK' /\ Kept
  BY StillKeeps DEF LoopConnects, Sound
<1>2. /\ a \in LoopPlaces \ {"wait", "blocked"} /\ (Carrying(a) => Carrying(loop[k].pc))
      /\ loop[k].pc \notin {"wait", "blocked"} /\ LoopGoes(k, [pc |-> a])
      /\ UNCHANGED <<last, engine, run, faults>> /\ loop[k].pc \in {"boot", "push"}
  BY DEF LoopConnects, LoopPlaces, Carrying
<1>3. /\ loop[k].pc = "boot" => a = "booting"
      /\ loop[k].pc = "push" => a = "pushing"
  OBVIOUS
<1>. HIDE DEF a
<1>4. /\ Sound' /\ OtherLoops(k)
      /\ loop'[k].pc = a /\ loop'[k].cur = loop[k].cur /\ loop'[k].on = None
  BY <1>1, <1>2, LoopTurns
<1>. QED
  BY <1>1, <1>2, <1>3, <1>4 DEF LoopConnects

LEMMA LoopDialsSound ==
    ASSUME Sound, NEW k \in Loops, LoopDials(k)
    PROVE  /\ Sound' /\ Kept /\ OtherLoops(k)
           /\ loop'[k].cur = loop[k].cur /\ loop'[k].on = None /\ loop[k].pc # "wait"
           /\ \/ /\ loop'[k].pc \in {"read", "push"}
                 /\ Carrying(loop'[k].pc) <=> Carrying(loop[k].pc)
                 /\ \E p \in Ranks, c \in Keys, n \in Nat : Dialled(k, p, c, n) /\ Fits(k, p, c)
              \/ /\ UNCHANGED channels /\ loop'[k].pc = "dead"
                 /\ \E p \in Ranks : Refused(p)
<1>1. /\ loop[k].pc \in {"booting", "pushing"} /\ last \in DOMAIN Load
      /\ LoopKey(k) = IF loop[k].pc = "booting" THEN InKey(k) ELSE OutKey(k)
      /\ LoopPeer(k) = IF loop[k].pc = "booting" THEN k - 1 ELSE OutPeer(k)
  BY AtLoop DEF LoopDials, LoopKey, Sound, ChannelsOK
<1>2. k \in 0..last
  BY AtLoop
<1>3. Fits(k, LoopPeer(k), LoopKey(k)) /\ LoopPeer(k) \in Ranks /\ LoopKey(k) \in Keys
  <2>1. CASE loop[k].pc = "booting"
    BY <1>1, <2>1, InKeyFits
  <2>2. CASE loop[k].pc = "pushing"
    BY <1>1, <1>2, <2>2, OutKeyFits
  <2>. QED
    BY <1>1, <2>1, <2>2
<1>4. CASE /\ Dial(k, LoopPeer(k), LoopKey(k))
           /\ LoopGoes(k, [pc |-> IF loop[k].pc = "booting" THEN "read" ELSE "push"])
  <2>. DEFINE a == IF loop[k].pc = "booting" THEN "read" ELSE "push"
  <2>1. ChannelsOK' /\ Kept /\ \E n \in Nat : Dialled(k, LoopPeer(k), LoopKey(k), n)
    BY <1>3, <1>4, DialKeeps DEF Sound, LoopDials
  <2>2. /\ a \in LoopPlaces \ {"wait", "blocked"} /\ (Carrying(a) <=> Carrying(loop[k].pc))
        /\ loop[k].pc \notin {"wait", "blocked"} /\ LoopGoes(k, [pc |-> a]) /\ a \in {"read", "push"}
    BY <1>1, <1>4 DEF LoopPlaces, Carrying
  <2>. HIDE DEF a
  <2>3. /\ Sound' /\ OtherLoops(k)
        /\ loop'[k].pc = a /\ loop'[k].cur = loop[k].cur /\ loop'[k].on = None
    BY <2>1, <2>2, LoopTurns DEF LoopDials
  <2>. QED
    BY <1>3, <2>1, <2>2, <2>3
<1>5. CASE Refused(LoopPeer(k)) /\ LoopGoes(k, [pc |-> "dead"]) /\ UNCHANGED channels
  <2>1. ChannelsOK' /\ Kept
    BY <1>5, StillKeeps DEF Sound, LoopDials
  <2>2. "dead" \in LoopPlaces \ {"wait", "blocked"} /\ ~Carrying("dead") /\ loop[k].pc \notin {"wait", "blocked"}
    BY <1>1 DEF LoopPlaces, Carrying
  <2>3. /\ Sound' /\ OtherLoops(k)
        /\ loop'[k].pc = "dead" /\ loop'[k].cur = loop[k].cur /\ loop'[k].on = None
    BY <1>5, <2>1, <2>2, LoopTurns DEF LoopDials
  <2>. QED
    BY <1>3, <1>5, <2>1, <2>2, <2>3
<1>. QED
  BY <1>4, <1>5 DEF LoopDials

LEMMA LoopConnectedSound ==
    ASSUME Sound, NEW k \in Loops, LoopConnected(k)
    PROVE  /\ Sound' /\ Kept /\ OtherLoops(k) /\ UNCHANGED channels
           /\ loop'[k].on = None /\ loop[k].pc = "boot" /\ loop'[k].pc = "read"
<1>1. ChannelsOK' /\ Kept
  BY StillKeeps DEF LoopConnected, Sound
<1>2. "read" \in LoopPlaces \ {"wait", "blocked"} /\ ~Carrying("read") /\ loop[k].pc = "boot"
  BY DEF LoopConnected, LoopPlaces, Carrying
<1>3. Sound' /\ OtherLoops(k) /\ loop'[k].pc = "read" /\ loop'[k].on = None
  BY <1>1, <1>2, LoopTurns DEF LoopConnected
<1>. QED
  BY <1>1, <1>2, <1>3 DEF LoopConnected

LEMMA LoopWaitsSound ==
    ASSUME Sound, NEW k \in Loops, LoopWaits(k)
    PROVE  /\ Sound' /\ Kept /\ OtherLoops(k) /\ UNCHANGED channels
           /\ loop'[k].on = queues[k][InKey(k)] /\ loop[k].pc = "read" /\ loop'[k].pc = "wait"
<1>. DEFINE q == queues[k][InKey(k)]
            t == [pc |-> "wait", on |-> q, cur |-> loop[k].cur]
<1>1. /\ loop[k] \in LoopStates /\ LoopOK(k) /\ loop[k].pc = "read"
      /\ k \in Ranks /\ InKey(k) \in Keys /\ q # None
      /\ LoopGoes(k, [pc |-> "wait", on |-> q])
  BY AtLoop DEF LoopWaits
<1>2. Holds(q, k, InKey(k)) /\ q \in Nat
  BY <1>1, LinkNames DEF Sound, ChannelsOK, Entries, Holds
<1>. HIDE DEF q
<1>3. With(loop[k], [pc |-> "wait", on |-> q]) = t
  BY <1>1, LoopAssigned
<1>4. t \in LoopStates
  BY <1>1, <1>2, LoopFields DEF LoopStates, LoopPlaces
<1>5. ~Carrying(t.pc) /\ t.pc = "wait" /\ t.on = q
  BY DEF Carrying
<1>. HIDE DEF t
<1>6. ChannelsOK' /\ Kept
  BY StillKeeps DEF LoopWaits, Sound
<1>7. UNCHANGED <<engine, run>> /\ faults' \in 0..MaxFaults[last]
  BY DEF LoopWaits, Sound
<1>8. Sound' /\ OtherLoops(k) /\ loop'[k] = t
  BY <1>1, <1>2, <1>3, <1>4, <1>5, <1>6, <1>7, LoopComes
<1>. QED
  BY <1>1, <1>5, <1>6, <1>8 DEF LoopWaits, q

LEMMA LoopAsksAgainSound ==
    ASSUME Sound, NEW k \in Loops, LoopAsksAgain(k)
    PROVE  /\ Sound' /\ Kept /\ OtherLoops(k) /\ UNCHANGED channels
           /\ loop'[k].on = None /\ loop[k].pc = "wait" /\ loop'[k].pc = "read"
<1>. DEFINE t == [pc |-> "read", on |-> None, cur |-> loop[k].cur]
<1>1. loop[k] \in LoopStates /\ LoopGoes(k, [pc |-> "read", on |-> None])
  BY AtLoop DEF LoopAsksAgain
<1>2. With(loop[k], [pc |-> "read", on |-> None]) = t
  BY <1>1, LoopAssigned
<1>3. t \in LoopStates
  BY <1>1, LoopFields DEF LoopStates, LoopPlaces
<1>4. ~Carrying(t.pc) /\ t.pc = "read" /\ t.on = None
  BY DEF Carrying
<1>. HIDE DEF t
<1>5. ChannelsOK' /\ Kept
  BY StillKeeps DEF LoopAsksAgain, Sound
<1>6. UNCHANGED <<engine, run>> /\ faults' \in 0..MaxFaults[last]
  BY DEF LoopAsksAgain, Sound
<1>7. Sound' /\ OtherLoops(k) /\ loop'[k] = t
  BY <1>1, <1>2, <1>3, <1>4, <1>5, <1>6, LoopComes
<1>. QED
  BY <1>4, <1>5, <1>7 DEF LoopAsksAgain

LEMMA LoopTakesSound ==
    ASSUME Sound, NEW k \in Loops, LoopTakes(k)
    PROVE  LET l == loop[k].on IN
           /\ Sound' /\ Kept /\ OtherLoops(k) /\ loop'[k].on = None
           /\ loop[k].pc = "wait" /\ Holds(l, k, InKey(k)) /\ links[l].inbox[k] # <<>>
           /\ Posted(l, k, Tail(links[l].inbox[k]))
           /\ \/ loop'[k].pc = "push" /\ loop'[k].cur = Head(links[l].inbox[k])
              \/ loop'[k].pc = "read" /\ faults' > 0
<1>. DEFINE l == loop[k].on
            f == Head(Frames(k, l))
<1>1. /\ loop[k] \in LoopStates /\ LoopOK(k) /\ loop[k].pc = "wait"
      /\ k \in Ranks /\ Frames(k, l) # <<>> /\ Received(k, l)
      /\ UNCHANGED <<last, engine, run>>
  BY AtLoop DEF LoopTakes
<1>2. Holds(l, k, InKey(k)) /\ l \in Link /\ l # None
  BY <1>1, LinkNames DEF LoopOK, Holds, Sound
<1>3. Frames(k, l) = links[l].inbox[k]
  BY <1>2 DEF Frames
<1>4. ChannelsOK' /\ Kept /\ Posted(l, k, Tail(links[l].inbox[k]))
  <2>1. l \in Link /\ k \in Ranks /\ Frames(k, l) # <<>> /\ Received(k, l)
        /\ last' = last /\ ChannelsOK
    BY <1>1, <1>2 DEF Sound
  <2>. HIDE DEF l
  <2>. QED
    BY <2>1, ReceivedKeeps
<1>5. f \in Frame
  <2>1. links[l].inbox[k] \in Seq(Frame)
    BY <1>1, <1>2, LinkNames, SocketFields DEF Sound
  <2>. QED
    BY <1>1, <1>3, <2>1, HeadTailProperties
<1>6. CASE /\ LoopGoes(k, [pc |-> "push", on |-> None, cur |-> f])
           /\ UNCHANGED faults
  <2>. HIDE DEF f
  <2>. DEFINE t == [pc |-> "push", on |-> None, cur |-> f]
  <2>1. With(loop[k], [pc |-> "push", on |-> None, cur |-> f]) = t
    BY <1>1, LoopAssigned
  <2>2. t \in LoopStates
    BY <1>5 DEF LoopStates, LoopPlaces
  <2>3. t.pc = "push" /\ t.on = None /\ t.cur = f
    OBVIOUS
  <2>. HIDE DEF t
  <2>4. Sound' /\ OtherLoops(k) /\ loop'[k] = t
    <3>1. faults' \in 0..MaxFaults[last]
      BY <1>6 DEF Sound
    <3>. QED
      BY <1>1, <1>4, <1>5, <1>6, <2>1, <2>2, <2>3, <3>1, LoopComes DEF LoopGoes
  <2>. QED
    BY <1>1, <1>2, <1>3, <1>4, <2>3, <2>4 DEF f
<1>7. CASE Fault /\ LoopGoes(k, [pc |-> "read", on |-> None])
  <2>. DEFINE t == [pc |-> "read", on |-> None, cur |-> loop[k].cur]
  <2>1. With(loop[k], [pc |-> "read", on |-> None]) = t
    BY <1>1, LoopAssigned
  <2>2. t \in LoopStates
    BY <1>1, LoopFields DEF LoopStates, LoopPlaces
  <2>3. t.pc = "read" /\ t.on = None /\ ~Carrying(t.pc)
    BY DEF Carrying
  <2>. HIDE DEF t
  <2>4. faults' \in 0..MaxFaults[last] /\ faults' > 0
    BY <1>7, OneFaultMore
  <2>5. Sound' /\ OtherLoops(k) /\ loop'[k] = t
    BY <1>1, <1>4, <1>7, <2>1, <2>2, <2>3, <2>4, LoopComes
  <2>. QED
    BY <1>1, <1>2, <1>3, <1>4, <2>3, <2>4, <2>5
<1>. QED
  BY <1>6, <1>7 DEF LoopTakes

LEMMA LoopPushesSound ==
    ASSUME Sound, NEW k \in Loops, LoopPushes(k)
    PROVE  LET l == writers[k][OutKey(k)] IN
           /\ Sound' /\ Kept /\ OtherLoops(k)
           /\ loop[k].pc = "push" /\ loop'[k].pc \in {"read", "blocked"} /\ loop[k].cur \in Frame
           /\ loop'[k].pc = "blocked" => faults' > 0
           /\ Holds(l, k, OutKey(k))
           /\ IF links[l].up
              THEN Posted(l, OutPeer(k), Append(links[l].inbox[OutPeer(k)], loop[k].cur))
              ELSE UNCHANGED channels
<1>. DEFINE f == loop[k].cur
            l == writers[k][OutKey(k)]
<1>1. /\ loop[k] \in LoopStates /\ LoopOK(k) /\ loop[k].pc = "push" /\ loop[k].on = None
      /\ f \in Frame /\ ~NoWriter(k, OutKey(k)) /\ Sent(k, OutKey(k), f)
      /\ UNCHANGED <<last, engine, run>>
  BY AtLoop DEF LoopPushes, LoopOK, Carrying
<1>2. /\ ChannelsOK' /\ Kept /\ Holds(l, k, OutKey(k))
      /\ IF links[l].up THEN Posted(l, OutPeer(k), Append(links[l].inbox[OutPeer(k)], f))
                        ELSE UNCHANGED channels
  <2>. HIDE DEF f
  <2>1. k \in 0..last /\ last' = last /\ ChannelsOK
    BY <1>1, AtLoop DEF Sound
  <2>. QED
    BY <1>1, <2>1, SentKeeps
<1>3. CASE LoopGoes(k, [pc |-> "read", cur |-> None]) /\ UNCHANGED faults
  <2>. DEFINE t == [pc |-> "read", on |-> None, cur |-> None]
  <2>1. With(loop[k], [pc |-> "read", cur |-> None]) = t
    BY <1>1, LoopAssigned
  <2>2. t \in LoopStates
    BY DEF LoopStates, LoopPlaces
  <2>3. t.pc = "read" /\ t.on = None /\ ~Carrying(t.pc)
    BY DEF Carrying
  <2>. HIDE DEF t, l, f
  <2>4. faults' \in 0..MaxFaults[last]
    BY <1>3 DEF Sound
  <2>5. Sound' /\ OtherLoops(k) /\ loop'[k] = t
    BY <1>1, <1>2, <1>3, <2>1, <2>2, <2>3, <2>4, LoopComes
  <2>. QED
    BY <1>1, <1>2, <2>3, <2>5 DEF l, f
<1>4. CASE Fault /\ LoopGoes(k, [pc |-> "blocked", on |-> l, cur |-> None])
  <2>1. l \in Nat
    BY <1>2, LinkNames DEF Holds, Sound
  <2>. HIDE DEF l, f
  <2>. DEFINE t == [pc |-> "blocked", on |-> l, cur |-> None]
  <2>2. With(loop[k], [pc |-> "blocked", on |-> l, cur |-> None]) = t
    BY <1>1, LoopAssigned
  <2>3. t \in LoopStates
    BY <2>1 DEF LoopStates, LoopPlaces
  <2>4. t.pc = "blocked" /\ t.on = l /\ ~Carrying(t.pc)
    BY DEF Carrying
  <2>. HIDE DEF t
  <2>5. faults' \in 0..MaxFaults[last] /\ faults' > 0
    BY <1>4, OneFaultMore
  <2>6. Sound' /\ OtherLoops(k) /\ loop'[k] = t
    BY <1>1, <1>2, <1>4, <2>2, <2>3, <2>4, <2>5, LoopComes
  <2>. QED
    BY <1>1, <1>2, <2>4, <2>5, <2>6 DEF l, f
<1>. QED
  BY <1>3, <1>4 DEF LoopPushes

LEMMA LoopResumesSound ==
    ASSUME Sound, NEW k \in Loops, LoopResumes(k)
    PROVE  /\ Sound' /\ Kept /\ OtherLoops(k) /\ UNCHANGED channels
           /\ loop[k].pc = "blocked" /\ loop'[k].pc = "read"
<1>. DEFINE t == [pc |-> "read", on |-> None, cur |-> loop[k].cur]
<1>1. /\ loop[k] \in LoopStates /\ LoopGoes(k, [pc |-> "read", on |-> None])
      /\ loop[k].pc = "blocked" /\ UNCHANGED <<last, channels, engine, run, faults>>
  BY AtLoop DEF LoopResumes
<1>2. With(loop[k], [pc |-> "read", on |-> None]) = t
  BY <1>1, LoopAssigned
<1>3. t \in LoopStates
  BY <1>1, LoopFields DEF LoopStates, LoopPlaces
<1>4. ~Carrying(t.pc) /\ t.pc = "read" /\ t.on = None
  BY DEF Carrying
<1>. HIDE DEF t
<1>5. ChannelsOK' /\ Kept
  BY <1>1, StillKeeps DEF Sound
<1>6. faults' \in 0..MaxFaults[last]
  BY <1>1 DEF Sound
<1>7. Sound' /\ OtherLoops(k) /\ loop'[k] = t
  BY <1>1, <1>2, <1>3, <1>4, <1>5, <1>6, LoopComes
<1>. QED
  BY <1>1, <1>4, <1>5, <1>7

LEMMA LoopSendRaisesSound ==
    ASSUME Sound, NEW k \in Loops, LoopSendRaises(k)
    PROVE  /\ Sound' /\ Kept /\ OtherLoops(k) /\ UNCHANGED channels
           /\ loop'[k].pc = "dead" /\ loop[k].pc \in {"push", "blocked"}
           /\ \E l \in Link : ~links[l].up
<1>. DEFINE t == [pc |-> "dead", on |-> None, cur |-> None]
<1>1. /\ loop[k] \in LoopStates /\ LoopOK(k) /\ OutKey(k) \in Keys /\ k \in Ranks
      /\ LoopGoes(k, [pc |-> "dead", on |-> None, cur |-> None])
      /\ loop[k].pc \in {"push", "blocked"} /\ UNCHANGED <<last, channels, engine, run, faults>>
  BY AtLoop DEF LoopSendRaises
<1>2. With(loop[k], [pc |-> "dead", on |-> None, cur |-> None]) = t
  BY <1>1, LoopAssigned
<1>3. t \in LoopStates
  BY DEF LoopStates, LoopPlaces
<1>4. ~Carrying(t.pc) /\ t.pc = "dead" /\ t.on = None
  BY DEF Carrying
<1>. HIDE DEF t
<1>5. ChannelsOK' /\ Kept
  BY <1>1, StillKeeps DEF Sound
<1>6. faults' \in 0..MaxFaults[last]
  BY <1>1 DEF Sound
<1>7. Sound' /\ OtherLoops(k) /\ loop'[k] = t
  BY <1>1, <1>2, <1>3, <1>4, <1>5, <1>6, LoopComes
<1>8. \E l \in Link : ~links[l].up
  <2>1. CASE loop[k].pc = "push"
    <3>1. ~NoWriter(k, OutKey(k)) /\ ~links[writers[k][OutKey(k)]].up
      BY <2>1 DEF LoopSendRaises
    <3>2. writers[k][OutKey(k)] \in Link
      BY <1>1, <3>1 DEF NoWriter, Sound, ChannelsOK, Entries, Holds
    <3>. QED
      BY <3>1, <3>2
  <2>2. CASE loop[k].pc = "blocked"
    <3>1. loop[k].on \in Link
      BY <1>1, <2>2 DEF LoopOK, Holds
    <3>. QED
      BY <2>2, <3>1 DEF LoopSendRaises
  <2>. QED
    BY <1>1, <2>1, <2>2
<1>. QED
  BY <1>1, <1>4, <1>5, <1>7, <1>8

LEMMA WorkerClosesSound ==
    ASSUME Sound, NEW k \in Loops, WorkerCloses(k)
    PROVE  /\ Sound' /\ Kept /\ OtherLoops(k) /\ Closed(k)
           /\ loop'[k].on = None /\ loop'[k].pc = "dead" /\ faults' > 0
<1>. DEFINE t == [pc |-> "dead", on |-> None, cur |-> loop[k].cur]
<1>1. /\ loop[k] \in LoopStates /\ k \in Ranks /\ LoopGoes(k, [pc |-> "dead", on |-> None])
      /\ CloseTransport(k) /\ UNCHANGED <<last, engine, run>>
  BY AtLoop DEF WorkerCloses
<1>2. With(loop[k], [pc |-> "dead", on |-> None]) = t
  BY <1>1, LoopAssigned
<1>3. t \in LoopStates
  BY <1>1, LoopFields DEF LoopStates, LoopPlaces
<1>4. t.pc = "dead" /\ t.on = None /\ ~Carrying(t.pc)
  BY DEF Carrying
<1>. HIDE DEF t
<1>5. ChannelsOK' /\ Kept /\ Closed(k)
  BY <1>1, CloseKeeps DEF Sound
<1>6. faults' \in 0..MaxFaults[last] /\ faults' > 0
  BY OneFaultMore DEF WorkerCloses
<1>7. Sound' /\ OtherLoops(k) /\ loop'[k] = t
  BY <1>1, <1>2, <1>3, <1>4, <1>5, <1>6, LoopComes
<1>. QED
  BY <1>4, <1>5, <1>6, <1>7

-----------------------------------------------------------------------------
LEMMA OutsideSound ==
    ASSUME Sound, ChannelsOK', Kept, UNCHANGED <<engine, run, loop>>,
           faults' \in 0..MaxFaults[last]
    PROVE  Sound'
<1>1. RunsOK' /\ LoopsOK'
  BY RunsKept, LoopsKept DEF Sound
<1>. QED
  BY <1>1 DEF Sound, Kept

LEMMA HandshakeSound ==
    ASSUME Sound, NEW l \in Link, Handshake(l)
    PROVE  Sound' /\ Kept /\ Greeted(l)
<1>1. ChannelsOK' /\ Kept /\ Greeted(l)
  BY HelloKeeps DEF Handshake, Sound
<1>2. UNCHANGED <<engine, run, loop>> /\ faults' \in 0..MaxFaults[last]
  BY DEF Handshake, Sound
<1>. QED
  BY <1>1, <1>2, OutsideSound

LEMMA DisconnectedSound ==
    ASSUME Sound, NEW l \in Link, Disconnected(l)
    PROVE  Sound' /\ Kept /\ Ended(l)
<1>1. ChannelsOK' /\ Kept /\ Ended(l)
  BY ReaderEndsKeeps DEF Disconnected, Sound
<1>2. UNCHANGED <<engine, run, loop>> /\ faults' \in 0..MaxFaults[last]
  BY DEF Disconnected, Sound
<1>. QED
  BY <1>1, <1>2, OutsideSound

LEMMA LinkBreaksSound ==
    ASSUME Sound, NEW l \in Link, LinkBreaks(l)
    PROVE  Sound' /\ Kept /\ Broken(l) /\ faults' > 0
<1>1. ChannelsOK' /\ Kept /\ Broken(l)
  BY BreakKeeps DEF LinkBreaks, Sound
<1>2. UNCHANGED <<engine, run, loop>> /\ faults' \in 0..MaxFaults[last] /\ faults' > 0
  BY OneFaultMore DEF LinkBreaks
<1>. QED
  BY <1>1, <1>2, OutsideSound

LEMMA StutterSound ==
    ASSUME Sound, UNCHANGED vars
    PROVE  Sound' /\ Kept
<1>1. ChannelsOK' /\ Kept
  BY StillKeeps DEF vars, Sound
<1>2. UNCHANGED <<engine, run, loop>> /\ faults' \in 0..MaxFaults[last]
  BY DEF vars, Sound
<1>. QED
  BY <1>1, <1>2, OutsideSound

LEMMA InitSound ==
    ASSUME Init
    PROVE  Sound
<1>1. links = <<>> /\ Link = {} /\ Len(links) = 0 /\ links \in Seq(Sockets)
  BY DEF Init, ChannelsInit, Link
<1>2. ChannelsOK
  <2>1. queues \in Tables /\ writers \in Tables
    BY DEF Init, ChannelsInit, Tables
  <2>2. Entries(queues) /\ Entries(writers)
    BY DEF Init, ChannelsInit, Entries
  <2>3. 0 <= MaxLinks /\ last \in DOMAIN Load
    BY ChannelsAssumption DEF Init
  <2>. QED
    BY <1>1, <2>1, <2>2, <2>3 DEF ChannelsOK
<1>3. RunsOK
  <2>1. Idle \in RunStates
    BY PipelineAssumption DEF Idle, RunStates, Places
  <2>2. \A r \in Requests : run[r] = Idle /\ run[r].pc = "idle"
    BY DEF Init, Idle
  <2>3. \A r \in Requests : RunOK(r)
    BY <2>2 DEF RunOK, Idle, Quiet, Reading
  <2>. QED
    BY <2>1, <2>2, <2>3 DEF Init, RunsOK, EngineStates
<1>4. LoopsOK
  <2>1. Boot \in LoopStates
    BY DEF Boot, LoopStates, LoopPlaces
  <2>2. \A k \in Loops : loop[k] = Boot
    BY DEF Init
  <2>. QED
    BY <2>1, <2>2 DEF Init, LoopsOK, LoopOK, Boot, Carrying
<1>5. faults \in 0..MaxFaults[last]
  BY PipelineAssumption DEF Init
<1>. QED
  BY <1>2, <1>3, <1>4, <1>5 DEF Sound

(* The types are kept by every step.                                       *)
LEMMA StepSound ==
    ASSUME Sound, [Next]_vars
    PROVE  Sound' /\ Kept
<1>1. ASSUME NEW r \in Requests,
             \/ Submit(r) \/ Collect(r) \/ EngineExpires(r)
             \/ RunSteps(r) \/ RootResumes(r) \/ RootSendRaises(r) \/ RootExpires(r)
      PROVE  Sound' /\ Kept
  <2>1. CASE Submit(r)
    BY <2>1, Submits
  <2>2. CASE Collect(r)
    BY <2>2, Collects
  <2>3. CASE RunSteps(r)
    BY <2>3, RootPrefillsSound, RootConnectsSound, RootDialsSound, RootForwardsSound, RootTapsSound,
       RootWaitsSound, RootTakesSound DEF RunSteps
  <2>4. CASE RootResumes(r) \/ RootSendRaises(r) \/ RootExpires(r)
    BY <2>4, RootResumesSound, RootSendRaisesSound, RootExpiresSound
  <2>5. CASE EngineExpires(r)
    BY <2>5, EngineExpiresSound
  <2>. QED
    BY <1>1, <2>1, <2>2, <2>3, <2>4, <2>5
<1>2. ASSUME NEW k \in Loops, LoopSteps(k) \/ WorkerCloses(k)
      PROVE  Sound' /\ Kept
  BY <1>2, LoopConnectsSound, LoopDialsSound, LoopConnectedSound, LoopWaitsSound,
     LoopAsksAgainSound, LoopTakesSound, LoopPushesSound, LoopResumesSound,
     LoopSendRaisesSound, WorkerClosesSound DEF LoopSteps
<1>3. ASSUME NEW l \in Link, Handshake(l) \/ Disconnected(l) \/ LinkBreaks(l)
      PROVE  Sound' /\ Kept
  BY <1>3, HandshakeSound, DisconnectedSound, LinkBreaksSound
<1>. QED
  BY <1>1, <1>2, <1>3, StutterSound DEF Next

LEMMA SoundTypes ==
    ASSUME Sound
    PROVE  TypeOK
<1>1. \A p \in Ranks, c \in Keys : \A l \in {queues[p][c], writers[p][c]} \ {None} :
        l \in Link /\ links[l].key = c /\ p \in {links[l].client, links[l].server}
  BY DEF Sound, ChannelsOK, Entries, Holds
<1>2. \A r \in Requests : run[r].pc \in Places /\ run[r].hop \in 0..last
                            /\ run[r].step \in 0..Tokens
  <2>1. last \in Nat /\ last > 0
    BY RingConstants DEF Sound, ChannelsOK
  <2>. QED
    BY <2>1, RunFields DEF Sound, RunsOK
<1>3. \A k \in Loops : loop[k].on # None =>
        k \in {links[loop[k].on].client, links[loop[k].on].server}
  BY DEF Sound, LoopsOK, LoopOK, Holds
<1>. QED
  BY <1>1, <1>2, <1>3 DEF TypeOK, Sound

(* The tables hold sockets of their key that end at their owner, and       *)
(* coroutines wait on queues of their own rank, in a ring of any size.     *)
THEOREM PipelineTypeOK == Spec => []TypeOK
<1>1. Init => Sound
  BY InitSound
<1>2. Sound /\ [Next]_vars => Sound'
  BY StepSound
<1>3. Sound => TypeOK
  BY SoundTypes
<1>. QED
  BY <1>1, <1>2, <1>3, PTL DEF Spec

-----------------------------------------------------------------------------
(* A ring of two ranks.  A frame can still be taken from an inbox if the   *)
(* rank it lies at has the queue in its table, waits on it, or is to put   *)
(* it there when HELLO arrives; it flies while it lies in such an inbox or *)
(* the other rank works on it.                                             *)

Box(l) == links[l].inbox[IF links[l].key = Result THEN 0 ELSE 1]
Coming(l) == links[l].up /\ ~links[l].hello
Opened(l) ==
    \/ /\ links[l].key = Result
       /\ \/ queues[0][Result] = l \/ Coming(l)
          \/ \E r \in Requests : run[r].pc = "wait" /\ run[r].on = l
    \/ /\ links[l].key = Edge(0) /\ loop[1].pc # "dead"
       /\ \/ queues[1][Edge(0)] = l \/ Coming(l)
          \/ loop[1].pc = "wait" /\ loop[1].on = l
InBoxes(f) == \E l \in Link : Opened(l) /\ \E i \in 1..Len(Box(l)) : Box(l)[i] = f
Flying(f) == InBoxes(f) \/ (Carrying(loop[1].pc) /\ loop[1].cur = f)

Awaited(r) == <<r, run[r].step>>
Past(r, s) ==
    \/ run[r].pc \in {"done", "error"} \/ s < run[r].step
    \/ s = run[r].step /\ Owed(run[r].pc)

\* A frame is in one place only.
BoxesOnce ==
    \A l, m \in Link : Opened(l) /\ Opened(m) =>
        \A i \in 1..Len(Box(l)), j \in 1..Len(Box(m)) : Box(l)[i] = Box(m)[j] => l = m /\ i = j
Once == BoxesOnce /\ (Carrying(loop[1].pc) => ~InBoxes(loop[1].cur))

\* A frame that flies was sent: none that a run is still to send does.
Fresh == \A r \in Requests, s \in Nat : Flying(<<r, s>>) => Past(r, s)

\* At most as many frames fly as runs have an answer to come: g gives each
\* frame a run of its own.
Cover ==
    \E g \in [Requests -> Frame] :
        \A f \in Frame : Flying(f) => \E r \in Requests : Owed(run[r].pc) /\ g[r] = f

\* While a run is on that overlapped none, only what it awaits flies.
Alone ==
    \A r \in UnderWay \ met :
        /\ \A q \in UnderWay : q = r
        /\ \A f \in Frame : Flying(f) => f = Awaited(r)

Answers == Once /\ Fresh /\ Cover /\ Alone

AnswersInv == Sound /\ (~early => wrong \subseteq met /\ (last = 1 => Answers))

\* Fewer inboxes are open after a step.
Narrows ==
    /\ \A l \in Link :
        /\ Coming(l)' => Coming(l)
        /\ queues'[0][Result] = l => queues[0][Result] = l \/ Coming(l)
        /\ queues'[1][Edge(0)] = l => queues[1][Edge(0)] = l \/ Coming(l)
    /\ \A l \in Link' \ Link : Box(l)' = <<>>

\* Coroutines only wait on what is in the tables.
RunsNarrow ==
    \A r \in Requests : run'[r].pc = "wait" =>
        \/ run[r].pc = "wait" /\ run'[r].on = run[r].on
        \/ run'[r].on = queues[0][Result]
LoopNarrows ==
    /\ loop'[1].pc = "wait" => \/ loop[1].pc = "wait" /\ loop'[1].on = loop[1].on
                               \/ loop'[1].on = queues[1][Edge(0)]
    /\ loop[1].pc = "dead" => loop'[1].pc = "dead"
WaitsNarrow == RunsNarrow /\ LoopNarrows

LEMMA OpenedNarrows ==
    ASSUME Sound, Kept, Narrows, WaitsNarrow
    PROVE  \A l \in Link' : Opened(l)' /\ Box(l)' # <<>> => l \in Link /\ Opened(l)
<1>. SUFFICES ASSUME NEW l \in Link', Opened(l)', Box(l)' # <<>> PROVE l \in Link /\ Opened(l)
  OBVIOUS
<1>1. l \in Link
  BY DEF Narrows
<1>2. links'[l].key = links[l].key
  BY <1>1 DEF Kept
<1>3. CASE links[l].key = Result /\ queues'[0][Result] = l
  BY <1>1, <1>3 DEF Narrows, Opened
<1>4. CASE links[l].key = Result /\ \E r \in Requests : run'[r].pc = "wait" /\ run'[r].on = l
  BY <1>1, <1>4 DEF WaitsNarrow, RunsNarrow, Opened
<1>5. CASE links[l].key = Result /\ Coming(l)'
  BY <1>1, <1>5 DEF Narrows, Opened
<1>6. CASE links[l].key = Edge(0) /\ loop'[1].pc # "dead" /\ queues'[1][Edge(0)] = l
  BY <1>1, <1>6 DEF Narrows, WaitsNarrow, LoopNarrows, Opened
<1>7. CASE links[l].key = Edge(0) /\ loop'[1].pc = "wait" /\ loop'[1].on = l
  BY <1>1, <1>7 DEF WaitsNarrow, LoopNarrows, Opened
<1>8. CASE links[l].key = Edge(0) /\ loop'[1].pc # "dead" /\ Coming(l)'
  BY <1>1, <1>8 DEF Narrows, WaitsNarrow, LoopNarrows, Opened
<1>9. Edge(0)' = Edge(0) /\ Result' = Result
  BY DEF Edge, Result
<1>. QED
  BY <1>1, <1>2, <1>3, <1>4, <1>5, <1>6, <1>7, <1>8, <1>9 DEF Opened

LEMMA Two ==
    ASSUME Sound
    PROVE  /\ 0 \in Ranks /\ 1 \in Ranks /\ Edge(0) \in Keys /\ Result \in Keys /\ Edge(0) # Result
           /\ 1 \in Loops /\ (last = 1 => Loops = {1} /\ OutKey(1) = Result /\ OutPeer(1) = 0)
           /\ InKey(1) = Edge(0)
<1>1. last \in Nat /\ last > 0 /\ 0 \in 0..last /\ 1 \in 0..last /\ 0 \in 0..(last - 1)
  BY RingConstants DEF Sound, ChannelsOK
<1>2. 0 \in Ranks /\ 1 \in Ranks /\ Edge(0) \in Keys /\ Result \in Keys /\ Edge(0) # Result
  BY <1>1, RingConstants DEF Sound, ChannelsOK
<1>3. 1 \in Loops /\ (last = 1 => Loops = {1} /\ OutKey(1) = Result /\ OutPeer(1) = 0)
  BY <1>1 DEF Loops, OutKey, OutPeer
<1>4. InKey(1) = Edge(0)
  BY DEF InKey
<1>. QED
  BY <1>2, <1>3, <1>4

\* What the operations of the transport do to the boxes.
BoxesShrink == \A l \in Link : Box(l)' \in {Box(l), <<>>}

LEMMA StillNarrows ==
    ASSUME UNCHANGED channels
    PROVE  Narrows /\ BoxesShrink
  BY DEF channels, Narrows, BoxesShrink, Box, Coming, Link

LEMMA DialledNarrows ==
    ASSUME Sound, NEW p, NEW to, NEW c, NEW n \in Nat, Dialled(p, to, c, n)
    PROVE  Narrows /\ BoxesShrink
<1>1. \A l \in Link : l # n /\ links'[l] = links[l]
  BY DEF Dialled
<1>2. Link' = Link \cup {n} /\ \A r \in Ranks : links'[n].inbox[r] = <<>>
  BY DEF Dialled
<1>3. Box(n)' = <<>>
  BY <1>2, Two DEF Box
<1>4. \A l \in Link : /\ Coming(l)' => Coming(l)
                      /\ Box(l)' = Box(l)
  BY <1>1 DEF Coming, Box
<1>5. \A l \in Link : /\ queues'[0][Result] = l => queues[0][Result] = l
                      /\ queues'[1][Edge(0)] = l => queues[1][Edge(0)] = l
  BY <1>1, Two DEF Dialled
<1>. QED
  BY <1>2, <1>3, <1>4, <1>5 DEF Narrows, BoxesShrink

LEMMA GreetedNarrows ==
    ASSUME Sound, Kept, NEW m \in Link, Greeted(m)
    PROVE  Narrows /\ BoxesShrink
<1>1. \A l \in Link : /\ Coming(l)' => Coming(l)
                      /\ Box(l)' = Box(l)
  BY DEF Greeted, Coming, Box, Kept
<1>2. \A l \in Link : /\ queues'[0][Result] = l => queues[0][Result] = l \/ Coming(l)
                      /\ queues'[1][Edge(0)] = l => queues[1][Edge(0)] = l \/ Coming(l)
  BY Two DEF Greeted, Coming
<1>. QED
  BY <1>1, <1>2 DEF Narrows, BoxesShrink, Greeted

LEMMA BrokenNarrows ==
    ASSUME Sound, Kept, NEW m \in Link, Broken(m)
    PROVE  Narrows /\ BoxesShrink
<1>1. \A l \in Link : Coming(l)' => Coming(l)
  BY DEF Broken, Coming
<1>2. \A l \in Link : Box(l)' \in {Box(l), <<>>}
  BY Two DEF Broken, Box, Kept
<1>. QED
  BY <1>1, <1>2 DEF Narrows, BoxesShrink, Broken

LEMMA EndedNarrows ==
    ASSUME Sound, Kept, NEW m \in Link, Ended(m)
    PROVE  Narrows /\ BoxesShrink
<1>1. \A l \in Link : /\ Coming(l)' => Coming(l)
                      /\ Box(l)' = Box(l)
  BY DEF Ended, Coming, Box, Kept
<1>2. \A l \in Link : /\ queues'[0][Result] = l => queues[0][Result] = l
                      /\ queues'[1][Edge(0)] = l => queues[1][Edge(0)] = l
  BY Two, LinkNames DEF Ended, Sound
<1>. QED
  BY <1>1, <1>2 DEF Narrows, BoxesShrink, Ended

LEMMA ClosedNarrows ==
    ASSUME Sound, Kept, NEW p, Closed(p)
    PROVE  Narrows /\ BoxesShrink
<1>1. \A l \in Link : /\ Coming(l)' => Coming(l)
                      /\ Box(l)' = Box(l)
  BY DEF Closed, Coming, Box, Kept
<1>2. \A l \in Link : /\ queues'[0][Result] = l => queues[0][Result] = l
                      /\ queues'[1][Edge(0)] = l => queues[1][Edge(0)] = l
  BY Two, LinkNames DEF Closed, Sound
<1>. QED
  BY <1>1, <1>2 DEF Narrows, BoxesShrink, Closed

LEMMA PostedNarrows ==
    ASSUME Sound, Kept, NEW m, NEW q, NEW box, Posted(m, q, box)
    PROVE  /\ Narrows
           /\ \A l \in Link : l # m => Box(l)' = Box(l)
           /\ (links[m].key = Result <=> q = 0) /\ q \in {0, 1} => Box(m)' = box
<1>1. \A l \in Link : /\ Coming(l)' => Coming(l)
                      /\ l # m => Box(l)' = Box(l)
  BY Two DEF Posted, Coming, Box, Kept
<1>2. (links[m].key = Result <=> q = 0) /\ q \in {0, 1} => Box(m)' = box
  BY Two DEF Posted, Box, Kept
<1>. QED
  BY <1>1, <1>2 DEF Narrows, Posted

LEMMA Boxes ==
    ASSUME Sound, NEW l \in Link
    PROVE  Box(l) \in Seq(Frame) /\ Len(Box(l)) \in Nat /\ \A i \in 1..Len(Box(l)) : Box(l)[i] \in Frame
<1>1. links[l].inbox \in [Ranks -> Seq(Frame)]
  BY LinkNames, SocketFields DEF Sound
<1>2. Box(l) \in Seq(Frame)
  BY <1>1, Two DEF Box
<1>. QED
  BY <1>2

\* What flies after a step that puts no frame into a box flew before.
LEMMA BoxesNarrow ==
    ASSUME Sound, Kept, Narrows, WaitsNarrow, BoxesShrink
    PROVE  (\A f : InBoxes(f)' => InBoxes(f)) /\ (BoxesOnce => BoxesOnce')
<1>1. \A l \in Link' : \A i \in 1..Len(Box(l)') : Opened(l)' =>
        l \in Link /\ Opened(l) /\ Box(l)' = Box(l)
  <2>. SUFFICES ASSUME NEW l \in Link', NEW i \in 1..Len(Box(l)'), Opened(l)'
                PROVE  l \in Link /\ Opened(l) /\ Box(l)' = Box(l)
    OBVIOUS
  <2>1. Box(l)' # <<>>
    OBVIOUS
  <2>2. l \in Link /\ Opened(l)
    BY <2>1, OpenedNarrows
  <2>. QED
    BY <2>1, <2>2 DEF BoxesShrink
<1>2. \A f : InBoxes(f)' => InBoxes(f)
  <2>. SUFFICES ASSUME NEW f, InBoxes(f)' PROVE InBoxes(f)
    OBVIOUS
  <2>1. PICK l \in Link' : Opened(l)' /\ \E i \in 1..Len(Box(l)') : Box(l)'[i] = f
    BY DEF InBoxes
  <2>2. PICK i \in 1..Len(Box(l)') : Box(l)'[i] = f
    BY <2>1
  <2>3. l \in Link /\ Opened(l) /\ Box(l)' = Box(l)
    BY <1>1, <2>1
  <2>4. i \in 1..Len(Box(l)) /\ Box(l)[i] = f
    BY <2>2, <2>3
  <2>. QED
    BY <2>3, <2>4 DEF InBoxes
<1>3. BoxesOnce => BoxesOnce'
  <2>. SUFFICES ASSUME BoxesOnce, NEW l \in Link', NEW m \in Link', Opened(l)', Opened(m)',
                       NEW i \in 1..Len(Box(l)'), NEW j \in 1..Len(Box(m)'), Box(l)'[i] = Box(m)'[j]
                PROVE  l = m /\ i = j
    BY DEF BoxesOnce
  <2>1. /\ l \in Link /\ Opened(l) /\ Box(l)' = Box(l)
        /\ m \in Link /\ Opened(m) /\ Box(m)' = Box(m)
    BY <1>1
  <2>2. i \in 1..Len(Box(l)) /\ j \in 1..Len(Box(m)) /\ Box(l)[i] = Box(m)[j]
    BY <2>1
  <2>. QED
    BY <2>1, <2>2 DEF BoxesOnce
<1>. QED
  BY <1>2, <1>3

\* A frame that is in no box is put at the end of one.
LEMMA BoxGrows ==
    ASSUME Sound, Kept, WaitsNarrow, BoxesOnce, NEW f, ~InBoxes(f),
           NEW m \in Link, NEW q \in {0, 1}, links[m].key = Result <=> q = 0,
           Posted(m, q, Append(links[m].inbox[q], f))
    PROVE  (\A x : InBoxes(x)' => InBoxes(x) \/ x = f) /\ BoxesOnce'
<1>1. /\ Narrows /\ Box(m) = links[m].inbox[q] /\ Box(m)' = Append(Box(m), f)
      /\ \A l \in Link : l # m => Box(l)' = Box(l)
  <2>1. Box(m) = links[m].inbox[q]
    BY DEF Box
  <2>. QED
    BY <2>1, PostedNarrows
<1>2. ASSUME NEW l \in Link', Opened(l)', NEW i \in 1..Len(Box(l)')
      PROVE  /\ l \in Link /\ Opened(l)
             /\ \/ i \in 1..Len(Box(l)) /\ Box(l)'[i] = Box(l)[i]
                \/ l = m /\ i = Len(Box(m)) + 1 /\ Box(l)'[i] = f
  <2>1. Box(l)' # <<>>
    OBVIOUS
  <2>2. l \in Link /\ Opened(l)
    BY <1>1, <1>2, <2>1, OpenedNarrows
  <2>3. Box(m) \in Seq(Frame) /\ Len(Box(m)) \in Nat
    BY Boxes
  <2>4. CASE l # m
    BY <1>1, <2>2, <2>4
  <2>5. CASE l = m
    <3>. DEFINE b == Box(m)
    <3>1. Box(l)' = Append(b, f) /\ b \in Seq(Frame)
      BY <1>1, <2>3, <2>5
    <3>. HIDE DEF b
    <3>2. /\ Len(Append(b, f)) = Len(b) + 1 /\ Len(b) \in Nat /\ Append(b, f)[Len(b) + 1] = f
          /\ \A n \in 1..Len(b) : Append(b, f)[n] = b[n]
      BY <3>1
    <3>3. i \in 1..Len(b) \/ i = Len(b) + 1
      BY <3>1, <3>2
    <3>4. \/ i \in 1..Len(b) /\ Box(l)'[i] = b[i]
          \/ i = Len(b) + 1 /\ Box(l)'[i] = f
      BY <3>1, <3>2, <3>3
    <3>. QED
      BY <2>2, <2>5, <3>4 DEF b
  <2>. QED
    BY <2>2, <2>4, <2>5
<1>3. \A x : InBoxes(x)' => InBoxes(x) \/ x = f
  <2>. SUFFICES ASSUME NEW x, InBoxes(x)' PROVE InBoxes(x) \/ x = f
    OBVIOUS
  <2>1. PICK l \in Link' : Opened(l)' /\ \E i \in 1..Len(Box(l)') : Box(l)'[i] = x
    BY DEF InBoxes
  <2>2. PICK i \in 1..Len(Box(l)') : Box(l)'[i] = x
    BY <2>1
  <2>. QED
    BY <1>2, <2>1, <2>2 DEF InBoxes
<1>4. BoxesOnce'
  <2>. SUFFICES ASSUME NEW l \in Link', NEW n \in Link', Opened(l)', Opened(n)',
                       NEW i \in 1..Len(Box(l)'), NEW j \in 1..Len(Box(n)'), Box(l)'[i] = Box(n)'[j]
                PROVE  l = n /\ i = j
    BY DEF BoxesOnce
  <2>1. /\ l \in Link /\ Opened(l)
        /\ \/ i \in 1..Len(Box(l)) /\ Box(l)'[i] = Box(l)[i]
           \/ l = m /\ i = Len(Box(m)) + 1 /\ Box(l)'[i] = f
    BY <1>2
  <2>2. /\ n \in Link /\ Opened(n)
        /\ \/ j \in 1..Len(Box(n)) /\ Box(n)'[j] = Box(n)[j]
           \/ n = m /\ j = Len(Box(m)) + 1 /\ Box(n)'[j] = f
    BY <1>2
  <2>3. \A k \in 1..Len(Box(l)) : Box(l)[k] # f
    BY <2>1 DEF InBoxes
  <2>4. \A k \in 1..Len(Box(n)) : Box(n)[k] # f
    BY <2>2 DEF InBoxes
  <2>. QED
    BY <2>1, <2>2, <2>3, <2>4 DEF BoxesOnce
<1>. QED
  BY <1>3, <1>4

\* The first frame of an open box is taken.
LEMMA BoxShrinks ==
    ASSUME Sound, Kept, WaitsNarrow, BoxesOnce,
           NEW m \in Link, NEW q \in {0, 1}, links[m].key = Result <=> q = 0,
           Opened(m), links[m].inbox[q] # <<>>, Posted(m, q, Tail(links[m].inbox[q]))
    PROVE  LET f == Head(links[m].inbox[q]) IN
           InBoxes(f) /\ f \in Frame /\ (\A x : InBoxes(x)' => InBoxes(x) /\ x # f) /\ BoxesOnce'
<1>. DEFINE b == Box(m)
<1>1. /\ Narrows /\ links[m].inbox[q] = b /\ Box(m)' = Tail(b)
      /\ \A l \in Link : l # m => Box(l)' = Box(l)
  <2>1. Box(m) = links[m].inbox[q]
    BY DEF Box
  <2>. QED
    BY <2>1, PostedNarrows
<1>2. b \in Seq(Frame) /\ b # <<>> /\ b = Box(m)
  BY <1>1, Boxes
<1>. HIDE DEF b
<1>3. /\ Len(b) \in Nat /\ Len(b) > 0 /\ Head(b) = b[1] /\ Head(b) \in Frame
      /\ Len(Tail(b)) = Len(b) - 1
      /\ \A n \in 1..(Len(b) - 1) : Tail(b)[n] = b[n + 1]
  BY <1>2
<1>4. InBoxes(Head(b))
  BY <1>2, <1>3 DEF InBoxes
<1>5. ASSUME NEW l \in Link', Opened(l)', NEW i \in 1..Len(Box(l)')
      PROVE  /\ l \in Link /\ Opened(l)
             /\ LET n == IF l = m THEN i + 1 ELSE i IN
                n \in 1..Len(Box(l)) /\ Box(l)'[i] = Box(l)[n]
  <2>1. Box(l)' # <<>>
    OBVIOUS
  <2>2. l \in Link /\ Opened(l)
    BY <1>1, <1>5, <2>1, OpenedNarrows
  <2>3. CASE l # m
    BY <1>1, <2>2, <2>3
  <2>4. CASE l = m
    <3>1. Box(l)' = Tail(b) /\ Box(l) = b
      BY <1>1, <1>2, <2>4
    <3>2. i \in 1..(Len(b) - 1) /\ i + 1 \in 1..Len(b)
      BY <1>3, <3>1
    <3>3. Box(l)'[i] = b[i + 1]
      BY <1>3, <3>1, <3>2
    <3>. QED
      BY <2>2, <2>4, <3>1, <3>2, <3>3
  <2>. QED
    BY <2>3, <2>4
<1>6. \A x : InBoxes(x)' => InBoxes(x) /\ x # Head(b)
  <2>. SUFFICES ASSUME NEW x, InBoxes(x)' PROVE InBoxes(x) /\ x # Head(b)
    OBVIOUS
  <2>1. PICK l \in Link' : Opened(l)' /\ \E i \in 1..Len(Box(l)') : Box(l)'[i] = x
    BY DEF InBoxes
  <2>2. PICK i \in 1..Len(Box(l)') : Box(l)'[i] = x
    BY <2>1
  <2>3. PICK n \in 1..Len(Box(l)) : Box(l)[n] = x /\ (l = m => n # 1) /\ l \in Link /\ Opened(l)
    BY <1>5, <2>1, <2>2
  <2>4. InBoxes(x)
    BY <2>3 DEF InBoxes
  <2>5. ASSUME x = Head(b) PROVE FALSE
    <3>1. 1 \in 1..Len(Box(m)) /\ Box(m)[1] = x
      BY <1>2, <1>3, <2>5
    <3>2. l = m /\ n = 1
      BY <2>3, <3>1 DEF BoxesOnce
    <3>. QED
      BY <2>3, <3>2
  <2>. QED
    BY <2>4, <2>5
<1>7. BoxesOnce'
  <2>. SUFFICES ASSUME NEW l \in Link', NEW n \in Link', Opened(l)', Opened(n)',
                       NEW i \in 1..Len(Box(l)'), NEW j \in 1..Len(Box(n)'), Box(l)'[i] = Box(n)'[j]
                PROVE  l = n /\ i = j
    BY DEF BoxesOnce
  <2>. DEFINE ii == IF l = m THEN i + 1 ELSE i
              jj == IF n = m THEN j + 1 ELSE j
  <2>1. l \in Link /\ Opened(l) /\ ii \in 1..Len(Box(l)) /\ Box(l)'[i] = Box(l)[ii]
    BY <1>5
  <2>2. n \in Link /\ Opened(n) /\ jj \in 1..Len(Box(n)) /\ Box(n)'[j] = Box(n)[jj]
    BY <1>5
  <2>3. Box(l)[ii] = Box(n)[jj]
    BY <2>1, <2>2
  <2>. HIDE DEF ii, jj
  <2>4. l = n /\ ii = jj
    BY <2>1, <2>2, <2>3 DEF BoxesOnce
  <2>5. i \in Int /\ j \in Int
    OBVIOUS
  <2>. QED
    BY <2>4, <2>5 DEF ii, jj
<1>. QED
  BY <1>1, <1>3, <1>4, <1>6, <1>7

-----------------------------------------------------------------------------
(* What a step does to the frames that fly and to the runs under way.      *)

\* No frame is new, and each is in one place still.
NoneNew == (\A f : Flying(f)' => Flying(f)) /\ Once'

\* No run forgets what it sent, none is new.
Ages ==
    /\ \A r \in Requests, s \in Nat : Past(r, s) => Past(r, s)'
    /\ UnderWay' \subseteq UnderWay
    /\ \A r \in UnderWay' : run'[r].step = run[r].step
Calm == NoneNew /\ Ages /\ met' = met /\ \A r \in Requests : Owed(run[r].pc) => Owed(run'[r].pc)

LEMMA StillFlying ==
    ASSUME Sound, Kept, Narrows, WaitsNarrow, BoxesShrink, Once,
           Carrying(loop'[1].pc) => Carrying(loop[1].pc) /\ loop'[1].cur = loop[1].cur
    PROVE  NoneNew
<1>1. (\A f : InBoxes(f)' => InBoxes(f)) /\ BoxesOnce'
  BY BoxesNarrow DEF Once
<1>2. \A f : Flying(f)' => Flying(f)
  BY <1>1 DEF Flying
<1>3. Carrying(loop'[1].pc) => ~InBoxes(loop[1].cur)' /\ loop'[1].cur = loop[1].cur
  BY <1>1 DEF Once
<1>4. Once'
  BY <1>1, <1>3 DEF Once, InBoxes
<1>. QED
  BY <1>2, <1>4 DEF NoneNew

LEMMA FreshKept ==
    ASSUME NoneNew, Ages, Fresh
    PROVE  Fresh'
  BY DEF NoneNew, Ages, Fresh

LEMMA AloneKept ==
    ASSUME NoneNew, Ages, met' = met, Alone
    PROVE  Alone'
<1>. SUFFICES ASSUME NEW r \in UnderWay' \ met'
              PROVE  /\ \A q \in UnderWay' : q = r
                     /\ \A f \in Frame : Flying(f)' => f = Awaited(r)'
  BY DEF Alone, Frame
<1>1. /\ r \in UnderWay \ met /\ UnderWay' \subseteq UnderWay
      /\ \A q \in UnderWay : q = r
      /\ \A f \in Frame : Flying(f) => f = Awaited(r)
  BY DEF Ages, Alone
<1>2. Awaited(r)' = Awaited(r)
  BY DEF Ages, Awaited
<1>. QED
  BY <1>1, <1>2 DEF NoneNew

LEMMA CalmAnswers ==
    ASSUME Calm, Answers
    PROVE  Answers'
<1>1. NoneNew /\ Ages /\ met' = met
  BY DEF Calm
<1>2. Fresh' /\ Alone' /\ Once'
  BY <1>1, FreshKept, AloneKept DEF Answers, NoneNew
<1>3. Cover'
  <2>1. PICK g \in [Requests -> Frame] :
          \A f \in Frame : Flying(f) => \E r \in Requests : Owed(run[r].pc) /\ g[r] = f
    BY DEF Answers, Cover
  <2>2. \A f \in Frame : Flying(f)' => \E r \in Requests : Owed(run'[r].pc) /\ g[r] = f
    BY <2>1 DEF Calm, NoneNew
  <2>. QED
    BY <2>1, <2>2 DEF Cover, Frame
<1>. QED
  BY <1>2, <1>3 DEF Answers

\* After a step that leaves no frame, whatever runs it ended.
LEMMA EmptyAnswers ==
    ASSUME Sound', Answers, Ages, met' = met, \A f : ~Flying(f)'
    PROVE  Answers'
<1>1. \A l \in Link' : Opened(l)' => \A i \in 1..Len(Box(l)') : FALSE
  BY DEF Flying, InBoxes
<1>2. Once'
  BY <1>1 DEF Once, BoxesOnce, Flying
<1>3. NoneNew
  BY <1>2 DEF NoneNew
<1>4. Fresh' /\ Alone'
  BY <1>3, FreshKept, AloneKept DEF Answers
<1>5. Cover'
  <2>1. PICK g \in [Requests -> Frame] : TRUE
    BY DEF Answers, Cover
  <2>. QED
    BY <2>1 DEF Cover, Frame
<1>. QED
  BY <1>2, <1>4, <1>5 DEF Answers

\* One run takes a step.
LEMMA RunAges ==
    ASSUME NEW r \in UnderWay, Others(r),
           \/ run'[r].pc = "error"
           \/ run'[r].step = run[r].step /\ (Owed(run[r].pc) => Owed(run'[r].pc))
    PROVE  Ages
<1>1. r \in Requests /\ run[r].pc \notin {"idle", "done", "error"}
  BY DEF UnderWay
<1>2. \A q \in Requests, s \in Nat : Past(q, s) => Past(q, s)'
  <2>. SUFFICES ASSUME NEW q \in Requests, NEW s \in Nat, Past(q, s) PROVE Past(q, s)'
    OBVIOUS
  <2>1. CASE q = r
    BY <1>1, <2>1 DEF Past
  <2>2. CASE q # r
    BY <2>2 DEF Past, Others
  <2>. QED
    BY <2>1, <2>2
<1>3. UnderWay' \subseteq UnderWay
  BY <1>1 DEF UnderWay, Others
<1>. QED
  BY <1>2, <1>3 DEF Ages, Others, UnderWay

LEMMA StillAges ==
    ASSUME run' = run
    PROVE  Ages
  BY DEF Ages, Past, UnderWay

LEMMA RunCalm ==
    ASSUME Sound, Kept, Once, NEW r \in UnderWay, Others(r), loop' = loop, met' = met,
           Narrows, BoxesShrink,
           run'[r].pc = "wait" => run'[r].on = queues[0][Result],
           \/ run'[r].pc = "error" /\ ~Owed(run[r].pc)
           \/ run'[r].step = run[r].step /\ (Owed(run[r].pc) => Owed(run'[r].pc))
    PROVE  Calm
<1>1. Ages
  BY RunAges
<1>2. WaitsNarrow
  BY DEF WaitsNarrow, RunsNarrow, LoopNarrows, Others
<1>3. NoneNew
  BY <1>2, StillFlying
<1>. QED
  BY <1>1, <1>3 DEF Calm, Others, UnderWay

LEMMA LoopCalm ==
    ASSUME Sound, Kept, Once, run' = run, met' = met, LoopNarrows,
           Carrying(loop'[1].pc) => Carrying(loop[1].pc) /\ loop'[1].cur = loop[1].cur,
           Narrows, BoxesShrink
    PROVE  Calm
<1>1. Ages
  BY StillAges
<1>2. WaitsNarrow
  BY DEF WaitsNarrow, RunsNarrow
<1>3. NoneNew
  BY <1>2, StillFlying
<1>. QED
  BY <1>1, <1>3 DEF Calm

-----------------------------------------------------------------------------
(* The steps that send or take a frame, or give up a wait for one.         *)

LEMMA RootForwardsAnswers ==
    ASSUME Sound, Answers, last = 1, NEW r \in Requests, RootForwards(r)
    PROVE  Answers'
<1>. DEFINE l == writers[0][Edge(0)]
            f == <<r, run[r].step>>
<1>1. /\ Sound' /\ Kept /\ Others(r) /\ run[r].pc = "send"
      /\ run'[r].step = run[r].step /\ run'[r].pc \in {"read", "blocked"} /\ Holds(l, 0, Edge(0))
      /\ f \in Frame /\ run[r].step \in Nat
      /\ Posted(l, 1, Append(links[l].inbox[1], f)) \/ UNCHANGED channels
      /\ loop' = loop /\ met' = met
  BY RootForwardsSound DEF RootForwards, Frame, history
<1>2. Owed(run'[r].pc) /\ ~Owed(run[r].pc) /\ r \in UnderWay
  BY <1>1 DEF Owed, UnderWay
<1>3. ~Flying(f)
  BY <1>1, <1>2 DEF Answers, Fresh, Past
<1>4. WaitsNarrow
  BY <1>1 DEF WaitsNarrow, RunsNarrow, LoopNarrows, Others
<1>5. l \in Link /\ (links[l].key = Result <=> 1 = 0) /\ f = Awaited(r)' /\ f = Awaited(r)
  BY <1>1, Two DEF Holds, Awaited
<1>6. Ages
  BY <1>1, <1>2, RunAges
<1>. HIDE DEF f, l
<1>7. (\A x : Flying(x)' => Flying(x) \/ x = f) /\ Once'
  <2>1. CASE Posted(l, 1, Append(links[l].inbox[1], f))
    <3>1. BoxesOnce /\ ~InBoxes(f) /\ (Carrying(loop[1].pc) => ~InBoxes(loop[1].cur) /\ loop[1].cur # f)
      BY <1>3 DEF Answers, Once, Flying
    <3>2. (\A x : InBoxes(x)' => InBoxes(x) \/ x = f) /\ BoxesOnce'
      BY <1>1, <1>4, <1>5, <2>1, <3>1, BoxGrows
    <3>3. Carrying(loop'[1].pc) => ~InBoxes(loop[1].cur)'
      BY <1>1, <3>1, <3>2
    <3>4. Once'
      BY <1>1, <3>2, <3>3 DEF Once, InBoxes
    <3>. QED
      BY <1>1, <3>2, <3>4 DEF Flying
  <2>2. CASE UNCHANGED channels
    <3>1. NoneNew
      BY <1>1, <1>4, <2>2, StillNarrows, StillFlying DEF Answers
    <3>. QED
      BY <3>1 DEF NoneNew
  <2>. QED
    BY <1>1, <2>1, <2>2
<1>8. Fresh'
  <2>. SUFFICES ASSUME NEW q \in Requests, NEW s \in Nat, Flying(<<q, s>>)' PROVE Past(q, s)'
    BY DEF Fresh
  <2>1. CASE Flying(<<q, s>>)
    BY <1>6, <2>1 DEF Answers, Fresh, Ages
  <2>2. CASE <<q, s>> = f
    BY <1>1, <1>2, <2>2 DEF Past, f
  <2>. QED
    BY <1>7, <2>1, <2>2
<1>9. Cover'
  <2>1. PICK g \in [Requests -> Frame] :
          \A x \in Frame : Flying(x) => \E q \in Requests : Owed(run[q].pc) /\ g[q] = x
    BY DEF Answers, Cover
  <2>2. [g EXCEPT ![r] = f] \in [Requests -> Frame] /\ [g EXCEPT ![r] = f][r] = f
    BY <1>1, <2>1
  <2>3. ASSUME NEW x \in Frame, Flying(x)'
        PROVE  \E q \in Requests : Owed(run'[q].pc) /\ [g EXCEPT ![r] = f][q] = x
    <3>1. CASE x = f
      BY <1>2, <2>2, <3>1
    <3>2. CASE x # f
      <4>1. PICK q \in Requests : Owed(run[q].pc) /\ g[q] = x
        BY <1>7, <2>1, <2>3, <3>2
      <4>2. q # r
        BY <1>2, <4>1
      <4>. QED
        BY <1>1, <2>1, <4>1, <4>2 DEF Others
    <3>. QED
      BY <3>1, <3>2
  <2>. QED
    BY <2>2, <2>3 DEF Cover, Frame
<1>10. Alone'
  <2>. SUFFICES ASSUME NEW p \in UnderWay' \ met'
                PROVE  /\ \A q \in UnderWay' : q = p
                       /\ \A x \in Frame : Flying(x)' => x = Awaited(p)'
    BY DEF Alone, Frame
  <2>1. p \in UnderWay \ met /\ UnderWay' \subseteq UnderWay
    BY <1>1, <1>6 DEF Ages
  <2>2. (\A q \in UnderWay : q = p) /\ p = r /\ \A x \in Frame : Flying(x) => x = Awaited(r)
    BY <1>2, <2>1 DEF Answers, Alone
  <2>. QED
    BY <1>5, <1>7, <2>1, <2>2
<1>. QED
  BY <1>7, <1>8, <1>9, <1>10 DEF Answers

LEMMA LoopPushesAnswers ==
    ASSUME Sound, Answers, last = 1, LoopPushes(1)
    PROVE  Answers'
<1>. DEFINE l == writers[1][Result]
            f == loop[1].cur
<1>1. /\ Kept /\ loop[1].pc = "push" /\ loop'[1].pc \in {"read", "blocked"}
      /\ Holds(l, 1, Result)
      /\ Posted(l, 0, Append(links[l].inbox[0], f)) \/ UNCHANGED channels
      /\ run' = run /\ met' = met
  BY Two, LoopPushesSound DEF LoopPushes, history
<1>2. Carrying(loop[1].pc) /\ ~Carrying(loop'[1].pc)
  BY <1>1 DEF Carrying
<1>3. WaitsNarrow
  BY <1>1 DEF WaitsNarrow, RunsNarrow, LoopNarrows
<1>4. l \in Link /\ (links[l].key = Result <=> 0 = 0)
  BY <1>1 DEF Holds
<1>5. BoxesOnce /\ ~InBoxes(f) /\ Flying(f)
  BY <1>2 DEF Answers, Once, Flying
<1>. HIDE DEF l, f
<1>6. NoneNew
  <2>1. CASE Posted(l, 0, Append(links[l].inbox[0], f))
    <3>1. (\A x : InBoxes(x)' => InBoxes(x) \/ x = f) /\ BoxesOnce'
      BY <1>1, <1>3, <1>4, <1>5, <2>1, BoxGrows
    <3>. QED
      BY <1>2, <1>5, <3>1 DEF NoneNew, Once, Flying
  <2>2. CASE UNCHANGED channels
    BY <1>1, <1>2, <1>3, <2>2, StillNarrows, StillFlying DEF Answers
  <2>. QED
    BY <1>1, <2>1, <2>2
<1>. QED
  BY <1>1, <1>6, StillAges, CalmAnswers DEF Calm

LEMMA LoopTakesAnswers ==
    ASSUME Sound, Answers, last = 1, LoopTakes(1)
    PROVE  Answers'
<1>. DEFINE l == loop[1].on
            f == Head(links[l].inbox[1])
<1>1. /\ Kept /\ loop[1].pc = "wait" /\ Holds(l, 1, Edge(0))
      /\ links[l].inbox[1] # <<>> /\ Posted(l, 1, Tail(links[l].inbox[1]))
      /\ \/ loop'[1].pc = "push" /\ loop'[1].cur = f
         \/ loop'[1].pc = "read"
      /\ run' = run /\ met' = met
  BY Two, LoopTakesSound DEF LoopTakes, history
<1>2. l \in Link /\ links[l].key = Edge(0) /\ (links[l].key = Result <=> 1 = 0) /\ Opened(l)
  BY <1>1, Two DEF Holds, Opened
<1>3. WaitsNarrow
  BY <1>1 DEF WaitsNarrow, RunsNarrow, LoopNarrows
<1>. HIDE DEF l
<1>4. InBoxes(f) /\ (\A x : InBoxes(x)' => InBoxes(x) /\ x # f) /\ BoxesOnce'
  BY <1>1, <1>2, <1>3, BoxShrinks DEF Answers, Once
<1>. HIDE DEF f
<1>5. Carrying(loop'[1].pc) => loop'[1].cur = f
  BY <1>1 DEF Carrying
<1>6. NoneNew
  <2>1. \A x : Flying(x)' => Flying(x)
    BY <1>4, <1>5 DEF Flying
  <2>2. Once'
    <3>1. Carrying(loop'[1].pc) => ~InBoxes(loop[1].cur)'
      BY <1>4, <1>5
    <3>. QED
      BY <1>4, <1>5, <3>1 DEF Once, InBoxes
  <2>. QED
    BY <2>1, <2>2 DEF NoneNew
<1>. QED
  BY <1>1, <1>6, StillAges, CalmAnswers DEF Calm

LEMMA RootTakesAnswers ==
    ASSUME Sound, Answers, wrong \subseteq met, last = 1, NEW r \in Requests, RootTakes(r)
    PROVE  Answers' /\ wrong' \subseteq met'
<1>. DEFINE l == run[r].on
            f == Head(links[l].inbox[0])
<1>1. /\ Sound' /\ Kept /\ Others(r) /\ run[r].pc = "wait" /\ run'[r].pc \in {"prefill", "done"}
      /\ Holds(l, 0, Result) /\ links[l].inbox[0] # <<>>
      /\ Posted(l, 0, Tail(links[l].inbox[0]))
      /\ run'[r].pc = "prefill" => run'[r].step = run[r].step + 1
      /\ wrong' = IF f # <<r, run[r].step>> THEN wrong \cup {r} ELSE wrong
      /\ loop' = loop /\ met' = met
  BY RootTakesSound DEF RootTakes
<1>2. l \in Link /\ links[l].key = Result /\ (links[l].key = Result <=> 0 = 0) /\ Opened(l)
  BY <1>1, Two DEF Holds, Opened
<1>3. WaitsNarrow
  BY <1>1 DEF WaitsNarrow, RunsNarrow, LoopNarrows, Others
<1>4. Owed(run[r].pc) /\ r \in UnderWay
  BY <1>1 DEF Owed, UnderWay
<1>. HIDE DEF l
<1>5. InBoxes(f) /\ f \in Frame /\ (\A x : InBoxes(x)' => InBoxes(x) /\ x # f) /\ BoxesOnce'
  BY <1>1, <1>2, <1>3, BoxShrinks DEF Answers, Once
<1>. HIDE DEF f
<1>6. /\ \A x : Flying(x)' => Flying(x) /\ x # f
      /\ Once' /\ Flying(f)
  <2>1. Carrying(loop[1].pc) => ~InBoxes(loop[1].cur) /\ loop[1].cur # f
    BY <1>5 DEF Answers, Once
  <2>2. Carrying(loop'[1].pc) => ~InBoxes(loop[1].cur)'
    BY <1>1, <1>5, <2>1
  <2>3. Once'
    BY <1>1, <1>5, <2>2 DEF Once, InBoxes
  <2>. QED
    BY <1>1, <1>5, <2>1, <2>3 DEF Flying
<1>7. Fresh'
  <2>. SUFFICES ASSUME NEW q \in Requests, NEW s \in Nat, Flying(<<q, s>>)' PROVE Past(q, s)'
    BY DEF Fresh
  <2>1. Past(q, s)
    BY <1>6 DEF Answers, Fresh
  <2>2. CASE q = r
    <3>1. run[r].step \in Nat
      BY AtRoot, RunFields, PipelineAssumption
    <3>. QED
      BY <1>1, <2>1, <2>2, <3>1 DEF Past
  <2>3. CASE q # r
    BY <1>1, <2>1, <2>3 DEF Past, Others
  <2>. QED
    BY <2>2, <2>3
<1>8. Cover'
  <2>1. PICK g \in [Requests -> Frame] :
          \A x \in Frame : Flying(x) => \E q \in Requests : Owed(run[q].pc) /\ g[q] = x
    BY DEF Answers, Cover
  <2>2. PICK q \in Requests : Owed(run[q].pc) /\ g[q] = f
    BY <1>5, <1>6, <2>1
  <2>. DEFINE h == [g EXCEPT ![q] = g[r]]
  <2>3. h \in [Requests -> Frame] /\ h[q] = g[r] /\ \A p \in Requests : p # q => h[p] = g[p]
    BY <2>1
  <2>. HIDE DEF h
  <2>4. ASSUME NEW x \in Frame, Flying(x)'
        PROVE  \E p \in Requests : Owed(run'[p].pc) /\ h[p] = x
    <3>1. PICK p \in Requests : Owed(run[p].pc) /\ g[p] = x
      BY <1>6, <2>1, <2>4
    <3>2. p # q
      BY <1>6, <2>2, <2>4, <3>1
    <3>3. CASE p # r
      BY <1>1, <2>3, <3>1, <3>2, <3>3 DEF Others
    <3>4. CASE p = r
      BY <1>1, <2>2, <2>3, <3>1, <3>2, <3>4 DEF Others
    <3>. QED
      BY <3>3, <3>4
  <2>. QED
    BY <2>3, <2>4 DEF Cover, Frame
<1>9. Alone'
  <2>. SUFFICES ASSUME NEW p \in UnderWay' \ met'
                PROVE  /\ \A q \in UnderWay' : q = p
                       /\ \A x \in Frame : ~Flying(x)'
    BY DEF Alone, Frame
  <2>1. UnderWay' \subseteq UnderWay
    BY <1>1, <1>4 DEF UnderWay, Others
  <2>2. (\A q \in UnderWay : q = p) /\ p = r /\ \A x \in Frame : Flying(x) => x = Awaited(r)
    BY <1>1, <1>4, <2>1 DEF Answers, Alone
  <2>. QED
    BY <1>5, <1>6, <2>1, <2>2
<1>10. wrong' \subseteq met'
  <2>1. r \notin met => f = <<r, run[r].step>>
    BY <1>4, <1>5, <1>6 DEF Answers, Alone, Awaited
  <2>. QED
    BY <1>1, <2>1
<1>. QED
  BY <1>6, <1>7, <1>8, <1>9, <1>10 DEF Answers

\* When nothing is under way that could still answer, nothing flies.
LEMMA StuckEmpty ==
    ASSUME Sound, last = 1, Stuck
    PROVE  \A f : ~Flying(f)
<1>1. 1 \in Loops /\ None \notin Link /\ Edge(1 - 1) = Edge(0)
  BY Two, LinkNames DEF Sound
<1>2. \/ loop[1].pc = "dead"
      \/ /\ loop[1].pc \in {"read", "wait", "blocked"}
         /\ loop[1].pc # "blocked" => loop[1].on \in {None, queues[1][Edge(0)]}
         /\ Frames(1, queues[1][Edge(0)]) = <<>>
  BY <1>1 DEF Stuck
<1>3. /\ Frames(0, queues[0][Result]) = <<>> /\ \A l \in Link : ~Coming(l)
      /\ \A r \in Requests : Frames(0, run[r].on) = <<>>
  BY DEF Stuck, Settled, Coming
<1>4. \A l \in Link : Opened(l) => Box(l) = <<>>
  <2>. SUFFICES ASSUME NEW l \in Link, Opened(l) PROVE Box(l) = <<>>
    OBVIOUS
  <2>1. CASE links[l].key = Result
    BY <1>1, <1>3, <2>1, Two DEF Opened, Frames, Box
  <2>2. CASE links[l].key = Edge(0)
    <3>1. queues[1][Edge(0)] = l /\ loop[1].pc # "dead" /\ links[l].key # Result
      BY <1>1, <1>2, <1>3, <2>2, Two DEF Opened
    <3>. QED
      BY <1>1, <1>2, <3>1 DEF Frames, Box
  <2>. QED
    BY <2>1, <2>2 DEF Opened
<1>5. \A f : ~InBoxes(f)
  <2>. SUFFICES ASSUME NEW f, InBoxes(f) PROVE FALSE
    OBVIOUS
  <2>1. PICK l \in Link : Opened(l) /\ \E i \in 1..Len(Box(l)) : Box(l)[i] = f
    BY DEF InBoxes
  <2>2. Len(Box(l)) = 0
    BY <1>4, <2>1
  <2>. QED
    BY <2>1, <2>2
<1>6. ~Carrying(loop[1].pc)
  BY <1>2 DEF Carrying
<1>. QED
  BY <1>5, <1>6 DEF Flying

\* A run that nothing can answer any more ends.
LEMMA GivesUp ==
    ASSUME Sound, Sound', Kept, Answers, last = 1, NEW r \in UnderWay, Others(r),
           UNCHANGED channels, loop' = loop, met' = met, run'[r].pc = "error", Stuck
    PROVE  Answers'
<1>1. WaitsNarrow
  BY DEF WaitsNarrow, RunsNarrow, LoopNarrows, Others
<1>2. NoneNew
  BY <1>1, StillNarrows, StillFlying DEF Answers
<1>3. \A f : ~Flying(f)'
  BY <1>2, StuckEmpty DEF NoneNew
<1>. QED
  BY <1>3, RunAges, EmptyAnswers

LEMMA SubmitAnswers ==
    ASSUME Sound, Answers, NEW r \in Requests, Submit(r)
    PROVE  Answers' /\ met \subseteq met'
<1>1. /\ Sound' /\ Kept /\ UNCHANGED channels /\ Others(r) /\ loop' = loop
      /\ run[r].pc = "idle" /\ run'[r].pc = "prefill"
      /\ met' = IF UnderWay = {} THEN met ELSE met \cup UnderWay \cup {r}
  BY Submits DEF Submit
<1>2. run[r].step = 0
  BY <1>1 DEF Sound, RunsOK, RunOK, Quiet
<1>3. WaitsNarrow
  BY <1>1 DEF WaitsNarrow, RunsNarrow, LoopNarrows, Others
<1>4. NoneNew
  BY <1>1, <1>3, StillNarrows, StillFlying DEF Answers
<1>5. \A q \in Requests, s \in Nat : Past(q, s) => Past(q, s)'
  <2>. SUFFICES ASSUME NEW q \in Requests, NEW s \in Nat, Past(q, s) PROVE Past(q, s)'
    OBVIOUS
  <2>1. q # r
    BY <1>1, <1>2 DEF Past, Owed
  <2>. QED
    BY <1>1, <2>1 DEF Past, Others
<1>6. \A q \in Requests : Owed(run[q].pc) => Owed(run'[q].pc)
  BY <1>1 DEF Owed, Others
<1>7. Cover'
  <2>1. PICK g \in [Requests -> Frame] :
          \A f \in Frame : Flying(f) => \E q \in Requests : Owed(run[q].pc) /\ g[q] = f
    BY DEF Answers, Cover
  <2>2. \A f \in Frame : Flying(f)' => \E q \in Requests : Owed(run'[q].pc) /\ g[q] = f
    BY <1>4, <1>6, <2>1 DEF NoneNew
  <2>. QED
    BY <2>1, <2>2 DEF Cover, Frame
<1>8. Alone'
  <2>. SUFFICES ASSUME NEW p \in UnderWay' \ met'
                PROVE  /\ \A q \in UnderWay' : q = p
                       /\ \A f \in Frame : ~Flying(f)'
    BY DEF Alone, Frame
  <2>1. UnderWay' \subseteq UnderWay \cup {r}
    BY <1>1 DEF UnderWay, Others
  <2>2. UnderWay = {}
    BY <1>1, <2>1
  <2>3. \A q \in Requests : ~Owed(run[q].pc)
    BY <2>2 DEF UnderWay, Owed
  <2>4. \A f \in Frame : ~Flying(f)
    BY <2>3 DEF Answers, Cover
  <2>. QED
    BY <1>4, <2>1, <2>2, <2>4 DEF NoneNew
<1>9. Fresh' /\ Once' /\ met \subseteq met'
  BY <1>1, <1>4, <1>5 DEF NoneNew, Fresh, Answers
<1>. QED
  BY <1>7, <1>8, <1>9 DEF Answers

LEMMA AnswersStep ==
    ASSUME Sound, wrong \subseteq met, Answers, last = 1, [Next]_vars, ~early'
    PROVE  Answers' /\ wrong' \subseteq met'
<1>1. Sound' /\ Kept /\ Once
  BY StepSound DEF Answers
<1>2. Loops = {1}
  BY Two
<1>3. ASSUME Calm, wrong' = wrong
      PROVE  Answers' /\ wrong' \subseteq met'
  BY <1>3, CalmAnswers DEF Calm
<1>4. ASSUME NEW r \in Requests, Submit(r)
      PROVE  Answers' /\ wrong' \subseteq met'
  <2>1. wrong' = wrong
    BY <1>4 DEF Submit
  <2>. QED
    BY <1>4, <2>1, SubmitAnswers
<1>5. ASSUME NEW r \in Requests, Collect(r)
      PROVE  Answers' /\ wrong' \subseteq met'
  <2>1. /\ UNCHANGED channels /\ run' = run /\ loop' = loop /\ wrong' = wrong /\ met' = met
        /\ LoopNarrows
    BY <1>5 DEF Collect, history, LoopNarrows
  <2>2. Calm
    BY <1>1, <2>1, StillNarrows, LoopCalm
  <2>. QED
    BY <1>3, <2>1, <2>2
<1>6. ASSUME NEW r \in Requests, RootPrefills(r) \/ RootConnects(r)
      PROVE  Answers' /\ wrong' \subseteq met'
  <2>1. /\ UNCHANGED channels /\ Others(r) /\ ~Owed(run[r].pc) /\ r \in UnderWay
        /\ run'[r].pc # "wait" /\ (run'[r].pc = "error" \/ run'[r].step = run[r].step)
    BY <1>6, RootPrefillsSound, RootConnectsSound DEF RootPrefills, RootConnects, Owed, UnderWay
  <2>2. loop' = loop /\ wrong' = wrong /\ met' = met
    BY <1>6 DEF RootPrefills, RootConnects, history
  <2>3. Calm
    BY <1>1, <2>1, <2>2, StillNarrows, RunCalm
  <2>. QED
    BY <1>3, <2>2, <2>3
<1>7. ASSUME NEW r \in Requests, RootDials(r)
      PROVE  Answers' /\ wrong' \subseteq met'
  <2>1. /\ Others(r) /\ ~Owed(run[r].pc) /\ run'[r].pc # "wait" /\ r \in UnderWay
        /\ run'[r].pc = "error" \/ run'[r].step = run[r].step
        /\ (\E n \in Nat : Dialled(0, 1, Edge(0), n)) \/ UNCHANGED channels
    BY <1>7, RootDialsSound DEF RootDials, Owed, UnderWay
  <2>2. loop' = loop /\ wrong' = wrong /\ met' = met
    BY <1>7 DEF RootDials, history
  <2>3. Narrows /\ BoxesShrink
    BY <2>1, StillNarrows, DialledNarrows
  <2>4. Calm
    BY <1>1, <2>1, <2>2, <2>3, RunCalm
  <2>. QED
    BY <1>3, <2>2, <2>4
<1>8. ASSUME NEW r \in Requests, RootForwards(r)
      PROVE  Answers' /\ wrong' \subseteq met'
  <2>1. wrong' = wrong /\ met' = met
    BY <1>8 DEF RootForwards, history
  <2>. QED
    BY <1>8, <2>1, RootForwardsAnswers
<1>9. ASSUME NEW r \in Requests, RootTaps(r)
      PROVE  FALSE
  BY <1>9, RootTapsSound
<1>10. ASSUME NEW r \in Requests, RootWaits(r) \/ RootResumes(r)
       PROVE  Answers' /\ wrong' \subseteq met'
  <2>1. /\ UNCHANGED channels /\ Others(r) /\ r \in UnderWay
        /\ run'[r].pc = "wait" => run'[r].on = queues[0][Result]
        /\ Owed(run'[r].pc) /\ run'[r].step = run[r].step
    BY <1>10, RootWaitsSound, RootResumesSound DEF AnswerKey, Owed, UnderWay
  <2>2. loop' = loop /\ wrong' = wrong /\ met' = met
    BY <1>10 DEF RootWaits, RootResumes, history
  <2>3. Calm
    BY <1>1, <2>1, <2>2, StillNarrows, RunCalm
  <2>. QED
    BY <1>3, <2>2, <2>3
<1>11. ASSUME NEW r \in Requests, RootTakes(r)
       PROVE  Answers' /\ wrong' \subseteq met'
  BY <1>11, RootTakesAnswers
<1>12. ASSUME NEW r \in Requests, RootExpires(r)
       PROVE  Answers' /\ wrong' \subseteq met'
  <2>1. loop' = loop /\ wrong' = wrong /\ met' = met /\ Stuck
    BY <1>12 DEF RootExpires
  <2>2. Others(r) /\ UNCHANGED channels /\ run'[r].pc = "error" /\ r \in UnderWay
    BY <1>12, RootExpiresSound DEF Reading, UnderWay
  <2>. QED
    BY <1>1, <2>1, <2>2, GivesUp
<1>13. ASSUME NEW r \in Requests, RootSendRaises(r)
       PROVE  Answers' /\ wrong' \subseteq met'
  <2>1. loop' = loop /\ wrong' = wrong /\ met' = met
    BY <1>13 DEF RootSendRaises
  <2>2. /\ Others(r) /\ UNCHANGED channels /\ run'[r].pc = "error" /\ r \in UnderWay
        /\ run[r].pc = "send" \/ (run[r].pc = "blocked" /\ Stuck)
    BY <1>13, RootSendRaisesSound DEF UnderWay
  <2>3. CASE run[r].pc = "send"
    <3>1. ~Owed(run[r].pc)
      BY <2>3 DEF Owed
    <3>2. Calm
      BY <1>1, <2>1, <2>2, <3>1, StillNarrows, RunCalm
    <3>. QED
      BY <1>3, <2>1, <3>2
  <2>4. CASE Stuck
    BY <1>1, <2>1, <2>2, <2>4, GivesUp
  <2>. QED
    BY <2>2, <2>3, <2>4
<1>14. ASSUME NEW r \in Requests, EngineExpires(r)
       PROVE  FALSE
  BY <1>14 DEF EngineExpires
<1>15. ASSUME run' = run, wrong' = wrong, met' = met, Narrows, BoxesShrink,
              loop'[1].pc = "wait" => loop'[1].on = queues[1][Edge(0)],
              loop[1].pc = "dead" => loop'[1].pc = "dead",
              Carrying(loop'[1].pc) => Carrying(loop[1].pc) /\ loop'[1].cur = loop[1].cur
       PROVE  Answers' /\ wrong' \subseteq met'
  <2>1. LoopNarrows
    BY <1>15 DEF LoopNarrows
  <2>2. Calm
    BY <1>1, <1>15, <2>1, LoopCalm
  <2>. QED
    BY <1>3, <1>15, <2>2
<1>16. CASE LoopConnects(1)
  <2>1. /\ UNCHANGED channels /\ loop'[1].cur = loop[1].cur
        /\ loop[1].pc # "dead" /\ loop'[1].pc # "wait"
        /\ Carrying(loop'[1].pc) => Carrying(loop[1].pc)
    BY <1>2, <1>16, LoopConnectsSound DEF Carrying
  <2>2. run' = run /\ wrong' = wrong /\ met' = met
    BY <1>16 DEF LoopConnects, history
  <2>. QED
    BY <1>15, <2>1, <2>2, StillNarrows
<1>17. CASE LoopDials(1)
  <2>1. /\ loop'[1].cur = loop[1].cur /\ loop[1].pc # "dead" /\ loop'[1].pc # "wait"
        /\ Carrying(loop'[1].pc) => Carrying(loop[1].pc)
        /\ \/ \E p \in Ranks, c \in Keys, n \in Nat : Dialled(1, p, c, n)
           \/ UNCHANGED channels
    BY <1>2, <1>17, LoopDialsSound DEF LoopDials, Carrying
  <2>2. run' = run /\ wrong' = wrong /\ met' = met
    BY <1>17 DEF LoopDials, history
  <2>3. Narrows /\ BoxesShrink
    BY <2>1, StillNarrows, DialledNarrows
  <2>. QED
    BY <1>15, <2>1, <2>2, <2>3
<1>18. CASE LoopConnected(1) \/ LoopAsksAgain(1) \/ LoopResumes(1)
  <2>1. UNCHANGED channels /\ loop'[1].pc = "read" /\ loop[1].pc # "dead"
    BY <1>2, <1>18, LoopConnectedSound, LoopAsksAgainSound, LoopResumesSound
  <2>2. run' = run /\ wrong' = wrong /\ met' = met
    BY <1>18 DEF LoopConnected, LoopAsksAgain, LoopResumes, history
  <2>. QED
    BY <1>15, <2>1, <2>2, StillNarrows DEF Carrying
<1>19. CASE LoopWaits(1)
  <2>1. /\ UNCHANGED channels /\ loop'[1].on = queues[1][Edge(0)] /\ loop'[1].pc = "wait"
        /\ loop[1].pc # "dead"
    BY <1>2, <1>19, Two, LoopWaitsSound
  <2>2. run' = run /\ wrong' = wrong /\ met' = met
    BY <1>19 DEF LoopWaits, history
  <2>. QED
    BY <1>15, <2>1, <2>2, StillNarrows DEF Carrying
<1>20. CASE LoopTakes(1)
  <2>1. wrong' = wrong /\ met' = met
    BY <1>20 DEF LoopTakes, history
  <2>. QED
    BY <1>20, <2>1, LoopTakesAnswers
<1>21. CASE LoopPushes(1)
  <2>1. wrong' = wrong /\ met' = met
    BY <1>21 DEF LoopPushes, history
  <2>. QED
    BY <1>21, <2>1, LoopPushesAnswers
<1>22. CASE LoopSendRaises(1)
  <2>1. UNCHANGED channels /\ loop'[1].pc = "dead"
    BY <1>2, <1>22, LoopSendRaisesSound
  <2>2. run' = run /\ wrong' = wrong /\ met' = met
    BY <1>22 DEF LoopSendRaises, history
  <2>. QED
    BY <1>15, <2>1, <2>2, StillNarrows DEF Carrying
<1>23. CASE WorkerCloses(1)
  <2>1. Closed(1) /\ loop'[1].pc = "dead"
    BY <1>2, <1>23, WorkerClosesSound
  <2>2. run' = run /\ wrong' = wrong /\ met' = met
    BY <1>23 DEF WorkerCloses, history
  <2>3. Narrows /\ BoxesShrink
    BY <1>1, <2>1, ClosedNarrows
  <2>. QED
    BY <1>15, <2>1, <2>2, <2>3 DEF Carrying
<1>24. ASSUME run' = run, loop' = loop, wrong' = wrong, met' = met, Narrows, BoxesShrink
       PROVE  Answers' /\ wrong' \subseteq met'
  <2>1. LoopNarrows
    BY <1>24 DEF LoopNarrows
  <2>2. Calm
    BY <1>1, <1>24, <2>1, LoopCalm
  <2>. QED
    BY <1>3, <1>24, <2>2
<1>25. ASSUME NEW l \in Link, Handshake(l) \/ Disconnected(l) \/ LinkBreaks(l)
       PROVE  Answers' /\ wrong' \subseteq met'
  <2>1. run' = run /\ loop' = loop /\ wrong' = wrong /\ met' = met
    BY <1>25 DEF Handshake, Disconnected, LinkBreaks, history
  <2>2. Narrows /\ BoxesShrink
    BY <1>1, <1>25, HandshakeSound, DisconnectedSound, LinkBreaksSound,
       GreetedNarrows, EndedNarrows, BrokenNarrows
  <2>. QED
    BY <1>24, <2>1, <2>2
<1>26. CASE UNCHANGED vars
  <2>1. UNCHANGED channels /\ run' = run /\ loop' = loop /\ wrong' = wrong /\ met' = met
    BY <1>26 DEF vars, history
  <2>. QED
    BY <1>24, <2>1, StillNarrows
<1>27. ASSUME NEW r \in Requests, RunSteps(r)
       PROVE  Answers' /\ wrong' \subseteq met'
  BY <1>6, <1>7, <1>8, <1>9, <1>10, <1>11, <1>27 DEF RunSteps
<1>28. ASSUME NEW k \in Loops, LoopSteps(k) \/ WorkerCloses(k)
       PROVE  Answers' /\ wrong' \subseteq met'
  <2>1. k = 1
    BY <1>2
  <2>. QED
    BY <1>16, <1>17, <1>18, <1>19, <1>20, <1>21, <1>22, <1>23, <1>28, <2>1 DEF LoopSteps
<1>. QED
  BY <1>4, <1>5, <1>10, <1>12, <1>13, <1>14, <1>25, <1>26, <1>27, <1>28 DEF Next

\* What no step does, in rings of any size.
LEMMA Histories ==
    ASSUME [Next]_vars
    PROVE  /\ early => early'
           /\ faults' = faults \/ faults' = faults + 1
           /\ met \subseteq met'
           /\ wrong' = wrong \/ \E r \in Requests : RootTakes(r)
<1>1. ASSUME NEW r \in Requests, Submit(r) \/ Collect(r) \/ EngineExpires(r)
      PROVE  /\ early => early'
             /\ faults' = faults /\ met \subseteq met' /\ wrong' = wrong
  BY <1>1 DEF Submit, Collect, EngineExpires, history
<1>2. ASSUME NEW r \in Requests,
             RunSteps(r) \/ RootResumes(r) \/ RootSendRaises(r) \/ RootExpires(r)
      PROVE  /\ early => early'
             /\ faults' = faults \/ faults' = faults + 1
             /\ met' = met
             /\ wrong' = wrong \/ RootTakes(r)
  <2>1. CASE RootPrefills(r) \/ RootConnects(r) \/ RootDials(r)
    BY <2>1 DEF RootPrefills, RootConnects, RootDials, Fault, history
  <2>2. CASE RootForwards(r)
    BY <2>2 DEF RootForwards, Fault, history
  <2>3. CASE RootTaps(r) \/ RootWaits(r) \/ RootResumes(r)
    BY <2>3 DEF RootTaps, RootWaits, RootResumes, history
  <2>4. CASE RootTakes(r)
    <3>1. UNCHANGED <<early, faults, met>>
      BY <2>4 DEF RootTakes
    <3>. QED
      BY <2>4, <3>1
  <2>5. CASE RootSendRaises(r)
    <3>1. UNCHANGED <<faults, met, wrong>> /\ (early' = early \/ early' = (early \/ ~Stuck))
      BY <2>5 DEF RootSendRaises
    <3>2. ASSUME early' = early
          PROVE  early => early'
      BY <3>2
    <3>3. ASSUME early' = (early \/ ~Stuck)
          PROVE  early => early'
      BY <3>3
    <3>. QED
      BY <3>1, <3>2, <3>3
  <2>6. CASE RootExpires(r)
    BY <2>6 DEF RootExpires
  <2>. QED
    BY <1>2, <2>1, <2>2, <2>3, <2>4, <2>5, <2>6 DEF RunSteps
<1>3. ASSUME NEW k \in Loops, LoopSteps(k) \/ WorkerCloses(k)
      PROVE  /\ UNCHANGED history
             /\ faults' = faults \/ faults' = faults + 1
  BY <1>3 DEF LoopSteps, LoopConnects, LoopDials, LoopConnected, LoopWaits, LoopAsksAgain,
         LoopTakes, LoopPushes, LoopResumes, LoopSendRaises, WorkerCloses, Fault
<1>4. ASSUME NEW l \in Link, Handshake(l) \/ Disconnected(l) \/ LinkBreaks(l)
      PROVE  /\ UNCHANGED history
             /\ faults' = faults \/ faults' = faults + 1
  BY <1>4 DEF Handshake, Disconnected, LinkBreaks, Fault
<1>5. CASE UNCHANGED vars
  BY <1>5 DEF vars, history
<1>. QED
  BY <1>1, <1>2, <1>3, <1>4, <1>5 DEF Next, history

LEMMA AnswersInvStep ==
    ASSUME AnswersInv, [Next]_vars
    PROVE  AnswersInv'
<1>1. Sound /\ Sound' /\ Kept
  BY StepSound DEF AnswersInv
<1>2. ~early' => ~early
  BY Histories
<1>3. CASE early'
  BY <1>1, <1>3 DEF AnswersInv
<1>4. CASE ~early' /\ last = 1
  <2>1. wrong \subseteq met /\ Answers
    BY <1>2, <1>4 DEF AnswersInv
  <2>. QED
    BY <1>1, <1>4, <2>1, AnswersStep DEF AnswersInv
<1>5. CASE ~early' /\ last # 1
  <2>1. wrong \subseteq met
    BY <1>2, <1>5 DEF AnswersInv
  <2>2. \A r \in Requests : ~RootTakes(r)
    BY <1>1, <1>5, RootTakesSound
  <2>3. wrong' = wrong /\ met \subseteq met'
    BY <2>2, Histories
  <2>4. last' # 1
    BY <1>1, <1>5 DEF Kept
  <2>. QED
    BY <1>1, <2>1, <2>3, <2>4 DEF AnswersInv
<1>. QED
  BY <1>3, <1>4, <1>5

LEMMA AnswersInit ==
    ASSUME Init
    PROVE  AnswersInv
<1>1. Sound
  BY InitSound
<1>2. \A r \in Requests : run[r].pc = "idle"
  BY DEF Init, Idle
<1>3. Link = {} /\ loop[1].pc = "boot"
  BY <1>1, Two DEF Init, ChannelsInit, Link, Boot
<1>4. (\A f : ~Flying(f)) /\ Once
  BY <1>3 DEF Flying, InBoxes, Once, BoxesOnce, Carrying
<1>5. Cover
  <2>1. [r \in Requests |-> <<r, 0>>] \in [Requests -> Frame]
    BY DEF Frame
  <2>. QED
    BY <1>4, <2>1 DEF Cover
<1>6. Fresh /\ Alone
  BY <1>2, <1>4 DEF Fresh, Alone, UnderWay
<1>7. wrong \subseteq met
  BY DEF Init
<1>. QED
  BY <1>1, <1>4, <1>5, <1>6, <1>7 DEF AnswersInv, Answers

(* A request whose run overlapped no other's takes in each step the answer *)
(* of that step, whatever ran before it, in rings of any size and for any  *)
(* number of requests, steps, faults and sockets, unless a wait was given  *)
(* up while its answer was due: in a ring of two there are never more      *)
(* frames that could still be taken than runs an answer is to come to, so  *)
(* that none is left when a run starts alone; in a larger ring nothing     *)
(* ever reaches rank 0 on the channel it reads.                            *)
THEOREM PipelineAnswersInStep == Spec => []AnswersInStep
<1>1. Init => AnswersInv
  BY AnswersInit
<1>2. AnswersInv /\ [Next]_vars => AnswersInv'
  BY AnswersInvStep
<1>3. AnswersInv => AnswersInStep
  BY DEF AnswersInv, AnswersInStep
<1>. QED
  BY <1>1, <1>2, <1>3, PTL DEF Spec

-----------------------------------------------------------------------------
(* Where nothing failed, no wait was given up too early and no key has two *)
(* sockets, every socket is the one its ends have in their tables, and an  *)
(* answer flies for each run that one is to come to.                       *)

Clean == last = 1 /\ ~early /\ faults = 0 /\ ~Doubled

Installs(l) ==
    /\ links[l].up /\ queues[links[l].client][links[l].key] = l
    /\ links[l].hello => queues[links[l].server][links[l].key] = l

Whole == serving = Ranks /\ \A l \in Link : Installs(l)

NoErrors ==
    /\ \A r \in Requests : run[r].pc # "error" /\ engine[r] # "error"
    /\ loop[1].pc # "dead"

\* h gives each run that an answer is to come to a frame of its own.
NoLoss ==
    \E h \in [Requests -> Frame] :
        /\ \A r \in Requests : Owed(run[r].pc) => Flying(h[r])
        /\ \A q, r \in Requests : Owed(run[q].pc) /\ Owed(run[r].pc) /\ h[q] = h[r] => q = r

Explained == Whole /\ NoErrors /\ NoLoss

ExplainedInv == AnswersInv /\ (Clean => Explained)

LEMMA CleanBefore ==
    ASSUME AnswersInv, [Next]_vars, Clean'
    PROVE  Clean /\ last' = 1
<1>1. Sound /\ Sound' /\ Kept
  BY StepSound DEF AnswersInv
<1>2. ~early
  BY Histories DEF Clean
<1>3. faults' = faults \/ faults' = faults + 1
  BY Histories
<1>4. faults = 0
  <2>1. faults \in Nat
    BY <1>1, PipelineAssumption DEF Sound, ChannelsOK
  <2>. QED
    BY <1>3, <2>1 DEF Clean
<1>5. ~Doubled
  BY <1>1 DEF Clean, Doubled, Kept
<1>6. last = 1 /\ last' = 1
  BY <1>1 DEF Clean, Kept
<1>. QED
  BY <1>2, <1>4, <1>5, <1>6 DEF Clean

\* Two keys, and no key twice: a dial is not refused.
LEMMA CleanAccepts ==
    ASSUME Sound, Clean, Whole, NEW p \in Ranks
    PROVE  ~Refused(p)
<1>1. \A l \in Link : links[l].key = Result \/ links[l].key = Edge(0)
  <2>. SUFFICES ASSUME NEW l \in Link, links[l].key # Result PROVE links[l].key = Edge(0)
    OBVIOUS
  <2>1. PICK k \in 0..(last - 1) : links[l].key = Edge(k)
    BY EndsByKey DEF Sound
  <2>. QED
    BY <2>1 DEF Clean
<1>2. Link = 1..Len(links) /\ Len(links) \in Nat
  BY LinkNames DEF Sound
<1>3. Len(links) < 3
  <2>. SUFFICES ASSUME Len(links) >= 3 PROVE FALSE
    BY <1>2
  <2>1. 1 \in Link /\ 2 \in Link /\ 3 \in Link
    BY <1>2
  <2>. QED
    BY <1>1, <2>1 DEF Clean, Doubled
<1>. QED
  BY <1>2, <1>3, PipelineAssumption, ChannelsAssumption DEF Refused, Whole

BoxesStay == \A l \in Link : l \in Link' /\ Box(l)' = Box(l)

LEMMA StillWhole ==
    ASSUME Whole, UNCHANGED channels
    PROVE  Whole' /\ BoxesStay
  BY DEF Whole, Installs, BoxesStay, Box, channels, Link

LEMMA DialledWhole ==
    ASSUME Sound, Whole, Clean', NEW p \in Ranks, NEW to \in Ranks, NEW c \in Keys,
           NEW n \in Nat, Dialled(p, to, c, n)
    PROVE  Whole' /\ BoxesStay
<1>1. /\ Link' = Link \cup {n} /\ n \notin Link /\ serving' = serving
      /\ \A l \in Link : links'[l] = links[l]
      /\ links'[n].client = p /\ links'[n].key = c /\ links'[n].up /\ ~links'[n].hello
  BY DEF Dialled
<1>2. \A l \in Link : links[l].key # c
  BY <1>1 DEF Clean, Doubled
<1>3. \A l \in Link : links[l].client \in Ranks /\ links[l].server \in Ranks /\ links[l].key \in Keys
  BY LinkNames, SocketFields DEF Sound
<1>4. \A q \in Ranks, d \in Keys : queues'[q][d] = IF q = p /\ d = c THEN n ELSE queues[q][d]
  BY DEF Dialled
<1>5. \A l \in Link : Installs(l)'
  <2>. SUFFICES ASSUME NEW l \in Link PROVE Installs(l)'
    OBVIOUS
  <2>1. /\ queues'[links[l].client][links[l].key] = queues[links[l].client][links[l].key]
        /\ queues'[links[l].server][links[l].key] = queues[links[l].server][links[l].key]
    BY <1>2, <1>3, <1>4
  <2>2. Installs(l) /\ links'[l] = links[l]
    BY <1>1 DEF Whole
  <2>. QED
    BY <2>1, <2>2 DEF Installs
<1>6. Installs(n)'
  BY <1>1, <1>4 DEF Installs
<1>7. BoxesStay
  BY <1>1 DEF BoxesStay, Box
<1>. QED
  BY <1>1, <1>5, <1>6, <1>7 DEF Whole

LEMMA GreetedWhole ==
    ASSUME Sound, Kept, Whole, Clean, NEW m \in Link, Greeted(m)
    PROVE  Whole' /\ BoxesStay
<1>1. \A l \in Link : links[l].client \in Ranks /\ links[l].server \in Ranks /\ links[l].key \in Keys
  BY LinkNames, SocketFields DEF Sound
<1>2. \A l \in Link : l # m => links[l].key # links[m].key
  BY DEF Clean, Doubled
<1>3. \A q \in Ranks, d \in Keys :
        queues'[q][d] = IF q = links[m].server /\ d = links[m].key THEN m ELSE queues[q][d]
  BY DEF Greeted
<1>4. /\ Link' = Link /\ serving' = serving
      /\ \A l \in Link : /\ links'[l].up = links[l].up /\ links'[l].inbox = links[l].inbox
                         /\ (links'[l].hello <=> links[l].hello \/ l = m)
                         /\ links'[l].client = links[l].client /\ links'[l].key = links[l].key
                         /\ links'[l].server = links[l].server
  BY DEF Greeted, Kept
<1>5. \A l \in Link : Installs(l)'
  <2>. SUFFICES ASSUME NEW l \in Link PROVE Installs(l)'
    OBVIOUS
  <2>1. Installs(l)
    BY DEF Whole
  <2>2. CASE l # m
    <3>1. /\ queues'[links[l].client][links[l].key] = queues[links[l].client][links[l].key]
          /\ queues'[links[l].server][links[l].key] = queues[links[l].server][links[l].key]
      BY <1>1, <1>2, <1>3, <2>2
    <3>. QED
      BY <1>4, <2>1, <2>2, <3>1 DEF Installs
  <2>3. CASE l = m
    <3>1. /\ queues'[links[l].server][links[l].key] = l
          /\ queues'[links[l].client][links[l].key] \in {l, queues[links[l].client][links[l].key]}
      BY <1>1, <1>3, <2>3
    <3>. QED
      BY <1>4, <2>1, <2>3, <3>1 DEF Installs
  <2>. QED
    BY <2>2, <2>3
<1>6. BoxesStay
  BY <1>4 DEF BoxesStay, Box
<1>. QED
  BY <1>4, <1>5, <1>6 DEF Whole

LEMMA PostedWhole ==
    ASSUME Kept, Whole, NEW m, NEW q, NEW box, Posted(m, q, box)
    PROVE  Whole'
<1>1. /\ Link' = Link /\ serving' = serving /\ queues' = queues
      /\ \A l \in Link : /\ (links'[l].up <=> links[l].up) /\ (links'[l].hello <=> links[l].hello)
                         /\ links'[l].client = links[l].client /\ links'[l].key = links[l].key
                         /\ links'[l].server = links[l].server
  BY DEF Posted, Kept
<1>2. \A l \in Link : Installs(l) => Installs(l)'
  BY <1>1 DEF Installs
<1>. QED
  BY <1>1, <1>2 DEF Whole

\* Every box is open.
AllOpen == \A l \in Link : Opened(l)

LEMMA CleanOpen == Sound /\ Clean /\ Whole /\ NoErrors => AllOpen
<1>. SUFFICES ASSUME Sound, Clean, Whole, NoErrors, NEW l \in Link
              PROVE  Opened(l)
  BY DEF AllOpen
<1>1. Installs(l) /\ loop[1].pc # "dead" /\ last = 1
  BY DEF Whole, NoErrors, Clean
<1>2. CASE links[l].key = Result
  <2>1. links[l].server = 0
    BY <1>2, EndsByKey DEF Sound
  <2>. QED
    BY <1>1, <1>2, <2>1 DEF Installs, Opened, Coming
<1>3. CASE links[l].key # Result
  <2>1. PICK k \in 0..(last - 1) : links[l].key = Edge(k)
    BY <1>3, EndsByKey DEF Sound
  <2>2. k = 0 /\ 0 \in 0..(last - 1)
    BY <1>1
  <2>3. links[l].key = Edge(0) /\ (links[l].client = 1 \/ links[l].server = 1)
    BY <2>1, <2>2, EndsByKey DEF Sound
  <2>. QED
    BY <1>1, <2>3 DEF Installs, Opened, Coming
<1>. QED
  BY <1>2, <1>3

LEMMA CleanOpenNext == ASSUME Sound', Clean', Whole', NoErrors' PROVE AllOpen'
  BY CleanOpen, PTL

\* What flew flies still.
NoneLost == \A f : Flying(f) => Flying(f)'

LEMMA StillFlies ==
    ASSUME AllOpen', BoxesStay,
           Carrying(loop[1].pc) => Carrying(loop'[1].pc) /\ loop'[1].cur = loop[1].cur
    PROVE  NoneLost
<1>. SUFFICES ASSUME NEW f, InBoxes(f) PROVE InBoxes(f)'
  BY DEF NoneLost, Flying
<1>1. PICK l \in Link : \E i \in 1..Len(Box(l)) : Box(l)[i] = f
  BY DEF InBoxes
<1>2. l \in Link' /\ Opened(l)' /\ Box(l)' = Box(l)
  BY DEF AllOpen, BoxesStay
<1>. QED
  BY <1>1, <1>2 DEF InBoxes

LEMMA NoLossKept ==
    ASSUME NoLoss, NoneLost, \A r \in Requests : Owed(run'[r].pc) => Owed(run[r].pc)
    PROVE  NoLoss'
<1>1. PICK h \in [Requests -> Frame] :
        /\ \A r \in Requests : Owed(run[r].pc) => Flying(h[r])
        /\ \A q, r \in Requests : Owed(run[q].pc) /\ Owed(run[r].pc) /\ h[q] = h[r] => q = r
  BY DEF NoLoss
<1>2. \A r \in Requests : Owed(run'[r].pc) => Flying(h[r])'
  BY <1>1 DEF NoneLost
<1>. QED
  BY <1>1, <1>2 DEF NoLoss, Frame

\* A box grows at its end and shrinks at its head; what else was in it stays.
LEMMA BoxFills ==
    ASSUME Sound, Kept, AllOpen', NEW f, NEW m \in Link, NEW q \in {0, 1},
           links[m].key = Result <=> q = 0, Posted(m, q, Append(links[m].inbox[q], f))
    PROVE  \A x : InBoxes(x) \/ x = f => InBoxes(x)'
<1>. DEFINE b == Box(m)
<1>1. /\ Box(m)' = Append(b, f) /\ Link' = Link /\ b = Box(m)
      /\ \A l \in Link : l # m => Box(l)' = Box(l)
  <2>1. Box(m) = links[m].inbox[q]
    BY DEF Box
  <2>2. Link' = Link
    BY DEF Posted
  <2>. QED
    BY <2>1, <2>2, PostedNarrows
<1>2. b \in Seq(Frame)
  BY Boxes
<1>. HIDE DEF b
<1>3. /\ Len(Append(b, f)) = Len(b) + 1 /\ Len(b) \in Nat /\ Append(b, f)[Len(b) + 1] = f
      /\ \A n \in 1..Len(b) : Append(b, f)[n] = b[n]
  BY <1>2
<1>4. \A l \in Link : Opened(l)'
  BY <1>1 DEF AllOpen
<1>5. InBoxes(f)'
  <2>1. Len(b) + 1 \in 1..Len(Append(b, f))
    BY <1>3
  <2>. QED
    BY <1>1, <1>3, <1>4, <2>1 DEF InBoxes
<1>6. ASSUME NEW x, InBoxes(x) PROVE InBoxes(x)'
  <2>1. PICK l \in Link : \E i \in 1..Len(Box(l)) : Box(l)[i] = x
    BY <1>6 DEF InBoxes
  <2>2. PICK i \in 1..Len(Box(l)) : Box(l)[i] = x
    BY <2>1
  <2>3. i \in 1..Len(Box(l)') /\ Box(l)'[i] = x
    <3>1. CASE l = m
      <4>1. i \in 1..Len(b) /\ b[i] = x
        BY <1>1, <2>2, <3>1
      <4>2. i \in 1..Len(Append(b, f)) /\ Append(b, f)[i] = x
        BY <1>3, <4>1
      <4>. QED
        BY <1>1, <3>1, <4>2
    <3>2. CASE l # m
      BY <1>1, <2>2, <3>2
    <3>. QED
      BY <3>1, <3>2
  <2>. QED
    BY <1>1, <1>4, <2>3 DEF InBoxes
<1>. QED
  BY <1>5, <1>6

LEMMA BoxDrains ==
    ASSUME Sound, Kept, AllOpen', NEW m \in Link, NEW q \in {0, 1},
           links[m].key = Result <=> q = 0,
           links[m].inbox[q] # <<>>, Posted(m, q, Tail(links[m].inbox[q]))
    PROVE  \A x : InBoxes(x) /\ x # Head(links[m].inbox[q]) => InBoxes(x)'
<1>. DEFINE b == Box(m)
<1>1. /\ links[m].inbox[q] = b /\ Box(m)' = Tail(b) /\ Link' = Link
      /\ \A l \in Link : l # m => Box(l)' = Box(l)
  <2>1. Box(m) = links[m].inbox[q]
    BY DEF Box
  <2>2. Link' = Link
    BY DEF Posted
  <2>. QED
    BY <2>1, <2>2, PostedNarrows
<1>2. b \in Seq(Frame) /\ b # <<>> /\ b = Box(m)
  BY <1>1, Boxes
<1>. HIDE DEF b
<1>3. /\ Len(b) \in Nat /\ Len(b) > 0 /\ Head(b) = b[1]
      /\ Len(Tail(b)) = Len(b) - 1
      /\ \A n \in 1..(Len(b) - 1) : Tail(b)[n] = b[n + 1]
  BY <1>2
<1>4. \A l \in Link : Opened(l)'
  BY <1>1 DEF AllOpen
<1>5. ASSUME NEW x, InBoxes(x), x # Head(b) PROVE InBoxes(x)'
  <2>1. PICK l \in Link : \E i \in 1..Len(Box(l)) : Box(l)[i] = x
    BY <1>5 DEF InBoxes
  <2>2. PICK i \in 1..Len(Box(l)) : Box(l)[i] = x
    BY <2>1
  <2>3. CASE l = m
    <3>1. i \in 1..Len(b) /\ b[i] = x /\ i # 1
      BY <1>2, <1>3, <1>5, <2>2, <2>3
    <3>2. i - 1 \in 1..Len(Tail(b)) /\ Tail(b)[i - 1] = x
      BY <1>3, <3>1
    <3>3. i - 1 \in 1..Len(Box(m)') /\ Box(m)'[i - 1] = x
      BY <1>1, <3>2
    <3>. QED
      BY <1>1, <1>4, <3>3 DEF InBoxes
  <2>4. CASE l # m
    <3>1. i \in 1..Len(Box(l)') /\ Box(l)'[i] = x
      BY <1>1, <2>2, <2>4
    <3>. QED
      BY <1>1, <1>4, <3>1 DEF InBoxes
  <2>. QED
    BY <2>3, <2>4
<1>. QED
  BY <1>1, <1>5

LEMMA NoErrorMore ==
    ASSUME NoErrors, engine' = engine, NEW r \in Requests, Others(r),
           run'[r].pc # "error", loop' = loop
    PROVE  NoErrors'
  BY DEF NoErrors, Others

\* A run sends a frame of its own, which flew for no other.
LEMMA ForwardsNoLoss ==
    ASSUME Answers, NoLoss, NoneLost, NEW r \in Requests, Others(r),
           run[r].pc = "send", run[r].step \in Nat,
           \A x : x = <<r, run[r].step>> => Flying(x)'
    PROVE  NoLoss'
<1>1. PICK h \in [Requests -> Frame] :
        /\ \A q \in Requests : Owed(run[q].pc) => Flying(h[q])
        /\ \A p, q \in Requests : Owed(run[p].pc) /\ Owed(run[q].pc) /\ h[p] = h[q] => p = q
  BY DEF NoLoss
<1>2. PICK f \in Frame : f = <<r, run[r].step>> /\ Flying(f)'
  BY DEF Frame
<1>3. ~Flying(f)
  BY <1>2 DEF Answers, Fresh, Past, Owed
<1>4. PICK g \in [Requests -> Frame] : g[r] = f /\ \A q \in Requests : q # r => g[q] = h[q]
  <2>1. [h EXCEPT ![r] = f] \in [Requests -> Frame]
    BY <1>1, <1>2
  <2>. QED
    BY <1>1, <2>1
<1>5. \A q \in Requests : q # r /\ Owed(run'[q].pc) =>
        Owed(run[q].pc) /\ Flying(h[q]) /\ g[q] = h[q] /\ h[q] # f
  BY <1>1, <1>3, <1>4 DEF Others
<1>6. \A q \in Requests : Owed(run'[q].pc) => Flying(g[q])'
  BY <1>2, <1>4, <1>5 DEF NoneLost
<1>7. \A p, q \in Requests : Owed(run'[p].pc) /\ Owed(run'[q].pc) /\ g[p] = g[q] => p = q
  BY <1>1, <1>4, <1>5
<1>. QED
  BY <1>4, <1>6, <1>7 DEF NoLoss, Frame

\* A run takes a frame: whoever it flew for gets this run's in exchange.
LEMMA TakesNoLoss ==
    ASSUME NoLoss, NEW r \in Requests, Others(r), Owed(run[r].pc), ~Owed(run'[r].pc),
           NEW f, \A x : Flying(x) /\ x # f => Flying(x)'
    PROVE  NoLoss'
<1>1. PICK h \in [Requests -> Frame] :
        /\ \A q \in Requests : Owed(run[q].pc) => Flying(h[q])
        /\ \A p, q \in Requests : Owed(run[p].pc) /\ Owed(run[q].pc) /\ h[p] = h[q] => p = q
  BY DEF NoLoss
<1>2. PICK g \in [Requests -> Frame] :
        \A q \in Requests : g[q] = IF h[q] = f THEN h[r] ELSE h[q]
  <2>1. [q \in Requests |-> IF h[q] = f THEN h[r] ELSE h[q]] \in [Requests -> Frame]
    BY <1>1
  <2>. QED
    BY <2>1
<1>3. \A q \in Requests : Owed(run'[q].pc) => q # r /\ Owed(run[q].pc)
  BY DEF Others
<1>4. \A q \in Requests : Owed(run'[q].pc) => Flying(g[q]) /\ g[q] # f
  BY <1>1, <1>2, <1>3
<1>5. \A q \in Requests : Owed(run'[q].pc) => Flying(g[q])'
  BY <1>4
<1>6. \A p, q \in Requests : Owed(run'[p].pc) /\ Owed(run'[q].pc) /\ g[p] = g[q] => p = q
  BY <1>1, <1>2, <1>3
<1>. QED
  BY <1>2, <1>5, <1>6 DEF NoLoss, Frame

\* A step of the root.
LEMMA RootExplained ==
    ASSUME AnswersInv, Clean, Clean', Explained, Sound', Kept, NEW r \in Requests,
           RunSteps(r) \/ RootResumes(r) \/ RootSendRaises(r) \/ RootExpires(r)
    PROVE  Explained'
<1>1. Sound /\ Answers /\ last = 1
  BY DEF AnswersInv, Clean
<1>2. Whole /\ NoErrors /\ NoLoss /\ faults' = 0
  BY DEF Explained, Clean
<1>3. ASSUME Others(r), UNCHANGED <<loop, engine>>, run'[r].pc # "error", Whole', BoxesStay,
             Owed(run'[r].pc) => Owed(run[r].pc)
      PROVE  Explained'
  <2>1. NoErrors'
    BY <1>2, <1>3, NoErrorMore
  <2>2. NoneLost
    BY <1>3, <2>1, CleanOpenNext, StillFlies
  <2>3. \A q \in Requests : Owed(run'[q].pc) => Owed(run[q].pc)
    BY <1>3 DEF Others
  <2>. QED
    BY <1>2, <1>3, <2>1, <2>2, <2>3, NoLossKept DEF Explained
<1>4. CASE RootPrefills(r) \/ RootConnects(r) \/ RootWaits(r) \/ RootResumes(r)
  <2>1. /\ Others(r) /\ UNCHANGED channels /\ run'[r].pc # "error"
        /\ Owed(run'[r].pc) => Owed(run[r].pc)
    BY <1>1, <1>2, <1>4, RootPrefillsSound, RootConnectsSound, RootWaitsSound, RootResumesSound
       DEF Owed
  <2>2. UNCHANGED <<loop, engine>>
    BY <1>4 DEF RootPrefills, RootConnects, RootWaits, RootResumes
  <2>. QED
    BY <1>2, <1>3, <2>1, <2>2, StillWhole
<1>5. CASE RootDials(r)
  <2>1. /\ Others(r)
        /\ \/ /\ \E n \in Nat : Dialled(0, 1, Edge(0), n)
              /\ run'[r].pc \in {"send", "tap"}
           \/ Refused(1)
    BY <1>1, <1>5, RootDialsSound
  <2>2. ~Refused(1) /\ UNCHANGED <<loop, engine>>
    BY <1>1, <1>2, <1>5, Two, CleanAccepts DEF RootDials
  <2>3. run'[r].pc \in {"send", "tap"} /\ Whole' /\ BoxesStay
    BY <1>1, <1>2, <2>1, <2>2, Two, DialledWhole
  <2>. QED
    BY <1>3, <2>1, <2>2, <2>3 DEF Owed
<1>6. CASE RootForwards(r)
  <2>. DEFINE l == writers[0][Edge(0)]
              f == <<r, run[r].step>>
  <2>1. /\ Others(r) /\ run[r].pc = "send" /\ run'[r].pc = "read"
        /\ l \in Link /\ links[l].key = Edge(0) /\ f \in Frame /\ run[r].step \in Nat
        /\ links[l].up => Posted(l, 1, Append(links[l].inbox[1], f))
    BY <1>1, <1>2, <1>6, RootForwardsSound DEF Holds, Frame
  <2>2. /\ links[l].key = Result <=> 1 = 0
        /\ Posted(l, 1, Append(links[l].inbox[1], f))
    BY <1>1, <1>2, <2>1, Two DEF Whole, Installs
  <2>3. UNCHANGED <<loop, engine>>
    BY <1>6 DEF RootForwards
  <2>. HIDE DEF l, f
  <2>4. Whole' /\ NoErrors'
    BY <1>2, <2>1, <2>2, <2>3, PostedWhole, NoErrorMore
  <2>5. AllOpen'
    BY <2>4, CleanOpenNext
  <2>6. \A x : InBoxes(x) \/ x = f => InBoxes(x)'
    BY <1>1, <2>1, <2>2, <2>5, BoxFills
  <2>7. NoneLost /\ \A x : x = f => Flying(x)'
    BY <2>3, <2>6 DEF NoneLost, Flying
  <2>8. NoLoss'
    BY <1>1, <1>2, <2>1, <2>7, ForwardsNoLoss DEF f
  <2>. QED
    BY <2>4, <2>8 DEF Explained
<1>7. CASE RootTaps(r)
  BY <1>1, <1>7, RootTapsSound
<1>8. CASE RootTakes(r)
  <2>. DEFINE l == run[r].on
              f == Head(links[l].inbox[0])
  <2>1. /\ Others(r) /\ run[r].pc = "wait" /\ run'[r].pc \in {"prefill", "done"}
        /\ l \in Link /\ links[l].key = Result /\ links[l].inbox[0] # <<>>
        /\ Posted(l, 0, Tail(links[l].inbox[0]))
    BY <1>1, <1>8, RootTakesSound DEF Holds
  <2>2. UNCHANGED <<loop, engine>> /\ (links[l].key = Result <=> 0 = 0)
    BY <1>8, <2>1 DEF RootTakes
  <2>. HIDE DEF l
  <2>3. Whole' /\ NoErrors'
    BY <1>2, <2>1, <2>2, PostedWhole, NoErrorMore
  <2>4. AllOpen'
    BY <2>3, CleanOpenNext
  <2>5. \A x : InBoxes(x) /\ x # f => InBoxes(x)'
    BY <1>1, <2>1, <2>2, <2>4, BoxDrains
  <2>. HIDE DEF f
  <2>6. \A x : Flying(x) /\ x # f => Flying(x)'
    BY <2>2, <2>5 DEF Flying
  <2>7. NoLoss'
    BY <1>2, <2>1, <2>6, TakesNoLoss DEF Owed
  <2>. QED
    BY <2>3, <2>7 DEF Explained
<1>9. CASE RootSendRaises(r)
  BY <1>1, <1>2, <1>9, RootSendRaisesSound DEF Whole, Installs
<1>10. CASE RootExpires(r)
  <2>1. Owed(run[r].pc)
    BY <1>1, <1>10, RootExpiresSound DEF Reading, Owed
  <2>2. Stuck
    BY <1>10 DEF RootExpires, Clean
  <2>3. \A f : ~Flying(f)
    BY <1>1, <2>2, StuckEmpty
  <2>. QED
    BY <1>2, <2>1, <2>3 DEF NoLoss
<1>. QED
  BY <1>4, <1>5, <1>6, <1>7, <1>8, <1>9, <1>10 DEF RunSteps

\* A step of the loop of the other rank.
LEMMA LoopExplained ==
    ASSUME AnswersInv, Clean, Clean', Explained, Sound', Kept, LoopSteps(1) \/ WorkerCloses(1)
    PROVE  Explained'
<1>1. Sound /\ last = 1 /\ 1 \in Loops
  BY Two DEF AnswersInv, Clean
<1>2. Whole /\ NoErrors /\ NoLoss /\ faults' = 0
  BY DEF Explained, Clean
<1>3. UNCHANGED <<engine, run>>
  BY DEF LoopSteps, LoopConnects, LoopDials, LoopConnected, LoopWaits, LoopAsksAgain, LoopTakes,
         LoopPushes, LoopResumes, LoopSendRaises, WorkerCloses
<1>4. ASSUME Whole', loop'[1].pc # "dead"
      PROVE  AllOpen' /\ NoErrors'
  <2>1. NoErrors'
    BY <1>2, <1>3, <1>4 DEF NoErrors
  <2>. QED
    BY <1>4, <2>1, CleanOpenNext
<1>5. ASSUME Whole', loop'[1].pc # "dead", NoneLost
      PROVE  Explained'
  BY <1>2, <1>3, <1>4, <1>5, NoLossKept DEF Explained
<1>6. ASSUME Whole', BoxesStay, loop'[1].pc # "dead",
             Carrying(loop[1].pc) => Carrying(loop'[1].pc) /\ loop'[1].cur = loop[1].cur
      PROVE  Explained'
  BY <1>4, <1>5, <1>6, StillFlies
<1>7. CASE LoopConnects(1)
  <2>1. /\ UNCHANGED channels /\ loop'[1].pc # "dead" /\ loop'[1].cur = loop[1].cur
        /\ Carrying(loop[1].pc) => Carrying(loop'[1].pc)
    BY <1>1, <1>7, LoopConnectsSound DEF Carrying
  <2>. QED
    BY <1>2, <1>6, <2>1, StillWhole
<1>8. CASE LoopDials(1)
  <2>1. /\ loop'[1].cur = loop[1].cur
        /\ \/ /\ loop'[1].pc # "dead" /\ (Carrying(loop'[1].pc) <=> Carrying(loop[1].pc))
              /\ \E p \in Ranks, c \in Keys, n \in Nat : Dialled(1, p, c, n)
           \/ \E p \in Ranks : Refused(p)
    BY <1>1, <1>8, LoopDialsSound
  <2>2. \A p \in Ranks : ~Refused(p)
    BY <1>1, <1>2, CleanAccepts
  <2>3. Whole' /\ BoxesStay
    BY <1>1, <1>2, <2>1, <2>2, Two, DialledWhole
  <2>. QED
    BY <1>6, <2>1, <2>2, <2>3
<1>9. CASE LoopConnected(1) \/ LoopWaits(1) \/ LoopAsksAgain(1) \/ LoopResumes(1)
  <2>1. /\ UNCHANGED channels /\ loop'[1].pc # "dead" /\ ~Carrying(loop[1].pc)
    BY <1>1, <1>9, LoopConnectedSound, LoopWaitsSound, LoopAsksAgainSound, LoopResumesSound
       DEF Carrying
  <2>. QED
    BY <1>2, <1>6, <2>1, StillWhole
<1>10. CASE LoopTakes(1)
  <2>. DEFINE l == loop[1].on
              f == Head(links[l].inbox[1])
  <2>1. /\ loop[1].pc = "wait" /\ loop'[1].pc = "push" /\ loop'[1].cur = f
        /\ l \in Link /\ links[l].key = Edge(0) /\ links[l].inbox[1] # <<>>
        /\ Posted(l, 1, Tail(links[l].inbox[1]))
    BY <1>1, <1>2, <1>10, Two, LoopTakesSound DEF Holds
  <2>2. links[l].key = Result <=> 1 = 0
    BY <1>1, <2>1, Two
  <2>. HIDE DEF l
  <2>3. Whole'
    BY <1>2, <2>1, PostedWhole
  <2>4. \A x : InBoxes(x) /\ x # f => InBoxes(x)'
    BY <1>1, <1>4, <2>1, <2>2, <2>3, BoxDrains
  <2>. HIDE DEF f
  <2>5. NoneLost
    BY <2>1, <2>4 DEF NoneLost, Flying, Carrying
  <2>. QED
    BY <1>5, <2>1, <2>3, <2>5
<1>11. CASE LoopPushes(1)
  <2>. DEFINE l == writers[1][Result]
              f == loop[1].cur
  <2>1. /\ loop'[1].pc # "dead" /\ l \in Link /\ links[l].key = Result
        /\ links[l].up => Posted(l, 0, Append(links[l].inbox[0], f))
    BY <1>1, <1>11, Two, LoopPushesSound DEF Holds
  <2>2. /\ links[l].key = Result <=> 0 = 0
        /\ Posted(l, 0, Append(links[l].inbox[0], f))
    BY <1>2, <2>1 DEF Whole, Installs
  <2>. HIDE DEF l, f
  <2>3. Whole'
    BY <1>2, <2>2, PostedWhole
  <2>4. \A x : InBoxes(x) \/ x = f => InBoxes(x)'
    BY <1>1, <1>4, <2>1, <2>2, <2>3, BoxFills
  <2>5. NoneLost
    BY <2>4 DEF NoneLost, Flying, f
  <2>. QED
    BY <1>5, <2>1, <2>3, <2>5
<1>12. CASE WorkerCloses(1)
  BY <1>1, <1>2, <1>12, WorkerClosesSound
<1>13. CASE LoopSendRaises(1)
  BY <1>1, <1>2, <1>13, LoopSendRaisesSound DEF Whole, Installs
<1>. QED
  BY <1>7, <1>8, <1>9, <1>10, <1>11, <1>12, <1>13 DEF LoopSteps

LEMMA ExplainedStep ==
    ASSUME AnswersInv, Clean => Explained, [Next]_vars, Clean'
    PROVE  Explained'
<1>1. Sound /\ Sound' /\ Kept /\ Clean /\ last' = 1 /\ Explained /\ last = 1
  BY StepSound, CleanBefore DEF AnswersInv, Clean
<1>2. Whole /\ NoErrors /\ NoLoss
  BY <1>1 DEF Explained
<1>3. ASSUME Whole', BoxesStay, NoErrors', loop' = loop,
             \A q \in Requests : Owed(run'[q].pc) => Owed(run[q].pc)
      PROVE  Explained'
  <2>1. NoneLost
    BY <1>1, <1>3, CleanOpenNext, StillFlies
  <2>. QED
    BY <1>2, <1>3, <2>1, NoLossKept DEF Explained
<1>4. ASSUME NEW r \in Requests, Submit(r)
      PROVE  Explained'
  <2>1. /\ UNCHANGED channels /\ Others(r) /\ run'[r].pc = "prefill"
    BY <1>1, <1>4, Submits
  <2>2. loop' = loop /\ engine' = [engine EXCEPT ![r] = "waiting"]
    BY <1>4 DEF Submit
  <2>3. \A q \in Requests : /\ Owed(run'[q].pc) => Owed(run[q].pc)
                            /\ run'[q].pc # "error"
    BY <1>2, <2>1 DEF Others, Owed, NoErrors
  <2>4. \A q \in Requests : engine'[q] # "error"
    BY <1>1, <1>2, <2>2 DEF Sound, RunsOK, NoErrors
  <2>5. NoErrors'
    BY <1>2, <2>2, <2>3, <2>4 DEF NoErrors
  <2>. QED
    BY <1>2, <1>3, <2>1, <2>2, <2>3, <2>5, StillWhole
<1>5. ASSUME NEW r \in Requests, Collect(r)
      PROVE  Explained'
  <2>1. /\ UNCHANGED <<channels, loop, run>>
        /\ engine' = [engine EXCEPT ![r] = run[r].pc]
    BY <1>5 DEF Collect
  <2>2. \A q \in Requests : engine'[q] # "error"
    BY <1>1, <1>2, <2>1 DEF Sound, RunsOK, NoErrors
  <2>3. NoErrors'
    BY <1>2, <2>1, <2>2 DEF NoErrors
  <2>. QED
    BY <1>2, <1>3, <2>1, <2>3, StillWhole
<1>6. ASSUME NEW r \in Requests,
             RunSteps(r) \/ RootResumes(r) \/ RootSendRaises(r) \/ RootExpires(r)
      PROVE  Explained'
  BY <1>1, <1>6, RootExplained
<1>7. ASSUME NEW r \in Requests, EngineExpires(r)
      PROVE  FALSE
  BY <1>7 DEF EngineExpires, Clean
<1>8. ASSUME NEW k \in Loops, LoopSteps(k) \/ WorkerCloses(k)
      PROVE  Explained'
  <2>1. k = 1
    BY <1>1, Two
  <2>. QED
    BY <1>1, <1>8, <2>1, LoopExplained
<1>9. ASSUME NEW l \in Link, Handshake(l)
      PROVE  Explained'
  <2>1. Greeted(l) /\ UNCHANGED <<engine, run, loop>>
    BY <1>1, <1>9, HandshakeSound DEF Handshake
  <2>2. Whole' /\ BoxesStay
    BY <1>1, <1>2, <2>1, GreetedWhole
  <2>3. NoErrors'
    BY <1>2, <2>1 DEF NoErrors
  <2>. QED
    BY <1>3, <2>1, <2>2, <2>3
<1>10. ASSUME NEW l \in Link, Disconnected(l)
       PROVE  FALSE
  BY <1>1, <1>2, <1>10, DisconnectedSound DEF Ended, Whole, Installs
<1>11. ASSUME NEW l \in Link, LinkBreaks(l)
       PROVE  FALSE
  BY <1>1, <1>11, LinkBreaksSound DEF Clean
<1>12. CASE UNCHANGED vars
  <2>1. UNCHANGED <<channels, engine, run, loop>>
    BY <1>12 DEF vars
  <2>2. NoErrors'
    BY <1>2, <2>1 DEF NoErrors
  <2>. QED
    BY <1>2, <1>3, <2>1, <2>2, StillWhole
<1>. QED
  BY <1>4, <1>5, <1>6, <1>7, <1>8, <1>9, <1>10, <1>11, <1>12 DEF Next

(* An error has a cause, in a ring of two ranks, however many requests run *)
(* at once: a link, a prefill, a send or a rank failed, a wait was given   *)
(* up too early, or a channel has two sockets.  An answer flies for every  *)
(* run that waits for one, whichever run takes it.  And the state is       *)
(* well-typed in a ring of any size.                                       *)
THEOREM PipelineErrorsExplained == Spec => []ErrorsExplained
<1>1. Init => ExplainedInv
  <2>. SUFFICES ASSUME Init PROVE ExplainedInv
    OBVIOUS
  <2>1. AnswersInv /\ Sound
    BY AnswersInit DEF AnswersInv
  <2>2. Link = {} /\ serving = Ranks /\ loop[1].pc # "dead"
    BY <2>1, Two DEF Init, ChannelsInit, Link, Boot
  <2>3. \A r \in Requests : run[r].pc = "idle" /\ engine[r] = "idle"
    BY DEF Init, Idle
  <2>4. NoLoss
    <3>1. [r \in Requests |-> <<r, 0>>] \in [Requests -> Frame]
      BY DEF Frame
    <3>. QED
      BY <2>3, <3>1 DEF NoLoss, Owed
  <2>. QED
    BY <2>1, <2>2, <2>3, <2>4 DEF ExplainedInv, Explained, Whole, NoErrors
<1>2. ExplainedInv /\ [Next]_vars => ExplainedInv'
  BY AnswersInvStep, ExplainedStep DEF ExplainedInv
<1>3. ExplainedInv => ErrorsExplained
  <2>. SUFFICES ASSUME ExplainedInv PROVE ErrorsExplained
    OBVIOUS
  <2>1. TypeOK /\ faults \in 0..MaxFaults[last] /\ last \in DOMAIN Load
    BY SoundTypes DEF ExplainedInv, AnswersInv, Sound, ChannelsOK
  <2>2. faults = 0 \/ faults > 0
    BY <2>1, PipelineAssumption
  <2>3. Clean => \A r \in Requests : engine[r] # "error"
    BY DEF ExplainedInv, Explained, NoErrors
  <2>. QED
    BY <2>1, <2>2, <2>3 DEF ErrorsExplained, Clean
<1>. QED
  BY <1>1, <1>2, <1>3, PTL DEF Spec

=============================================================================
