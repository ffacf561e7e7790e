------------------------------- MODULE KVCache -------------------------------
(***************************************************************************)
(* The paged key/value cache: class PagedKVCache of                        *)
(* nexinfer/engine/kvcache.py, shared by the threads that serve requests.  *)
(*                                                                         *)
(* A block index is popped from a pool under the lock, but the block is    *)
(* installed in the sequence's table and in the storage without it; free   *)
(* and spill_cold_blocks hold the lock over a loop, in which the installs  *)
(* and writes of other threads may fall.                                   *)
(*                                                                         *)
(* A page <<r, l, i>> is the i-th block of layer l of the sequence r.  A   *)
(* table holds the allocated blocks only, not the -1 placeholders: the     *)
(* thread that serves r is the only one that ever looks at r's table.      *)
(***************************************************************************)
EXTENDS Integers, Sequences, FiniteSets, FiniteSetsExt

CONSTANTS
    Requests,      \* sequences, each served by a thread of its own
    NumLayers,     \* num_layers
    MaxBlocks,     \* bound: blocks per layer a sequence asks for
    DeviceBlocks,  \* num_blocks_device
    HostBlocks,    \* num_blocks_host
    MaxGrow,       \* bound: blocks the host gains beyond its pool
    MaxSpill,      \* bound: n of spill_cold_blocks; 0: it is never called
    Writers,       \* the sequences whose writes are followed
    None

ASSUME KVAssumption ==
    /\ IsFiniteSet(Requests)
    /\ NumLayers \in Nat \ {0} /\ MaxBlocks \in Nat
    /\ DeviceBlocks \in Nat /\ HostBlocks \in Nat
    /\ MaxGrow \in Nat /\ MaxSpill \in Nat
    /\ Writers \subseteq Requests

Layers == 1..NumLayers
DeviceIdx == 0..(DeviceBlocks - 1)
Idx == 0..(DeviceBlocks + HostBlocks + MaxGrow - 1)
Tiers == {"device", "host"}

ASSUME NoneAssumption == \A k \in Idx, t \in Tiers : None # [idx |-> k, tier |-> t]

VARIABLES
    free_device,     \* _free_device: a list, popped from its end
    free_host,       \* _free_host
    next_block,      \* _next_block
    storage_device,  \* keys of _storage_device, oldest first
    storage_host,    \* keys of _storage_host
    data,            \* [Tiers -> [Idx -> the last page written, or None]]
    seq_blocks,      \* _seq_blocks: [Requests -> [Layers -> Seq(Idx)]]
    goal,            \* [Requests -> Nat]: blocks per layer asked for
    taken,           \* [Requests -> block popped but not installed, or None]
    lock,            \* "open", or the call that loops under the lock
    todo             \* blocks that call has still to visit

pool_vars == <<free_device, free_host, next_block>>
storage_vars == <<storage_device, storage_host, data>>
seq_vars == <<seq_blocks, goal>>
vars == <<pool_vars, storage_vars, seq_vars, taken, lock, todo>>

Elements(s) == {s[i] : i \in DOMAIN s}
Front(s) == SubSeq(s, 1, Len(s) - 1)
Last(s) == s[Len(s)]
\* s after the deletion of its element k.
Without(s, k) ==
    LET at == CHOOSE i \in DOMAIN s : s[i] = k
    IN  [j \in 1..(Len(s) - 1) |-> IF j < at THEN s[j] ELSE s[j + 1]]

-----------------------------------------------------------------------------
Init ==
    /\ free_device = [i \in 1..DeviceBlocks |-> i - 1]
    /\ free_host = [i \in 1..HostBlocks |-> i - 1]
    /\ next_block = DeviceBlocks + HostBlocks
    /\ storage_device = <<>>
    /\ storage_host = {}
    /\ data = [t \in Tiers |-> [k \in Idx |-> None]]
    /\ seq_blocks = [r \in Requests |-> [l \in Layers |-> <<>>]]
    /\ goal = [r \in Requests |-> 0]
    /\ taken = [r \in Requests |-> None]
    /\ lock = "open"
    /\ todo = <<>>

\* The layers of r that still lack blocks; ensure_sequence is in progress.
Short(r) == {l \in Layers : Len(seq_blocks[r][l]) < goal[r]}
Ensuring(r) == Short(r) # {}

(* ensure_sequence, for n blocks per layer.                                *)
EnsureBegin(r, n) ==
    /\ ~Ensuring(r)
    /\ n > goal[r]
    /\ goal' = [goal EXCEPT ![r] = n]
    /\ UNCHANGED <<pool_vars, storage_vars, seq_blocks, taken, lock, todo>>

\* Fault: the index is read off the pool and not popped.
AllocNotPopped(r) ==
    /\ Ensuring(r) /\ taken[r] = None /\ lock = "open"
    /\ free_device # <<>>
    /\ taken' = [taken EXCEPT ![r] = [idx |-> Last(free_device), tier |-> "device"]]
    /\ UNCHANGED <<pool_vars, storage_vars, seq_vars, lock, todo>>

(* _alloc_block, from the device pool first: nothing in the repository     *)
(* passes another prefer_tier.                                             *)
AllocDevice(r) ==
    /\ Ensuring(r) /\ taken[r] = None /\ lock = "open"
    /\ free_device # <<>>
    /\ taken' = [taken EXCEPT ![r] = [idx |-> Last(free_device), tier |-> "device"]]
    /\ free_device' = Front(free_device)
    /\ UNCHANGED <<free_host, next_block, storage_vars, seq_vars, lock, todo>>

AllocHost(r) ==
    /\ Ensuring(r) /\ taken[r] = None /\ lock = "open"
    /\ free_device = <<>> /\ free_host # <<>>
    /\ taken' = [taken EXCEPT ![r] = [idx |-> Last(free_host), tier |-> "host"]]
    /\ free_host' = Front(free_host)
    /\ UNCHANGED <<free_device, next_block, storage_vars, seq_vars, lock, todo>>

\* Both pools are empty: a new index, on the host.
AllocGrown(r) ==
    /\ Ensuring(r) /\ taken[r] = None /\ lock = "open"
    /\ free_device = <<>> /\ free_host = <<>>
    /\ next_block \in Idx
    /\ taken' = [taken EXCEPT ![r] = [idx |-> next_block, tier |-> "host"]]
    /\ next_block' = next_block + 1
    /\ UNCHANGED <<free_device, free_host, storage_vars, seq_vars, lock, todo>>

\* The table entry and the zeroed array, without the lock.
Install(r) ==
    /\ taken[r] # None
    /\ LET k == taken[r].idx
           t == taken[r].tier
           l == Min(Short(r))
       IN  /\ seq_blocks' = [seq_blocks EXCEPT ![r][l] = Append(@, k)]
           /\ data' = [data EXCEPT ![t][k] = None]
           /\ storage_device' = IF t = "device" THEN Append(storage_device, k)
                                                ELSE storage_device
           /\ storage_host' = IF t = "host" THEN storage_host \cup {k} ELSE storage_host
    /\ taken' = [taken EXCEPT ![r] = None]
    /\ UNCHANGED <<pool_vars, goal, lock, todo>>

\* get_block_array looks on the device first.
TierOf(k) == IF k \in Elements(storage_device) THEN "device" ELSE "host"
Stored(k) == k \in Elements(storage_device) \cup storage_host

(* write, into a block the sequence has; looking the array up and writing  *)
(* into it are one step here.                                              *)
Write(r) ==
    /\ r \in Writers
    /\ ~Ensuring(r)
    /\ \E l \in Layers : \E i \in DOMAIN seq_blocks[r][l] :
          LET k == seq_blocks[r][l][i]
          IN  /\ Stored(k)
              /\ data' = [data EXCEPT ![TierOf(k)][k] = <<r, l, i>>]
    /\ UNCHANGED <<pool_vars, storage_device, storage_host, seq_vars, taken, lock, todo>>

-----------------------------------------------------------------------------
\* The blocks of a table, layer by layer.
Flat(table) ==
    LET upto[l \in 0..NumLayers] == IF l = 0 THEN <<>> ELSE upto[l - 1] \o table[l]
    IN  upto[NumLayers]

\* Fault: the table is read and not popped.
FreeKeepsTable(r) ==
    /\ lock = "open"
    /\ ~Ensuring(r) /\ goal[r] > 0
    /\ lock' = "free"
    /\ todo' = Flat(seq_blocks[r])
    /\ goal' = [goal EXCEPT ![r] = 0]
    /\ UNCHANGED <<pool_vars, storage_vars, seq_blocks, taken>>

(* free: the table is popped, then block by block goes back to a pool.     *)
FreeBegin(r) ==
    /\ lock = "open"
    /\ ~Ensuring(r) /\ goal[r] > 0
    /\ lock' = "free"
    /\ todo' = Flat(seq_blocks[r])
    /\ seq_blocks' = [seq_blocks EXCEPT ![r] = [l \in Layers |-> <<>>]]
    /\ goal' = [goal EXCEPT ![r] = 0]
    /\ UNCHANGED <<pool_vars, storage_vars, taken>>

FreeDevice ==
    /\ lock = "free" /\ todo # <<>>
    /\ Head(todo) \in Elements(storage_device)
    /\ storage_device' = Without(storage_device, Head(todo))
    /\ data' = [data EXCEPT !["device"][Head(todo)] = None]
    /\ free_device' = Append(free_device, Head(todo))
    /\ todo' = Tail(todo)
    /\ UNCHANGED <<free_host, next_block, storage_host, seq_vars, taken, lock>>

FreeHost ==
    /\ lock = "free" /\ todo # <<>>
    /\ Head(todo) \in storage_host \ Elements(storage_device)
    /\ storage_host' = storage_host \ {Head(todo)}
    /\ data' = [data EXCEPT !["host"][Head(todo)] = None]
    /\ free_host' = Append(free_host, Head(todo))
    /\ todo' = Tail(todo)
    /\ UNCHANGED <<free_device, next_block, storage_device, seq_vars, taken, lock>>

\* The block is in neither storage.
FreeNothing ==
    /\ lock = "free" /\ todo # <<>>
    /\ ~Stored(Head(todo))
    /\ todo' = Tail(todo)
    /\ UNCHANGED <<pool_vars, storage_vars, seq_vars, taken, lock>>

(* spill_cold_blocks(n): the n oldest blocks move, under their old index.  *)
SpillBegin(n) ==
    /\ lock = "open"
    /\ storage_device # <<>>
    /\ Len(free_host) + Cardinality(storage_host) <= HostBlocks + MaxGrow  \* bound
    /\ lock' = "spill"
    /\ todo' = SubSeq(storage_device, 1, IF n < Len(storage_device) THEN n
                                         ELSE Len(storage_device))
    /\ UNCHANGED <<pool_vars, storage_vars, seq_vars, taken>>

\* Fault: the host gets no copy of the array.
SpillDropsArray ==
    /\ lock = "spill" /\ todo # <<>>
    /\ storage_device' = Without(storage_device, Head(todo))
    /\ storage_host' = storage_host \cup {Head(todo)}
    /\ data' = [data EXCEPT !["device"][Head(todo)] = None]
    /\ free_device' = Append(free_device, Head(todo))
    /\ todo' = Tail(todo)
    /\ UNCHANGED <<free_host, next_block, seq_vars, taken, lock>>

SpillOne ==
    /\ lock = "spill" /\ todo # <<>>
    /\ storage_device' = Without(storage_device, Head(todo))
    /\ storage_host' = storage_host \cup {Head(todo)}
    /\ data' = [data EXCEPT !["host"][Head(todo)] = data["device"][Head(todo)],
                            !["device"][Head(todo)] = None]
    /\ free_device' = Append(free_device, Head(todo))
    /\ todo' = Tail(todo)
    /\ UNCHANGED <<free_host, next_block, seq_vars, taken, lock>>

\* The loop is over: the lock is released.
Unlock ==
    /\ lock # "open" /\ todo = <<>>
    /\ lock' = "open"
    /\ UNCHANGED <<pool_vars, storage_vars, seq_vars, taken, todo>>

-----------------------------------------------------------------------------
Serve(r) ==
    \/ \E n \in 1..MaxBlocks : EnsureBegin(r, n)
    \/ AllocDevice(r) \/ AllocHost(r) \/ AllocGrown(r)
    \/ Install(r)
    \/ Write(r)
    \/ FreeBegin(r)

UnderLock == FreeDevice \/ FreeHost \/ FreeNothing \/ SpillOne \/ Unlock

Next ==
    \/ \E r \in Requests : Serve(r)
    \/ UnderLock
    \/ \E n \in 1..MaxSpill : SpillBegin(n)

Spec == Init /\ [][Next]_vars

-----------------------------------------------------------------------------
Injective(s) == \A i, j \in DOMAIN s : s[i] = s[j] => i = j
Taken(t) == {r \in Requests : taken[r] # None /\ taken[r].tier = t}
TakenIdx(t) == {taken[r].idx : r \in Taken(t)}

(* Type correctness of the pools, the storage and the tables               *)
(* (kvcache.py:54-65).                                                     *)
TypeOK ==
    /\ free_device \in Seq(Idx) /\ free_host \in Seq(Idx)
    /\ next_block \in (DeviceBlocks + HostBlocks)..(DeviceBlocks + HostBlocks + MaxGrow)
    /\ storage_device \in Seq(Idx)
    /\ storage_host \in SUBSET Idx
    /\ DOMAIN data = Tiers
    /\ \A t \in Tiers : DOMAIN data[t] = Idx
    /\ seq_blocks \in [Requests -> [Layers -> Seq(Idx)]]
    /\ goal \in [Requests -> 0..MaxBlocks]
    /\ \A r \in Requests :
          taken[r] # None => taken[r] \in [idx : Idx, tier : Tiers]
    /\ lock \in {"open", "free", "spill"}
    /\ todo \in Seq(Idx)

(* Every device index is in exactly one of three places: the free list,    *)
(* the device storage, or the hands of one thread that installs it.  So    *)
(* the device pool never loses or duplicates a block, whatever calls       *)
(* overlap and also when blocks are spilled (kvcache.py:71-76, 98-104,     *)
(* 157-159, 184-187).                                                      *)
DevicePool ==
    /\ Injective(free_device) /\ Injective(storage_device)
    /\ \A r, q \in Taken("device") : taken[r].idx = taken[q].idx => r = q
    /\ Elements(free_device) \cap Elements(storage_device) = {}
    /\ Elements(free_device) \cap TakenIdx("device") = {}
    /\ Elements(storage_device) \cap TakenIdx("device") = {}
    /\ Elements(free_device) \cup Elements(storage_device) \cup TakenIdx("device")
          = DeviceIdx

Page(r, l, i) == i \in DOMAIN seq_blocks[r][l]
\* The pages under the block index k, and its places in a list.
Standing(k) ==
    {p \in Requests \X Layers \X (1..MaxBlocks) :
        Page(p[1], p[2], p[3]) /\ seq_blocks[p[1]][p[2]][p[3]] = k}
Places(s, k) == {i \in DOMAIN s : s[i] = k}
\* How often k stands in a table or waits to be freed.
Entries(k) ==
    Cardinality(Standing(k)) + (IF lock = "free" THEN Cardinality(Places(todo, k)) ELSE 0)

(* As long as nothing is spilled, an index has one table entry per array   *)
(* stored under it, although the two pools number their blocks alike and   *)
(* free returns whichever array it finds first (kvcache.py:157-163).       *)
(* Hence no lookup misses, and no array outlives the sequences.            *)
BlocksBacked ==
    \A k \in Idx :
        Entries(k) = (IF k \in Elements(storage_device) THEN 1 ELSE 0)
                       + (IF k \in storage_host THEN 1 ELSE 0)

(* The host pool, blocks grown beyond it included, is conserved in the     *)
(* same way as the device pool as long as nothing is spilled               *)
(* (kvcache.py:77-82, 160-163).                                            *)
HostPool ==
    /\ Injective(free_host)
    /\ \A r, q \in Taken("host") : taken[r].idx = taken[q].idx => r = q
    /\ Elements(free_host) \cap storage_host = {}
    /\ Elements(free_host) \cap TakenIdx("host") = {}
    /\ storage_host \cap TakenIdx("host") = {}
    /\ Elements(free_host) \cup storage_host \cup TakenIdx("host")
          = 0..(HostBlocks - 1)
              \cup (DeviceBlocks + HostBlocks)..(next_block - 1)

Alone(r, l, i) == Entries(seq_blocks[r][l][i]) = 1
DataOf(r, l, i) == data[TierOf(seq_blocks[r][l][i])][seq_blocks[r][l][i]]

(* What a page holds changes by its own writes only, as long as no other   *)
(* table entry names its index: no allocation, free or write of another    *)
(* sequence, and no spill, touches it (kvcache.py:107-135, 157-163,        *)
(* 182-188).  A page that shares its index is not safe: PagesPrivate.      *)
PagesKept ==
    [][\A r \in Requests, l \in Layers, i \in 1..MaxBlocks :
          Page(r, l, i) /\ Page(r, l, i)' /\ Alone(r, l, i) /\ Alone(r, l, i)' =>
              DataOf(r, l, i)' \in {DataOf(r, l, i), <<r, l, i>>}]_vars

-----------------------------------------------------------------------------
(* What the repository says of the cache and the code does not do.         *)

(* docs/architecture.md:43-44: the pages are allocated per sequence: a     *)
(* block belongs to one page.                                              *)
PagesPrivate ==
    \A r, q \in Requests, l, m \in Layers :
        \A i \in DOMAIN seq_blocks[r][l], j \in DOMAIN seq_blocks[q][m] :
            seq_blocks[r][l][i] = seq_blocks[q][m][j] => <<r, l, i>> = <<q, m, j>>

=============================================================================
