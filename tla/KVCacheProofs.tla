---------------------------- MODULE KVCacheProofs ----------------------------
(***************************************************************************)
(* Safety of the paged cache, for any number of sequences, layers and      *)
(* blocks: the device pool is conserved, also when blocks are spilled;     *)
(* until then the host pool is as well, and every table entry has its      *)
(* array; and a page keeps what was written to it.                         *)
(***************************************************************************)
EXTENDS MCKVCache, FiniteSetTheorems, WellFoundedInduction, TLAPS

-----------------------------------------------------------------------------
(* Sequences without repetition.                                           *)

(* Taking the last element of a list leaves a list without it.             *)
LEMMA FrontLemma ==
    ASSUME NEW S, NEW s \in Seq(S), s # <<>>, Injective(s)
    PROVE  /\ Front(s) \in Seq(S) /\ Injective(Front(s))
           /\ Last(s) \in Elements(s)
           /\ Last(s) \notin Elements(Front(s))
           /\ Elements(s) = Elements(Front(s)) \cup {Last(s)}
<1>1. Len(s) \in Nat \ {0} /\ DOMAIN s = 1..Len(s)
  OBVIOUS
<1>2. /\ Front(s) \in Seq(S) /\ DOMAIN Front(s) = 1..(Len(s) - 1)
      /\ \A i \in 1..(Len(s) - 1) : Front(s)[i] = s[i]
  BY <1>1 DEF Front
<1>3. Injective(Front(s))
  BY <1>1, <1>2 DEF Injective
<1>4. Last(s) \in Elements(s)
  BY <1>1 DEF Last, Elements
<1>5. Last(s) \notin Elements(Front(s))
  BY <1>1, <1>2 DEF Last, Elements, Injective
<1>6. Elements(s) = Elements(Front(s)) \cup {Last(s)}
  <2>1. \A i \in 1..Len(s) : i = Len(s) \/ i \in 1..(Len(s) - 1)
    <3>1. \A m \in Nat : \A i \in 1..m : i = m \/ i \in 1..(m - 1)
      OBVIOUS
    <3>. QED
      BY <1>1, <3>1
  <2>2. 1..(Len(s) - 1) \subseteq 1..Len(s) /\ Len(s) \in 1..Len(s)
    BY <1>1
  <2>3. ASSUME NEW x \in Elements(s)
        PROVE  x \in Elements(Front(s)) \cup {Last(s)}
    <3>1. PICK i \in 1..Len(s) : x = s[i]
      BY <1>1 DEF Elements
    <3>2. CASE i = Len(s)
      BY <3>1, <3>2 DEF Last
    <3>3. CASE i \in 1..(Len(s) - 1)
      BY <1>2, <3>1, <3>3 DEF Elements
    <3>. QED
      BY <2>1, <3>2, <3>3
  <2>4. Elements(Front(s)) \subseteq Elements(s)
    BY <1>1, <1>2, <2>2 DEF Elements
  <2>. QED
    BY <1>4, <2>3, <2>4
<1>. QED
  BY <1>2, <1>3, <1>4, <1>5, <1>6

(* Appending a new element.                                                *)
LEMMA AppendLemma ==
    ASSUME NEW S, NEW s \in Seq(S), NEW k \in S, Injective(s), k \notin Elements(s)
    PROVE  /\ Append(s, k) \in Seq(S) /\ Injective(Append(s, k))
           /\ Elements(Append(s, k)) = Elements(s) \cup {k}
<1>1. /\ Len(s) \in Nat /\ DOMAIN s = 1..Len(s)
      /\ DOMAIN Append(s, k) = 1..(Len(s) + 1)
      /\ \A i \in 1..Len(s) : Append(s, k)[i] = s[i]
      /\ Append(s, k)[Len(s) + 1] = k
  OBVIOUS
<1>2. Append(s, k) \in Seq(S)
  OBVIOUS
<1>3. /\ \A i \in 1..(Len(s) + 1) : i = Len(s) + 1 \/ i \in 1..Len(s)
      /\ 1..Len(s) \subseteq 1..(Len(s) + 1) /\ Len(s) + 1 \in 1..(Len(s) + 1)
  BY <1>1
<1>4. Injective(Append(s, k))
  BY <1>1, <1>3 DEF Injective, Elements
<1>5. Elements(Append(s, k)) = Elements(s) \cup {k}
  BY <1>1, <1>3 DEF Elements
<1>. QED
  BY <1>2, <1>4, <1>5

(* Deleting an element.                                                    *)
LEMMA WithoutLemma ==
    ASSUME NEW S, NEW s \in Seq(S), NEW k \in Elements(s), Injective(s)
    PROVE  /\ Without(s, k) \in Seq(S) /\ Injective(Without(s, k))
           /\ Elements(Without(s, k)) = Elements(s) \ {k}
<1>. DEFINE at == CHOOSE i \in DOMAIN s : s[i] = k
            w == [j \in 1..(Len(s) - 1) |-> IF j < at THEN s[j] ELSE s[j + 1]]
<1>0. Without(s, k) = w
  BY DEF Without
<1>1. Len(s) \in Nat /\ DOMAIN s = 1..Len(s) /\ \A i \in 1..Len(s) : s[i] \in S
  OBVIOUS
<1>2. at \in 1..Len(s) /\ s[at] = k
  <2>1. \E i \in DOMAIN s : s[i] = k
    BY DEF Elements
  <2>. QED
    BY <1>1, <2>1
<1>. HIDE DEF at
<1>3. /\ Len(s) - 1 \in Nat
      /\ \A j \in 1..(Len(s) - 1) : j \in 1..Len(s) /\ j + 1 \in 1..Len(s)
  BY <1>1, <1>2
<1>4. w \in Seq(S) /\ DOMAIN w = 1..(Len(s) - 1)
  <2>1. w \in [1..(Len(s) - 1) -> S]
    BY <1>1, <1>2, <1>3
  <2>. QED
    BY <1>3, <2>1
<1>5. Injective(w)
  <2>. SUFFICES ASSUME NEW i \in 1..(Len(s) - 1), NEW j \in 1..(Len(s) - 1), w[i] = w[j]
                PROVE  i = j
    BY <1>4 DEF Injective
  <2>1. \A m, n \in 1..Len(s) : s[m] = s[n] => m = n
    BY <1>1 DEF Injective
  <2>. QED
    BY <1>1, <1>2, <1>3, <2>1
<1>6. Elements(w) \subseteq Elements(s) \ {k}
  <2>. SUFFICES ASSUME NEW j \in 1..(Len(s) - 1)
                PROVE  w[j] \in Elements(s) /\ w[j] # k
    BY <1>4 DEF Elements
  <2>1. \A m \in 1..Len(s) : s[m] \in Elements(s) /\ (s[m] = k => m = at)
    BY <1>1, <1>2 DEF Elements, Injective
  <2>. QED
    BY <1>1, <1>2, <1>3, <2>1
<1>7. Elements(s) \ {k} \subseteq Elements(w)
  <2>. SUFFICES ASSUME NEW i \in 1..Len(s), s[i] # k
                PROVE  \E j \in 1..(Len(s) - 1) : w[j] = s[i]
    BY <1>1, <1>4 DEF Elements
  <2>1. CASE i < at
    BY <1>1, <1>2, <1>3, <2>1
  <2>2. CASE i > at
    <3>1. i - 1 \in 1..(Len(s) - 1) /\ ~(i - 1 < at) /\ (i - 1) + 1 = i
      BY <1>1, <1>2, <2>2
    <3>. QED
      BY <3>1
  <2>. QED
    BY <1>1, <1>2, <2>1, <2>2
<1>. QED
  BY <1>0, <1>4, <1>5, <1>6, <1>7

(* The first n entries of a list, and the list without its first entry.    *)
LEMMA PrefixLemma ==
    ASSUME NEW S, NEW s \in Seq(S), NEW n \in 0..Len(s), Injective(s)
    PROVE  LET p == SubSeq(s, 1, n)
           IN  p \in Seq(S) /\ Injective(p) /\ Elements(p) \subseteq Elements(s)
<1>. DEFINE p == SubSeq(s, 1, n)
<1>1. /\ Len(s) \in Nat /\ DOMAIN s = 1..Len(s)
      /\ 1..n \subseteq 1..Len(s)
      /\ p \in Seq(S) /\ DOMAIN p = 1..n
      /\ \A i \in 1..n : p[i] = s[i]
  OBVIOUS
<1>2. Injective(p)
  BY <1>1 DEF Injective
<1>3. Elements(p) \subseteq Elements(s)
  BY <1>1 DEF Elements
<1>. QED
  BY <1>1, <1>2, <1>3

LEMMA TailLemma ==
    ASSUME NEW S, NEW s \in Seq(S), s # <<>>, Injective(s)
    PROVE  /\ Tail(s) \in Seq(S) /\ Injective(Tail(s))
           /\ Head(s) \in Elements(s) /\ Head(s) \in S
           /\ Elements(Tail(s)) \subseteq Elements(s) \ {Head(s)}
<1>1. /\ Len(s) \in Nat \ {0} /\ DOMAIN s = 1..Len(s)
      /\ Tail(s) \in Seq(S) /\ DOMAIN Tail(s) = 1..(Len(s) - 1)
      /\ \A i \in 1..(Len(s) - 1) : Tail(s)[i] = s[i + 1] /\ i + 1 \in 1..Len(s) /\ i + 1 # 1
      /\ Head(s) = s[1] /\ 1 \in 1..Len(s) /\ s[1] \in S
  OBVIOUS
<1>2. \A m, n \in 1..Len(s) : s[m] = s[n] => m = n
  BY <1>1 DEF Injective
<1>3. Injective(Tail(s))
  <2>. SUFFICES ASSUME NEW i \in 1..(Len(s) - 1), NEW j \in 1..(Len(s) - 1),
                       Tail(s)[i] = Tail(s)[j]
                PROVE  i = j
    BY <1>1 DEF Injective
  <2>1. i + 1 = j + 1
    BY <1>1, <1>2
  <2>. QED
    BY <2>1
<1>4. Elements(Tail(s)) \subseteq Elements(s) \ {Head(s)}
  <2>. SUFFICES ASSUME NEW i \in 1..(Len(s) - 1)
                PROVE  Tail(s)[i] \in Elements(s) /\ Tail(s)[i] # Head(s)
    BY <1>1 DEF Elements
  <2>. QED
    BY <1>1, <1>2 DEF Elements
<1>5. Head(s) \in Elements(s)
  BY <1>1 DEF Elements
<1>. QED
  BY <1>1, <1>3, <1>4, <1>5

-----------------------------------------------------------------------------
(* The inductive invariant.  A spilled block must be found on the device   *)
(* when its turn comes, or its index would enter the free list twice:      *)
(* what spill_cold_blocks has still to visit stays inside the storage,     *)
(* because only calls that hold the lock take blocks out of it.            *)

PoolTypes ==
    /\ free_device \in Seq(DeviceIdx) /\ storage_device \in Seq(DeviceIdx)
    /\ free_host \in Seq(Idx)
    /\ storage_host \in SUBSET Idx
    /\ taken \in [Requests -> [idx : Idx, tier : Tiers] \cup {None}]
    /\ \A r \in Taken("device") : taken[r].idx \in DeviceIdx

SpillInside ==
    lock = "spill" =>
        /\ todo \in Seq(DeviceIdx) /\ Injective(todo)
        /\ Elements(todo) \subseteq Elements(storage_device)

IInv == PoolTypes /\ DevicePool /\ SpillInside

LEMMA IdxLemma == DeviceIdx \subseteq Idx
<1>1. \A d, h, g \in Nat : 0..(d - 1) \subseteq 0..(d + h + g - 1)
  OBVIOUS
<1>. QED
  BY <1>1, KVAssumption DEF DeviceIdx, Idx

(* None is no block.                                                       *)
LEMMA NoneLemma == None \notin [idx : Idx, tier : Tiers]
<1>. SUFFICES ASSUME None \in [idx : Idx, tier : Tiers] PROVE FALSE
  OBVIOUS
<1>1. PICK k \in Idx, t \in Tiers : None = [idx |-> k, tier |-> t]
  <2>1. None = [idx |-> None.idx, tier |-> None.tier] /\ None.idx \in Idx /\ None.tier \in Tiers
    OBVIOUS
  <2>. QED
    BY <2>1
<1>. QED
  BY <1>1, NoneAssumption

LEMMA InitLemma == Init => IInv
<1>. SUFFICES ASSUME Init PROVE IInv
  OBVIOUS
<1>. USE DEF Init
<1>1. DeviceBlocks \in Nat /\ HostBlocks \in Nat /\ MaxGrow \in Nat
  BY KVAssumption
<1>2. \A d \in Nat : \A i \in 1..d : i - 1 \in 0..(d - 1)
  OBVIOUS
<1>3. free_device \in [1..DeviceBlocks -> DeviceIdx]
  BY <1>1, <1>2 DEF DeviceIdx
<1>4. free_device \in Seq(DeviceIdx) /\ DOMAIN free_device = 1..DeviceBlocks
  BY <1>1, <1>3
<1>5. \A h, d, g \in Nat : \A i \in 1..h : i - 1 \in 0..(d + h + g - 1)
  OBVIOUS
<1>6. free_host \in [1..HostBlocks -> Idx]
  BY <1>1, <1>5 DEF Idx
<1>7. free_host \in Seq(Idx)
  BY <1>1, <1>6
<1>8. Taken("device") = {} /\ TakenIdx("device") = {}
  BY DEF Taken, TakenIdx
<1>9. PoolTypes
  BY <1>4, <1>7, <1>8 DEF PoolTypes
<1>10. Injective(free_device)
  BY <1>1, <1>4 DEF Injective
<1>11. storage_device = <<>> /\ Elements(storage_device) = {} /\ Injective(storage_device)
  BY DEF Elements, Injective
<1>12. Elements(free_device) = DeviceIdx
  <2>1. \A d \in Nat : \A k \in 0..(d - 1) : k + 1 \in 1..d /\ (k + 1) - 1 = k
    OBVIOUS
  <2>2. \A k \in DeviceIdx : k + 1 \in 1..DeviceBlocks /\ free_device[k + 1] = k
    BY <1>1, <2>1 DEF DeviceIdx
  <2>3. DeviceIdx \subseteq Elements(free_device)
    BY <1>4, <2>2 DEF Elements
  <2>4. Elements(free_device) \subseteq DeviceIdx
    BY <1>3 DEF Elements
  <2>. QED
    BY <2>3, <2>4
<1>13. DevicePool
  BY <1>8, <1>10, <1>11, <1>12 DEF DevicePool
<1>14. SpillInside
  BY DEF SpillInside
<1>. QED
  BY <1>9, <1>13, <1>14 DEF IInv

-----------------------------------------------------------------------------
(* The steps.                                                              *)

\* What the device invariant reads.
dev_vars == <<free_device, storage_device, taken>>

(* Steps that leave the device's places alone.                             *)
LEMMA DeviceFrame ==
    ASSUME IInv, UNCHANGED dev_vars,
           free_host' \in Seq(Idx), storage_host' \in SUBSET Idx
    PROVE  PoolTypes' /\ DevicePool'
<1>1. Taken("device")' = Taken("device") /\ TakenIdx("device")' = TakenIdx("device")
  BY DEF dev_vars, Taken, TakenIdx
<1>2. UNCHANGED <<free_device, storage_device, taken>>
  BY DEF dev_vars
<1>3. PoolTypes'
  BY <1>1, <1>2 DEF IInv, PoolTypes
<1>4. /\ Injective(free_device)' /\ Injective(storage_device)'
      /\ Elements(free_device)' = Elements(free_device)
      /\ Elements(storage_device)' = Elements(storage_device)
  BY <1>2 DEF IInv, DevicePool
<1>5. \A r, q \in Taken("device")' : taken'[r].idx = taken'[q].idx => r = q
  BY <1>1, <1>2 DEF IInv, DevicePool
<1>6. DevicePool'
  BY <1>1, <1>4, <1>5 DEF IInv, DevicePool
<1>. QED
  BY <1>3, <1>6

(* Popping a block for r.                                                  *)
LEMMA TakeLemma ==
    ASSUME IInv, NEW r \in Requests, taken[r] = None,
           NEW k \in Idx, NEW t \in Tiers,
           taken' = [taken EXCEPT ![r] = [idx |-> k, tier |-> t]]
    PROVE  /\ taken' \in [Requests -> [idx : Idx, tier : Tiers] \cup {None}]
           /\ \A q \in Requests \ {r} : taken'[q] = taken[q]
           /\ taken'[r].idx = k
           /\ t = "device" =>
                 Taken("device")' = Taken("device") \cup {r} /\ r \notin Taken("device")
           /\ t = "host" => Taken("device")' = Taken("device")
<1>1. taken \in [Requests -> [idx : Idx, tier : Tiers] \cup {None}]
  BY DEF IInv, PoolTypes
<1>2. /\ taken'[r] = [idx |-> k, tier |-> t] /\ taken'[r] # None
      /\ \A q \in Requests \ {r} : taken'[q] = taken[q]
      /\ taken' \in [Requests -> [idx : Idx, tier : Tiers] \cup {None}]
  BY <1>1, NoneAssumption
<1>3. taken'[r].idx = k /\ taken'[r].tier = t
  BY <1>2
<1>4. r \notin Taken("device")
  BY DEF Taken
<1>5. ASSUME t = "device" PROVE Taken("device")' = Taken("device") \cup {r}
  BY <1>2, <1>3, <1>5 DEF Taken
<1>6. ASSUME t = "host" PROVE Taken("device")' = Taken("device")
  <2>1. r \notin Taken("device")'
    BY <1>3, <1>6 DEF Taken
  <2>. QED
    BY <1>2, <1>4, <2>1 DEF Taken
<1>. QED
  BY <1>2, <1>3, <1>4, <1>5, <1>6

(* Nothing but the lock's holder takes from the storage: the others keep   *)
(* a spill's remaining work inside it.                                     *)
LEMMA SpillFrame ==
    ASSUME SpillInside, UNCHANGED <<lock, todo>>,
           Elements(storage_device) \subseteq Elements(storage_device')
    PROVE  SpillInside'
  BY DEF SpillInside, Injective, Elements

LEMMA AllocDeviceStep ==
    ASSUME IInv, NEW r \in Requests, AllocDevice(r)
    PROVE  IInv'
<1>. DEFINE k == Last(free_device)
<1>1. /\ free_device \in Seq(DeviceIdx) /\ free_device # <<>> /\ Injective(free_device)
      /\ taken[r] = None
      /\ taken' = [taken EXCEPT ![r] = [idx |-> k, tier |-> "device"]]
      /\ free_device' = Front(free_device)
      /\ UNCHANGED <<free_host, storage_device, storage_host, lock, todo>>
  BY DEF AllocDevice, IInv, PoolTypes, DevicePool, storage_vars
<1>2. /\ Front(free_device) \in Seq(DeviceIdx) /\ Injective(Front(free_device))
      /\ k \in Elements(free_device)
      /\ k \notin Elements(Front(free_device))
      /\ Elements(free_device) = Elements(Front(free_device)) \cup {k}
  BY <1>1, FrontLemma
<1>3. k \in DeviceIdx /\ k \in Idx
  BY <1>1, <1>2, IdxLemma DEF Elements
<1>. HIDE DEF k
<1>4. /\ taken' \in [Requests -> [idx : Idx, tier : Tiers] \cup {None}]
      /\ \A q \in Requests \ {r} : taken'[q] = taken[q]
      /\ taken'[r].idx = k
      /\ Taken("device")' = Taken("device") \cup {r} /\ r \notin Taken("device")
  BY <1>1, <1>3, TakeLemma DEF Tiers
<1>5. TakenIdx("device")' = TakenIdx("device") \cup {k}
  BY <1>4 DEF TakenIdx, Taken
<1>6. \A q \in Taken("device") : taken[q].idx # k
  BY <1>2 DEF IInv, DevicePool, TakenIdx
<1>7. \A q \in Taken("device") : q \in Requests \ {r}
  BY <1>4 DEF Taken
<1>8. PoolTypes'
  BY <1>1, <1>2, <1>3, <1>4, <1>7 DEF IInv, PoolTypes
<1>9. \A p, q \in Taken("device")' : taken'[p].idx = taken'[q].idx => p = q
  BY <1>4, <1>6, <1>7 DEF IInv, DevicePool
<1>10. Elements(free_device)' = Elements(Front(free_device)) /\ Injective(free_device)'
  BY <1>1, <1>2
<1>11. Elements(storage_device)' = Elements(storage_device) /\ Injective(storage_device)'
  BY <1>1 DEF IInv, DevicePool
<1>12. DevicePool'
  BY <1>2, <1>5, <1>9, <1>10, <1>11 DEF IInv, DevicePool
<1>13. SpillInside'
  BY <1>1, SpillFrame DEF IInv
<1>. QED
  BY <1>8, <1>12, <1>13 DEF IInv

LEMMA AllocHostStep ==
    ASSUME IInv, NEW r \in Requests, AllocHost(r) \/ AllocGrown(r)
    PROVE  IInv'
<1>1. /\ taken[r] = None
      /\ UNCHANGED <<free_device, storage_device, storage_host, lock, todo>>
      /\ free_host' \in Seq(Idx)
      /\ \E k \in Idx : taken' = [taken EXCEPT ![r] = [idx |-> k, tier |-> "host"]]
  <2>1. CASE AllocHost(r)
    <3>1. free_host \in Seq(Idx) /\ free_host # <<>>
      BY <2>1 DEF AllocHost, IInv, PoolTypes
    <3>2. Front(free_host) \in Seq(Idx) /\ Last(free_host) \in Idx
      BY <3>1 DEF Front, Last
    <3>. QED
      BY <2>1, <3>2 DEF AllocHost, storage_vars
  <2>2. CASE AllocGrown(r)
    BY <2>2 DEF AllocGrown, storage_vars, IInv, PoolTypes
  <2>. QED
    BY <2>1, <2>2
<1>2. PICK k \in Idx : taken' = [taken EXCEPT ![r] = [idx |-> k, tier |-> "host"]]
  BY <1>1
<1>3. /\ taken' \in [Requests -> [idx : Idx, tier : Tiers] \cup {None}]
      /\ \A q \in Requests \ {r} : taken'[q] = taken[q]
      /\ Taken("device")' = Taken("device")
  BY <1>1, <1>2, TakeLemma DEF Tiers
<1>4. \A q \in Taken("device") : q \in Requests \ {r}
  BY <1>1 DEF Taken
<1>5. TakenIdx("device")' = TakenIdx("device")
  BY <1>3, <1>4 DEF TakenIdx
<1>6. PoolTypes'
  BY <1>1, <1>3, <1>4 DEF IInv, PoolTypes
<1>7. /\ Injective(free_device)' /\ Injective(storage_device)'
      /\ Elements(free_device)' = Elements(free_device)
      /\ Elements(storage_device)' = Elements(storage_device)
  BY <1>1 DEF IInv, DevicePool
<1>8. \A p, q \in Taken("device")' : taken'[p].idx = taken'[q].idx => p = q
  BY <1>3, <1>4 DEF IInv, DevicePool
<1>9. DevicePool'
  BY <1>5, <1>7, <1>8 DEF IInv, DevicePool
<1>10. SpillInside'
  BY <1>1, <1>7, SpillFrame DEF IInv
<1>. QED
  BY <1>6, <1>9, <1>10 DEF IInv

LEMMA InstallStep ==
    ASSUME IInv, NEW r \in Requests, Install(r)
    PROVE  IInv'
<1>. DEFINE k == taken[r].idx
<1>1. /\ taken \in [Requests -> [idx : Idx, tier : Tiers] \cup {None}]
      /\ taken[r] # None
      /\ taken' = [taken EXCEPT ![r] = None]
      /\ UNCHANGED <<free_device, free_host, lock, todo>>
      /\ storage_device' = IF taken[r].tier = "device" THEN Append(storage_device, k)
                           ELSE storage_device
      /\ storage_host' = IF taken[r].tier = "host" THEN storage_host \cup {k}
                         ELSE storage_host
  BY DEF Install, pool_vars, IInv, PoolTypes
<1>2. k \in Idx /\ taken[r].tier \in Tiers
  BY <1>1
<1>3. /\ taken' \in [Requests -> [idx : Idx, tier : Tiers] \cup {None}]
      /\ taken'[r] = None
      /\ \A q \in Requests \ {r} : taken'[q] = taken[q]
  BY <1>1
<1>4. Taken("device")' = Taken("device") \ {r}
  BY <1>3 DEF Taken
<1>5. \A q \in Taken("device")' : taken'[q].idx = taken[q].idx /\ q \in Taken("device")
  BY <1>3, <1>4 DEF Taken
<1>6. \A p, q \in Taken("device")' : taken'[p].idx = taken'[q].idx => p = q
  BY <1>5 DEF IInv, DevicePool
<1>7. storage_host' \in SUBSET Idx /\ free_host' \in Seq(Idx)
  BY <1>1, <1>2 DEF IInv, PoolTypes
<1>8. /\ Injective(free_device)' /\ free_device' \in Seq(DeviceIdx)
      /\ Elements(free_device)' = Elements(free_device)
  BY <1>1 DEF IInv, PoolTypes, DevicePool
<1>9. CASE taken[r].tier = "device"
  <2>1. r \in Taken("device") /\ k \in DeviceIdx
    BY <1>1, <1>9 DEF Taken, IInv, PoolTypes
  <2>2. k \in TakenIdx("device")
    BY <2>1 DEF TakenIdx
  <2>3. k \notin Elements(storage_device)
    BY <2>2 DEF IInv, DevicePool
  <2>4. storage_device' = Append(storage_device, k)
    BY <1>1, <1>9
  <2>5. storage_device \in Seq(DeviceIdx) /\ Injective(storage_device)
    BY DEF IInv, PoolTypes, DevicePool
  <2>. HIDE DEF k
  <2>6. /\ storage_device' \in Seq(DeviceIdx) /\ Injective(storage_device)'
        /\ Elements(storage_device)' = Elements(storage_device) \cup {k}
    BY <2>1, <2>3, <2>4, <2>5, AppendLemma
  <2>7. TakenIdx("device")' = TakenIdx("device") \ {k}
    <3>1. \A q \in Taken("device") : taken[q].idx = k => q = r
      BY <2>1 DEF IInv, DevicePool, k
    <3>2. \A q \in Taken("device") \ {r} : q \in Taken("device")'
      BY <1>4
    <3>3. r \notin Taken("device")' /\ taken[r].idx = k
      BY <1>4 DEF k
    <3>. QED
      BY <1>5, <3>1, <3>2, <3>3 DEF TakenIdx
  <2>8. PoolTypes'
    BY <1>3, <1>5, <1>7, <1>8, <2>6 DEF IInv, PoolTypes
  <2>9. DevicePool'
    BY <1>6, <1>8, <2>2, <2>6, <2>7 DEF IInv, DevicePool
  <2>10. SpillInside'
    BY <1>1, <2>6, SpillFrame DEF IInv
  <2>. QED
    BY <2>8, <2>9, <2>10 DEF IInv
<1>10. CASE taken[r].tier # "device"
  <2>1. storage_device' = storage_device
    BY <1>1, <1>10
  <2>2. r \notin Taken("device")
    BY <1>10 DEF Taken
  <2>3. Taken("device")' = Taken("device")
    BY <1>4, <2>2
  <2>4. TakenIdx("device")' = TakenIdx("device")
    BY <1>5, <2>3 DEF TakenIdx
  <2>5. /\ Injective(storage_device)' /\ storage_device' \in Seq(DeviceIdx)
        /\ Elements(storage_device)' = Elements(storage_device)
    BY <2>1 DEF IInv, PoolTypes, DevicePool
  <2>6. PoolTypes'
    BY <1>3, <1>5, <1>7, <1>8, <2>5 DEF IInv, PoolTypes
  <2>7. DevicePool'
    BY <1>6, <1>8, <2>4, <2>5 DEF IInv, DevicePool
  <2>8. SpillInside'
    BY <1>1, <2>5, SpillFrame DEF IInv
  <2>. QED
    BY <2>6, <2>7, <2>8 DEF IInv
<1>. QED
  BY <1>9, <1>10

(* A block k leaves the storage and goes back to the free list.            *)
LEMMA ReturnLemma ==
    ASSUME IInv, NEW k \in Elements(storage_device),
           storage_device' = Without(storage_device, k),
           free_device' = Append(free_device, k),
           UNCHANGED taken,
           free_host' \in Seq(Idx), storage_host' \in SUBSET Idx
    PROVE  /\ PoolTypes' /\ DevicePool'
           /\ Elements(storage_device)' = Elements(storage_device) \ {k}
<1>1. /\ storage_device \in Seq(DeviceIdx) /\ Injective(storage_device)
      /\ free_device \in Seq(DeviceIdx) /\ Injective(free_device)
      /\ k \in DeviceIdx /\ k \notin Elements(free_device)
      /\ k \notin TakenIdx("device")
  BY DEF IInv, PoolTypes, DevicePool
<1>2. /\ storage_device' \in Seq(DeviceIdx) /\ Injective(storage_device)'
      /\ Elements(storage_device)' = Elements(storage_device) \ {k}
  BY <1>1, WithoutLemma
<1>3. /\ free_device' \in Seq(DeviceIdx) /\ Injective(free_device)'
      /\ Elements(free_device)' = Elements(free_device) \cup {k}
  BY <1>1, AppendLemma
<1>4. Taken("device")' = Taken("device") /\ TakenIdx("device")' = TakenIdx("device")
  BY DEF Taken, TakenIdx
<1>5. PoolTypes'
  BY <1>2, <1>3, <1>4 DEF IInv, PoolTypes
<1>6. \A r, q \in Taken("device")' : taken'[r].idx = taken'[q].idx => r = q
  BY <1>4 DEF IInv, DevicePool
<1>7. DevicePool'
  BY <1>1, <1>2, <1>3, <1>4, <1>6 DEF IInv, DevicePool
<1>. QED
  BY <1>2, <1>5, <1>7

LEMMA UnderLockStep ==
    ASSUME IInv, UnderLock
    PROVE  IInv'
<1>1. CASE FreeDevice
  <2>1. PoolTypes' /\ DevicePool'
    BY <1>1, ReturnLemma DEF FreeDevice, IInv, PoolTypes
  <2>2. SpillInside'
    BY <1>1 DEF FreeDevice, SpillInside
  <2>. QED
    BY <2>1, <2>2 DEF IInv
<1>2. CASE FreeHost
  <2>1. UNCHANGED dev_vars /\ Head(todo) \in Idx
    BY <1>2 DEF FreeHost, dev_vars, IInv, PoolTypes
  <2>2. free_host' \in Seq(Idx) /\ storage_host' \in SUBSET Idx
    BY <1>2, <2>1 DEF FreeHost, IInv, PoolTypes
  <2>3. SpillInside'
    BY <1>2 DEF FreeHost, SpillInside
  <2>. QED
    BY <2>1, <2>2, <2>3, DeviceFrame DEF IInv
<1>3. CASE FreeNothing
  <2>1. UNCHANGED dev_vars /\ free_host' \in Seq(Idx) /\ storage_host' \in SUBSET Idx
    BY <1>3 DEF FreeNothing, dev_vars, pool_vars, storage_vars, IInv, PoolTypes
  <2>2. SpillInside'
    BY <1>3 DEF FreeNothing, SpillInside
  <2>. QED
    BY <2>1, <2>2, DeviceFrame DEF IInv
<1>4. CASE SpillOne
  <2>. DEFINE k == Head(todo)
  <2>1. /\ todo \in Seq(DeviceIdx) /\ todo # <<>> /\ Injective(todo)
        /\ Elements(todo) \subseteq Elements(storage_device)
    BY <1>4 DEF SpillOne, IInv, SpillInside
  <2>2. /\ Tail(todo) \in Seq(DeviceIdx) /\ Injective(Tail(todo))
        /\ k \in Elements(todo) /\ k \in DeviceIdx
        /\ Elements(Tail(todo)) \subseteq Elements(todo) \ {k}
    BY <2>1, TailLemma
  <2>3. k \in Elements(storage_device) /\ k \in Idx
    BY <2>1, <2>2, IdxLemma
  <2>4. /\ storage_device' = Without(storage_device, k)
        /\ free_device' = Append(free_device, k)
        /\ taken' = taken /\ free_host' = free_host
        /\ storage_host' = storage_host \cup {k}
        /\ todo' = Tail(todo)
    BY <1>4 DEF SpillOne
  <2>. HIDE DEF k
  <2>5. free_host' \in Seq(Idx) /\ storage_host' \in SUBSET Idx
    BY <2>3, <2>4 DEF IInv, PoolTypes
  <2>6. /\ PoolTypes' /\ DevicePool'
        /\ Elements(storage_device)' = Elements(storage_device) \ {k}
    BY <2>3, <2>4, <2>5, ReturnLemma
  <2>7. SpillInside'
    BY <2>1, <2>2, <2>4, <2>6 DEF SpillInside
  <2>. QED
    BY <2>6, <2>7 DEF IInv
<1>5. CASE Unlock
  <2>1. UNCHANGED dev_vars /\ free_host' \in Seq(Idx) /\ storage_host' \in SUBSET Idx
    BY <1>5 DEF Unlock, dev_vars, pool_vars, storage_vars, IInv, PoolTypes
  <2>2. SpillInside'
    BY <1>5 DEF Unlock, SpillInside
  <2>. QED
    BY <2>1, <2>2, DeviceFrame DEF IInv
<1>. QED
  BY <1>1, <1>2, <1>3, <1>4, <1>5 DEF UnderLock

LEMMA SpillBeginStep ==
    ASSUME IInv, NEW n \in 1..MaxSpill, SpillBegin(n)
    PROVE  IInv'
<1>1. UNCHANGED dev_vars /\ free_host' \in Seq(Idx) /\ storage_host' \in SUBSET Idx
  BY DEF SpillBegin, dev_vars, pool_vars, storage_vars, IInv, PoolTypes
<1>2. storage_device \in Seq(DeviceIdx) /\ Injective(storage_device)
  BY DEF IInv, PoolTypes, DevicePool
<1>. DEFINE m == IF n < Len(storage_device) THEN n ELSE Len(storage_device)
<1>3. m \in 0..Len(storage_device)
  BY <1>2, KVAssumption
<1>4. todo' = SubSeq(storage_device, 1, m) /\ storage_device' = storage_device
  BY DEF SpillBegin, storage_vars
<1>. HIDE DEF m
<1>5. SpillInside'
  BY <1>2, <1>3, <1>4, PrefixLemma DEF SpillInside
<1>. QED
  BY <1>1, <1>5, DeviceFrame DEF IInv

(* Calls that do not touch the pools.                                      *)
LEMMA OtherStep ==
    ASSUME IInv,
           \/ \E r \in Requests : \/ \E n \in 1..MaxBlocks : EnsureBegin(r, n)
                                  \/ Write(r) \/ FreeBegin(r)
           \/ UNCHANGED vars
    PROVE  IInv'
<1>1. UNCHANGED <<pool_vars, storage_device, storage_host, taken>>
  BY DEF EnsureBegin, Write, FreeBegin, vars, storage_vars
<1>2. UNCHANGED dev_vars /\ free_host' \in Seq(Idx) /\ storage_host' \in SUBSET Idx
  BY <1>1 DEF dev_vars, pool_vars, IInv, PoolTypes
<1>3. UNCHANGED <<lock, todo>> \/ lock' = "free"
  BY DEF EnsureBegin, Write, FreeBegin, vars
<1>4. SpillInside'
  <2>1. CASE UNCHANGED <<lock, todo>>
    BY <1>1, <2>1, SpillFrame DEF IInv
  <2>2. CASE lock' = "free"
    BY <2>2 DEF SpillInside
  <2>. QED
    BY <1>3, <2>1, <2>2
<1>. QED
  BY <1>2, <1>4, DeviceFrame DEF IInv

LEMMA NextLemma ==
    ASSUME IInv, [Next]_vars
    PROVE  IInv'
<1>1. ASSUME NEW r \in Requests, Serve(r) PROVE IInv'
  BY <1>1, AllocDeviceStep, AllocHostStep, InstallStep, OtherStep DEF Serve
<1>2. CASE UnderLock
  BY <1>2, UnderLockStep
<1>3. ASSUME NEW n \in 1..MaxSpill, SpillBegin(n) PROVE IInv'
  BY <1>3, SpillBeginStep
<1>4. CASE UNCHANGED vars
  BY <1>4, OtherStep
<1>. QED
  BY <1>1, <1>2, <1>3, <1>4 DEF Next

-----------------------------------------------------------------------------
(* The device pool is conserved by every interleaving of ensure_sequence,  *)
(* write, free and spill_cold_blocks (kvcache.py:71-104, 116-163,          *)
(* 177-189): each device index is free, stored, or in the hands of exactly *)
(* one thread.                                                             *)
THEOREM KVCacheDevicePool == Spec => []DevicePool
<1>1. Init => IInv
  BY InitLemma
<1>2. IInv /\ [Next]_vars => IInv'
  BY NextLemma
<1>3. IInv => DevicePool
  BY DEF IInv
<1>. QED
  BY <1>1, <1>2, <1>3, PTL DEF Spec

-----------------------------------------------------------------------------
(* A set of naturals that is not empty has a smallest element.             *)
LEMMA Smallest ==
    ASSUME NEW S \in SUBSET Nat, S # {}
    PROVE  \E m \in S : \A n \in S : m <= n
<1>. DEFINE R == OpToRel(<, Nat)
<1>1. \E x \in S : \A y \in S : ~ (<<y, x>> \in R)
  BY NatLessThanWellFounded, WFMin
<1>2. \A x, y \in Nat : <<y, x>> \in R <=> y < x
  BY DEF OpToRel
<1>. HIDE DEF R
<1>3. PICK m \in S : \A n \in S : ~ (<<n, m>> \in R)
  BY <1>1
<1>4. m \in Nat /\ \A n \in S : n \in Nat /\ ~ (n < m)
  BY <1>2, <1>3, Zenon
<1>5. \A n \in S : m <= n
  BY <1>4
<1>. QED
  BY <1>5

-----------------------------------------------------------------------------
(* Counting the places of a block index.                                   *)

HowMany(s, k) == Cardinality(Places(s, k))

LEMMA PlacesFinite ==
    ASSUME NEW S, NEW s \in Seq(S), NEW k
    PROVE  IsFiniteSet(Places(s, k)) /\ HowMany(s, k) \in Nat
<1>1. Len(s) \in Nat /\ DOMAIN s = 1..Len(s)
  OBVIOUS
<1>2. IsFiniteSet(1..Len(s))
  BY <1>1, FS_Interval
<1>3. Places(s, k) \in SUBSET (1..Len(s))
  BY <1>1 DEF Places
<1>. QED
  BY <1>2, <1>3, FS_Subset, FS_CardinalityType DEF HowMany

(* The places in a concatenation.                                          *)
LEMMA HowManyConcat ==
    ASSUME NEW S, NEW s \in Seq(S), NEW t \in Seq(S), NEW k
    PROVE  /\ s \o t \in Seq(S)
           /\ HowMany(s \o t, k) = HowMany(s, k) + HowMany(t, k)
<1>. DEFINE n == Len(s)
            u == s \o t
            V == {j \in DOMAIN u : u[j] = k /\ j > n}
            f == [i \in Places(t, k) |-> i + n]
<1>1. /\ n \in Nat /\ DOMAIN s = 1..n /\ Len(t) \in Nat /\ DOMAIN t = 1..Len(t)
      /\ u \in Seq(S) /\ DOMAIN u = 1..(n + Len(t))
      /\ \A i \in 1..n : u[i] = s[i]
      /\ \A i \in 1..Len(t) : u[i + n] = t[i]
      /\ \A j \in 1..(n + Len(t)) : j > n => u[j] = t[j - n]
  OBVIOUS
<1>2. IsFiniteSet(Places(s, k)) /\ IsFiniteSet(Places(t, k)) /\ HowMany(s, k) \in Nat /\ HowMany(t, k) \in Nat
  BY PlacesFinite
<1>. HIDE DEF n, u
<1>3. Places(u, k) = Places(s, k) \cup V /\ Places(s, k) \cap V = {}
  BY <1>1 DEF Places
<1>4. IsFiniteSet(V) /\ Cardinality(V) = HowMany(t, k)
  <2>1. f \in [Places(t, k) -> V]
    BY <1>1 DEF Places
  <2>2. \A a, b \in Places(t, k) : f[a] = f[b] => a = b
    BY <1>1 DEF Places
  <2>3. \A j \in V : \E i \in Places(t, k) : f[i] = j
    <3>. SUFFICES ASSUME NEW j \in V PROVE \E i \in Places(t, k) : f[i] = j
      OBVIOUS
    <3>1. j - n \in 1..Len(t) /\ t[j - n] = k /\ (j - n) + n = j
      BY <1>1
    <3>2. j - n \in Places(t, k)
      BY <1>1, <3>1 DEF Places
    <3>. QED
      BY <3>1, <3>2
  <2>. HIDE DEF f, V
  <2>4. f \in Bijection(Places(t, k), V)
    BY <2>1, <2>2, <2>3 DEF Bijection, Injection, Surjection, IsInjective
  <2>. QED
    BY <1>2, <2>4, FS_Bijection DEF ExistsBijection, HowMany
<1>. HIDE DEF V
<1>5. Cardinality(Places(s, k) \cup V) = Cardinality(Places(s, k)) + Cardinality(V) - Cardinality({})
  BY <1>2, <1>3, <1>4, FS_Union
<1>6. Cardinality({}) = 0
  BY FS_EmptySet
<1>7. HowMany(u, k) = HowMany(s, k) + HowMany(t, k)
  BY <1>2, <1>3, <1>4, <1>5, <1>6 DEF HowMany
<1>. QED
  BY <1>1, <1>7 DEF u

(* The places in a list of one entry, and in an empty list.                *)
LEMMA HowManyOne ==
    ASSUME NEW x, NEW k
    PROVE  /\ HowMany(<<>>, k) = 0
           /\ HowMany(<<x>>, k) = IF x = k THEN 1 ELSE 0
<1>1. Places(<<>>, k) = {} /\ Places(<<x>>, k) = IF x = k THEN {1} ELSE {}
  BY DEF Places
<1>. QED
  BY <1>1, FS_EmptySet, FS_Singleton DEF HowMany

(* The places in what is left after the first entry.                       *)
LEMMA HowManyTail ==
    ASSUME NEW S, NEW s \in Seq(S), s # <<>>, NEW k
    PROVE  /\ HowMany(s, k) = HowMany(Tail(s), k) + (IF Head(s) = k THEN 1 ELSE 0)
           /\ HowMany(Tail(s), k) \in Nat
           /\ Head(s) = k => HowMany(s, k) >= 1
<1>. DEFINE a == <<Head(s)>>
            b == Tail(s)
<1>1. a \in Seq(S) /\ b \in Seq(S) /\ s = a \o b
  OBVIOUS
<1>2. HowMany(b, k) \in Nat /\ HowMany(a, k) = IF Head(s) = k THEN 1 ELSE 0
  BY <1>1, PlacesFinite, HowManyOne
<1>. HIDE DEF a, b
<1>3. HowMany(a \o b, k) = HowMany(a, k) + HowMany(b, k)
  BY <1>1, HowManyConcat
<1>4. HowMany(s, k) = HowMany(a, k) + HowMany(b, k)
  BY <1>1, <1>3
<1>5. /\ HowMany(s, k) = HowMany(b, k) + (IF Head(s) = k THEN 1 ELSE 0)
      /\ Head(s) = k => HowMany(s, k) >= 1
  BY <1>2, <1>4
<1>. QED
  BY <1>2, <1>5 DEF b

-----------------------------------------------------------------------------
(* The blocks of a table.  f holds the blocks of its first layers.         *)

Joined(table, n, f) ==
    /\ f \in [0..n -> Seq(Idx)]
    /\ f[0] = <<>>
    /\ \A l \in 1..n : f[l] = f[l - 1] \o table[l]

LEMMA JoinedExists ==
    ASSUME NEW table \in [Layers -> Seq(Idx)]
    PROVE  \E f : Joined(table, NumLayers, f)
<1>. DEFINE S == {n \in 0..NumLayers : ~ \E f : Joined(table, n, f)}
<1>1. NumLayers \in Nat /\ \A l \in 1..NumLayers : table[l] \in Seq(Idx)
  BY KVAssumption DEF Layers
<1>2. SUFFICES ASSUME S # {} PROVE FALSE
  BY <1>1
<1>3. PICK m \in S : \A n \in S : m <= n
  <2>1. S \in SUBSET Nat
    BY <1>1
  <2>. HIDE DEF S
  <2>. QED
    BY <1>2, <2>1, Smallest
<1>4. m \in 0..NumLayers /\ ~ \E f : Joined(table, m, f)
  OBVIOUS
<1>5. m # 0
  <2>1. [l \in 0..0 |-> <<>>] \in [0..0 -> Seq(Idx)] /\ [l \in 0..0 |-> <<>>][0] = <<>>
    OBVIOUS
  <2>2. Joined(table, 0, [l \in 0..0 |-> <<>>])
    BY <2>1 DEF Joined
  <2>. QED
    BY <1>4, <2>2
<1>6. m - 1 \in 0..NumLayers /\ m \in 1..NumLayers /\ m - 1 < m
  BY <1>1, <1>4, <1>5
<1>7. PICK f : Joined(table, m - 1, f)
  BY <1>1, <1>3, <1>6
<1>. HIDE DEF S
<1>. DEFINE g == [l \in 0..m |-> IF l = m THEN f[m - 1] \o table[m] ELSE f[l]]
<1>8. f \in [0..m - 1 -> Seq(Idx)] /\ f[0] = <<>> /\ \A l \in 1..m - 1 : f[l] = f[l - 1] \o table[l]
  BY <1>7 DEF Joined
<1>9. f[m - 1] \in Seq(Idx) /\ table[m] \in Seq(Idx) /\ f[m - 1] \o table[m] \in Seq(Idx)
  <2>1. f[m - 1] \in Seq(Idx) /\ table[m] \in Seq(Idx)
    BY <1>1, <1>6, <1>8
  <2>. QED
    BY <2>1
<1>10. g \in [0..m -> Seq(Idx)]
  <2>1. \A l \in 0..m : l = m \/ l \in 0..m - 1
    BY <1>6
  <2>. QED
    BY <1>8, <1>9, <2>1
<1>11. g[0] = <<>> /\ g[m] = f[m - 1] \o table[m] /\ \A l \in 0..m - 1 : g[l] = f[l]
  <2>1. /\ 0 \in 0..m - 1 /\ 0 \in 0..m /\ 0 # m /\ m \in 0..m
        /\ \A l \in 0..m - 1 : l \in 0..m /\ l # m
    BY <1>6
  <2>. QED
    BY <1>8, <2>1
<1>. HIDE DEF g
<1>12. \A l \in 1..m : g[l] = g[l - 1] \o table[l]
  <2>. SUFFICES ASSUME NEW l \in 1..m PROVE g[l] = g[l - 1] \o table[l]
    OBVIOUS
  <2>1. l - 1 \in 0..m - 1 /\ (l = m \/ l \in 1..m - 1) /\ (l \in 1..m - 1 => l \in 0..m - 1)
    BY <1>6
  <2>. QED
    BY <1>8, <1>11, <2>1
<1>. QED
  BY <1>4, <1>10, <1>11, <1>12 DEF Joined

(* Flat joins the layers of the table.                                     *)
LEMMA FlatIsJoined ==
    ASSUME NEW table \in [Layers -> Seq(Idx)]
    PROVE  \E f : Joined(table, NumLayers, f) /\ Flat(table) = f[NumLayers]
<1>. DEFINE N == NumLayers
            Is(f) == f = [l \in 0..N |-> IF l = 0 THEN <<>> ELSE f[l - 1] \o table[l]]
            h == CHOOSE f : Is(f)
<1>1. N \in Nat
  BY KVAssumption
<1>2. Flat(table) = h[N]
  BY DEF Flat
<1>3. PICK f : Joined(table, N, f)
  BY JoinedExists
<1>. HIDE DEF N
<1>4. f \in [0..N -> Seq(Idx)] /\ f[0] = <<>> /\ \A l \in 1..N : f[l] = f[l - 1] \o table[l]
  BY <1>3 DEF Joined
<1>5. Is(f)
  <2>1. \A l \in 0..N : l = 0 \/ l \in 1..N
    BY <1>1
  <2>2. \A l \in 0..N : f[l] = IF l = 0 THEN <<>> ELSE f[l - 1] \o table[l]
    BY <1>4, <2>1
  <2>3. f = [l \in 0..N |-> f[l]]
    BY <1>4
  <2>. QED
    BY <2>2, <2>3
<1>6. Is(h)
  <2>. HIDE DEF Is
  <2>. QED
    BY <1>5
<1>. HIDE DEF h
<1>7. /\ h = [l \in 0..N |-> h[l]]
      /\ \A l \in 0..N : h[l] = IF l = 0 THEN <<>> ELSE h[l - 1] \o table[l]
  BY <1>6
<1>8. h = f
  <2>. DEFINE S == {l \in 0..N : h[l] # f[l]}
  <2>1. S = {}
    <3>. SUFFICES ASSUME S # {} PROVE FALSE
      OBVIOUS
    <3>1. PICK l \in S : \A j \in S : l <= j
      <4>1. S \in SUBSET Nat
        BY <1>1
      <4>. HIDE DEF S
      <4>. QED
        BY <4>1, Smallest
    <3>2. l \in 0..N /\ h[l] # f[l]
      OBVIOUS
    <3>3. l # 0
      BY <1>1, <1>4, <1>7, <3>2
    <3>4. l \in 1..N /\ l - 1 \in 0..N /\ l - 1 < l
      BY <1>1, <3>2, <3>3
    <3>5. h[l - 1] = f[l - 1]
      BY <3>1, <3>4
    <3>. QED
      BY <1>4, <1>7, <3>2, <3>3, <3>4, <3>5
  <2>2. \A l \in 0..N : h[l] = f[l]
    BY <2>1, Zenon
  <2>. QED
    BY <1>4, <1>7, <2>2
<1>. QED
  BY <1>2, <1>3, <1>8 DEF N

\* The cells of the first m layers that hold k.
Cells(table, m, k) ==
    {p \in (1..m) \X (1..MaxBlocks) :
        p[2] \in DOMAIN table[p[1]] /\ table[p[1]][p[2]] = k}

(* Flat lists a block index as often as the table holds it.                *)
LEMMA FlatCount ==
    ASSUME NEW table \in [Layers -> Seq(Idx)],
           \A l \in Layers : Len(table[l]) <= MaxBlocks, NEW k
    PROVE  /\ Flat(table) \in Seq(Idx)
           /\ HowMany(Flat(table), k) = Cardinality(Cells(table, NumLayers, k))
<1>. DEFINE N == NumLayers
            C(m) == Cells(table, m, k)
<1>1. N \in Nat /\ MaxBlocks \in Nat /\ Layers = 1..N
  BY KVAssumption DEF Layers
<1>2. PICK f : Joined(table, N, f) /\ Flat(table) = f[N]
  BY FlatIsJoined
<1>3. \A l \in 1..N : table[l] \in Seq(Idx) /\ Len(table[l]) <= MaxBlocks
  BY <1>1
<1>. HIDE DEF N
<1>4. f \in [0..N -> Seq(Idx)] /\ f[0] = <<>> /\ \A l \in 1..N : f[l] = f[l - 1] \o table[l]
  BY <1>2 DEF Joined
<1>5. \A m \in 0..N : IsFiniteSet(C(m))
  <2>. TAKE m \in 0..N
  <2>0. IsFiniteSet(1..m) /\ IsFiniteSet(1..MaxBlocks)
    BY <1>1, FS_Interval
  <2>1. IsFiniteSet((1..m) \X (1..MaxBlocks))
    BY <2>0, FS_Product
  <2>2. C(m) \in SUBSET ((1..m) \X (1..MaxBlocks))
    BY DEF Cells
  <2>. QED
    BY <2>1, <2>2, FS_Subset
<1>. DEFINE S == {m \in 0..N : HowMany(f[m], k) # Cardinality(C(m))}
<1>6. S = {}
  <2>. SUFFICES ASSUME S # {} PROVE FALSE
    OBVIOUS
  <2>1. PICK m \in S : \A j \in S : m <= j
    <3>1. S \in SUBSET Nat
      BY <1>1
    <3>. HIDE DEF S
    <3>. QED
      BY <3>1, Smallest
  <2>2. m \in 0..N /\ HowMany(f[m], k) # Cardinality(C(m))
    OBVIOUS
  <2>3. m # 0
    <3>1. C(0) = {}
      BY DEF Cells
    <3>. QED
      BY <1>4, <2>2, <3>1, HowManyOne, FS_EmptySet
  <2>4. m \in 1..N /\ m - 1 \in 0..N /\ m - 1 < m
    BY <1>1, <2>2, <2>3
  <2>5. HowMany(f[m - 1], k) = Cardinality(C(m - 1))
    <3>1. ~ (m - 1 \in S)
      BY <2>1, <2>4
    <3>. QED
      BY <2>4, <3>1
  <2>. HIDE DEF S
  <2>6. /\ f[m - 1] \in Seq(Idx) /\ table[m] \in Seq(Idx) /\ f[m] = f[m - 1] \o table[m]
        /\ Len(table[m]) <= MaxBlocks /\ Len(table[m]) \in Nat /\ DOMAIN table[m] = 1..Len(table[m])
    <3>1. f[m - 1] \in Seq(Idx) /\ f[m] = f[m - 1] \o table[m]
      BY <1>4, <2>4
    <3>2. table[m] \in Seq(Idx) /\ Len(table[m]) <= MaxBlocks
      BY <1>3, <2>4
    <3>. QED
      BY <3>1, <3>2
  <2>. DEFINE g == [i \in Places(table[m], k) |-> <<m, i>>]
              V == {p \in C(m) : p[1] = m}
  <2>7. IsFiniteSet(Places(table[m], k)) /\ HowMany(table[m], k) \in Nat /\ HowMany(f[m - 1], k) \in Nat
    BY <2>6, PlacesFinite
  <2>8. IsFiniteSet(V) /\ Cardinality(V) = HowMany(table[m], k)
    <3>1. \A i \in Places(table[m], k) : i \in 1..MaxBlocks /\ i \in DOMAIN table[m] /\ table[m][i] = k
      BY <1>1, <2>6 DEF Places
    <3>2. g \in [Places(table[m], k) -> V]
      BY <2>4, <3>1 DEF Cells
    <3>3. \A a, b \in Places(table[m], k) : g[a] = g[b] => a = b
      OBVIOUS
    <3>4. \A p \in V : \E i \in Places(table[m], k) : g[i] = p
      <4>. SUFFICES ASSUME NEW p \in V PROVE \E i \in Places(table[m], k) : g[i] = p
        OBVIOUS
      <4>1. p = <<m, p[2]>> /\ p[2] \in Places(table[m], k)
        BY DEF Cells, Places
      <4>. QED
        BY <4>1
    <3>. HIDE DEF g, V
    <3>5. g \in Bijection(Places(table[m], k), V)
      BY <3>2, <3>3, <3>4 DEF Bijection, Injection, Surjection, IsInjective
    <3>. QED
      BY <2>7, <3>5, FS_Bijection DEF ExistsBijection, HowMany
  <2>9. C(m) = C(m - 1) \cup V /\ C(m - 1) \cap V = {}
    <3>1. \A l \in 1..m : l = m \/ l \in 1..m - 1
      BY <2>4
    <3>2. \A l \in 1..m - 1 : l \in 1..m /\ l # m
      BY <2>4
    <3>3. C(m) \subseteq C(m - 1) \cup V
      BY <3>1 DEF Cells
    <3>4. C(m - 1) \subseteq C(m)
      BY <3>2 DEF Cells
    <3>5. C(m - 1) \cap V = {}
      BY <3>2 DEF Cells
    <3>. QED
      BY <3>3, <3>4, <3>5
  <2>10. IsFiniteSet(C(m - 1))
    BY <1>5, <2>4
  <2>. HIDE DEF V, C
  <2>11. Cardinality(C(m - 1) \cup V) = Cardinality(C(m - 1)) + Cardinality(V) - Cardinality({})
    BY <2>8, <2>9, <2>10, FS_Union
  <2>12. HowMany(f[m], k) = HowMany(f[m - 1], k) + HowMany(table[m], k)
    BY <2>6, HowManyConcat
  <2>. QED
    BY <2>2, <2>5, <2>7, <2>8, <2>9, <2>11, <2>12, FS_EmptySet
<1>7. HowMany(f[N], k) = Cardinality(C(N))
  <2>1. N \in 0..N
    BY <1>1
  <2>2. ~ (HowMany(f[N], k) # Cardinality(C(N)))
    BY <1>6, <2>1, Zenon
  <2>. QED
    BY <2>2
<1>. QED
  BY <1>1, <1>2, <1>4, <1>7 DEF N

-----------------------------------------------------------------------------
(* Types, and the tables: a table is as long as was asked for at most, and *)
(* a block is in hand only while its table is short of one.                *)

TablesInv ==
    /\ \A r \in Requests : taken[r] # None => Ensuring(r)
    /\ \A r \in Requests, l \in Layers : Len(seq_blocks[r][l]) <= goal[r]

Shape == TypeOK /\ TablesInv

LEMMA DeviceLists == \A s \in Seq(DeviceIdx) : s \in Seq(Idx)
<1>1. ASSUME NEW s \in Seq(DeviceIdx) PROVE s \in Seq(Idx)
  <2>1. Len(s) \in Nat /\ s = [i \in 1..Len(s) |-> s[i]] /\ \A i \in 1..Len(s) : s[i] \in Idx
    BY IdxLemma
  <2>. QED
    BY <2>1
<1>. QED
  BY <1>1

(* No table has a block at first.                                          *)
LEMMA InitShape == Init => Shape
<1>. SUFFICES ASSUME Init PROVE Shape
  OBVIOUS
<1>1. IInv
  BY InitLemma
<1>2. DeviceBlocks \in Nat /\ HostBlocks \in Nat /\ MaxGrow \in Nat /\ MaxBlocks \in Nat
  BY KVAssumption
<1>3. free_device \in Seq(Idx) /\ free_host \in Seq(Idx)
  BY <1>1, DeviceLists DEF IInv, PoolTypes
<1>4. next_block \in (DeviceBlocks + HostBlocks)..(DeviceBlocks + HostBlocks + MaxGrow)
  BY <1>2 DEF Init
<1>5. /\ seq_blocks \in [Requests -> [Layers -> Seq(Idx)]]
      /\ \A r \in Requests, l \in Layers : seq_blocks[r][l] = <<>> /\ Len(seq_blocks[r][l]) = 0
  BY DEF Init
<1>6. goal \in [Requests -> 0..MaxBlocks] /\ \A r \in Requests : goal[r] = 0
  BY <1>2 DEF Init
<1>7. TypeOK
  BY <1>3, <1>4, <1>5, <1>6 DEF Init, TypeOK
<1>8. TablesInv
  BY <1>5, <1>6 DEF Init, TablesInv
<1>. QED
  BY <1>7, <1>8 DEF Shape

(* ensure_sequence fills the first layer that is short.                    *)
LEMMA FirstShort ==
    ASSUME Shape, NEW r \in Requests, taken[r] # None
    PROVE  /\ Min(Short(r)) \in Layers
           /\ Len(seq_blocks[r][Min(Short(r))]) < goal[r]
<1>1. Short(r) # {} /\ Short(r) \subseteq Layers
  BY DEF Shape, TablesInv, Ensuring, Short
<1>2. Short(r) \in SUBSET Nat
  BY <1>1, KVAssumption DEF Layers
<1>. DEFINE S == Short(r)
<1>. HIDE DEF S
<1>3. Min(S) \in S
  <2>1. S \in SUBSET Nat /\ S # {}
    BY <1>1, <1>2 DEF S
  <2>2. \E m \in S : \A n \in S : m <= n
    BY <2>1, Smallest
  <2>. QED
    BY <2>2 DEF Min
<1>. QED
  BY <1>3 DEF S, Short

\* r appends the block k of the tier t to its layer l.
Appends(r, l, k, t) ==
    /\ taken[r] # None /\ taken[r].idx = k /\ taken[r].tier = t
    /\ Len(seq_blocks[r][l]) < goal[r]
    /\ seq_blocks' = [seq_blocks EXCEPT ![r][l] = Append(seq_blocks[r][l], k)]
    /\ data' = [data EXCEPT ![t][k] = None]
    /\ storage_device' = IF t = "device" THEN Append(storage_device, k)
                                         ELSE storage_device
    /\ storage_host' = IF t = "host" THEN storage_host \cup {k} ELSE storage_host
    /\ taken' = [taken EXCEPT ![r] = None]
    /\ UNCHANGED <<pool_vars, goal, lock, todo>>

(* What Install does.                                                      *)
LEMMA InstallIs ==
    ASSUME IInv, Shape, NEW r \in Requests, Install(r)
    PROVE  \E l \in Layers, k \in Idx, t \in Tiers : Appends(r, l, k, t)
<1>1. taken[r] # None /\ taken[r].idx \in Idx /\ taken[r].tier \in Tiers
  BY DEF Install, Shape, TypeOK
<1>2. Min(Short(r)) \in Layers /\ Len(seq_blocks[r][Min(Short(r))]) < goal[r]
  BY <1>1, FirstShort
<1>3. seq_blocks' = [seq_blocks EXCEPT ![r][Min(Short(r))] =
                        Append(seq_blocks[r][Min(Short(r))], taken[r].idx)]
  <2>1. seq_blocks \in [Requests -> [Layers -> Seq(Idx)]]
    BY DEF Shape, TypeOK
  <2>. QED
    BY <1>2, <2>1 DEF Install
<1>. QED
  BY <1>1, <1>2, <1>3 DEF Install, Appends

(* The table after Install.                                                *)
LEMMA TableAppend ==
    ASSUME NEW s \in [Requests -> [Layers -> Seq(Idx)]], NEW r \in Requests, NEW l \in Layers,
           NEW k \in Idx, NEW s2, s2 = [s EXCEPT ![r][l] = Append(s[r][l], k)]
    PROVE  /\ s2 \in [Requests -> [Layers -> Seq(Idx)]]
           /\ s2[r][l] = Append(s[r][l], k)
           /\ \A q \in Requests, m \in Layers : <<q, m>> # <<r, l>> => s2[q][m] = s[q][m]
<1>1. s[r][l] \in Seq(Idx) /\ Append(s[r][l], k) \in Seq(Idx)
  <2>1. s[r][l] \in Seq(Idx)
    OBVIOUS
  <2>. QED
    BY <2>1
<1>2. s2[r] = [s[r] EXCEPT ![l] = Append(s[r][l], k)] /\ \A q \in Requests : q # r => s2[q] = s[q]
  OBVIOUS
<1>. QED
  BY <1>1, <1>2

LEMMA InstallShape ==
    ASSUME IInv, Shape, NEW r \in Requests, Install(r)
    PROVE  Shape'
<1>0. PICK l \in Layers, k \in Idx, t \in Tiers : Appends(r, l, k, t)
  BY InstallIs
<1>1. /\ taken[r] # None /\ taken[r].idx = k /\ taken[r].tier = t
      /\ Len(seq_blocks[r][l]) < goal[r]
      /\ seq_blocks' = [seq_blocks EXCEPT ![r][l] = Append(seq_blocks[r][l], k)]
      /\ data' = [data EXCEPT ![t][k] = None]
      /\ storage_device' = IF t = "device" THEN Append(storage_device, k)
                                           ELSE storage_device
      /\ storage_host' = IF t = "host" THEN storage_host \cup {k} ELSE storage_host
      /\ taken' = [taken EXCEPT ![r] = None]
      /\ UNCHANGED <<pool_vars, goal, lock, todo>>
  BY <1>0 DEF Appends
<1>2. IInv'
  BY InstallStep
<1>3. seq_blocks \in [Requests -> [Layers -> Seq(Idx)]] /\ goal \in [Requests -> 0..MaxBlocks]
  BY DEF Shape, TypeOK
<1>4. /\ seq_blocks' \in [Requests -> [Layers -> Seq(Idx)]]
      /\ seq_blocks'[r][l] = Append(seq_blocks[r][l], k)
      /\ \A q \in Requests, m \in Layers : <<q, m>> # <<r, l>> => seq_blocks'[q][m] = seq_blocks[q][m]
  BY <1>1, <1>3, TableAppend
<1>5. DOMAIN data' = Tiers /\ \A u \in Tiers : DOMAIN data'[u] = Idx
  BY <1>1 DEF Shape, TypeOK
<1>6. /\ free_device' \in Seq(Idx) /\ free_host' \in Seq(Idx) /\ storage_device' \in Seq(Idx)
      /\ storage_host' \in SUBSET Idx
      /\ taken' \in [Requests -> [idx : Idx, tier : Tiers] \cup {None}]
  BY <1>2, DeviceLists DEF IInv, PoolTypes
<1>7. TypeOK'
  BY <1>1, <1>4, <1>5, <1>6 DEF Shape, TypeOK, pool_vars
<1>8. \A q \in Requests, m \in Layers : Len(seq_blocks'[q][m]) <= goal'[q]
  <2>. SUFFICES ASSUME NEW q \in Requests, NEW m \in Layers
                PROVE  Len(seq_blocks'[q][m]) <= goal'[q]
    OBVIOUS
  <2>1. CASE <<q, m>> = <<r, l>>
    <3>1. seq_blocks[r][l] \in Seq(Idx) /\ goal[r] \in 0..MaxBlocks /\ MaxBlocks \in Nat
      BY <1>3, KVAssumption
    <3>2. Len(seq_blocks'[r][l]) = Len(seq_blocks[r][l]) + 1 /\ Len(seq_blocks[r][l]) \in Nat
      BY <1>4, <3>1
    <3>3. Len(seq_blocks[r][l]) + 1 <= goal[r]
      BY <1>1, <3>1, <3>2
    <3>. QED
      BY <1>1, <2>1, <3>2, <3>3
  <2>2. CASE <<q, m>> # <<r, l>>
    BY <1>1, <1>4, <2>2 DEF Shape, TablesInv
  <2>. QED
    BY <2>1, <2>2
<1>9. \A q \in Requests : taken'[q] # None => Ensuring(q)'
  <2>. SUFFICES ASSUME NEW q \in Requests, taken'[q] # None PROVE Ensuring(q)'
    OBVIOUS
  <2>1. q # r /\ taken[q] # None
    BY <1>1 DEF IInv, PoolTypes
  <2>2. Ensuring(q)
    BY <2>1 DEF Shape, TablesInv
  <2>3. \A m \in Layers : seq_blocks'[q][m] = seq_blocks[q][m]
    BY <1>4, <2>1
  <2>. QED
    BY <1>1, <2>2, <2>3 DEF Ensuring, Short
<1>. QED
  BY <1>7, <1>8, <1>9 DEF Shape, TablesInv

(* The other steps that leave the tables alone.                            *)
LEMMA OtherShape ==
    ASSUME IInv', Shape, UNCHANGED seq_vars,
           \A r \in Requests : taken'[r] # None => Ensuring(r),
           next_block' \in (DeviceBlocks + HostBlocks)..(DeviceBlocks + HostBlocks + MaxGrow),
           DOMAIN data' = Tiers, \A t \in Tiers : DOMAIN data'[t] = Idx,
           lock' \in {"open", "free", "spill"}, todo' \in Seq(Idx)
    PROVE  Shape'
<1>1. /\ free_device' \in Seq(Idx) /\ free_host' \in Seq(Idx) /\ storage_device' \in Seq(Idx)
      /\ storage_host' \in SUBSET Idx
      /\ taken' \in [Requests -> [idx : Idx, tier : Tiers] \cup {None}]
  BY DeviceLists DEF IInv, PoolTypes
<1>2. TypeOK'
  BY <1>1 DEF Shape, TypeOK, seq_vars
<1>3. TablesInv'
  BY DEF Shape, TablesInv, Ensuring, Short, seq_vars
<1>. QED
  BY <1>2, <1>3 DEF Shape

LEMMA EnsureShape ==
    ASSUME IInv', Shape, NEW r \in Requests, NEW n \in 1..MaxBlocks, EnsureBegin(r, n)
    PROVE  Shape'
<1>1. /\ ~ Ensuring(r) /\ n > goal[r] /\ goal' = [goal EXCEPT ![r] = n]
      /\ UNCHANGED <<pool_vars, storage_vars, seq_blocks, taken, lock, todo>>
  BY DEF EnsureBegin
<1>2. goal \in [Requests -> 0..MaxBlocks] /\ MaxBlocks \in Nat
  BY KVAssumption DEF Shape, TypeOK
<1>3. /\ goal' \in [Requests -> 0..MaxBlocks] /\ goal'[r] = n
      /\ \A q \in Requests : q # r => goal'[q] = goal[q]
  BY <1>1, <1>2
<1>4. TypeOK'
  BY <1>1, <1>3 DEF Shape, TypeOK, pool_vars, storage_vars
<1>5. taken[r] = None
  BY <1>1 DEF Shape, TablesInv
<1>6. \A q \in Requests : taken'[q] # None => Ensuring(q)'
  <2>. SUFFICES ASSUME NEW q \in Requests, taken'[q] # None PROVE Ensuring(q)'
    OBVIOUS
  <2>1. q # r /\ Ensuring(q)
    BY <1>1, <1>5 DEF Shape, TablesInv
  <2>. QED
    BY <1>1, <1>3, <2>1 DEF Ensuring, Short
<1>7. \A q \in Requests, l \in Layers : Len(seq_blocks[q][l]) <= goal'[q]
  <2>. SUFFICES ASSUME NEW q \in Requests, NEW l \in Layers
                PROVE  Len(seq_blocks[q][l]) <= goal'[q]
    OBVIOUS
  <2>1. seq_blocks[q][l] \in Seq(Idx) /\ Len(seq_blocks[q][l]) <= goal[q]
    BY DEF Shape, TypeOK, TablesInv
  <2>2. goal[q] \in Nat /\ goal'[q] \in Nat /\ goal[q] <= goal'[q]
    BY <1>1, <1>2, <1>3
  <2>3. Len(seq_blocks[q][l]) \in Nat
    BY <2>1
  <2>. QED
    BY <2>1, <2>2, <2>3
<1>. QED
  BY <1>1, <1>4, <1>6, <1>7 DEF Shape, TablesInv

(* The table after FreeBegin, and what it puts on the list.                *)
LEMMA FreeShape ==
    ASSUME IInv', Shape, NEW r \in Requests, FreeBegin(r)
    PROVE  Shape'
<1>1. /\ ~ Ensuring(r) /\ goal' = [goal EXCEPT ![r] = 0]
      /\ seq_blocks' = [seq_blocks EXCEPT ![r] = [l \in Layers |-> <<>>]]
      /\ lock' = "free" /\ todo' = Flat(seq_blocks[r])
      /\ UNCHANGED <<pool_vars, storage_vars, taken>>
  BY DEF FreeBegin
<1>2. /\ goal \in [Requests -> 0..MaxBlocks] /\ MaxBlocks \in Nat
      /\ seq_blocks \in [Requests -> [Layers -> Seq(Idx)]]
  BY KVAssumption DEF Shape, TypeOK
<1>3. /\ goal' \in [Requests -> 0..MaxBlocks] /\ goal'[r] = 0
      /\ \A q \in Requests : q # r => goal'[q] = goal[q]
  BY <1>1, <1>2
<1>4. /\ seq_blocks' \in [Requests -> [Layers -> Seq(Idx)]]
      /\ \A l \in Layers : seq_blocks'[r][l] = <<>>
      /\ \A q \in Requests : q # r => seq_blocks'[q] = seq_blocks[q]
  BY <1>1, <1>2
<1>5. todo' \in Seq(Idx)
  <2>. DEFINE table == seq_blocks[r]
  <2>1. table \in [Layers -> Seq(Idx)] /\ \A l \in Layers : Len(table[l]) <= MaxBlocks
    <3>1. \A l \in Layers : seq_blocks[r][l] \in Seq(Idx) /\ Len(seq_blocks[r][l]) <= goal[r]
      BY DEF Shape, TypeOK, TablesInv
    <3>2. goal[r] \in 0..MaxBlocks
      BY <1>2
    <3>. QED
      BY <1>2, <3>1, <3>2
  <2>. HIDE DEF table
  <2>2. Flat(table) \in Seq(Idx)
    BY <2>1, FlatCount
  <2>. QED
    BY <1>1, <2>2 DEF table
<1>6. TypeOK'
  BY <1>1, <1>3, <1>4, <1>5 DEF Shape, TypeOK, pool_vars, storage_vars
<1>7. \A q \in Requests : taken'[q] # None => Ensuring(q)'
  <2>. SUFFICES ASSUME NEW q \in Requests, taken'[q] # None PROVE Ensuring(q)'
    OBVIOUS
  <2>1. q # r /\ Ensuring(q)
    BY <1>1 DEF Shape, TablesInv
  <2>. QED
    BY <1>3, <1>4, <2>1 DEF Ensuring, Short
<1>8. \A q \in Requests, l \in Layers : Len(seq_blocks'[q][l]) <= goal'[q]
  <2>. SUFFICES ASSUME NEW q \in Requests, NEW l \in Layers
                PROVE  Len(seq_blocks'[q][l]) <= goal'[q]
    OBVIOUS
  <2>1. CASE q = r
    <3>1. Len(<<>>) <= 0
      OBVIOUS
    <3>2. seq_blocks'[q][l] = <<>> /\ goal'[q] = 0
      BY <1>3, <1>4, <2>1
    <3>. QED
      BY <3>1, <3>2
  <2>2. CASE q # r
    <3>1. seq_blocks'[q][l] = seq_blocks[q][l] /\ goal'[q] = goal[q]
      BY <1>3, <1>4, <2>2
    <3>. QED
      BY <3>1 DEF Shape, TablesInv
  <2>. QED
    BY <2>1, <2>2
<1>. QED
  BY <1>6, <1>7, <1>8 DEF Shape, TablesInv

LEMMA ShapeKept ==
    ASSUME IInv, Shape, [Next]_vars
    PROVE  Shape'
<1>0. IInv'
  BY NextLemma
<1>1. ASSUME NEW r \in Requests, Serve(r) PROVE Shape'
  <2>1. ASSUME NEW n \in 1..MaxBlocks, EnsureBegin(r, n) PROVE Shape'
    BY <1>0, <2>1, EnsureShape
  <2>2. CASE AllocDevice(r) \/ AllocHost(r) \/ AllocGrown(r)
    <3>1. /\ UNCHANGED <<seq_vars, data, lock, todo>> /\ Ensuring(r)
          /\ \A q \in Requests : q # r => taken'[q] = taken[q]
      BY <2>2 DEF AllocDevice, AllocHost, AllocGrown, storage_vars, IInv, PoolTypes
    <3>2. next_block' \in (DeviceBlocks + HostBlocks)..(DeviceBlocks + HostBlocks + MaxGrow)
      <4>1. DeviceBlocks \in Nat /\ HostBlocks \in Nat /\ MaxGrow \in Nat
        BY KVAssumption
      <4>2. next_block \in (DeviceBlocks + HostBlocks)..(DeviceBlocks + HostBlocks + MaxGrow)
        BY DEF Shape, TypeOK
      <4>3. CASE next_block' = next_block
        BY <4>2, <4>3
      <4>4. CASE AllocGrown(r)
        BY <4>1, <4>2, <4>4 DEF AllocGrown, Idx
      <4>. QED
        BY <2>2, <4>3, <4>4 DEF AllocDevice, AllocHost
    <3>3. \A q \in Requests : taken'[q] # None => Ensuring(q)
      BY <3>1 DEF Shape, TablesInv
    <3>. QED
      BY <1>0, <3>1, <3>2, <3>3, OtherShape DEF Shape, TypeOK
  <2>3. CASE Install(r)
    BY <2>3, InstallShape
  <2>4. CASE Write(r)
    <3>1. UNCHANGED <<pool_vars, seq_vars, taken, lock, todo>>
      BY <2>4 DEF Write
    <3>2. DOMAIN data' = Tiers /\ \A t \in Tiers : DOMAIN data'[t] = Idx
      BY <2>4 DEF Write, Shape, TypeOK
    <3>. QED
      BY <1>0, <3>1, <3>2, OtherShape DEF Shape, TypeOK, TablesInv, pool_vars
  <2>5. CASE FreeBegin(r)
    BY <1>0, <2>5, FreeShape
  <2>. QED
    BY <1>1, <2>1, <2>2, <2>3, <2>4, <2>5 DEF Serve
<1>2. CASE UnderLock
  <2>1. UNCHANGED <<seq_vars, taken, next_block>>
    BY <1>2 DEF UnderLock, FreeDevice, FreeHost, FreeNothing, SpillOne, Unlock, pool_vars
  <2>2. DOMAIN data' = Tiers /\ \A t \in Tiers : DOMAIN data'[t] = Idx
    BY <1>2 DEF UnderLock, FreeDevice, FreeHost, FreeNothing, SpillOne, Unlock, storage_vars,
                Shape, TypeOK
  <2>3. todo' \in Seq(Idx) /\ lock' \in {"open", "free", "spill"}
    <3>1. todo \in Seq(Idx) /\ lock \in {"open", "free", "spill"}
      BY DEF Shape, TypeOK
    <3>2. \/ todo # <<>> /\ todo' = Tail(todo) /\ lock' = lock
          \/ todo' = todo /\ lock' = "open"
      BY <1>2 DEF UnderLock, FreeDevice, FreeHost, FreeNothing, SpillOne, Unlock
    <3>. QED
      BY <3>1, <3>2
  <2>. QED
    BY <1>0, <2>1, <2>2, <2>3, OtherShape DEF Shape, TypeOK, TablesInv
<1>3. ASSUME NEW n \in 1..MaxSpill, SpillBegin(n) PROVE Shape'
  <2>1. UNCHANGED <<pool_vars, storage_vars, seq_vars, taken>> /\ lock' = "spill"
    BY <1>3 DEF SpillBegin
  <2>2. todo' \in Seq(Idx)
    BY <1>0, <2>1, DeviceLists DEF IInv, SpillInside
  <2>. QED
    BY <1>0, <2>1, <2>2, OtherShape DEF Shape, TypeOK, TablesInv, pool_vars, storage_vars
<1>4. CASE UNCHANGED vars
  BY <1>0, <1>4, OtherShape DEF vars, Shape, TypeOK, TablesInv, pool_vars, storage_vars
<1>. QED
  BY <1>1, <1>2, <1>3, <1>4 DEF Next

-----------------------------------------------------------------------------
(* The host pool, as long as nothing is spilled.                           *)

(* The same host blocks are in hand after a step.                          *)
LEMMA HostFrame ==
    ASSUME HostPool, UNCHANGED <<free_host, storage_host, next_block>>,
           Taken("host")' = Taken("host"),
           \A q \in Taken("host") : taken'[q] = taken[q]
    PROVE  HostPool'
<1>1. TakenIdx("host")' = TakenIdx("host")
  BY DEF TakenIdx
<1>2. \A p, q \in Taken("host")' : taken'[p].idx = taken'[q].idx => p = q
  BY DEF HostPool
<1>3. Injective(free_host)' /\ Elements(free_host)' = Elements(free_host)
  BY DEF HostPool
<1>. QED
  BY <1>1, <1>2, <1>3 DEF HostPool

(* The blocks in hand after r takes one and after r installs it.           *)
LEMMA HostTaken ==
    ASSUME IInv, NEW r \in Requests, taken[r] = None,
           NEW k \in Idx, NEW t \in Tiers,
           taken' = [taken EXCEPT ![r] = [idx |-> k, tier |-> t]]
    PROVE  /\ \A q \in Taken("host") : taken'[q] = taken[q]
           /\ t = "device" => Taken("host")' = Taken("host")
           /\ t = "host" => /\ r \notin Taken("host")
                            /\ Taken("host")' = Taken("host") \cup {r}
                            /\ TakenIdx("host")' = TakenIdx("host") \cup {k}
<1>1. taken \in [Requests -> [idx : Idx, tier : Tiers] \cup {None}]
  BY DEF IInv, PoolTypes
<1>2. /\ taken'[r] = [idx |-> k, tier |-> t] /\ taken'[r] # None
      /\ \A q \in Requests \ {r} : taken'[q] = taken[q]
  BY <1>1, NoneAssumption
<1>3. taken'[r].idx = k /\ taken'[r].tier = t /\ r \notin Taken("host")
  BY <1>2 DEF Taken
<1>4. \A q \in Taken("host") : q \in Requests \ {r} /\ taken'[q] = taken[q]
  BY <1>2, <1>3 DEF Taken
<1>5. ASSUME t = "device" PROVE Taken("host")' = Taken("host")
  BY <1>2, <1>3, <1>5 DEF Taken
<1>6. ASSUME t = "host" PROVE Taken("host")' = Taken("host") \cup {r}
  BY <1>2, <1>3, <1>6 DEF Taken
<1>7. ASSUME t = "host" PROVE TakenIdx("host")' = TakenIdx("host") \cup {k}
  BY <1>3, <1>4, <1>6, <1>7 DEF TakenIdx
<1>. QED
  BY <1>3, <1>4, <1>5, <1>6, <1>7

LEMMA HostAllocStep ==
    ASSUME IInv, Shape, HostPool, NEW r \in Requests,
           AllocDevice(r) \/ AllocHost(r) \/ AllocGrown(r)
    PROVE  HostPool'
<1>1. CASE AllocDevice(r)
  <2>. DEFINE k == Last(free_device)
  <2>1. /\ free_device \in Seq(Idx) /\ free_device # <<>>
        /\ taken[r] = None /\ taken' = [taken EXCEPT ![r] = [idx |-> k, tier |-> "device"]]
        /\ UNCHANGED <<free_host, storage_host, next_block>>
    BY <1>1 DEF AllocDevice, Shape, TypeOK, storage_vars
  <2>2. k \in Idx
    BY <2>1 DEF Last
  <2>. HIDE DEF k
  <2>3. Taken("host")' = Taken("host") /\ \A q \in Taken("host") : taken'[q] = taken[q]
    BY <2>1, <2>2, HostTaken DEF Tiers
  <2>. QED
    BY <2>1, <2>3, HostFrame
<1>2. CASE AllocHost(r)
  <2>. DEFINE k == Last(free_host)
  <2>1. /\ free_host \in Seq(Idx) /\ free_host # <<>> /\ Injective(free_host)
        /\ taken[r] = None /\ taken' = [taken EXCEPT ![r] = [idx |-> k, tier |-> "host"]]
        /\ free_host' = Front(free_host)
        /\ UNCHANGED <<storage_host, next_block>>
    BY <1>2 DEF AllocHost, Shape, TypeOK, storage_vars, HostPool
  <2>2. /\ Injective(Front(free_host)) /\ k \in Elements(free_host)
        /\ k \notin Elements(Front(free_host))
        /\ Elements(free_host) = Elements(Front(free_host)) \cup {k}
    BY <2>1, FrontLemma
  <2>3. k \in Idx
    BY <2>1, <2>2 DEF Elements
  <2>. HIDE DEF k
  <2>4. /\ \A q \in Taken("host") : taken'[q] = taken[q]
        /\ r \notin Taken("host") /\ Taken("host")' = Taken("host") \cup {r}
        /\ TakenIdx("host")' = TakenIdx("host") \cup {k}
    BY <2>1, <2>3, HostTaken DEF Tiers
  <2>5. taken'[r].idx = k
    BY <2>1 DEF IInv, PoolTypes
  <2>6. \A q \in Taken("host") : taken[q].idx # k
    BY <2>2 DEF HostPool, TakenIdx
  <2>7. \A p, q \in Taken("host")' : taken'[p].idx = taken'[q].idx => p = q
    BY <2>4, <2>5, <2>6 DEF HostPool
  <2>8. /\ Elements(free_host)' = Elements(Front(free_host)) /\ Injective(free_host)'
        /\ storage_host' = storage_host /\ next_block' = next_block
    BY <2>1, <2>2
  <2>. QED
    BY <2>2, <2>4, <2>7, <2>8 DEF HostPool
<1>3. CASE AllocGrown(r)
  <2>1. /\ next_block \in Idx
        /\ taken[r] = None
        /\ taken' = [taken EXCEPT ![r] = [idx |-> next_block, tier |-> "host"]]
        /\ next_block' = next_block + 1
        /\ UNCHANGED <<free_host, storage_host>>
    BY <1>3 DEF AllocGrown, storage_vars
  <2>2. /\ \A q \in Taken("host") : taken'[q] = taken[q]
        /\ r \notin Taken("host") /\ Taken("host")' = Taken("host") \cup {r}
        /\ TakenIdx("host")' = TakenIdx("host") \cup {next_block}
    BY <2>1, HostTaken DEF Tiers
  <2>3. taken'[r].idx = next_block
    BY <2>1 DEF IInv, PoolTypes
  <2>. DEFINE Below(n) == 0..(HostBlocks - 1) \cup (DeviceBlocks + HostBlocks)..(n - 1)
  <2>4. next_block \notin Below(next_block) /\ Below(next_block + 1) = Below(next_block) \cup {next_block}
    <3>1. DeviceBlocks \in Nat /\ HostBlocks \in Nat /\ MaxGrow \in Nat
      BY KVAssumption
    <3>2. next_block \in (DeviceBlocks + HostBlocks)..(DeviceBlocks + HostBlocks + MaxGrow)
      BY DEF Shape, TypeOK
    <3>3. next_block \in Int /\ next_block >= DeviceBlocks + HostBlocks /\ next_block + 1 - 1 = next_block
      BY <3>1, <3>2
    <3>4. \A i \in Int : i \in (DeviceBlocks + HostBlocks)..next_block <=>
             i \in (DeviceBlocks + HostBlocks)..(next_block - 1) \/ i = next_block
      BY <3>1, <3>3
    <3>5. (DeviceBlocks + HostBlocks)..next_block =
             (DeviceBlocks + HostBlocks)..(next_block - 1) \cup {next_block}
      BY <3>1, <3>3, <3>4
    <3>6. next_block \notin Below(next_block)
      BY <3>1, <3>3
    <3>. QED
      BY <3>3, <3>5, <3>6
  <2>5. Elements(free_host) \cup storage_host \cup TakenIdx("host") = Below(next_block)
    BY DEF HostPool
  <2>6. Below(next_block)' = Below(next_block + 1)
    BY <2>1
  <2>. HIDE DEF Below
  <2>7. \A q \in Taken("host") : taken[q].idx # next_block
    BY <2>4, <2>5 DEF TakenIdx
  <2>8. \A p, q \in Taken("host")' : taken'[p].idx = taken'[q].idx => p = q
    BY <2>2, <2>3, <2>7 DEF HostPool
  <2>9. Elements(free_host)' = Elements(free_host) /\ Injective(free_host)' /\ storage_host' = storage_host
    BY <2>1 DEF HostPool
  <2>10. Elements(free_host)' \cup storage_host' \cup TakenIdx("host")' = Below(next_block)'
    BY <2>2, <2>4, <2>5, <2>6, <2>9
  <2>11. /\ Elements(free_host)' \cap storage_host' = {}
         /\ Elements(free_host)' \cap TakenIdx("host")' = {}
         /\ storage_host' \cap TakenIdx("host")' = {}
    BY <2>2, <2>4, <2>5, <2>9 DEF HostPool
  <2>. QED
    BY <2>8, <2>9, <2>10, <2>11 DEF HostPool, Below
<1>. QED
  BY <1>1, <1>2, <1>3

LEMMA HostInstallStep ==
    ASSUME IInv, Shape, HostPool, NEW r \in Requests, Install(r)
    PROVE  HostPool'
<1>0. PICK l \in Layers, k \in Idx, t \in Tiers : Appends(r, l, k, t)
  BY InstallIs
<1>1. /\ taken[r] # None /\ taken[r].idx = k /\ taken[r].tier = t
      /\ Len(seq_blocks[r][l]) < goal[r]
      /\ seq_blocks' = [seq_blocks EXCEPT ![r][l] = Append(seq_blocks[r][l], k)]
      /\ data' = [data EXCEPT ![t][k] = None]
      /\ storage_device' = IF t = "device" THEN Append(storage_device, k)
                                           ELSE storage_device
      /\ storage_host' = IF t = "host" THEN storage_host \cup {k} ELSE storage_host
      /\ taken' = [taken EXCEPT ![r] = None]
      /\ UNCHANGED <<pool_vars, goal, lock, todo>>
  BY <1>0 DEF Appends
<1>2. taken'[r] = None /\ \A q \in Requests \ {r} : taken'[q] = taken[q]
  BY <1>1 DEF IInv, PoolTypes
<1>3. /\ Taken("host")' = Taken("host") \ {r}
      /\ \A q \in Taken("host") \ {r} : taken'[q] = taken[q]
  BY <1>2 DEF Taken
<1>4. CASE t = "device"
  <2>1. r \notin Taken("host")
    BY <1>1, <1>4 DEF Taken
  <2>2. UNCHANGED <<free_host, storage_host, next_block>>
    BY <1>1, <1>4 DEF pool_vars
  <2>. QED
    BY <1>3, <2>1, <2>2, HostFrame
<1>5. CASE t = "host"
  <2>1. r \in Taken("host") /\ k \in TakenIdx("host")
    BY <1>1, <1>5 DEF Taken, TakenIdx
  <2>2. \A q \in Taken("host") : taken[q].idx = k => q = r
    BY <1>1, <2>1 DEF HostPool
  <2>3. TakenIdx("host")' = TakenIdx("host") \ {k}
    BY <1>1, <1>3, <2>2 DEF TakenIdx
  <2>4. \A p, q \in Taken("host")' : taken'[p].idx = taken'[q].idx => p = q
    BY <1>3 DEF HostPool
  <2>5. /\ Elements(free_host)' = Elements(free_host) /\ Injective(free_host)'
        /\ storage_host' = storage_host \cup {k} /\ next_block' = next_block
    BY <1>1, <1>5 DEF pool_vars, HostPool
  <2>. QED
    BY <2>1, <2>3, <2>4, <2>5 DEF HostPool
<1>. QED
  BY <1>4, <1>5 DEF Tiers

LEMMA HostFreeStep ==
    ASSUME Shape, HostPool, FreeHost
    PROVE  HostPool'
<1>. DEFINE k == Head(todo)
<1>1. /\ todo \in Seq(Idx) /\ todo # <<>> /\ k \in storage_host
      /\ storage_host' = storage_host \ {k} /\ free_host' = Append(free_host, k)
      /\ free_host \in Seq(Idx) /\ UNCHANGED <<next_block, taken>>
  BY DEF FreeHost, Shape, TypeOK
<1>2. k \in Idx
  BY <1>1
<1>. HIDE DEF k
<1>3. k \notin Elements(free_host) /\ k \notin TakenIdx("host") /\ Injective(free_host)
  BY <1>1 DEF HostPool
<1>4. Injective(free_host)' /\ Elements(free_host)' = Elements(free_host) \cup {k}
  BY <1>1, <1>2, <1>3, AppendLemma
<1>5. Taken("host")' = Taken("host") /\ TakenIdx("host")' = TakenIdx("host")
  BY <1>1 DEF Taken, TakenIdx
<1>6. \A p, q \in Taken("host")' : taken'[p].idx = taken'[q].idx => p = q
  BY <1>1, <1>5 DEF HostPool
<1>. QED
  BY <1>1, <1>3, <1>4, <1>5, <1>6 DEF HostPool

LEMMA HostKept ==
    ASSUME IInv, Shape, HostPool, lock # "spill", [Next]_vars
    PROVE  HostPool'
<1>1. CASE UNCHANGED <<free_host, storage_host, next_block, taken>>
  <2>1. Taken("host")' = Taken("host") /\ \A q \in Taken("host") : taken'[q] = taken[q]
    BY <1>1 DEF Taken
  <2>. QED
    BY <1>1, <2>1, HostFrame
<1>2. ASSUME NEW r \in Requests, Serve(r) PROVE HostPool'
  <2>1. CASE Install(r)
    BY <2>1, HostInstallStep
  <2>2. CASE AllocDevice(r) \/ AllocHost(r) \/ AllocGrown(r)
    BY <2>2, HostAllocStep
  <2>3. CASE Write(r) \/ FreeBegin(r) \/ \E n \in 1..MaxBlocks : EnsureBegin(r, n)
    BY <1>1, <2>3 DEF Write, FreeBegin, EnsureBegin, pool_vars, storage_vars
  <2>. QED
    BY <1>2, <2>1, <2>2, <2>3 DEF Serve
<1>3. CASE UnderLock
  <2>1. ~ SpillOne
    BY DEF SpillOne
  <2>2. CASE FreeHost
    BY <2>2, HostFreeStep
  <2>3. CASE FreeDevice \/ FreeNothing \/ Unlock
    BY <1>1, <2>3 DEF FreeDevice, FreeNothing, Unlock, pool_vars, storage_vars
  <2>. QED
    BY <1>3, <2>1, <2>2, <2>3 DEF UnderLock
<1>4. ASSUME NEW n \in 1..MaxSpill, SpillBegin(n) PROVE HostPool'
  BY <1>1, <1>4 DEF SpillBegin, pool_vars, storage_vars
<1>5. CASE UNCHANGED vars
  BY <1>1, <1>5 DEF vars, pool_vars, storage_vars
<1>. QED
  BY <1>2, <1>3, <1>4, <1>5 DEF Next

-----------------------------------------------------------------------------
(* Table entries and arrays.                                               *)

Waiting(k) == IF lock = "free" THEN HowMany(todo, k) ELSE 0

Arrays(k) ==
    (IF k \in Elements(storage_device) THEN 1 ELSE 0) + (IF k \in storage_host THEN 1 ELSE 0)

LEMMA EntriesIs ==
    ASSUME NEW k
    PROVE  /\ Entries(k) = Cardinality(Standing(k)) + Waiting(k)
           /\ Entries(k)' = Cardinality(Standing(k)') + Waiting(k)'
  BY DEF Entries, Waiting, HowMany

Pages == Requests \X Layers \X (1..MaxBlocks)

LEMMA PagesFinite == IsFiniteSet(Pages)
<1>. DEFINE S == (Requests \X Layers) \X (1..MaxBlocks)
            f == [c \in S |-> <<c[1][1], c[1][2], c[2]>>]
<1>1. IsFiniteSet(Requests) /\ IsFiniteSet(Layers) /\ IsFiniteSet(1..MaxBlocks)
  BY KVAssumption, FS_Interval DEF Layers
<1>2. IsFiniteSet(Requests \X Layers)
  BY <1>1, FS_Product
<1>3. IsFiniteSet(S)
  BY <1>1, <1>2, FS_Product
<1>4. f \in [S -> Pages]
  BY DEF Pages
<1>5. \A p \in Pages : \E c \in S : f[c] = p
  <2>. SUFFICES ASSUME NEW p \in Pages PROVE \E c \in S : f[c] = p
    OBVIOUS
  <2>1. p = <<p[1], p[2], p[3]>> /\ <<<<p[1], p[2]>>, p[3]>> \in S
    BY DEF Pages
  <2>2. f[<<<<p[1], p[2]>>, p[3]>>] = p
    BY <2>1
  <2>. QED
    BY <2>1, <2>2
<1>6. f \in Surjection(S, Pages)
  BY <1>4, <1>5 DEF Surjection
<1>. HIDE DEF f, S
<1>. QED
  BY <1>3, <1>6, FS_Surjection

LEMMA StandingFinite ==
    ASSUME NEW k
    PROVE  /\ IsFiniteSet(Standing(k)) /\ IsFiniteSet(Standing(k)')
           /\ Cardinality(Standing(k)) \in Nat /\ Cardinality(Standing(k)') \in Nat
<1>1. Standing(k) \in SUBSET Pages /\ Standing(k)' \in SUBSET Pages
  BY DEF Standing, Pages
<1>. QED
  BY <1>1, PagesFinite, FS_Subset, FS_CardinalityType

LEMMA WaitingIsNat ==
    ASSUME NEW k
    PROVE  (Shape => Waiting(k) \in Nat) /\ (Shape' => Waiting(k)' \in Nat)
  BY PlacesFinite DEF Waiting, Shape, TypeOK

\* r gets the page <<r, l, n>>, of the block k of the tier t.
AddsPage(r, l, k, t, n) ==
    /\ taken[r] # None /\ taken[r].idx = k /\ taken[r].tier = t
    /\ data' = [data EXCEPT ![t][k] = None]
    /\ storage_device' = IF t = "device" THEN Append(storage_device, k)
                                         ELSE storage_device
    /\ storage_host' = IF t = "host" THEN storage_host \cup {k} ELSE storage_host
    /\ UNCHANGED <<lock, todo>>
    /\ ~ Page(r, l, n) /\ Page(r, l, n)' /\ seq_blocks'[r][l][n] = k
    /\ \A q \in Requests, m \in Layers, i \in 1..MaxBlocks :
          <<q, m, i>> # <<r, l, n>> =>
             /\ Page(q, m, i)' <=> Page(q, m, i)
             /\ Page(q, m, i) => seq_blocks'[q][m][i] = seq_blocks[q][m][i]

(* Install adds the page after the last one of its layer.                  *)
LEMMA InstallPages ==
    ASSUME IInv, Shape, NEW r \in Requests, Install(r)
    PROVE  \E l \in Layers, k \in Idx, t \in Tiers, n \in 1..MaxBlocks : AddsPage(r, l, k, t, n)
<1>0. PICK l \in Layers, k \in Idx, t \in Tiers : Appends(r, l, k, t)
  BY InstallIs
<1>1. /\ taken[r] # None /\ taken[r].idx = k /\ taken[r].tier = t
      /\ Len(seq_blocks[r][l]) < goal[r]
      /\ seq_blocks' = [seq_blocks EXCEPT ![r][l] = Append(seq_blocks[r][l], k)]
      /\ data' = [data EXCEPT ![t][k] = None]
      /\ storage_device' = IF t = "device" THEN Append(storage_device, k)
                                           ELSE storage_device
      /\ storage_host' = IF t = "host" THEN storage_host \cup {k} ELSE storage_host
      /\ taken' = [taken EXCEPT ![r] = None]
      /\ UNCHANGED <<pool_vars, goal, lock, todo>>
  BY <1>0 DEF Appends
<1>2. /\ seq_blocks \in [Requests -> [Layers -> Seq(Idx)]] /\ goal[r] \in 0..MaxBlocks
      /\ MaxBlocks \in Nat
  BY KVAssumption DEF Shape, TypeOK
<1>3. /\ seq_blocks'[r][l] = Append(seq_blocks[r][l], k)
      /\ \A q \in Requests, m \in Layers : <<q, m>> # <<r, l>> => seq_blocks'[q][m] = seq_blocks[q][m]
  BY <1>1, <1>2, TableAppend
<1>. DEFINE s == seq_blocks[r][l]
<1>a. PICK n : n = Len(s) + 1
  OBVIOUS
<1>4. s \in Seq(Idx) /\ Len(s) < goal[r]
  BY <1>1, <1>2
<1>. HIDE DEF s
<1>5. /\ Len(s) \in Nat /\ DOMAIN s = 1..Len(s) /\ DOMAIN Append(s, k) = 1..n
      /\ \A i \in 1..Len(s) : Append(s, k)[i] = s[i]
      /\ Append(s, k)[n] = k
  BY <1>4, <1>a
<1>6. n \in 1..MaxBlocks /\ n \notin DOMAIN s /\ n \in DOMAIN Append(s, k)
  BY <1>2, <1>4, <1>5, <1>a
<1>7. \A i \in 1..MaxBlocks : i # n =>
         /\ i \in DOMAIN Append(s, k) <=> i \in DOMAIN s
         /\ i \in DOMAIN s => Append(s, k)[i] = s[i]
  BY <1>5, <1>a
<1>8. seq_blocks'[r][l] = Append(s, k) /\ seq_blocks[r][l] = s
  BY <1>3 DEF s
<1>9. ~ Page(r, l, n) /\ Page(r, l, n)' /\ seq_blocks'[r][l][n] = k
  BY <1>5, <1>6, <1>8 DEF Page
<1>10. \A q \in Requests, m \in Layers, i \in 1..MaxBlocks :
          <<q, m, i>> # <<r, l, n>> =>
             /\ Page(q, m, i)' <=> Page(q, m, i)
             /\ Page(q, m, i) => seq_blocks'[q][m][i] = seq_blocks[q][m][i]
  <2>. SUFFICES ASSUME NEW q \in Requests, NEW m \in Layers, NEW i \in 1..MaxBlocks,
                       <<q, m, i>> # <<r, l, n>>
                PROVE  /\ Page(q, m, i)' <=> Page(q, m, i)
                       /\ Page(q, m, i) => seq_blocks'[q][m][i] = seq_blocks[q][m][i]
    OBVIOUS
  <2>1. CASE q = r /\ m = l
    BY <1>7, <1>8, <2>1 DEF Page
  <2>2. CASE <<q, m>> # <<r, l>>
    BY <1>3, <2>2 DEF Page
  <2>. QED
    BY <2>1, <2>2
<1>11. AddsPage(r, l, k, t, n)
  BY <1>1, <1>9, <1>10 DEF AddsPage
<1>. QED
  BY <1>6, <1>11

(* ... so that its index has one more entry, and one more array.           *)
LEMMA BackedInstall ==
    ASSUME IInv, Shape, HostPool, BlocksBacked, NEW r \in Requests, Install(r)
    PROVE  BlocksBacked'
<1>0. PICK l \in Layers, k \in Idx, t \in Tiers, n \in 1..MaxBlocks : AddsPage(r, l, k, t, n)
  BY InstallPages
<1>1. /\ taken[r] # None /\ taken[r].idx = k /\ taken[r].tier = t
      /\ data' = [data EXCEPT ![t][k] = None]
      /\ storage_device' = IF t = "device" THEN Append(storage_device, k)
                                           ELSE storage_device
      /\ storage_host' = IF t = "host" THEN storage_host \cup {k} ELSE storage_host
      /\ UNCHANGED <<lock, todo>>
      /\ ~ Page(r, l, n) /\ Page(r, l, n)' /\ seq_blocks'[r][l][n] = k
      /\ \A q \in Requests, m \in Layers, i \in 1..MaxBlocks :
            <<q, m, i>> # <<r, l, n>> =>
               /\ Page(q, m, i)' <=> Page(q, m, i)
               /\ Page(q, m, i) => seq_blocks'[q][m][i] = seq_blocks[q][m][i]
  BY <1>0 DEF AddsPage
<1>2. \A j : Standing(j)' = IF j = k THEN Standing(j) \cup {<<r, l, n>>} ELSE Standing(j)
  <2>. TAKE j
  <2>1. \A q \in Requests, m \in Layers, i \in 1..MaxBlocks :
           <<q, m, i>> \in Standing(j)' <=>
              \/ <<q, m, i>> \in Standing(j)
              \/ j = k /\ <<q, m, i>> = <<r, l, n>>
    BY <1>1 DEF Standing
  <2>2. Standing(j) \subseteq Pages /\ Standing(j)' \subseteq Pages /\ <<r, l, n>> \in Pages
    BY DEF Standing, Pages
  <2>3. \A p \in Pages : \E q \in Requests, m \in Layers, i \in 1..MaxBlocks : p = <<q, m, i>>
    BY DEF Pages
  <2>. QED
    BY <2>1, <2>2, <2>3
<1>3. <<r, l, n>> \notin Standing(k)
  BY <1>1 DEF Standing
<1>4. \A j : Cardinality(Standing(j)') = Cardinality(Standing(j)) + (IF j = k THEN 1 ELSE 0)
  <2>. TAKE j
  <2>1. IsFiniteSet(Standing(j)) /\ Cardinality(Standing(j)) \in Nat
    BY StandingFinite
  <2>2. CASE j = k
    BY <1>2, <1>3, <2>1, <2>2, FS_AddElement
  <2>3. CASE j # k
    BY <1>2, <2>1, <2>3
  <2>. QED
    BY <2>2, <2>3
<1>5. \A j : Waiting(j)' = Waiting(j)
  BY <1>1 DEF Waiting, HowMany, Places
<1>6. \A j : Arrays(j)' = Arrays(j) + (IF j = k THEN 1 ELSE 0)
  <2>1. CASE t = "device"
    <3>1. storage_device' = Append(storage_device, k) /\ storage_host' = storage_host
      BY <1>1, <2>1
    <3>2. k \in TakenIdx("device")
      BY <1>1, <2>1 DEF Taken, TakenIdx
    <3>3. k \notin Elements(storage_device) /\ Injective(storage_device) /\ storage_device \in Seq(Idx)
      BY <3>2 DEF IInv, DevicePool, Shape, TypeOK
    <3>4. Elements(storage_device)' = Elements(storage_device) \cup {k}
      BY <3>1, <3>3, AppendLemma
    <3>. QED
      BY <3>1, <3>3, <3>4 DEF Arrays
  <2>2. CASE t = "host"
    <3>1. storage_device' = storage_device /\ storage_host' = storage_host \cup {k}
      BY <1>1, <2>2
    <3>2. k \in TakenIdx("host")
      BY <1>1, <2>2 DEF Taken, TakenIdx
    <3>3. k \notin storage_host
      BY <3>2 DEF HostPool
    <3>4. Elements(storage_device)' = Elements(storage_device)
      BY <3>1
    <3>. QED
      BY <3>1, <3>3, <3>4 DEF Arrays
  <2>. QED
    BY <2>1, <2>2 DEF Tiers
<1>7. \A j \in Idx : Entries(j)' = Arrays(j)'
  <2>. TAKE j \in Idx
  <2>1. Entries(j) = Arrays(j) /\ Arrays(j) \in Nat
    BY DEF BlocksBacked, Arrays
  <2>2. Cardinality(Standing(j)) \in Nat /\ Waiting(j) \in Nat
    BY StandingFinite, WaitingIsNat
  <2>3. /\ Entries(j)' = Cardinality(Standing(j)') + Waiting(j)'
        /\ Entries(j) = Cardinality(Standing(j)) + Waiting(j)
    BY EntriesIs
  <2>4. /\ Cardinality(Standing(j)') = Cardinality(Standing(j)) + (IF j = k THEN 1 ELSE 0)
        /\ Waiting(j)' = Waiting(j)
        /\ Arrays(j)' = Arrays(j) + (IF j = k THEN 1 ELSE 0)
    BY <1>4, <1>5, <1>6
  <2>. DEFINE d == IF j = k THEN 1 ELSE 0
  <2>5. d \in Nat
    OBVIOUS
  <2>. HIDE DEF d
  <2>6. \A c, w \in Nat : (c + d) + w = (c + w) + d
    BY <2>5
  <2>7. /\ Entries(j)' = (Cardinality(Standing(j)) + d) + Waiting(j)
        /\ Arrays(j)' = (Cardinality(Standing(j)) + Waiting(j)) + d
    BY <2>1, <2>3, <2>4 DEF d
  <2>. QED
    BY <2>2, <2>6, <2>7
<1>. QED
  BY <1>7 DEF BlocksBacked, Arrays

(* free takes the pages off the table and puts their blocks on its list.   *)
LEMMA BackedFree ==
    ASSUME IInv, Shape, BlocksBacked, NEW r \in Requests, FreeBegin(r)
    PROVE  BlocksBacked'
<1>. DEFINE table == seq_blocks[r]
<1>1. /\ lock = "open" /\ lock' = "free" /\ todo' = Flat(table)
      /\ seq_blocks' = [seq_blocks EXCEPT ![r] = [l \in Layers |-> <<>>]]
      /\ UNCHANGED storage_vars
  BY DEF FreeBegin
<1>2. seq_blocks \in [Requests -> [Layers -> Seq(Idx)]] /\ goal[r] \in 0..MaxBlocks /\ MaxBlocks \in Nat
  BY KVAssumption DEF Shape, TypeOK
<1>3. /\ \A l \in Layers : seq_blocks'[r][l] = <<>>
      /\ \A q \in Requests : q # r => seq_blocks'[q] = seq_blocks[q]
  BY <1>1, <1>2
<1>4. table \in [Layers -> Seq(Idx)] /\ \A l \in Layers : Len(table[l]) <= MaxBlocks
  <2>1. \A l \in Layers : seq_blocks[r][l] \in Seq(Idx) /\ Len(seq_blocks[r][l]) <= goal[r]
    BY DEF Shape, TypeOK, TablesInv
  <2>. QED
    BY <1>2, <2>1
<1>5. ASSUME NEW j \in Idx PROVE Entries(j)' = Entries(j)
  <2>. DEFINE Own == {p \in Standing(j) : p[1] = r}
              C == Cells(table, NumLayers, j)
              f == [p \in Own |-> <<p[2], p[3]>>]
  <2>1. Standing(j) = Standing(j)' \cup Own /\ Standing(j)' \cap Own = {}
    <3>1. \A q \in Requests, m \in Layers, i \in 1..MaxBlocks :
             <<q, m, i>> \in Standing(j)' <=> <<q, m, i>> \in Standing(j) /\ q # r
      BY <1>3 DEF Standing, Page
    <3>2. Standing(j) \subseteq Pages /\ Standing(j)' \subseteq Pages
      BY DEF Standing, Pages
    <3>3. \A p \in Pages : /\ p[1] \in Requests
                           /\ \E q \in Requests, m \in Layers, i \in 1..MaxBlocks :
                                 p = <<q, m, i>> /\ p[1] = q
      BY DEF Pages
    <3>. QED
      BY <3>1, <3>2, <3>3
  <2>2. Own \in SUBSET Standing(j) /\ IsFiniteSet(Standing(j)) /\ IsFiniteSet(Standing(j)')
    BY StandingFinite
  <2>3. IsFiniteSet(Own) /\ Cardinality(Own) \in Nat
    <3>. HIDE DEF Own
    <3>. QED
      BY <2>2, FS_Subset, FS_CardinalityType
  <2>4. Cardinality(C) = Cardinality(Own)
    <3>1. f \in [Own -> C]
      BY DEF Standing, Page, Cells, Layers
    <3>2. \A a, b \in Own : f[a] = f[b] => a = b
      BY DEF Standing
    <3>3. \A c \in C : \E p \in Own : f[p] = c
      <4>. SUFFICES ASSUME NEW c \in C PROVE \E p \in Own : f[p] = c
        OBVIOUS
      <4>1. c = <<c[1], c[2]>> /\ <<r, c[1], c[2]>> \in Own
        BY DEF Standing, Page, Cells, Layers
      <4>. QED
        BY <4>1
    <3>. HIDE DEF f, Own, C
    <3>4. f \in Bijection(Own, C)
      BY <3>1, <3>2, <3>3 DEF Bijection, Injection, Surjection, IsInjective
    <3>. QED
      BY <2>3, <3>4, FS_Bijection DEF ExistsBijection
  <2>. HIDE DEF table, Own
  <2>5. HowMany(Flat(table), j) = Cardinality(C)
    BY <1>4, FlatCount
  <2>. HIDE DEF C
  <2>6. Waiting(j) = 0 /\ Waiting(j)' = HowMany(Flat(table), j)
    BY <1>1 DEF Waiting, HowMany
  <2>7. Cardinality(Standing(j)' \cup Own) =
           Cardinality(Standing(j)') + Cardinality(Own) - Cardinality({})
    BY <2>1, <2>2, <2>3, FS_Union
  <2>8. Cardinality(Standing(j)') \in Nat
    BY StandingFinite
  <2>9. /\ Entries(j)' = Cardinality(Standing(j)') + Waiting(j)'
        /\ Entries(j) = Cardinality(Standing(j)) + Waiting(j)
    BY EntriesIs
  <2>. QED
    BY <2>1, <2>3, <2>4, <2>5, <2>6, <2>7, <2>8, <2>9, FS_EmptySet
<1>6. Elements(storage_device)' = Elements(storage_device) /\ storage_host' = storage_host
  BY <1>1 DEF storage_vars
<1>. QED
  BY <1>5, <1>6 DEF BlocksBacked

(* Steps that leave the tables and the list alone.                         *)
LEMMA BackedFrame ==
    ASSUME BlocksBacked, UNCHANGED <<seq_blocks, storage_device, storage_host>>,
           \A k : Waiting(k)' = Waiting(k)
    PROVE  BlocksBacked'
<1>1. \A k : Standing(k)' = Standing(k)
  BY DEF Standing, Page
<1>2. \A k : Entries(k)' = Entries(k)
  <2>. TAKE k
  <2>. QED
    BY <1>1, EntriesIs
<1>3. Elements(storage_device)' = Elements(storage_device)
  OBVIOUS
<1>. QED
  BY <1>2, <1>3 DEF BlocksBacked

(* The block on top of the list loses its entry and one array.             *)
LEMMA BackedUnderLock ==
    ASSUME IInv, Shape, BlocksBacked, FreeDevice \/ FreeHost \/ FreeNothing
    PROVE  BlocksBacked'
<1>. DEFINE k == Head(todo)
<1>1. /\ lock = "free" /\ lock' = "free" /\ todo # <<>> /\ todo \in Seq(Idx)
      /\ todo' = Tail(todo) /\ seq_blocks' = seq_blocks
  BY DEF FreeDevice, FreeHost, FreeNothing, Shape, TypeOK, seq_vars
<1>2. k \in Idx
  BY <1>1
<1>3. \A j : /\ HowMany(todo, j) = HowMany(Tail(todo), j) + (IF k = j THEN 1 ELSE 0)
             /\ HowMany(Tail(todo), j) \in Nat
  <2>. TAKE j
  <2>. QED
    BY <1>1, HowManyTail
<1>. HIDE DEF k
<1>4. \A j : Standing(j)' = Standing(j) /\ Cardinality(Standing(j)) \in Nat
  <2>. TAKE j
  <2>1. Standing(j)' = Standing(j)
    BY <1>1 DEF Standing, Page
  <2>. QED
    BY <2>1, StandingFinite
<1>5. \A j : /\ Entries(j) = Entries(j)' + (IF k = j THEN 1 ELSE 0)
             /\ Entries(j)' \in Nat
  <2>. TAKE j
  <2>1. Waiting(j) = HowMany(todo, j) /\ Waiting(j)' = HowMany(Tail(todo), j)
    BY <1>1 DEF Waiting, HowMany, Places
  <2>2. /\ Entries(j)' = Cardinality(Standing(j)') + Waiting(j)'
        /\ Entries(j) = Cardinality(Standing(j)) + Waiting(j)
    BY EntriesIs
  <2>. QED
    BY <1>3, <1>4, <2>1, <2>2
<1>6. \A j \in Idx : Entries(j) = Arrays(j)
  BY DEF BlocksBacked, Arrays
<1>7. \A j \in Idx : Arrays(j) = Arrays(j)' + (IF k = j THEN 1 ELSE 0)
  <2>1. CASE FreeDevice
    <3>1. /\ k \in Elements(storage_device) /\ storage_host' = storage_host
          /\ storage_device' = Without(storage_device, k)
      BY <2>1 DEF FreeDevice, k
    <3>2. storage_device \in Seq(Idx) /\ Injective(storage_device)
      BY DEF Shape, TypeOK, IInv, DevicePool
    <3>3. Elements(storage_device)' = Elements(storage_device) \ {k}
      BY <3>1, <3>2, WithoutLemma
    <3>. QED
      BY <3>1, <3>3 DEF Arrays
  <2>2. CASE FreeHost
    <3>1. /\ k \in storage_host /\ storage_host' = storage_host \ {k}
          /\ storage_device' = storage_device
      BY <2>2 DEF FreeHost, k
    <3>2. Elements(storage_device)' = Elements(storage_device)
      BY <3>1
    <3>. QED
      BY <3>1, <3>2 DEF Arrays
  <2>3. CASE FreeNothing
    <3>1. Arrays(k) = 0
      BY <2>3 DEF FreeNothing, Stored, Arrays, k
    <3>2. Entries(k) >= 1
      BY <1>5
    <3>. QED
      BY <1>2, <1>6, <3>1, <3>2
  <2>. QED
    BY <2>1, <2>2, <2>3
<1>8. \A j \in Idx : Entries(j)' = Arrays(j)'
  <2>. TAKE j \in Idx
  <2>1. Arrays(j)' \in Nat
    BY DEF Arrays
  <2>. QED
    BY <1>5, <1>6, <1>7, <2>1
<1>. QED
  BY <1>8 DEF BlocksBacked, Arrays

LEMMA BackedKept ==
    ASSUME IInv, Shape, HostPool, BlocksBacked, lock # "spill", lock' # "spill", [Next]_vars
    PROVE  BlocksBacked'
<1>1. ASSUME UNCHANGED <<seq_blocks, storage_device, storage_host, lock, todo>>
      PROVE  BlocksBacked'
  <2>1. \A k : Waiting(k)' = Waiting(k)
    BY <1>1 DEF Waiting, HowMany, Places
  <2>. QED
    BY <1>1, <2>1, BackedFrame
<1>2. ASSUME NEW r \in Requests, Serve(r) PROVE BlocksBacked'
  <2>1. CASE Install(r)
    BY <2>1, BackedInstall
  <2>2. CASE FreeBegin(r)
    BY <2>2, BackedFree
  <2>3. CASE \/ AllocDevice(r) \/ AllocHost(r) \/ AllocGrown(r) \/ Write(r)
             \/ \E n \in 1..MaxBlocks : EnsureBegin(r, n)
    BY <1>1, <2>3 DEF AllocDevice, AllocHost, AllocGrown, Write, EnsureBegin, storage_vars, seq_vars
  <2>. QED
    BY <1>2, <2>1, <2>2, <2>3 DEF Serve
<1>3. CASE UnderLock
  <2>1. ~ SpillOne
    BY DEF SpillOne
  <2>2. CASE Unlock
    <3>1. todo = <<>> /\ todo' = <<>> /\ lock' = "open"
      BY <2>2 DEF Unlock
    <3>2. \A k : Waiting(k) = 0 /\ Waiting(k)' = 0
      BY <3>1, HowManyOne DEF Waiting
    <3>3. \A k : Waiting(k)' = Waiting(k)
      BY <3>2
    <3>. QED
      BY <2>2, <3>3, BackedFrame DEF Unlock, storage_vars, seq_vars
  <2>. QED
    BY <1>3, <2>1, <2>2, BackedUnderLock DEF UnderLock
<1>4. ASSUME NEW n \in 1..MaxSpill, SpillBegin(n) PROVE BlocksBacked'
  BY <1>4 DEF SpillBegin
<1>5. CASE UNCHANGED vars
  BY <1>1, <1>5 DEF vars, storage_vars, seq_vars
<1>. QED
  BY <1>2, <1>3, <1>4, <1>5 DEF Next

LEMMA InitBacked == Init => HostPool /\ BlocksBacked /\ lock # "spill"
<1>. SUFFICES ASSUME Init PROVE HostPool /\ BlocksBacked
  BY DEF Init
<1>1. DeviceBlocks \in Nat /\ HostBlocks \in Nat
  BY KVAssumption
<1>2. Taken("host") = {} /\ TakenIdx("host") = {} /\ storage_host = {}
  BY DEF Init, Taken, TakenIdx
<1>3. DOMAIN free_host = 1..HostBlocks /\ \A i \in 1..HostBlocks : free_host[i] = i - 1
  BY DEF Init
<1>4. Injective(free_host)
  BY <1>1, <1>3 DEF Injective
<1>5. Elements(free_host) = 0..(HostBlocks - 1)
  <2>1. \A k \in 0..(HostBlocks - 1) : k + 1 \in 1..HostBlocks /\ (k + 1) - 1 = k
    BY <1>1
  <2>2. \A i \in 1..HostBlocks : i - 1 \in 0..(HostBlocks - 1)
    BY <1>1
  <2>3. \A k \in 0..(HostBlocks - 1) : free_host[k + 1] = k
    BY <1>3, <2>1
  <2>4. 0..(HostBlocks - 1) \subseteq Elements(free_host)
    BY <1>3, <2>1, <2>3 DEF Elements
  <2>5. Elements(free_host) \subseteq 0..(HostBlocks - 1)
    BY <1>3, <2>2 DEF Elements
  <2>. QED
    BY <2>4, <2>5
<1>6. (DeviceBlocks + HostBlocks)..(next_block - 1) = {}
  BY <1>1 DEF Init
<1>7. HostPool
  BY <1>2, <1>4, <1>5, <1>6 DEF HostPool
<1>8. \A k : Entries(k) = 0
  <2>. TAKE k
  <2>1. Standing(k) = {}
    BY DEF Init, Standing, Page
  <2>2. Waiting(k) = 0
    BY DEF Init, Waiting
  <2>. QED
    BY <2>1, <2>2, EntriesIs, FS_EmptySet
<1>9. Elements(storage_device) = {}
  BY DEF Init, Elements
<1>10. BlocksBacked
  BY <1>2, <1>8, <1>9 DEF BlocksBacked
<1>. QED
  BY <1>7, <1>10

-----------------------------------------------------------------------------
(* What a page holds.                                                      *)

(* Two entries are not one.                                                *)
LEMMA TwoEntries ==
    ASSUME NEW S, IsFiniteSet(S), NEW p \in S, NEW q \in S, p # q
    PROVE  Cardinality(S) \in Nat /\ Cardinality(S) >= 2
<1>1. Cardinality(S) \in Nat
  BY FS_CardinalityType
<1>2. Cardinality(S) # 0
  BY FS_EmptySet
<1>3. Cardinality(S) # 1
  <2>. SUFFICES ASSUME Cardinality(S) = 1 PROVE FALSE
    OBVIOUS
  <2>1. \E x : S = {x}
    BY FS_Singleton
  <2>. QED
    BY <2>1
<1>. QED
  BY <1>1, <1>2, <1>3

(* A page that is alone shares its index neither with another page, nor    *)
(* with a block that waits to be freed, before a step or after it.         *)
LEMMA AlonePage ==
    ASSUME Shape, Shape', NEW k, NEW p
    PROVE  /\ p \in Standing(k) /\ Entries(k) = 1 =>
                 /\ \A q \in Standing(k) : q = p
                 /\ lock = "free" /\ todo # <<>> => Head(todo) # k
           /\ p \in Standing(k)' /\ Entries(k)' = 1 => \A q \in Standing(k)' : q = p
<1>1. /\ IsFiniteSet(Standing(k)) /\ IsFiniteSet(Standing(k)')
      /\ Cardinality(Standing(k)) \in Nat /\ Cardinality(Standing(k)') \in Nat
      /\ Waiting(k) \in Nat /\ Waiting(k)' \in Nat
      /\ Entries(k) = Cardinality(Standing(k)) + Waiting(k)
      /\ Entries(k)' = Cardinality(Standing(k)') + Waiting(k)'
  BY StandingFinite, WaitingIsNat, EntriesIs
<1>2. ASSUME p \in Standing(k), Entries(k) = 1, NEW q \in Standing(k), q # p PROVE FALSE
  <2>1. Cardinality(Standing(k)) >= 2
    BY <1>1, <1>2, TwoEntries
  <2>. QED
    BY <1>1, <1>2, <2>1
<1>3. ASSUME p \in Standing(k)', Entries(k)' = 1, NEW q \in Standing(k)', q # p PROVE FALSE
  <2>. DEFINE S == Standing(k)'
  <2>1. IsFiniteSet(S) /\ p \in S /\ q \in S
    BY <1>1, <1>3
  <2>. HIDE DEF S
  <2>2. Cardinality(S) >= 2
    BY <1>3, <2>1, TwoEntries
  <2>. QED
    BY <1>1, <1>3, <2>2 DEF S
<1>4. ASSUME p \in Standing(k), Entries(k) = 1, lock = "free", todo # <<>>, Head(todo) = k
      PROVE  FALSE
  <2>1. todo \in Seq(Idx)
    BY DEF Shape, TypeOK
  <2>2. HowMany(todo, k) >= 1
    BY <1>4, <2>1, HowManyTail
  <2>3. Waiting(k) >= 1
    BY <1>4, <2>2 DEF Waiting
  <2>4. Cardinality(Standing(k)) # 0
    BY <1>1, <1>4, FS_EmptySet
  <2>. QED
    BY <1>1, <1>4, <2>3, <2>4
<1>. QED
  BY <1>2, <1>3, <1>4

(* The arrays of an index that a step leaves alone.                        *)
LEMMA DataSame ==
    ASSUME NEW r \in Requests, NEW l \in Layers, NEW i,
           seq_blocks'[r][l][i] = seq_blocks[r][l][i],
           seq_blocks[r][l][i] \in Elements(storage_device)' <=>
              seq_blocks[r][l][i] \in Elements(storage_device),
           \A t \in Tiers : data'[t][seq_blocks[r][l][i]] = data[t][seq_blocks[r][l][i]]
    PROVE  DataOf(r, l, i)' = DataOf(r, l, i)
<1>. DEFINE j == seq_blocks[r][l][i]
            u == TierOf(j)
<1>1. u \in Tiers /\ u = IF j \in Elements(storage_device) THEN "device" ELSE "host"
  BY DEF TierOf, Tiers
<1>2. DataOf(r, l, i) = data[u][j]
  BY DEF DataOf
<1>3. DataOf(r, l, i)' = data'[IF j \in Elements(storage_device)' THEN "device" ELSE "host"][j]
  BY DEF DataOf, TierOf
<1>. QED
  BY <1>1, <1>2, <1>3

LEMMA PageKept ==
    ASSUME IInv, Shape, [Next]_vars,
           NEW r \in Requests, NEW l \in Layers, NEW i \in 1..MaxBlocks,
           Page(r, l, i), Page(r, l, i)', Alone(r, l, i), Alone(r, l, i)'
    PROVE  DataOf(r, l, i)' \in {DataOf(r, l, i), <<r, l, i>>}
<1>0. IInv' /\ Shape'
  BY NextLemma, ShapeKept
<1>. DEFINE p == <<r, l, i>>
<1>a. PICK j : j = seq_blocks[r][l][i]
  OBVIOUS
<1>1. j \in Idx
  <2>1. seq_blocks[r][l] \in Seq(Idx) /\ i \in DOMAIN seq_blocks[r][l]
    BY DEF Shape, TypeOK, Page
  <2>. QED
    BY <1>a, <2>1
<1>2. p \in Standing(j) /\ Entries(j) = 1
  BY <1>a DEF Standing, Alone
<1>3. /\ \A q \in Standing(j) : q = p
      /\ lock = "free" /\ todo # <<>> => Head(todo) # j
  <2>. HIDE DEF p
  <2>. QED
    BY <1>0, <1>2, AlonePage
<1>4. DOMAIN data = Tiers /\ \A t \in Tiers : DOMAIN data[t] = Idx
  BY DEF Shape, TypeOK
<1>5. storage_device \in Seq(Idx) /\ Injective(storage_device)
  BY DEF Shape, TypeOK, IInv, DevicePool
<1>6. ASSUME seq_blocks'[r][l][i] = seq_blocks[r][l][i],
             j \in Elements(storage_device)' <=> j \in Elements(storage_device),
             \A t \in Tiers : data'[t][j] = data[t][j]
      PROVE  DataOf(r, l, i)' \in {DataOf(r, l, i), <<r, l, i>>}
  BY <1>a, <1>6, DataSame
<1>7. ASSUME UNCHANGED <<seq_blocks, storage_device, data>>
      PROVE  DataOf(r, l, i)' \in {DataOf(r, l, i), <<r, l, i>>}
  BY <1>6, <1>7
<1>8. ASSUME NEW q \in Requests, Serve(q)
      PROVE  DataOf(r, l, i)' \in {DataOf(r, l, i), <<r, l, i>>}
  <2>1. CASE \/ AllocDevice(q) \/ AllocHost(q) \/ AllocGrown(q)
             \/ \E n \in 1..MaxBlocks : EnsureBegin(q, n)
    BY <1>7, <2>1 DEF AllocDevice, AllocHost, AllocGrown, EnsureBegin, storage_vars, seq_vars
  <2>2. CASE Install(q)
    <3>0. PICK m \in Layers, k \in Idx, t \in Tiers, n \in 1..MaxBlocks : AddsPage(q, m, k, t, n)
      BY <2>2, InstallPages
    <3>1. /\ data' = [data EXCEPT ![t][k] = None]
          /\ storage_device' = IF t = "device" THEN Append(storage_device, k)
                                               ELSE storage_device
          /\ ~ Page(q, m, n) /\ Page(q, m, n)' /\ seq_blocks'[q][m][n] = k
          /\ p # <<q, m, n>> => seq_blocks'[r][l][i] = seq_blocks[r][l][i]
      BY <3>0 DEF AddsPage
    <3>2. p # <<q, m, n>>
      BY <3>1
    <3>3. p \in Standing(j)' /\ Entries(j)' = 1
      BY <1>a, <3>1, <3>2 DEF Standing, Alone
    <3>4. <<q, m, n>> \in Standing(k)'
      BY <3>1 DEF Standing
    <3>5. j # k
      <4>1. \A x \in Standing(j)' : x = p
        <5>. HIDE DEF p
        <5>. QED
          BY <1>0, <3>3, AlonePage
      <4>. QED
        BY <3>2, <3>4, <4>1
    <3>6. \A u \in Tiers : data'[u][j] = data[u][j]
      BY <1>1, <1>4, <3>1, <3>5
    <3>7. j \in Elements(storage_device)' <=> j \in Elements(storage_device)
      <4>1. CASE t = "device"
        <5>1. k \notin Elements(storage_device)
          <6>1. taken[q] # None /\ taken[q].idx = k /\ taken[q].tier = "device"
            BY <3>0, <4>1 DEF AddsPage
          <6>2. k \in TakenIdx("device")
            BY <6>1 DEF Taken, TakenIdx
          <6>. QED
            BY <6>2 DEF IInv, DevicePool
        <5>2. Elements(Append(storage_device, k)) = Elements(storage_device) \cup {k}
          BY <1>5, <5>1, AppendLemma
        <5>. QED
          BY <3>1, <3>5, <4>1, <5>2
      <4>2. CASE t # "device"
        BY <3>1, <4>2
      <4>. QED
        BY <4>1, <4>2
    <3>. QED
      BY <1>6, <3>1, <3>2, <3>6, <3>7
  <2>3. CASE Write(q)
    <3>a. PICK m \in Layers : \E n \in DOMAIN seq_blocks[q][m] :
             data' = [data EXCEPT ![TierOf(seq_blocks[q][m][n])][seq_blocks[q][m][n]] = <<q, m, n>>]
      BY <2>3 DEF Write
    <3>1. PICK n \in DOMAIN seq_blocks[q][m] :
             data' = [data EXCEPT ![TierOf(seq_blocks[q][m][n])][seq_blocks[q][m][n]] = <<q, m, n>>]
      BY <3>a
    <3>2. UNCHANGED <<seq_blocks, storage_device>>
      BY <2>3 DEF Write, seq_vars
    <3>3. PICK k : k = seq_blocks[q][m][n]
      OBVIOUS
    <3>4. data' = [data EXCEPT ![TierOf(k)][k] = <<q, m, n>>] /\ TierOf(k) \in Tiers
      BY <3>1, <3>3 DEF TierOf, Tiers
    <3>5. CASE k = j
      <4>1. n \in 1..MaxBlocks
        <5>1. seq_blocks[q][m] \in Seq(Idx) /\ Len(seq_blocks[q][m]) <= goal[q] /\ goal[q] \in 0..MaxBlocks
          BY DEF Shape, TypeOK, TablesInv
        <5>. QED
          BY <5>1, KVAssumption
      <4>2. <<q, m, n>> \in Standing(j)
        BY <3>3, <3>5, <4>1 DEF Standing, Page
      <4>3. <<q, m, n>> = <<r, l, i>>
        BY <1>3, <4>2
      <4>4. data'[TierOf(j)][j] = <<r, l, i>>
        BY <1>1, <1>4, <3>4, <3>5, <4>3
      <4>5. DataOf(r, l, i)' = data'[TierOf(j)][j]
        BY <1>a, <3>2 DEF DataOf, TierOf
      <4>. QED
        BY <4>4, <4>5
    <3>6. CASE k # j
      <4>1. \A u \in Tiers : data'[u][j] = data[u][j]
        BY <1>1, <1>4, <3>4, <3>6
      <4>. QED
        BY <1>6, <3>2, <4>1
    <3>. QED
      BY <3>5, <3>6
  <2>4. CASE FreeBegin(q)
    <3>1. /\ seq_blocks' = [seq_blocks EXCEPT ![q] = [m \in Layers |-> <<>>]]
          /\ UNCHANGED storage_vars
      BY <2>4 DEF FreeBegin
    <3>2. q # r
      <4>. SUFFICES ASSUME q = r PROVE FALSE
        OBVIOUS
      <4>1. seq_blocks'[r][l] = <<>>
        BY <3>1 DEF Shape, TypeOK
      <4>. QED
        BY <4>1 DEF Page
    <3>3. seq_blocks'[r] = seq_blocks[r]
      BY <3>1, <3>2 DEF Shape, TypeOK
    <3>. QED
      BY <1>6, <3>1, <3>3 DEF storage_vars
  <2>. QED
    BY <1>8, <2>1, <2>2, <2>3, <2>4 DEF Serve
<1>9. CASE UnderLock
  <2>1. seq_blocks' = seq_blocks
    BY <1>9 DEF UnderLock, FreeDevice, FreeHost, FreeNothing, SpillOne, Unlock, seq_vars
  <2>2. CASE FreeDevice
    <3>. DEFINE k == Head(todo)
    <3>1. /\ k # j /\ k \in Elements(storage_device)
          /\ storage_device' = Without(storage_device, k)
          /\ data' = [data EXCEPT !["device"][k] = None]
      BY <1>3, <2>2 DEF FreeDevice
    <3>. HIDE DEF k
    <3>2. Elements(storage_device)' = Elements(storage_device) \ {k}
      BY <1>5, <3>1, WithoutLemma
    <3>3. \A u \in Tiers : data'[u][j] = data[u][j]
      BY <1>1, <1>4, <3>1
    <3>. QED
      BY <1>6, <2>1, <3>1, <3>2, <3>3
  <2>3. CASE FreeHost
    <3>. DEFINE k == Head(todo)
    <3>1. /\ k # j /\ storage_device' = storage_device
          /\ data' = [data EXCEPT !["host"][k] = None]
      BY <1>3, <2>3 DEF FreeHost
    <3>. HIDE DEF k
    <3>2. \A u \in Tiers : data'[u][j] = data[u][j]
      BY <1>1, <1>4, <3>1
    <3>. QED
      BY <1>6, <2>1, <3>1, <3>2
  <2>4. CASE SpillOne
    <3>. DEFINE k == Head(todo)
    <3>0. /\ todo \in Seq(DeviceIdx) /\ todo # <<>> /\ Injective(todo)
          /\ Elements(todo) \subseteq Elements(storage_device)
      BY <2>4 DEF SpillOne, IInv, SpillInside
    <3>1. k \in Elements(storage_device) /\ k \in Idx
      BY <3>0, TailLemma, IdxLemma
    <3>2. /\ storage_device' = Without(storage_device, k)
          /\ data' = [data EXCEPT !["host"][k] = data["device"][k], !["device"][k] = None]
      BY <2>4 DEF SpillOne
    <3>. HIDE DEF k
    <3>3. Elements(storage_device)' = Elements(storage_device) \ {k}
      BY <1>5, <3>1, <3>2, WithoutLemma
    <3>4. CASE k = j
      <4>1. data'["host"][j] = data["device"][j]
        BY <1>1, <1>4, <3>2, <3>4 DEF Tiers
      <4>2. DataOf(r, l, i) = data["device"][j]
        BY <1>a, <3>1, <3>4 DEF DataOf, TierOf
      <4>3. DataOf(r, l, i)' = data'["host"][j]
        BY <1>a, <2>1, <3>3, <3>4 DEF DataOf, TierOf
      <4>. QED
        BY <4>1, <4>2, <4>3
    <3>5. CASE k # j
      <4>1. \A u \in Tiers : data'[u][j] = data[u][j]
        BY <1>1, <1>4, <3>2, <3>5 DEF Tiers
      <4>. QED
        BY <1>6, <2>1, <3>3, <3>5, <4>1
    <3>. QED
      BY <3>4, <3>5
  <2>5. CASE FreeNothing \/ Unlock
    BY <1>7, <2>5 DEF FreeNothing, Unlock, storage_vars, seq_vars
  <2>. QED
    BY <1>9, <2>2, <2>3, <2>4, <2>5 DEF UnderLock
<1>10. ASSUME NEW n \in 1..MaxSpill, SpillBegin(n)
       PROVE  DataOf(r, l, i)' \in {DataOf(r, l, i), <<r, l, i>>}
  BY <1>7, <1>10 DEF SpillBegin, storage_vars, seq_vars
<1>11. CASE UNCHANGED vars
  BY <1>7, <1>11 DEF vars, storage_vars, seq_vars
<1>. QED
  BY <1>8, <1>9, <1>10, <1>11 DEF Next

-----------------------------------------------------------------------------
(* Until spill_cold_blocks is called, the host pool is conserved, and a    *)
(* block index stands in the tables and on free's list as often as arrays  *)
(* are stored under it: no lookup misses, and no array outlives its        *)
(* sequence (kvcache.py:77-82, 107-113, 148-163).                          *)
THEOREM KVCacheBackedUntilSpill == MCSpec => []BackedUntilSpill
<1>. DEFINE Inv == IInv /\ Shape /\ (unspilled => HostPool /\ BlocksBacked /\ lock # "spill")
<1>1. MCInit => Inv
  BY InitLemma, InitShape, InitBacked DEF MCInit
<1>2. Inv /\ [MCNext]_<<vars, unspilled>> => Inv'
  <2>. SUFFICES ASSUME Inv, [MCNext]_<<vars, unspilled>> PROVE Inv'
    OBVIOUS
  <2>1. [Next]_vars /\ (Watch \/ UNCHANGED <<vars, unspilled>>)
    BY DEF MCNext, Next, Serve, UnderLock
  <2>2. IInv' /\ Shape'
    BY <2>1, NextLemma, ShapeKept
  <2>3. ASSUME unspilled' PROVE unspilled /\ lock' # "spill"
    BY <2>1, <2>3 DEF Watch, vars
  <2>4. ASSUME unspilled' PROVE HostPool' /\ BlocksBacked'
    BY <2>1, <2>3, <2>4, HostKept, BackedKept
  <2>. QED
    BY <2>2, <2>3, <2>4
<1>3. Inv => BackedUntilSpill
  BY DEF Shape, BackedUntilSpill
<1>. QED
  BY <1>1, <1>2, <1>3, PTL DEF MCSpec

(* A page that shares its index with nothing keeps what was written to it, *)
(* whatever is allocated, freed, written elsewhere or spilled              *)
(* (kvcache.py:107-135, 157-163, 182-188).                                 *)
THEOREM KVCachePagesKept == Spec => PagesKept
<1>1. Init => IInv /\ Shape
  BY InitLemma, InitShape
<1>2. IInv /\ Shape /\ [Next]_vars => (IInv /\ Shape)'
  BY NextLemma, ShapeKept
<1>3. IInv /\ Shape /\ [Next]_vars =>
         \A r \in Requests, l \in Layers, i \in 1..MaxBlocks :
            Page(r, l, i) /\ Page(r, l, i)' /\ Alone(r, l, i) /\ Alone(r, l, i)' =>
                DataOf(r, l, i)' \in {DataOf(r, l, i), <<r, l, i>>}
  BY PageKept
<1>. QED
  BY <1>1, <1>2, <1>3, PTL DEF Spec, PagesKept

=============================================================================
