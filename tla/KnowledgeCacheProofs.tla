------------------------- MODULE KnowledgeCacheProofs -------------------------
(* For any number of calls, agents, versions and entries: the cache keeps to its   *)
(* bound and to one version of an agent, serves nothing older than was asked for,  *)
(* and downloads exactly what is waited for.                                       *)
EXTENDS KnowledgeCache, FiniteSetTheorems, TLAPS

------------------------------------------------------------------------------
(* The order of the cache. *)

\* A key that becomes the most recently used is after all others, which keep their order.
LEMMA TouchedOrder ==
    ASSUME NEW k \in Key, Ordered, after \in [Key -> SUBSET Key],
           NEW S \in SUBSET (Keys \cup {k}), S # {}
    PROVE  \E l \in S : S \ {l} \subseteq Touched(k)[l]
<1> DEFINE T == S \ {k}
<1>1. CASE T = {}
  <2>1. k \in S /\ S \ {k} = {}
    BY <1>1
  <2> QED BY <2>1
<1>2. CASE T # {}
  <2>1. T \in SUBSET Keys
    OBVIOUS
  <2>2. PICK l \in T : T \ {l} \subseteq after[l]
    BY <1>2, <2>1 DEF Ordered
  <2>3. Touched(k)[l] = after[l] \cup {k}
    BY <2>1, <2>2 DEF Touched, Keys
  <2> QED BY <2>2, <2>3
<1> QED BY <1>1, <1>2

LEMMA TouchedRange ==
    ASSUME NEW k \in Key, Ordered, after \in [Key -> SUBSET Key], NEW l \in Key
    PROVE  Touched(k)[l] \subseteq (Keys \cup {k}) \ {l}
BY DEF Touched, Ordered, Keys

\* A touch of a key in the cache keeps the order an order.
LEMMA TouchStep ==
    ASSUME Ordered, after \in [Key -> SUBSET Key], NEW k \in Keys, Touch(k)
    PROVE  Ordered' /\ after' \in [Key -> SUBSET Key] /\ Keys' = Keys
<1>1. Keys' = Keys /\ k \in Key /\ Keys \cup {k} = Keys /\ Keys \subseteq Key
  BY DEF Touch, Keys
<1>2. after' = Touched(k)
  BY DEF Touch
<1>3. after' \in [Key -> SUBSET Key]
  BY <1>1, <1>2 DEF Touched
<1>4. \A l \in Keys : after'[l] \subseteq Keys \ {l}
  BY <1>1, <1>2, TouchedRange
<1>5. \A S \in SUBSET Keys : S # {} => \E l \in S : S \ {l} \subseteq after'[l]
  BY <1>1, <1>2, TouchedOrder
<1> QED BY <1>1, <1>3, <1>4, <1>5 DEF Ordered

\* What an insertion leaves: the new key, the others as they were, in an order.
LEMMA InsertStep ==
    ASSUME Ordered, after \in [Key -> SUBSET Key], NEW k \in Key, NEW content \in Nat \ {0},
           Insert(k, content)
    PROVE  /\ Keys' = Kept(k) /\ Ordered' /\ after' \in [Key -> SUBSET Key]
           /\ \A l \in Key : items'[l] \in {0, IF l = k THEN content ELSE items[l]}
<1> DEFINE K == Keys \cup {k}
<1>1. Kept(k) \subseteq K /\ Kept(k) \subseteq Key
  BY DEF Kept, DropStale, Keys
<1>2. Keys' = Kept(k)
  BY <1>1 DEF Insert, Keys
<1>3. \A l \in Kept(k) : after'[l] = Touched(k)[l] \cap Kept(k)
  BY <1>1 DEF Insert
<1>4. IsFiniteSet(Kept(k))
  <2>1. IsFiniteSet(K)
    BY FS_AddElement DEF Ordered
  <2> QED BY <1>1, <2>1, FS_Subset
<1>5. \A l \in Kept(k) : after'[l] \subseteq Kept(k) \ {l}
  BY <1>1, <1>3, TouchedRange
<1>6. ASSUME NEW S \in SUBSET Kept(k), S # {} PROVE \E l \in S : S \ {l} \subseteq after'[l]
  <2>1. PICK l \in S : S \ {l} \subseteq Touched(k)[l]
    BY <1>1, <1>6, TouchedOrder
  <2> QED BY <1>3, <2>1
<1>7. after' \in [Key -> SUBSET Key]
  BY <1>1 DEF Insert
<1>8. \A l \in Key : items'[l] \in {0, IF l = k THEN content ELSE items[l]}
  BY DEF Insert
<1> QED BY <1>2, <1>4, <1>5, <1>6, <1>7, <1>8 DEF Ordered

\* An insertion into a full cache drops the least recently used entry at least.
LEMMA WithinBound ==
    ASSUME Ordered, after \in [Key -> SUBSET Key], Cardinality(Keys) <= MaxEntries,
           NEW k \in Key \ Keys
    PROVE  Cardinality(Kept(k)) <= MaxEntries
<1> USE EntriesAssumption
<1> DEFINE K == Keys \cup {k}
<1>1. IsFiniteSet(Keys) /\ IsFiniteSet(K) /\ Cardinality(Keys) \in Nat
      /\ Cardinality(K) = Cardinality(Keys) + 1
  BY FS_AddElement, FS_CardinalityType DEF Ordered
<1>2. Kept(k) \subseteq K
  BY DEF Kept, DropStale
<1>3. IsFiniteSet(Kept(k)) /\ Cardinality(Kept(k)) \in Nat /\ Cardinality(Kept(k)) <= Cardinality(K)
  BY <1>1, <1>2, FS_Subset, FS_CardinalityType
<1>4. CASE Cardinality(Keys) < MaxEntries
  BY <1>1, <1>3, <1>4
<1>5. CASE Cardinality(Keys) = MaxEntries
  <2>1. PICK l \in K : K \ {l} \subseteq Touched(k)[l]
    BY TouchedOrder
  <2>2. l \in Key /\ Touched(k)[l] \subseteq K \ {l}
    BY <2>1, TouchedRange DEF Keys
  <2>3. Touched(k)[l] = K \ {l}
    BY <2>1, <2>2
  <2>4. Cardinality(K \ {l}) = MaxEntries /\ IsFiniteSet(K \ {l})
    BY <1>1, <1>5, <2>1, FS_RemoveElement
  <2>5. l \notin Kept(k)
    <3>1. Cardinality(Touched(k)[l]) = MaxEntries
      BY <2>3, <2>4
    <3>2. l \notin Trim(Touched(k))
      BY <3>1 DEF Trim
    <3> QED BY <3>2 DEF Kept, DropStale
  <2>6. Kept(k) \subseteq K \ {l}
    BY <1>2, <2>5
  <2> QED BY <2>4, <2>6, FS_Subset
<1> QED BY <1>1, <1>4, <1>5

------------------------------------------------------------------------------
(* The invariant. *)

LEMMA InitIndInv == Init => IndInv
<1> SUFFICES ASSUME Init PROVE IndInv
  OBVIOUS
<1> USE VersionAssumption, EntriesAssumption
<1>1. Keys = {}
  BY DEF Init, Keys
<1>2. want \in [Calls -> Key] /\ \A c \in Calls : want[c].version = 1
  BY DEF Init, Key, Versions
<1>3. TypeOK
  BY <1>1, <1>2, FS_EmptySet DEF Init, TypeOK, State, Versions
<1>4. Ordered
  BY <1>1, FS_EmptySet DEF Ordered
<1>5. Fresh
  BY <1>2 DEF Init, Fresh, Key
<1> QED BY <1>1, <1>3, <1>4, <1>5
     DEF IndInv, Init, NeverOlder, OneVersionPerAgent, InflightIsAwaited

\* A call that comes, asks or goes.
LEMMA CallStep ==
    ASSUME IndInv, NEW c \in Calls, Resolve(c) \/ Miss(c) \/ Leave(c) PROVE IndInv'
<1> USE VersionAssumption DEF IndInv
<1>0. Keys' = Keys /\ UNCHANGED <<cache, snapshot, current>>
  BY DEF Resolve, Miss, Leave, Keys, cache
<1>1. CASE Resolve(c)
  <2>1. PICK a \in Agents : want' = [want EXCEPT ![c] = [agent |-> a, version |-> current[a]]]
    BY <1>1 DEF Resolve
  <2>2. [agent |-> a, version |-> current[a]] \in Key
    BY DEF TypeOK, Key
  <2>3. TypeOK'
    BY <1>0, <1>1, <2>1, <2>2 DEF Resolve, TypeOK, State, cache
  <2>4. NeverOlder'
    BY <1>0, <1>1, <2>1 DEF Resolve, TypeOK, NeverOlder
  <2>5. InflightIsAwaited'
    BY <1>1, <2>1 DEF Resolve, TypeOK, InflightIsAwaited
  <2>6. Fresh'
    BY <1>0, <1>1, <2>1, <2>2 DEF Resolve, TypeOK, Fresh, cache, Key, Versions
  <2> QED BY <1>0, <2>3, <2>4, <2>5, <2>6 DEF OneVersionPerAgent, Ordered, cache
<1>2. CASE Miss(c)
  <2>1. TypeOK'
    BY <1>0, <1>2 DEF Miss, TypeOK, State, cache
  <2>2. NeverOlder'
    BY <1>0, <1>2 DEF Miss, TypeOK, NeverOlder
  <2>3. InflightIsAwaited'
    BY <1>2 DEF Miss, TypeOK, InflightIsAwaited
  <2> QED BY <1>0, <1>2, <2>1, <2>2, <2>3 DEF Miss, OneVersionPerAgent, Ordered, Fresh, cache
<1>3. CASE Leave(c)
  <2>1. TypeOK'
    BY <1>0, <1>3 DEF Leave, TypeOK, State, cache
  <2>2. NeverOlder'
    BY <1>0, <1>3 DEF Leave, TypeOK, NeverOlder
  <2>3. InflightIsAwaited'
    BY <1>3 DEF Leave, TypeOK, InflightIsAwaited
  <2> QED BY <1>0, <1>3, <2>1, <2>2, <2>3 DEF Leave, OneVersionPerAgent, Ordered, Fresh, cache
<1> QED BY <1>1, <1>2, <1>3

LEMMA HitStep == ASSUME IndInv, NEW c \in Calls, Hit(c) PROVE IndInv'
<1> USE VersionAssumption DEF IndInv
<1>1. want[c] \in Keys /\ Touch(want[c])
  BY DEF Hit, Cached, Index, Keys, TypeOK
<1>2. Ordered' /\ after' \in [Key -> SUBSET Key] /\ Keys' = Keys
  BY <1>1, TouchStep DEF TypeOK
<1>3. UNCHANGED <<items, current, inflight, snapshot, want>>
  BY DEF Hit, Touch
<1>4. /\ items[want[c]] \in want[c].version .. current[want[c].agent]
      /\ items[want[c]] \in 0 .. MaxVersion
  BY <1>1 DEF Fresh, Keys, TypeOK
<1>5. TypeOK'
  BY <1>2, <1>3, <1>4 DEF Hit, TypeOK, State, Index
<1>6. NeverOlder'
  BY <1>3, <1>4 DEF Hit, TypeOK, NeverOlder, Index
<1>7. InflightIsAwaited'
  BY <1>3 DEF Hit, TypeOK, InflightIsAwaited
<1> QED BY <1>2, <1>3, <1>5, <1>6, <1>7 DEF OneVersionPerAgent, Fresh

\* The end of a download wakes exactly those who wait for it.
LEMMA ResumeStep ==
    ASSUME TypeOK, NeverOlder, InflightIsAwaited, Fresh,
           NEW k \in Key, NEW label \in {"served", "cancelled"}, NEW version \in 0 .. MaxVersion,
           label = "served" /\ version # 0 => version \in k.version .. current[k.agent],
           Resume(k, label, version)
    PROVE  /\ inflight' \subseteq Key /\ snapshot' \in [Key -> 0 .. MaxVersion]
           /\ state' \in [Calls -> State] /\ got' \in [Calls -> 0 .. MaxVersion]
           /\ UNCHANGED <<current, want>>
           /\ NeverOlder' /\ InflightIsAwaited'
           /\ \A l \in Key : snapshot'[l] \in {0, snapshot[l]}
<1> USE VersionAssumption DEF Resume
<1>1. /\ inflight' \subseteq Key /\ snapshot' \in [Key -> 0 .. MaxVersion]
      /\ state' \in [Calls -> State] /\ got' \in [Calls -> 0 .. MaxVersion]
      /\ UNCHANGED <<current, want>>
  BY DEF TypeOK, State
<1>2. NeverOlder'
  BY DEF NeverOlder, Waiters, TypeOK
<1>3. InflightIsAwaited'
  <2>1. \A c \in Calls : state'[c] = "waiting" <=> state[c] = "waiting" /\ want[c] # k
    BY DEF Waiters
  <2> QED BY <2>1 DEF InflightIsAwaited
<1>4. \A l \in Key : snapshot'[l] \in {0, snapshot[l]}
  BY DEF TypeOK
<1> QED BY <1>1, <1>2, <1>3, <1>4

LEMMA DownloadStep ==
    ASSUME IndInv, NEW k \in Key, Download(k) \/ Cancel(k) PROVE IndInv'
<1> USE VersionAssumption DEF IndInv
<1>1. CASE Read(k)
  <2>1. PICK c \in Calls : state[c] = "waiting" /\ want[c] = k
    BY <1>1 DEF Read, InflightIsAwaited
  <2>2. current[k.agent] \in k.version .. MaxVersion /\ current[k.agent] \in 0 .. MaxVersion
    BY <2>1 DEF Fresh, TypeOK, Key, Versions
  <2>3. Keys' = Keys /\ UNCHANGED <<cache, current, want>>
    BY <1>1 DEF Read, Keys, cache
  <2>4. TypeOK'
    BY <1>1, <2>2, <2>3 DEF Read, TypeOK, cache
  <2>5. Fresh'
    BY <1>1, <2>2, <2>3 DEF Read, Fresh, TypeOK, cache, Key, Versions
  <2> QED BY <1>1, <2>3, <2>4, <2>5
       DEF Read, NeverOlder, OneVersionPerAgent, InflightIsAwaited, Ordered, cache
<1>2. CASE Arrive(k) /\ Cached(k)
  <2>1. k \in Keys /\ Touch(k) /\ Resume(k, "served", items[k])
    BY <1>2 DEF Arrive, Cached, Index, Keys
  <2>2. items[k] \in k.version .. current[k.agent] /\ items[k] \in 0 .. MaxVersion
    BY <2>1 DEF Fresh, Keys, TypeOK
  <2>3. Ordered' /\ after' \in [Key -> SUBSET Key] /\ Keys' = Keys /\ items' = items
    BY <2>1, TouchStep DEF TypeOK, Touch
  <2>4. /\ inflight' \subseteq Key /\ snapshot' \in [Key -> 0 .. MaxVersion]
        /\ state' \in [Calls -> State] /\ got' \in [Calls -> 0 .. MaxVersion]
        /\ UNCHANGED <<current, want>>
        /\ NeverOlder' /\ InflightIsAwaited'
        /\ \A l \in Key : snapshot'[l] \in {0, snapshot[l]}
    BY <2>1, <2>2, ResumeStep
  <2>5. TypeOK'
    BY <2>3, <2>4 DEF TypeOK
  <2>6. Fresh'
    BY <2>3, <2>4 DEF Fresh
  <2> QED BY <2>3, <2>4, <2>5, <2>6 DEF OneVersionPerAgent
<1>3. CASE Arrive(k) /\ ~Cached(k)
  <2>1. k \notin Keys /\ Insert(k, snapshot[k]) /\ Resume(k, "served", snapshot[k]) /\ snapshot[k] # 0
    BY <1>3 DEF Arrive, Cached, Index, Keys
  <2>2. snapshot[k] \in k.version .. current[k.agent] /\ snapshot[k] \in 0 .. MaxVersion
        /\ snapshot[k] \in Nat \ {0}
    BY <2>1 DEF Fresh, TypeOK
  <2>3. /\ Keys' = Kept(k) /\ Ordered' /\ after' \in [Key -> SUBSET Key]
        /\ \A l \in Key : items'[l] \in {0, IF l = k THEN snapshot[k] ELSE items[l]}
    BY <2>1, <2>2, InsertStep DEF TypeOK
  <2>4. /\ inflight' \subseteq Key /\ snapshot' \in [Key -> 0 .. MaxVersion]
        /\ state' \in [Calls -> State] /\ got' \in [Calls -> 0 .. MaxVersion]
        /\ UNCHANGED <<current, want>>
        /\ NeverOlder' /\ InflightIsAwaited'
        /\ \A l \in Key : snapshot'[l] \in {0, snapshot[l]}
    BY <2>1, <2>2, ResumeStep
  <2>5. items' \in [Key -> 0 .. MaxVersion]
    BY <2>1, <2>2 DEF Insert, TypeOK
  <2>6. Cardinality(Keys') <= MaxEntries
    BY <2>1, <2>3, WithinBound DEF TypeOK
  <2>7. TypeOK'
    BY <2>3, <2>4, <2>5, <2>6 DEF TypeOK
  <2>8. Fresh'
    BY <2>2, <2>3, <2>4 DEF Fresh
  <2>9. OneVersionPerAgent'
    BY <2>3 DEF OneVersionPerAgent, Kept, DropStale
  <2> QED BY <2>3, <2>4, <2>7, <2>8, <2>9
<1>4. CASE Fail(k) \/ Cancel(k)
  <2>1. PICK label \in {"served", "cancelled"} : Resume(k, label, 0) /\ UNCHANGED cache
    BY <1>4 DEF Fail, Cancel
  <2>2. Keys' = Keys /\ UNCHANGED <<items, after>>
    BY <2>1 DEF Keys, cache
  <2>3. 0 \in 0 .. MaxVersion
    OBVIOUS
  <2>4. /\ inflight' \subseteq Key /\ snapshot' \in [Key -> 0 .. MaxVersion]
        /\ state' \in [Calls -> State] /\ got' \in [Calls -> 0 .. MaxVersion]
        /\ UNCHANGED <<current, want>>
        /\ NeverOlder' /\ InflightIsAwaited'
        /\ \A l \in Key : snapshot'[l] \in {0, snapshot[l]}
    BY <2>1, <2>3, ResumeStep
  <2>5. TypeOK'
    BY <2>2, <2>4 DEF TypeOK
  <2>6. Fresh'
    BY <2>2, <2>4 DEF Fresh
  <2> QED BY <2>2, <2>4, <2>5, <2>6 DEF OneVersionPerAgent, Ordered
<1> QED BY <1>1, <1>2, <1>3, <1>4 DEF Download

LEMMA ChangeStep == ASSUME IndInv, NEW a \in Agents, Change(a) PROVE IndInv'
<1> USE VersionAssumption DEF IndInv
<1>1. Keys' = Keys /\ UNCHANGED <<cache, inflight, snapshot, state, want, got>>
  BY DEF Change, Keys, cache
<1>2. \A b \in Agents : current[b] \in Nat /\ current'[b] \in Nat /\ current[b] <= current'[b]
  BY DEF Change, TypeOK, Versions
<1>3. TypeOK'
  BY <1>1 DEF Change, TypeOK, Versions, cache
<1>4. \A k \in Key : k.version \in Nat /\ k.version .. current[k.agent] \subseteq k.version .. current'[k.agent]
  BY <1>2 DEF Key, Versions
<1>5. NeverOlder'
  BY <1>1, <1>4 DEF NeverOlder, TypeOK
<1>6. Fresh'
  <2>1. \A k \in Key : {items[k], snapshot[k]} \subseteq {0} \cup (k.version .. current'[k.agent])
    BY <1>4 DEF Fresh
  <2>2. \A c \in Calls : want[c].version <= current'[want[c].agent]
    BY <1>2 DEF Fresh, TypeOK, Key, Versions
  <2> QED BY <1>1, <2>1, <2>2 DEF Fresh, cache
<1> QED BY <1>1, <1>3, <1>5, <1>6 DEF OneVersionPerAgent, InflightIsAwaited, Ordered, cache

LEMMA NextIndInv == IndInv /\ [Next]_vars => IndInv'
<1> SUFFICES ASSUME IndInv, [Next]_vars PROVE IndInv'
  OBVIOUS
<1>1. CASE UNCHANGED vars
  BY <1>1 DEF vars, cache, IndInv, TypeOK, NeverOlder, OneVersionPerAgent, InflightIsAwaited,
              Ordered, Fresh, Keys
<1> QED BY <1>1, CallStep, HitStep, DownloadStep, ChangeStep DEF Next

\* What holds of the cache, its downloads and its calls in every reachable state.
THEOREM Invariance == Spec => []IndInv
<1> QED BY InitIndInv, NextIndInv, PTL DEF Spec

\* The cache never holds more than knowledge_cache_max_entries.
THEOREM TypeCorrect == Spec => []TypeOK
<1>1. IndInv => TypeOK
  BY DEF IndInv
<1> QED BY <1>1, Invariance, PTL

\* No call is served knowledge older than the version it was resolved with, whichever
\* downloads are shared and overtake one another.
THEOREM NothingOlder == Spec => []NeverOlder
<1>1. IndInv => NeverOlder
  BY DEF IndInv
<1> QED BY <1>1, Invariance, PTL

\* One version of an agent is cached at most.
THEOREM OneVersion == Spec => []OneVersionPerAgent
<1>1. IndInv => OneVersionPerAgent
  BY DEF IndInv
<1> QED BY <1>1, Invariance, PTL

\* A download is in flight exactly while a call waits for it.
THEOREM EveryDownloadIsAwaited == Spec => []InflightIsAwaited
<1>1. IndInv => InflightIsAwaited
  BY DEF IndInv
<1> QED BY <1>1, Invariance, PTL

\* An entry is lost to the LRU only if the cache is full.
LEMMA TrimmedWhenFull ==
    ASSUME TypeOK, Ordered, NEW key \in Key \ Keys, NEW k \in Keys, k \notin Trim(Touched(key))
    PROVE  Cardinality(Keys) = MaxEntries
<1> USE EntriesAssumption
<1> DEFINE others == (Keys \cup {key}) \ {k}
<1>1. k \in Key /\ Touched(key)[k] \subseteq others
  BY TouchedRange DEF Keys, TypeOK
<1>2. IsFiniteSet(Keys) /\ Cardinality(Keys) \in Nat /\ Cardinality(Keys) <= MaxEntries
  BY FS_CardinalityType DEF Ordered, TypeOK
<1>3. IsFiniteSet(others) /\ Cardinality(others) = Cardinality(Keys)
  <2>1. IsFiniteSet(Keys \cup {key}) /\ Cardinality(Keys \cup {key}) = Cardinality(Keys) + 1
    BY <1>2, FS_AddElement
  <2>2. IsFiniteSet(others) /\ Cardinality(others) = Cardinality(Keys \cup {key}) - 1
    BY <2>1, FS_RemoveElement
  <2> QED BY <1>2, <2>1, <2>2
<1>4. Cardinality(Touched(key)[k]) \in Nat /\ Cardinality(Touched(key)[k]) <= Cardinality(others)
  BY <1>1, <1>3, FS_Subset, FS_CardinalityType
<1>5. ~(Cardinality(Touched(key)[k]) < MaxEntries)
  BY <1>1 DEF Trim
<1> QED BY <1>2, <1>3, <1>4, <1>5

\* The newest version of an agent leaves the cache only when the cache is full or an
\* older version of that agent arrives late.
THEOREM NewestStays == Spec => NewestIsKept
<1>1. ASSUME IndInv, [Next]_vars, NEW k \in Key,
             k.version = current[k.agent], Cached(k), ~Cached(k)'
      PROVE  \/ Cardinality(Keys) = MaxEntries
             \/ \E old \in inflight \ inflight' : old.agent = k.agent /\ old.version < k.version
  <2>1. PICK key \in Key : Arrive(key) /\ Insert(key, snapshot[key]) /\ ~Cached(key)
    BY <1>1 DEF Next, Resolve, Hit, Miss, Leave, Download, Read, Arrive, Fail, Cancel, Change,
                Touch, Cached, Index, vars, cache
  <2>2. k \in Keys /\ key \notin Keys
    BY <1>1, <2>1 DEF Cached, Index, Keys
  <2>3. k \notin Kept(key)
    BY <1>1, <2>1, <2>2 DEF Insert, Cached, Index, Keys
  <2>4. CASE k \notin Trim(Touched(key))
    BY <1>1, <2>2, <2>4, TrimmedWhenFull DEF IndInv
  <2>5. CASE k \in Trim(Touched(key))
    <3>1. key.agent = k.agent /\ key # k
      BY <2>2, <2>3, <2>5 DEF Kept, DropStale
    <3>2. key.version # k.version
      BY <3>1 DEF Key
    <3>3. key \in inflight \ inflight' /\ snapshot[key] # 0
      BY <2>1 DEF Arrive, Resume
    <3>4. key.version \in Nat /\ k.version \in Nat /\ key.version <= current[key.agent]
      BY <1>1, <3>3, VersionAssumption DEF IndInv, Fresh, TypeOK, Key, Versions
    <3> QED BY <1>1, <3>1, <3>2, <3>3, <3>4
  <2> QED BY <2>4, <2>5
<1>2. IndInv /\ [Next]_vars =>
        [\A k \in Key :
            k.version = current[k.agent] /\ Cached(k) /\ ~Cached(k)' =>
                \/ Cardinality(Keys) = MaxEntries
                \/ \E old \in inflight \ inflight' :
                       old.agent = k.agent /\ old.version < k.version]_vars
  BY <1>1
<1> QED BY <1>2, Invariance, PTL DEF Spec, NewestIsKept
==============================================================================
