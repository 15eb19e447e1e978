--------------------------- MODULE KnowledgeCache ----------------------------
(***************************************************************************)
(* The knowledge cache of the voice worker: KnowledgeCache.get of          *)
(* src/app/services/knowledge_service.py as run_inbound_call uses it.      *)
(*                                                                         *)
(* A call learns the knowledge version of its agent from the backend, and  *)
(* asks the cache for (agent, version).  A miss starts one download that   *)
(* all calls for the same key await.  The dashboard changes the knowledge  *)
(* at any time, so a download may return a version newer than its key.     *)
(*                                                                         *)
(* The cache's own lock is never held across an await; between its awaits  *)
(* get is one step, and the calls that await one download resume one after *)
(* the other with nothing in between, which is one step here.  What an     *)
(* index contains is its version.  The ordered dictionary is its items and *)
(* for each of them the set of those used after it.                        *)
(***************************************************************************)
EXTENDS Naturals, FiniteSets

CONSTANTS
    Calls,       \* concurrent calls of one worker process
    Agents,      \* voice agents
    MaxVersion,  \* bound on the changes of an agent's knowledge
    MaxEntries   \* knowledge_cache_max_entries

ASSUME VersionAssumption == MaxVersion \in Nat \ {0}
ASSUME EntriesAssumption == MaxEntries \in Nat \ {0}

Versions == 1 .. MaxVersion
Key == [agent: Agents, version: Versions]

VARIABLES
    current,   \* per agent: the version the backend has
    items,     \* _items: per key, the version of its index, 0 if there is none
    after,     \* the order of _items: per key in it, the keys used more recently
    inflight,  \* _inflight: the keys being downloaded
    snapshot,  \* per key: the version its download has read, 0 before that
    state,     \* per call: before get, awaiting a download, or after get
    want,      \* per call: the key it asks for
    got        \* per call: the version of its index; 0 is the empty index

cache == <<items, after>>
vars == <<current, cache, inflight, snapshot, state, want, got>>

State == {"idle", "resolved", "waiting", "served", "cancelled"}

Init ==
    /\ current = [a \in Agents |-> 1]
    /\ items = [k \in Key |-> 0]
    /\ after = [k \in Key |-> {}]
    /\ inflight = {}
    /\ snapshot = [k \in Key |-> 0]
    /\ state = [c \in Calls |-> "idle"]
    /\ want \in [Calls -> {[agent |-> a, version |-> 1] : a \in Agents}]
    /\ got = [c \in Calls |-> 0]

------------------------------------------------------------------------------

Keys == {k \in Key : items[k] # 0}

\* Mutant: the lookup ignores the version.
Index_anyVersion(k) ==
    LET same == {l \in Keys : l.agent = k.agent}
    IN  IF same = {} THEN 0 ELSE items[CHOOSE l \in same : TRUE]

\* _items.get: the index of a key, or nothing.
Index(k) == items[k]

Cached(k) == Index(k) # 0

\* The order with k as the most recently used.
Touched(k) == [l \in Key |-> IF l \in Keys \ {k} THEN after[l] \cup {k} ELSE {}]

\* move_to_end
Touch(k) == after' = Touched(k) /\ UNCHANGED items

\* Mutant: one place is kept free.
Trim_early(order) == {l \in Key : Cardinality(order[l]) + 1 < MaxEntries}

\* Mutant: the bound is checked before the entry is added.
Trim_late(order) == {l \in Key : Cardinality(order[l]) <= MaxEntries}

\* popitem(last=False) until there are no more than max_entries: who is among the
\* most recently used stays.
Trim(order) == {l \in Key : Cardinality(order[l]) < MaxEntries}

\* Mutant: other versions of the agent are left to the LRU.
DropStale_never(keys, k) == keys

\* Every other version of the agent leaves the cache.
DropStale(keys, k) == {l \in keys : l.agent = k.agent => l = k}

\* What is in the cache once k has been added.
Kept(k) == DropStale((Keys \cup {k}) \cap Trim(Touched(k)), k)

Insert(k, content) ==
    /\ items' = [l \in Key |-> IF l \notin Kept(k) THEN 0
                               ELSE IF l = k THEN content ELSE items[l]]
    /\ after' = [l \in Key |-> IF l \in Kept(k) THEN Touched(k)[l] \cap Kept(k) ELSE {}]

Waiters(k) == {c \in Calls : state[c] = "waiting" /\ want[c] = k}

\* The download of k is over: nothing is left of it, and its waiters resume.
Resume(k, label, version) ==
    /\ inflight' = inflight \ {k}
    /\ snapshot' = [snapshot EXCEPT ![k] = 0]
    /\ state' = [c \in Calls |-> IF c \in Waiters(k) THEN label ELSE state[c]]
    /\ got' = [c \in Calls |-> IF c \in Waiters(k) THEN version ELSE got[c]]
    /\ UNCHANGED <<current, want>>

------------------------------------------------------------------------------
(* Calls. *)

\* resolve_agent returns the agent's version of that moment.
Resolve(c) ==
    /\ state[c] = "idle"
    /\ state' = [state EXCEPT ![c] = "resolved"]
    /\ \E a \in Agents :
          want' = [want EXCEPT ![c] = [agent |-> a, version |-> current[a]]]
    /\ got' = [got EXCEPT ![c] = 0]
    /\ UNCHANGED <<current, cache, inflight, snapshot>>

Hit(c) ==
    /\ state[c] = "resolved"
    /\ Cached(want[c])
    /\ Touch(want[c])
    /\ state' = [state EXCEPT ![c] = "served"]
    /\ got' = [got EXCEPT ![c] = Index(want[c])]
    /\ UNCHANGED <<current, inflight, snapshot, want>>

\* A miss joins the download in progress or starts one.
Miss(c) ==
    /\ state[c] = "resolved"
    /\ ~Cached(want[c])
    /\ inflight' = inflight \cup {want[c]}
    /\ state' = [state EXCEPT ![c] = "waiting"]
    /\ UNCHANGED <<current, cache, snapshot, want, got>>

\* The call goes on with its index; its slot takes another call.
Leave(c) ==
    /\ state[c] \in {"served", "cancelled"}
    /\ state' = [state EXCEPT ![c] = "idle"]
    /\ UNCHANGED <<current, cache, inflight, snapshot, want, got>>

------------------------------------------------------------------------------
(* Downloads. *)

\* The backend reads the snapshot for a download.
Read(k) ==
    /\ k \in inflight /\ snapshot[k] = 0
    /\ snapshot' = [snapshot EXCEPT ![k] = current[k.agent]]
    /\ UNCHANGED <<current, cache, inflight, state, want, got>>

\* Mutant: the key stays in _inflight when its download is over.
Arrive_keepsInflight(k) ==
    /\ k \in inflight /\ snapshot[k] # 0
    /\ Insert(k, snapshot[k])
    /\ snapshot' = [snapshot EXCEPT ![k] = 0]
    /\ state' = [c \in Calls |-> IF c \in Waiters(k) THEN "served" ELSE state[c]]
    /\ got' = [c \in Calls |-> IF c \in Waiters(k) THEN snapshot[k] ELSE got[c]]
    /\ UNCHANGED <<current, inflight, want>>

\* It arrives: the first waiter to resume inserts the index, unless the key has
\* been inserted meanwhile, and the others find it.
Arrive(k) ==
    /\ k \in inflight /\ snapshot[k] # 0
    /\ IF Cached(k)
       THEN Touch(k) /\ Resume(k, "served", Index(k))
       ELSE Insert(k, snapshot[k]) /\ Resume(k, "served", snapshot[k])

\* Mutant: a failed download leaves its waiters waiting.
Fail_silent(k) ==
    /\ k \in inflight
    /\ inflight' = inflight \ {k}
    /\ snapshot' = [snapshot EXCEPT ![k] = 0]
    /\ UNCHANGED <<current, cache, state, want, got>>

\* It fails, because of the backend or because the call whose HTTP client it uses
\* has ended: every waiter goes on with an empty index, nothing is cached.
Fail(k) ==
    /\ k \in inflight
    /\ Resume(k, "served", 0)
    /\ UNCHANGED cache

\* A call is cancelled while it waits: that cancels the shared task it awaits, and
\* with it every other waiter.
Cancel(k) ==
    /\ Waiters(k) # {}
    /\ Resume(k, "cancelled", 0)
    /\ UNCHANGED cache

\* The dashboard changes an agent's knowledge.
Change(a) ==
    /\ current[a] < MaxVersion
    /\ current' = [current EXCEPT ![a] = @ + 1]
    /\ UNCHANGED <<cache, inflight, snapshot, state, want, got>>

------------------------------------------------------------------------------

Download(k) == Read(k) \/ Arrive(k) \/ Fail(k)

Next ==
    \/ \E c \in Calls : Resolve(c) \/ Hit(c) \/ Miss(c) \/ Leave(c)
    \/ \E k \in Key : Download(k) \/ Cancel(k)
    \/ \E a \in Agents : Change(a)

\* A download ends: its requests have a timeout and a bounded number of retries.
Fairness == \A k \in Key : WF_vars(Download(k))

Spec == Init /\ [][Next]_vars /\ Fairness

------------------------------------------------------------------------------
(* Properties. *)

\* Every variable keeps to the values the code can give it, the cache to its bound
\* although stale entries leave it only after the least recently used one.
TypeOK ==
    /\ current \in [Agents -> Versions]
    /\ items \in [Key -> 0 .. MaxVersion] /\ Cardinality(Keys) <= MaxEntries
    /\ after \in [Key -> SUBSET Key]
    /\ inflight \subseteq Key
    /\ snapshot \in [Key -> 0 .. MaxVersion]
    /\ state \in [Calls -> State]
    /\ want \in [Calls -> Key]
    /\ got \in [Calls -> 0 .. MaxVersion]

\* A call never works with knowledge older than the version it was resolved with,
\* whichever download it shared and whatever changed in between; nor with knowledge
\* the backend does not have yet.
NeverOlder ==
    \A c \in Calls :
        state[c] = "served" /\ got[c] # 0 =>
            got[c] \in want[c].version .. current[want[c].agent]

\* The cache holds one version of an agent at most, however downloads of different
\* versions overtake one another.
OneVersionPerAgent ==
    \A k, l \in Keys : k.agent = l.agent => k = l

\* A key is being downloaded exactly while some call waits for it: no waiter is left
\* without its download, and no finished one keeps its place and blocks the next.
InflightIsAwaited == inflight = {want[c] : c \in {d \in Calls : state[d] = "waiting"}}

\* What makes these inductive.  The order is one: in every set of keys that are in the
\* cache, one was used before all others.
Ordered ==
    /\ IsFiniteSet(Keys)
    /\ \A k \in Keys : after[k] \subseteq Keys \ {k}
    /\ \A S \in SUBSET Keys : S # {} => \E k \in S : S \ {k} \subseteq after[k]

\* No version is known before the backend has it, and none is older than its key.
Fresh ==
    /\ \A c \in Calls : want[c].version <= current[want[c].agent]
    /\ \A k \in Key : {items[k], snapshot[k]} \subseteq {0} \cup (k.version .. current[k.agent])

IndInv ==
    TypeOK /\ NeverOlder /\ OneVersionPerAgent /\ InflightIsAwaited /\ Ordered /\ Fresh

\* Every call that waits for a download gets an index, if only an empty one, or is
\* cancelled.
WaitingEnds == \A c \in Calls : state[c] = "waiting" ~> state[c] # "waiting"

\* README: "Calls using an already cached version perform no additional Knowledge
\* Base download".  The newest version of an agent leaves the cache for two reasons
\* only: the cache is full, or the slow download of an older version of that agent
\* arrives; a touch, a failed download or a cancelled call never costs it its place.
NewestIsKept ==
    [][\A k \in Key :
         k.version = current[k.agent] /\ Cached(k) /\ ~Cached(k)' =>
             \/ Cardinality(Keys) = MaxEntries
             \/ \E old \in inflight \ inflight' :
                    old.agent = k.agent /\ old.version < k.version]_vars
==============================================================================
