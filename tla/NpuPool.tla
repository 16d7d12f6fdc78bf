------------------------------ MODULE NpuPool ------------------------------
(***************************************************************************)
(* The shared command pool of /dev/npu0 (chips/a733/a733_npu_runtime.c):   *)
(* contexts, buffers and the pages behind them.                            *)
(*                                                                         *)
(* Every open file has a context and every buffer belongs to one.  A       *)
(* client names a buffer by a handle made of the slot and of a generation  *)
(* that counts the allocations of that slot, of which the handle keeps     *)
(* HandleSpan values.  The handle of the command that the NPU executes is  *)
(* in g_rt_inflight and protects its buffer from free and close; NpuRuntime *)
(* says when it is set.  FirstFit says which pages a buffer gets.           *)
(*                                                                         *)
(* Each action is one critical section.                                    *)
(***************************************************************************)
EXTENDS FirstFit, FiniteSets

CONSTANTS MaxContexts,     \* A733_RT_MAX_CONTEXTS, 4
          MaxBuffers,      \* A733_RT_MAX_BUFFERS, 16
          Reserved,        \* the self-test page and those of the constants
          HandleSpan,      \* generations that fit a handle, 2^24
          MaxGeneration,   \* bound on the allocations of a slot
          Nobody           \* owner of a free slot

ASSUME PoolAssumption ==
  /\ MaxContexts \in Nat /\ MaxBuffers \in Nat
  /\ HandleSpan \in Nat \ {0} /\ MaxGeneration \in Nat
  /\ Reserved \subseteq 0 .. PoolPages - 1 /\ 0 \in Reserved
  /\ Nobody \notin 1 .. MaxContexts

Contexts == 1 .. MaxContexts
Slots == 1 .. MaxBuffers

(* g_rt_inflight is 0 when no buffer is protected. *)
NoHandle == <<0, 0>>
Handles == {NoHandle} \cup ((0 .. HandleSpan - 1) \X Slots)

VARIABLES
  active,       \* contexts in use
  owner,        \* the context of each slot, Nobody for a free one
  generation, first, count,     \* its generation and its pages
  pages,        \* g_rt_pages: the pages in use
  inflight,     \* g_rt_inflight
  allocatedPages, allocatedBuffers,   \* the counters of the report
  freed         \* the handles that were released

bufferVars == <<owner, generation, first, count, pages, allocatedPages,
                allocatedBuffers, freed>>
poolVars == <<active, bufferVars, inflight>>
-----------------------------------------------------------------------------
Live == {s \in Slots : owner[s] # Nobody}

Handle(s) == <<generation[s] % HandleSpan, s>>

Extent(s) == first[s] .. first[s] + count[s] - 1

(* Mistakes that would be easy to make here; the properties exclude them.    *)

(* A handle of a released slot is still found, or one of another context,  *)
(* or one that is free already.                                              *)
FindsAnyGeneration(c, h, s) == s \in Slots /\ owner[s] = c /\ h[2] = s
FindsAnyOwner(c, h, s) == s \in Live /\ Handle(s) = h
FindsFreed(c, h, s) == s \in Slots /\ Handle(s) = h /\ h[1] > 0

(* The code: a733_rt_find_buffer. *)
Finds(c, h, s) == s \in Slots /\ owner[s] = c /\ Handle(s) = h

PoolTypeOK ==
  /\ active \subseteq Contexts
  /\ owner \in [Slots -> Contexts \cup {Nobody}]
  /\ generation \in [Slots -> 0 .. MaxGeneration]
  /\ first \in [Slots -> Pages] /\ count \in [Slots -> 0 .. PoolPages]
  /\ pages \subseteq Pages
  /\ inflight \in Handles /\ freed \subseteq Handles
  /\ allocatedPages \in Nat /\ allocatedBuffers \in Nat

PoolInit ==
  /\ active = {}
  /\ owner = [s \in Slots |-> Nobody]
  /\ generation = [s \in Slots |-> 0]
  /\ first = [s \in Slots |-> 0] /\ count = [s \in Slots |-> 0]
  /\ pages = Reserved
  /\ inflight = NoHandle /\ freed = {}
  /\ allocatedPages = 0 /\ allocatedBuffers = 0
-----------------------------------------------------------------------------
(* A mistake again: the pages are forgotten. *)
ReleaseKeepsPages(S) ==
  /\ owner' = [s \in Slots |-> IF s \in S THEN Nobody ELSE owner[s]]
  /\ freed' = freed \cup {Handle(s) : s \in S}
  /\ UNCHANGED <<generation, first, count, pages, allocatedPages, allocatedBuffers>>

(* The pages of some slots return to the pool. *)
Release(S) ==
  /\ owner' = [s \in Slots |-> IF s \in S THEN Nobody ELSE owner[s]]
  /\ pages' = pages \ UNION {Extent(s) : s \in S}
  /\ allocatedPages' = allocatedPages - Cardinality(UNION {Extent(s) : s \in S})
  /\ allocatedBuffers' = allocatedBuffers - Cardinality(S)
  /\ freed' = freed \cup {Handle(s) : s \in S}
  /\ UNCHANGED <<generation, first, count>>
-----------------------------------------------------------------------------
(* Mistakes again. *)

(* The buffer of the command that the NPU executes is freed. *)
FreeAnyway(c, h) ==
  /\ c \in active
  /\ \E s \in Slots : Finds(c, h, s) /\ Release({s})
  /\ UNCHANGED <<active, inflight>>

(* The context is freed with a buffer left. *)
CloseLeaks(c) ==
  /\ c \in active
  /\ Release({s \in Slots : owner[s] = c /\ Handle(s) # inflight})
  /\ active' = active \ {c}
  /\ UNCHANGED inflight
-----------------------------------------------------------------------------
Open(c) ==
  /\ Least(c, Contexts \ active)
  /\ active' = active \cup {c}
  /\ UNCHANGED <<bufferVars, inflight>>

(* a733_rt_alloc; with no free slot or no gap it changes nothing.            *)
Alloc(c, n) ==
  /\ c \in active
  /\ \E s \in Slots, p \in Pages :
       /\ Least(s, Slots \ Live) /\ Least(p, Fits(pages, n))
       /\ generation[s] < MaxGeneration
       /\ owner' = [owner EXCEPT ![s] = c]
       /\ generation' = [generation EXCEPT ![s] = generation[s] + 1]
       /\ first' = [first EXCEPT ![s] = p] /\ count' = [count EXCEPT ![s] = n]
       /\ pages' = pages \cup (p .. p + n - 1)
       /\ allocatedPages' = allocatedPages + n
       /\ allocatedBuffers' = allocatedBuffers + 1
  /\ UNCHANGED <<active, inflight, freed>>

Free(c, h) ==
  /\ c \in active /\ h # inflight
  /\ \E s \in Slots : Finds(c, h, s) /\ Release({s})
  /\ UNCHANGED <<active, inflight>>

(* The slots of c that close reaches: all of them, or those before one whose *)
(* command is executing, which ends the close with -EBUSY.                   *)
Executing(c) == {s \in Slots : owner[s] = c /\ Handle(s) = inflight}

Reached(c) == {s \in Slots : owner[s] = c /\ \A r \in Executing(c) : s < r}

Close(c) ==
  /\ c \in active
  /\ Release(Reached(c))
  /\ active' = (IF Executing(c) = {} THEN active \ {c} ELSE active)
  /\ UNCHANGED inflight

(* The steps of a733_rt_submit that set and clear the protection.            *)
Protect(h) == inflight' = h /\ UNCHANGED <<active, bufferVars>>

PoolNext ==
  \/ \E c \in Contexts :
       \/ Open(c) \/ Close(c)
       \/ \E n \in 1 .. PoolPages : Alloc(c, n)
       \/ \E h \in Handles : Free(c, h)
  \/ \E s \in Live : Protect(Handle(s))
  \/ Protect(NoHandle)

PoolSpec == PoolInit /\ [][PoolNext]_poolVars
-----------------------------------------------------------------------------
(* No page serves two buffers, or a buffer and the driver itself, and a page *)
(* is marked used exactly if it serves one of them: nothing leaks and        *)
(* nothing is handed out twice, whatever the order of allocations, frees     *)
(* and closes.                                                               *)
PagesOwned ==
  /\ \A s \in Live : Extent(s) \cap Reserved = {}
  /\ \A s, r \in Live : s # r => Extent(s) \cap Extent(r) = {}
  /\ pages = Reserved \cup UNION {Extent(s) : s \in Live}

(* close reclaims every buffer of its context: none is left without an open  *)
(* context, which no client could free any more.                             *)
NoOrphans == \A s \in Live : owner[s] \in active

(* The counters of the report agree with the pool, although every release    *)
(* guards them against going below zero instead of trusting them.            *)
CountsExact ==
  /\ allocatedBuffers = Cardinality(Live)
  /\ allocatedPages = Cardinality(pages \ Reserved)

(* docs/a733/version-archive/A733_NPU_RESEARCH.md:195: the generation in the *)
(* handle prevents the use of an old handle after its release.               *)
NoOldHandle ==
  \A h \in freed, c \in Contexts, s \in Slots : ~Finds(c, h, s)

(* The pool loses nothing, gives nothing twice and forgets old handles (all  *)
(* of the above but the counters).                                           *)
PoolIntact == PagesOwned /\ NoOrphans /\ NoOldHandle

(* A buffer that is protected stays with its context and its pages until the *)
(* protection is lifted.                                                     *)
ProtectedStays ==
  [][\A s \in Live : Handle(s) = inflight => UNCHANGED <<owner[s], first[s], count[s]>>]_poolVars
=============================================================================
