--------------------------- MODULE NpuPool_proofs ---------------------------
(***************************************************************************)
(* Proofs about the command pool of the NPU, for any number of contexts,   *)
(* slots and pages.                                                        *)
(***************************************************************************)
EXTENDS NpuPool, FiniteSetTheorems, TLAPS


(* The types without the counters, whose sizes no step depends on.           *)
Shape ==
  /\ active \subseteq Contexts
  /\ owner \in [Slots -> Contexts \cup {Nobody}]
  /\ generation \in [Slots -> 0 .. MaxGeneration]
  /\ first \in [Slots -> Pages] /\ count \in [Slots -> 0 .. PoolPages]
  /\ pages \subseteq Pages

(* The inductive invariant. *)
PoolInv == Shape /\ PagesOwned /\ NoOrphans
-----------------------------------------------------------------------------
(* The pages of a live slot are those of the pool that only it uses.         *)
LEMMA LivePages ==
  ASSUME Shape, PagesOwned, NEW s \in Live
  PROVE  Extent(s) \subseteq pages
BY DEF PagesOwned

(* Releasing some live slots returns exactly their pages.                    *)
LEMMA ReleaseStep ==
  ASSUME PoolInv, NEW S \in SUBSET Live, Release(S)
  PROVE  /\ Live' = Live \ S
         /\ \A s \in Slots : Extent(s)' = Extent(s)
         /\ Shape' <=> active' \subseteq Contexts
         /\ PagesOwned'
<1>1. S \subseteq Slots /\ Live \subseteq Slots
  BY DEF Live
<1>2. owner' \in [Slots -> Contexts \cup {Nobody}]
  BY DEF Release, PoolInv, Shape
<1>3. Live' = Live \ S
  BY <1>1, <1>2 DEF Release, PoolInv, Shape, Live
<1>4. \A s \in Slots : Extent(s)' = Extent(s)
  BY DEF Release, Extent
<1>5. pages' \subseteq Pages
  BY DEF Release, PoolInv, Shape
<1>6. Shape' <=> active' \subseteq Contexts
  BY <1>2, <1>5 DEF Release, PoolInv, Shape
<1>7. PagesOwned'
  <2>1. \A s \in Live' : Extent(s)' \cap Reserved = {}
    BY <1>1, <1>3, <1>4 DEF PoolInv, PagesOwned
  <2>2. \A s, r \in Live' : s # r => Extent(s)' \cap Extent(r)' = {}
    BY <1>1, <1>3, <1>4 DEF PoolInv, PagesOwned
  <2>3. ASSUME NEW q
        PROVE  q \in pages' <=> q \in Reserved \cup UNION {Extent(s) : s \in Live \ S}
    <3>1. q \in pages <=> q \in Reserved \/ \E s \in Live : q \in Extent(s)
      BY DEF PoolInv, PagesOwned
    <3>2. q \in pages' <=> q \in pages /\ ~\E s \in S : q \in Extent(s)
      BY DEF Release
    <3>3. q \in Reserved => ~\E s \in S : q \in Extent(s)
      BY DEF PoolInv, PagesOwned
    <3>4. \A s \in Live, r \in S : q \in Extent(s) /\ q \in Extent(r) => s = r
      BY DEF PoolInv, PagesOwned
    <3> QED
      BY <3>1, <3>2, <3>3, <3>4
  <2>4. UNION {Extent(s)' : s \in Live'} = UNION {Extent(s) : s \in Live \ S}
    BY <1>1, <1>3, <1>4
  <2>5. pages' = Reserved \cup UNION {Extent(s)' : s \in Live'}
    BY <2>3, <2>4
  <2> QED
    BY <2>1, <2>2, <2>5 DEF PagesOwned
<1> QED
  BY <1>3, <1>4, <1>6, <1>7

(* A slot that is found is live. *)
LEMMA FoundIsLive ==
  ASSUME NEW c \in Contexts, NEW h, NEW s, Finds(c, h, s)
  PROVE  s \in Live /\ owner[s] = c
BY PoolAssumption, PagesAssumption DEF Finds, Live, Contexts
-----------------------------------------------------------------------------
LEMMA InitPool == PoolInit => PoolInv
BY PoolAssumption, PagesAssumption
   DEF PoolInit, PoolInv, Shape, PagesOwned, NoOrphans, Live, Slots, Pages, Contexts

LEMMA OpenStep ==
  ASSUME PoolInv, NEW c \in Contexts, Open(c)
  PROVE  PoolInv'
BY DEF Open, PoolInv, Shape, PagesOwned, NoOrphans, Live, Extent, bufferVars, Least

LEMMA AllocStep ==
  ASSUME PoolInv, NEW c \in Contexts, NEW n \in 1 .. PoolPages, Alloc(c, n)
  PROVE  PoolInv'
<1>1. PICK s \in Slots, p \in Pages :
        /\ Least(s, Slots \ Live) /\ Least(p, Fits(pages, n))
        /\ generation[s] < MaxGeneration
        /\ owner' = [owner EXCEPT ![s] = c]
        /\ generation' = [generation EXCEPT ![s] = generation[s] + 1]
        /\ first' = [first EXCEPT ![s] = p] /\ count' = [count EXCEPT ![s] = n]
        /\ pages' = pages \cup (p .. p + n - 1)
  BY DEF Alloc
<1>2. s \notin Live /\ p \in 1 .. PoolPages - n
      /\ \A q \in p .. p + n - 1 : q \notin pages
  BY <1>1 DEF Least, Fits
<1>3. c # Nobody /\ c \in active /\ active' = active
  BY PoolAssumption, PagesAssumption DEF Contexts, Alloc
<1>4. Live' = Live \cup {s}
  BY <1>1, <1>3 DEF Live, PoolInv, Shape
<1>5. Extent(s)' = p .. p + n - 1
  BY <1>1 DEF Extent, PoolInv, Shape
<1>6. \A r \in Slots : r # s => Extent(r)' = Extent(r)
  BY <1>1 DEF Extent, PoolInv, Shape
<1>7. p .. p + n - 1 \subseteq Pages
  BY <1>2, PoolAssumption, PagesAssumption DEF Pages
<1>8. Shape'
  <2>1. generation[s] + 1 \in 0 .. MaxGeneration
    BY <1>1, PoolAssumption, PagesAssumption DEF PoolInv, Shape
  <2>2. n \in 0 .. PoolPages
    BY PoolAssumption, PagesAssumption
  <2> QED
    BY <1>1, <1>3, <1>7, <2>1, <2>2 DEF PoolInv, Shape
<1>9. PagesOwned'
  <2>1. Live \subseteq Slots
    BY DEF Live
  <2>2. \A r \in Live : Extent(r)' = Extent(r) /\ Extent(r) \subseteq pages
    BY <1>2, <1>6, <2>1, LivePages DEF PoolInv
  <2>3. Extent(s)' \cap pages = {} /\ Reserved \subseteq pages
    BY <1>2, <1>5 DEF PoolInv, PagesOwned
  <2>4. \A r \in Live' : Extent(r)' \cap Reserved = {}
    BY <1>4, <2>2, <2>3 DEF PoolInv, PagesOwned
  <2>5. \A r, t \in Live' : r # t => Extent(r)' \cap Extent(t)' = {}
    BY <1>4, <2>2, <2>3 DEF PoolInv, PagesOwned
  <2>6. ASSUME NEW q
        PROVE  q \in pages' <=> q \in Reserved \/ \E r \in Live' : q \in Extent(r)'
    <3>1. q \in pages <=> q \in Reserved \/ \E r \in Live : q \in Extent(r)
      BY DEF PoolInv, PagesOwned
    <3>2. q \in pages' <=> q \in pages \/ q \in Extent(s)'
      BY <1>1, <1>5
    <3> QED
      BY <1>4, <2>2, <3>1, <3>2
  <2>7. pages' = Reserved \cup UNION {Extent(r)' : r \in Live'}
    BY <2>6
  <2> QED
    BY <2>4, <2>5, <2>7 DEF PagesOwned
<1>10. NoOrphans'
  <2>1. \A r \in Live : r # s /\ owner'[r] = owner[r]
    BY <1>1, <1>2 DEF Live, PoolInv, Shape
  <2>2. owner'[s] = c
    BY <1>1 DEF PoolInv, Shape
  <2> QED
    BY <1>3, <1>4, <2>1, <2>2 DEF PoolInv, NoOrphans
<1> QED
  BY <1>8, <1>9, <1>10 DEF PoolInv

LEMMA FreeStep ==
  ASSUME PoolInv, NEW c \in Contexts, NEW h, Free(c, h)
  PROVE  PoolInv'
<1>1. PICK s \in Slots : Finds(c, h, s) /\ Release({s})
  BY DEF Free
<1>2. {s} \in SUBSET Live
  BY <1>1, FoundIsLive
<1>3. active' = active
  BY DEF Free
<1>4. Live' = Live \ {s} /\ Shape' /\ PagesOwned'
  BY <1>1, <1>2, <1>3, ReleaseStep DEF PoolInv, Shape
<1>5. NoOrphans'
  <2>1. \A r \in Live' : r \in Live /\ r \in Slots /\ owner'[r] = owner[r]
    BY <1>1, <1>4 DEF Release, Live
  <2> QED
    BY <1>3, <2>1 DEF PoolInv, NoOrphans
<1> QED
  BY <1>4, <1>5 DEF PoolInv

LEMMA ClosePoolStep ==
  ASSUME PoolInv, NEW c \in Contexts, Close(c)
  PROVE  PoolInv'
<1>1. Reached(c) \in SUBSET Live
  BY PoolAssumption, PagesAssumption DEF Reached, Live, Contexts
<1>2. active' \subseteq active /\ \A d \in active : d # c => d \in active'
  BY DEF Close
<1>3. Live' = Live \ Reached(c) /\ Shape' /\ PagesOwned'
  BY <1>1, <1>2, ReleaseStep DEF PoolInv, Shape, Close
<1>4. NoOrphans'
  <2>1. \A r \in Live' : r \in Live /\ r \in Slots /\ owner'[r] = owner[r]
    BY <1>3 DEF Release, Live, Close
  <2>2. ASSUME NEW r \in Live', owner[r] = c
        PROVE  active' = active
    <3>1. r \notin Reached(c)
      BY <1>3
    <3>2. Executing(c) # {}
      BY <2>1, <2>2, <3>1 DEF Reached
    <3> QED
      BY <3>2 DEF Close
  <2> QED
    BY <1>2, <2>1, <2>2 DEF PoolInv, NoOrphans
<1> QED
  BY <1>3, <1>4 DEF PoolInv

LEMMA ProtectStep ==
  ASSUME PoolInv, NEW h, Protect(h)
  PROVE  PoolInv'
BY DEF Protect, bufferVars, PoolInv, Shape, PagesOwned, NoOrphans, Live, Extent

LEMMA IdleStep ==
  ASSUME PoolInv, UNCHANGED poolVars
  PROVE  PoolInv'
BY DEF poolVars, bufferVars, PoolInv, Shape, PagesOwned, NoOrphans, Live, Extent

(* The invariant holds in every reachable state. *)
THEOREM PoolInvariance == PoolSpec => []PoolInv
<1>1. PoolInv /\ [PoolNext]_poolVars => PoolInv'
  BY OpenStep, AllocStep, FreeStep, ClosePoolStep, ProtectStep, IdleStep DEF PoolNext
<1> QED
  BY <1>1, InitPool, PTL DEF PoolSpec

(* No page serves two buffers or a buffer and the driver, and none leaks.    *)
THEOREM PagesAreOwned == PoolSpec => []PagesOwned
BY PoolInvariance, PTL DEF PoolInv

(* Every buffer has an open context. *)
THEOREM BuffersHaveContexts == PoolSpec => []NoOrphans
BY PoolInvariance, PTL DEF PoolInv
-----------------------------------------------------------------------------
(* No step of the pool moves or releases the buffer of the executing command. *)
LEMMA ProtectionStep ==
  ASSUME PoolInv, PoolNext, NEW s \in Live, Handle(s) = inflight
  PROVE  UNCHANGED <<owner[s], first[s], count[s]>>
<1> USE DEF Live
<1>1. ASSUME NEW c \in Contexts, Open(c)
      PROVE  UNCHANGED <<owner[s], first[s], count[s]>>
  BY <1>1 DEF Open, bufferVars
<1>2. ASSUME NEW c \in Contexts, Close(c)
      PROVE  UNCHANGED <<owner[s], first[s], count[s]>>
  <2>1. s \notin Reached(c)
    <3>1. SUFFICES ASSUME s \in Reached(c) PROVE FALSE
      OBVIOUS
    <3>2. s \in Executing(c) /\ s \in Int
      BY <3>1 DEF Reached, Executing, Slots
    <3>3. s < s
      BY <3>1, <3>2 DEF Reached
    <3> QED
      BY <3>2, <3>3
  <2> QED
    BY <1>2, <2>1 DEF Close, Release
<1>3. ASSUME NEW c \in Contexts, NEW n \in 1 .. PoolPages, Alloc(c, n)
      PROVE  UNCHANGED <<owner[s], first[s], count[s]>>
  <2>1. PICK t \in Slots, p \in Pages :
          /\ Least(t, Slots \ Live)
          /\ owner' = [owner EXCEPT ![t] = c]
          /\ first' = [first EXCEPT ![t] = p] /\ count' = [count EXCEPT ![t] = n]
    BY <1>3 DEF Alloc
  <2>2. s # t
    BY <2>1 DEF Least
  <2> QED
    BY <2>1, <2>2 DEF PoolInv, Shape
<1>4. ASSUME NEW c \in Contexts, NEW h \in Handles, Free(c, h)
      PROVE  UNCHANGED <<owner[s], first[s], count[s]>>
  <2>1. PICK t \in Slots : Finds(c, h, t) /\ Release({t}) /\ h # inflight
    BY <1>4 DEF Free
  <2>2. s # t
    BY <2>1 DEF Finds
  <2> QED
    BY <2>1, <2>2 DEF Release
<1>5. ASSUME NEW h, Protect(h)
      PROVE  UNCHANGED <<owner[s], first[s], count[s]>>
  BY <1>5 DEF Protect, bufferVars
<1> QED
  BY <1>1, <1>2, <1>3, <1>4, <1>5 DEF PoolNext

(* The buffer of the executing command stays in place until the driver lifts *)
(* its protection.                                                           *)
THEOREM ProtectedBuffersStay == PoolSpec => ProtectedStays
<1>1. PoolInv /\ [PoolNext]_poolVars =>
        [\A s \in Live : Handle(s) = inflight =>
           UNCHANGED <<owner[s], first[s], count[s]>>]_poolVars
  BY ProtectionStep
<1> QED
  BY <1>1, PoolInvariance, PTL DEF PoolSpec, ProtectedStays
-----------------------------------------------------------------------------
(* As long as the generations of a slot fit the handle, a released handle is *)
(* older than the slot, or as old as the slot while it is free.              *)
Younger ==
  \A h \in freed : /\ h[2] \in Slots /\ h[1] \in 0 .. generation[h[2]]
                   /\ h[2] \in Live => h[1] < generation[h[2]]

LEMMA SmallModulus ==
  ASSUME NEW a \in Nat, NEW n \in Nat \ {0}, a < n
  PROVE  a % n = a
OBVIOUS

LEMMA HandleIsGeneration ==
  ASSUME MaxGeneration < HandleSpan, Shape, NEW s \in Slots
  PROVE  Handle(s) = <<generation[s], s>>
<1>1. generation[s] \in Nat /\ generation[s] < HandleSpan
  BY PoolAssumption, PagesAssumption DEF Shape
<1> QED
  BY <1>1, SmallModulus, PoolAssumption, PagesAssumption DEF Handle

LEMMA ReleaseAges ==
  ASSUME MaxGeneration < HandleSpan, PoolInv, Younger,
         NEW S \in SUBSET Live, Release(S)
  PROVE  Younger'
<1>1. Live' = Live \ S /\ Live \subseteq Slots /\ generation' = generation
  BY ReleaseStep DEF Live, Release
<1>2. \A h \in freed' : h \in freed \/ \E s \in S : h = <<generation[s], s>>
  BY <1>1, HandleIsGeneration DEF Release, PoolInv
<1>3. \A s \in Slots : generation[s] \in 0 .. generation[s]
  BY PoolAssumption, PagesAssumption DEF PoolInv, Shape
<1> QED
  BY <1>1, <1>2, <1>3 DEF Younger

LEMMA AllocAges ==
  ASSUME PoolInv, Younger, NEW c \in Contexts, NEW n \in 1 .. PoolPages, Alloc(c, n)
  PROVE  Younger'
<1>1. PICK s \in Slots, p \in Pages :
        /\ owner' = [owner EXCEPT ![s] = c]
        /\ generation' = [generation EXCEPT ![s] = generation[s] + 1]
        /\ freed' = freed
  BY DEF Alloc
<1>2. \A r \in Slots : generation[r] \in Nat
  BY PoolAssumption, PagesAssumption DEF PoolInv, Shape
<1>3. \A r \in Slots : r # s => generation'[r] = generation[r] /\ (r \in Live' <=> r \in Live)
  BY <1>1 DEF PoolInv, Shape, Live
<1>4. generation'[s] = generation[s] + 1
  BY <1>1 DEF PoolInv, Shape
<1>5. ASSUME NEW h \in freed
      PROVE  /\ h[2] \in Slots /\ h[1] \in 0 .. generation'[h[2]]
             /\ h[2] \in Live' => h[1] < generation'[h[2]]
  <2>1. h[2] \in Slots /\ h[1] \in 0 .. generation[h[2]]
        /\ (h[2] \in Live => h[1] < generation[h[2]])
    BY DEF Younger
  <2>2. CASE h[2] = s
    BY <1>2, <1>4, <2>1, <2>2
  <2>3. CASE h[2] # s
    BY <1>2, <1>3, <2>1, <2>3
  <2> QED
    BY <2>2, <2>3
<1> QED
  BY <1>1, <1>5 DEF Younger

LEMMA StepAges ==
  ASSUME MaxGeneration < HandleSpan, PoolInv, Younger, [PoolNext]_poolVars
  PROVE  Younger'
<1>1. ASSUME NEW c \in Contexts, Close(c)
      PROVE  Younger'
  <2>1. Reached(c) \in SUBSET Live /\ Release(Reached(c))
    BY <1>1, PoolAssumption, PagesAssumption DEF Close, Reached, Live, Contexts
  <2> QED
    BY <2>1, ReleaseAges
<1>2. ASSUME NEW c \in Contexts, NEW h \in Handles, Free(c, h)
      PROVE  Younger'
  <2>1. PICK s \in Slots : {s} \in SUBSET Live /\ Release({s})
    BY <1>2, FoundIsLive DEF Free
  <2> QED
    BY <2>1, ReleaseAges
<1>3. ASSUME NEW c \in Contexts, Open(c)
      PROVE  Younger'
  BY <1>3 DEF Open, bufferVars, Younger, Live
<1>4. ASSUME NEW h, Protect(h)
      PROVE  Younger'
  BY <1>4 DEF Protect, bufferVars, Younger, Live
<1>5. CASE UNCHANGED poolVars
  BY <1>5 DEF poolVars, bufferVars, Younger, Live
<1> QED
  BY <1>1, <1>2, <1>3, <1>4, <1>5, AllocAges DEF PoolNext

LEMMA OldIsRefused ==
  ASSUME MaxGeneration < HandleSpan, PoolInv, Younger
  PROVE  NoOldHandle
<1>1. SUFFICES ASSUME NEW h \in freed, NEW c \in Contexts, NEW s \in Slots, Finds(c, h, s)
               PROVE  FALSE
  BY DEF NoOldHandle
<1>2. s \in Live /\ h = <<generation[s], s>>
  BY <1>1, FoundIsLive, HandleIsGeneration DEF Finds, PoolInv
<1>3. generation[s] < generation[s] /\ generation[s] \in Int
  BY <1>1, <1>2 DEF Younger, PoolInv, Shape
<1> QED
  BY <1>3

(* A released handle never names a buffer again, if no slot is allocated as  *)
(* often as the handle can count.                                            *)
THEOREM OldHandlesAreRefused ==
  ASSUME MaxGeneration < HandleSpan
  PROVE  PoolSpec => []NoOldHandle
<1>1. PoolInit => Younger
  BY DEF PoolInit, Younger
<1>2. PoolInv /\ Younger /\ [PoolNext]_poolVars => Younger'
  BY StepAges
<1>3. PoolInv /\ Younger => NoOldHandle
  BY OldIsRefused
<1> QED
  BY <1>1, <1>2, <1>3, PoolInvariance, PTL DEF PoolSpec

(* The pool loses nothing, gives nothing twice and forgets old handles, as   *)
(* long as the generations of a slot fit the handle.                         *)
THEOREM PoolStaysIntact ==
  ASSUME MaxGeneration < HandleSpan
  PROVE  PoolSpec => []PoolIntact
<1>1. PoolSpec => []NoOldHandle
  BY OldHandlesAreRefused
<1> QED
  BY <1>1, PagesAreOwned, BuffersHaveContexts, PTL DEF PoolIntact
-----------------------------------------------------------------------------
(* The counters of the report.  A release subtracts the pages of some live   *)
(* slots, which are a part of those in use.                                  *)
LEMMA PartIsTaken ==
  ASSUME NEW A, IsFiniteSet(A), NEW U \in SUBSET A
  PROVE  /\ Cardinality(A) \in Nat /\ Cardinality(U) \in Nat
         /\ Cardinality(A \ U) = Cardinality(A) - Cardinality(U)
<1>1. IsFiniteSet(U) /\ IsFiniteSet(A \ U)
  BY FS_Subset
<1>2. Cardinality(A) \in Nat /\ Cardinality(U) \in Nat /\ Cardinality(A \ U) \in Nat
  BY <1>1, FS_CardinalityType
<1>3. (A \ U) \cup U = A /\ (A \ U) \cap U = {}
  OBVIOUS
<1>4. Cardinality(A) = Cardinality(A \ U) + Cardinality(U) - Cardinality({})
  BY <1>1, <1>3, FS_Union
<1> QED
  BY <1>2, <1>4, FS_EmptySet

LEMMA PoolIsFinite == Shape => IsFiniteSet(Live) /\ IsFiniteSet(pages \ Reserved)
<1> SUFFICES ASSUME Shape PROVE IsFiniteSet(Live) /\ IsFiniteSet(pages \ Reserved)
  OBVIOUS
<1>1. IsFiniteSet(Slots) /\ Live \subseteq Slots
  BY FS_Interval, PoolAssumption DEF Slots, Live
<1>2. IsFiniteSet(Pages) /\ pages \ Reserved \subseteq Pages
  BY FS_Interval, PoolAssumption, PagesAssumption DEF Pages, Shape
<1> QED
  BY <1>1, <1>2, FS_Subset

LEMMA ReleaseIsCounted ==
  ASSUME PoolInv, CountsExact, NEW S \in SUBSET Live, Release(S)
  PROVE  CountsExact'
<1> DEFINE U == UNION {Extent(s) : s \in S}
<1>1. IsFiniteSet(Live) /\ IsFiniteSet(pages \ Reserved)
  BY PoolIsFinite DEF PoolInv
<1>2. Live' = Live \ S
  BY ReleaseStep
<1>3. U \subseteq pages \ Reserved
  BY DEF PoolInv, PagesOwned
<1>4. pages' \ Reserved = (pages \ Reserved) \ U
  BY DEF Release
<1> HIDE DEF U
<1>5. Cardinality(pages' \ Reserved) = Cardinality(pages \ Reserved) - Cardinality(U)
  BY <1>1, <1>3, <1>4, PartIsTaken
<1>6. Cardinality(Live') = Cardinality(Live) - Cardinality(S)
  BY <1>1, <1>2, PartIsTaken
<1> QED
  BY <1>5, <1>6 DEF CountsExact, Release, U

LEMMA AllocIsCounted ==
  ASSUME PoolInv, CountsExact, NEW c \in Contexts, NEW n \in 1 .. PoolPages, Alloc(c, n)
  PROVE  CountsExact'
<1>1. PICK s \in Slots, p \in Pages :
        /\ Least(s, Slots \ Live) /\ Least(p, Fits(pages, n))
        /\ owner' = [owner EXCEPT ![s] = c]
        /\ pages' = pages \cup (p .. p + n - 1)
        /\ allocatedPages' = allocatedPages + n
        /\ allocatedBuffers' = allocatedBuffers + 1
  BY DEF Alloc
<1>2. s \notin Live /\ p \in 1 .. PoolPages - n
      /\ \A q \in p .. p + n - 1 : q \notin pages
  BY <1>1 DEF Least, Fits
<1>3. Live' = Live \cup {s}
  BY <1>1, PoolAssumption DEF Live, PoolInv, Shape, Contexts
<1> DEFINE A == pages \ Reserved
           U == p .. p + n - 1
<1>4. /\ pages' \ Reserved = A \cup U /\ A \cap U = {}
  BY <1>1, <1>2 DEF PoolInv, PagesOwned
<1>5. IsFiniteSet(Live) /\ IsFiniteSet(A)
  BY PoolIsFinite DEF PoolInv
<1>6. IsFiniteSet(U) /\ Cardinality(U) = n
  <2>1. p \in Int /\ p + n - 1 \in Int /\ n \in Nat /\ p <= p + n - 1 /\ p + n - 1 - p + 1 = n
    BY <1>2, PoolAssumption, PagesAssumption
  <2>2. IsFiniteSet(U) /\ Cardinality(U) = IF p > p + n - 1 THEN 0 ELSE p + n - 1 - p + 1
    BY <2>1, FS_Interval
  <2> QED
    BY <2>1, <2>2
<1>7. Cardinality(Live) \in Nat /\ Cardinality(A) \in Nat
  BY <1>5, FS_CardinalityType
<1>8. allocatedBuffers = Cardinality(Live) /\ allocatedPages = Cardinality(A)
  BY DEF CountsExact
<1> HIDE DEF A, U
<1>9. Cardinality(A \cup U) = Cardinality(A) + n - Cardinality(A \cap U)
  BY <1>5, <1>6, FS_Union
<1>10. Cardinality(pages' \ Reserved) = Cardinality(A) + n
  <2>1. Cardinality(A \cap U) = 0 /\ n \in Int
    BY <1>4, FS_EmptySet
  <2>2. Cardinality(A \cup U) = Cardinality(A) + n
    BY <1>7, <1>9, <2>1
  <2> QED
    BY <1>4, <2>2
<1>11. Cardinality(Live') = Cardinality(Live) + 1
  BY <1>2, <1>3, <1>5, FS_AddElement
<1> QED
  BY <1>1, <1>8, <1>10, <1>11 DEF CountsExact

LEMMA CountsKept ==
  ASSUME PoolInv, CountsExact, [PoolNext]_poolVars \/ \E h \in Handles : Protect(h)
  PROVE  CountsExact'
<1>1. ASSUME NEW c \in Contexts, Open(c) PROVE CountsExact'
  BY <1>1 DEF Open, bufferVars, CountsExact, Live
<1>2. ASSUME NEW c \in Contexts, Close(c) PROVE CountsExact'
  <2>1. Reached(c) \in SUBSET Live
    BY PoolAssumption DEF Reached, Live, Contexts
  <2> QED
    BY <1>2, <2>1, ReleaseIsCounted DEF Close
<1>3. ASSUME NEW c \in Contexts, NEW h, Free(c, h) PROVE CountsExact'
  <2>1. PICK s \in Slots : Finds(c, h, s) /\ Release({s})
    BY <1>3 DEF Free
  <2>2. {s} \in SUBSET Live
    BY <2>1, FoundIsLive
  <2> QED
    BY <2>1, <2>2, ReleaseIsCounted
<1>4. ASSUME NEW h, Protect(h) PROVE CountsExact'
  BY <1>4 DEF Protect, bufferVars, CountsExact, Live
<1>5. CASE UNCHANGED poolVars
  BY <1>5 DEF poolVars, bufferVars, CountsExact, Live
<1> QED
  BY <1>1, <1>2, <1>3, <1>4, <1>5, AllocIsCounted DEF PoolNext

LEMMA InitIsCounted == PoolInit => CountsExact
<1> SUFFICES ASSUME PoolInit PROVE CountsExact
  OBVIOUS
<1>1. Live = {} /\ pages \ Reserved = {}
  BY DEF PoolInit, Live
<1> QED
  BY <1>1, FS_EmptySet DEF PoolInit, CountsExact

(* The counters of the report agree with the pool.                           *)
THEOREM CountsAreExact == PoolSpec => []CountsExact
<1>1. PoolInv /\ CountsExact /\ [PoolNext]_poolVars => CountsExact'
  BY CountsKept
<1> QED
  BY <1>1, InitIsCounted, PoolInvariance, PTL DEF PoolSpec

(* The rest of the types: what is protected and what was freed are handles.  *)
PoolTypes == PoolInv /\ CountsExact /\ inflight \in Handles /\ freed \subseteq Handles

LEMMA PoolTypesGive == PoolTypes => PoolTypeOK
<1> SUFFICES ASSUME PoolTypes PROVE PoolTypeOK
  OBVIOUS
<1>1. allocatedPages \in Nat /\ allocatedBuffers \in Nat
  BY PoolIsFinite, FS_CardinalityType DEF PoolTypes, PoolInv, CountsExact
<1> QED
  BY <1>1 DEF PoolTypes, PoolInv, Shape, PoolTypeOK

LEMMA SlotHasHandle == ASSUME Shape, NEW s \in Slots PROVE Handle(s) \in Handles
<1>1. generation[s] \in Nat /\ HandleSpan \in Nat \ {0}
  BY PoolAssumption DEF Shape
<1>2. generation[s] % HandleSpan \in 0 .. HandleSpan - 1
  BY <1>1
<1> QED
  BY <1>2 DEF Handle, Handles

LEMMA PoolTypesKept ==
  ASSUME PoolTypes, [PoolNext]_poolVars \/ \E h \in Handles : Protect(h)
  PROVE  PoolTypes'
<1>1. PoolInv'
  BY OpenStep, AllocStep, FreeStep, ClosePoolStep, ProtectStep, IdleStep DEF PoolNext, PoolTypes
<1>2. CountsExact'
  BY CountsKept DEF PoolTypes
<1>3. ASSUME NEW S, S \subseteq Live, Release(S) PROVE freed' \subseteq Handles
  <2>1. \A s \in S : Handle(s) \in Handles
    BY <1>3, SlotHasHandle DEF Live, PoolTypes, PoolInv
  <2> QED
    BY <1>3, <2>1 DEF Release, PoolTypes
<1>4. ASSUME NEW c \in Contexts, Open(c) \/ Close(c) \/ \E h \in Handles : Free(c, h)
      PROVE  freed' \subseteq Handles /\ inflight' = inflight
  <2>1. CASE Open(c)
    BY <2>1 DEF Open, bufferVars, PoolTypes
  <2>2. CASE Close(c)
    <3>1. Reached(c) \subseteq Live
      BY PoolAssumption DEF Reached, Live, Contexts
    <3> QED
      BY <1>3, <2>2, <3>1 DEF Close
  <2>3. CASE \E h \in Handles : Free(c, h)
    <3>1. PICK h \in Handles, s \in Slots : Finds(c, h, s) /\ Release({s})
      BY <2>3 DEF Free
    <3>2. {s} \subseteq Live
      BY <3>1, FoundIsLive
    <3> QED
      BY <1>3, <2>3, <3>1, <3>2 DEF Free
  <2> QED
    BY <1>4, <2>1, <2>2, <2>3
<1>5. ASSUME NEW c \in Contexts, NEW n \in 1 .. PoolPages, Alloc(c, n)
      PROVE  freed' \subseteq Handles /\ inflight' = inflight
  BY <1>5 DEF Alloc, PoolTypes
<1>6. ASSUME NEW h \in Handles, Protect(h) PROVE freed' \subseteq Handles /\ inflight' = h
  BY <1>6 DEF Protect, bufferVars, PoolTypes
<1>7. CASE UNCHANGED poolVars
  BY <1>1, <1>2, <1>7 DEF poolVars, bufferVars, PoolTypes
<1>8. \A s \in Live : Handle(s) \in Handles
  BY SlotHasHandle DEF Live, PoolTypes, PoolInv
<1>9. NoHandle \in Handles /\ inflight \in Handles
  BY DEF Handles, PoolTypes
<1> QED
  BY <1>1, <1>2, <1>4, <1>5, <1>6, <1>7, <1>8, <1>9 DEF PoolNext, PoolTypes

LEMMA InitPoolTypes == PoolInit => PoolTypes
BY InitPool, InitIsCounted DEF PoolInit, PoolTypes, Handles

(* The types of the pool.                                                    *)
THEOREM PoolIsTyped == PoolSpec => []PoolTypeOK
BY InitPoolTypes, PoolTypesKept, PoolTypesGive, PTL DEF PoolSpec
=============================================================================
