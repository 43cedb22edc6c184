----------------------------- MODULE PmmProofs ------------------------------
(***************************************************************************)
(* Proofs about Pmm for every frame size, bitmap size and firmware map.    *)
(***************************************************************************)
EXTENDS Pmm, NumberLemmas, FiniteSetTheorems

\* Rounding an address up to a frame number: positive for a positive address,
\* and at most the number of frames for an address the bitmap covers.
LEMMA AlignFrameUp ==
  ASSUME NEW a \in Nat, a <= WORD
  PROVE  /\ align_frame_up(a) \in 0 .. PMM_MAX_FRAMES
         /\ a > 0 => align_frame_up(a) > 0
<1>1. /\ FRAME_SIZE \in Nat \ {0} /\ PMM_MAX_FRAMES \in Nat
      /\ PMM_MAX_FRAMES * FRAME_SIZE = WORD
  BY PmmAssumption
<1> DEFINE q == (a + FRAME_SIZE - 1) \div FRAME_SIZE
<1>2. q \in Int /\ q * FRAME_SIZE <= a + FRAME_SIZE - 1
                /\ a + FRAME_SIZE - 1 < (q + 1) * FRAME_SIZE
  BY <1>1
<1>3. q >= 0
  BY <1>1, <1>2
<1>4. q <= PMM_MAX_FRAMES
  BY <1>1, <1>2
<1>5. a > 0 => q > 0
  BY <1>1, <1>2
<1> QED BY <1>2, <1>3, <1>4, <1>5 DEF align_frame_up

\* The floor lies inside the bitmap and frame 0 is below it.
LEMMA FloorType == ReserveFloor \in 1 .. PMM_MAX_FRAMES
<1>1. /\ align_frame_up(KernelEnd) \in 0 .. PMM_MAX_FRAMES
      /\ align_frame_up(FirstMiB) \in 1 .. PMM_MAX_FRAMES
      /\ PMM_MAX_FRAMES \in Nat
  BY AlignFrameUp, PmmAssumption
<1> QED BY <1>1, MaxPair DEF ReserveFloor

\* The highest address of a firmware map is a natural number.
LEMMA HighestType ==
  ASSUME NEW mb \in BootInfos
  PROVE  highest_address_from_mmap(mb) \in Nat
<1> DEFINE S == {0} \cup {mb.mmap[i].addr + mb.mmap[i].len : i \in DOMAIN mb.mmap}
<1>1. \A i \in DOMAIN mb.mmap : /\ mb.mmap[i].addr + mb.mmap[i].len \in Nat
                                /\ mb.mmap[i].addr + mb.mmap[i].len <= ADDR_MAX
  BY PmmAssumption
<1>2. S \in SUBSET Nat /\ S # {} /\ ADDR_MAX \in Nat /\ \A y \in S : y <= ADDR_MAX
  BY <1>1, PmmAssumption
<1>3. Max(S) \in S
  BY <1>2, MaxNat
<1> QED BY <1>2, <1>3 DEF highest_address_from_mmap

\* total_frames: inside the bitmap, and not below the floor.
LEMMA TotalType ==
  ASSUME NEW mb \in BootInfos
  PROVE  TotalFrames(mb) \in ReserveFloor .. PMM_MAX_FRAMES
<1>1. /\ FRAME_SIZE \in Nat /\ FRAME_SIZE > 0 /\ KB \in Nat
      /\ PMM_MAX_FRAMES \in Nat
      /\ mb.mem_lower \in Nat /\ mb.mem_upper \in Nat
  BY PmmAssumption
<1>2. MaxAddr(mb) \in Nat
  <2>1. (mb.mem_lower + mb.mem_upper) * KB \in Nat
    BY <1>1
  <2> QED BY <2>1, HighestType DEF MaxAddr
<1>3. MaxAddr(mb) \div FRAME_SIZE \in Nat
  BY <1>1, <1>2
<1> DEFINE clamped == Min({MaxAddr(mb) \div FRAME_SIZE, PMM_MAX_FRAMES})
<1>4. clamped \in 0 .. PMM_MAX_FRAMES
  BY <1>1, <1>3, MinPair
<1> HIDE DEF clamped
<1>5. Max({clamped, ReserveFloor}) \in ReserveFloor .. PMM_MAX_FRAMES
  BY <1>1, <1>4, FloorType, MaxPair
<1> QED BY <1>5 DEF TotalFrames, clamped
-----------------------------------------------------------------------------
\* Sets of frames are finite and have at most PMM_MAX_FRAMES members.
LEMMA FramesFinite ==
  ASSUME NEW S \in SUBSET AllFrames
  PROVE  IsFiniteSet(S) /\ Cardinality(S) \in 0 .. PMM_MAX_FRAMES
<1>1. PMM_MAX_FRAMES \in Nat /\ PMM_MAX_FRAMES > 0
  BY PmmAssumption
<1>2. IsFiniteSet(AllFrames) /\ Cardinality(AllFrames) = PMM_MAX_FRAMES
  BY <1>1, FS_Interval DEF AllFrames
<1>3. IsFiniteSet(S) /\ Cardinality(S) <= Cardinality(AllFrames)
  BY <1>2, FS_Subset
<1>4. Cardinality(S) \in Nat
  BY <1>3, FS_CardinalityType
<1> QED BY <1>1, <1>2, <1>3, <1>4

\* release_region keeps the counter equal to the number of clear bits, whether
\* or not the region overlaps one released before.
LEMMA ReleaseCounts ==
  ASSUME NEW R \in SUBSET AllFrames, NEW D \in SUBSET R
  PROVE  /\ IsFiniteSet(AllFrames \ (R \ D))
         /\ Cardinality(AllFrames \ (R \ D)) =
              Cardinality(AllFrames \ R) + Cardinality(D)
<1>1. IsFiniteSet(AllFrames \ R) /\ IsFiniteSet(D)
  BY FramesFinite
<1>2. AllFrames \ (R \ D) = (AllFrames \ R) \cup D
  OBVIOUS
<1>3. (AllFrames \ R) \cap D = {}
  OBVIOUS
<1>4. Cardinality((AllFrames \ R) \cap D) = 0
  BY <1>3, FS_EmptySet
<1>5. Cardinality(AllFrames \ R) \in Nat /\ Cardinality(D) \in Nat
  BY <1>1, FS_CardinalityType
<1>6. /\ IsFiniteSet((AllFrames \ R) \cup D)
      /\ Cardinality((AllFrames \ R) \cup D) =
           Cardinality(AllFrames \ R) + Cardinality(D) - Cardinality((AllFrames \ R) \cap D)
  BY <1>1, FS_Union
<1>7. /\ IsFiniteSet(AllFrames \ (R \ D))
      /\ Cardinality(AllFrames \ (R \ D)) =
           Cardinality(AllFrames \ R) + Cardinality(D) - Cardinality((AllFrames \ R) \cap D)
  BY <1>2, <1>6, Zenon
<1> QED BY <1>4, <1>5, <1>7

\* The search finds a frame exactly when a bit is clear, and finds the lowest.
LEMMA SearchFindsLowest ==
  ASSUME PmmInv, boot = "up"
  PROVE  /\ SearchHits = {} <=> FreeSet = {}
         /\ SearchHits # {} => /\ Min(SearchHits) \in FreeSet
                               /\ \A f \in FreeSet : Min(SearchHits) <= f
<1>1. /\ PMM_MAX_FRAMES \in Nat
      /\ total_frames \in 0 .. PMM_MAX_FRAMES
      /\ base_usable_frame \in 1 .. search_hint
      /\ search_hint \in 0 .. total_frames
  BY PmmAssumption DEF PmmInv, TypeOK, Landmarks
<1>2. Clear(search_hint, total_frames) = FreeSet
  <2>1. ASSUME NEW f \in FreeSet
        PROVE  f \in Clear(search_hint, total_frames)
    <3>1. f \in Nat /\ f \notin reserved /\ base_usable_frame <= f /\ f < total_frames
      BY <1>1 DEF PmmInv, OutsideStaysReserved, FreeSet, AllFrames
    <3>2. ~(f \in base_usable_frame .. search_hint - 1)
      BY <3>1 DEF PmmInv, HintIsFloor
    <3> QED BY <1>1, <3>1, <3>2 DEF Clear
  <2>2. ASSUME NEW f \in Clear(search_hint, total_frames)
        PROVE  f \in FreeSet
    BY <1>1 DEF Clear, FreeSet, AllFrames
  <2> QED BY <2>1, <2>2
<1>3. Clear(base_usable_frame, search_hint) = {}
  BY DEF Clear, PmmInv, HintIsFloor
<1>4. SearchHits = FreeSet
  BY <1>2, <1>3 DEF SearchHits
<1>5. FreeSet \in SUBSET Nat
  BY <1>1 DEF FreeSet, AllFrames
<1> QED BY <1>4, <1>5, MinNat
-----------------------------------------------------------------------------
\* One release_region, of a map entry or of all the memory, keeps the invariant.
LEMMA ReleaseStep ==
  ASSUME PmmInv, boot = "mmap", NEW b \in Nat, NEW n \in Nat, release_region(b, n),
         boot' \in {"mmap", "up"}, offset' \in Nat \ {0},
         UNCHANGED <<total_frames, base_usable_frame, search_hint, mb_info,
                     granted, answer>>
  PROVE  PmmInv'
<1> DEFINE D == Released(b, n)
           e == (b + n + FRAME_SIZE - 1) \div FRAME_SIZE
<1>1. /\ PMM_MAX_FRAMES \in Nat /\ total_frames \in 0 .. PMM_MAX_FRAMES
      /\ base_usable_frame \in 0 .. PMM_MAX_FRAMES
      /\ reserved \in SUBSET AllFrames
      /\ e \in Int
  BY PmmAssumption DEF PmmInv, TypeOK
<1>2. Min({e, total_frames}) <= total_frames /\ Min({e, total_frames}) \in Int
  <2> HIDE DEF e
  <2> QED BY <1>1, MinPair
<1>3. /\ D \in SUBSET reserved
      /\ \A f \in D : f >= base_usable_frame /\ f < total_frames
  <2>1. \A f \in D : /\ f \in reserved /\ f >= base_usable_frame
                     /\ f < Min({e, total_frames})
    BY DEF Released, Releasable
  <2>2. \A f \in reserved : f \in Int
    BY <1>1 DEF AllFrames
  <2> HIDE DEF D, e
  <2> QED BY <1>1, <1>2, <2>1, <2>2
<1>4. reserved' = reserved \ D /\ free_frames' = free_frames + Cardinality(D)
  BY DEF release_region
<1> HIDE DEF D, e
<1>5. /\ Cardinality(FreeSet') = Cardinality(FreeSet) + Cardinality(D)
      /\ Cardinality(FreeSet') \in 0 .. PMM_MAX_FRAMES
  <2>1. FreeSet' = AllFrames \ (reserved \ D) /\ FreeSet = AllFrames \ reserved
    BY <1>4 DEF FreeSet, AllFrames
  <2>2. AllFrames \ (reserved \ D) \in SUBSET AllFrames
    OBVIOUS
  <2> QED BY <1>1, <1>3, <2>1, <2>2, ReleaseCounts, FramesFinite
<1>6. free_frames' = Cardinality(FreeSet')
  BY <1>4, <1>5 DEF PmmInv, FreeCountExact
<1>7. TypeOK'
  BY <1>3, <1>4, <1>5, <1>6 DEF PmmInv, TypeOK, AllFrames
<1>8. OutsideStaysReserved'
  BY <1>3, <1>4 DEF PmmInv, OutsideStaysReserved, FreeSet, AllFrames
<1>9. HintIsFloor' /\ HeldStaysReserved' /\ Landmarks'
  BY <1>1 DEF PmmInv, HintIsFloor, HeldStaysReserved, Landmarks
<1> QED BY <1>6, <1>7, <1>8, <1>9 DEF PmmInv, FreeCountExact

\* The three facts that make PmmInv an invariant.
LEMMA PmmInitInv == Init => PmmInv
<1> SUFFICES ASSUME Init PROVE PmmInv
  OBVIOUS
<1>1. PMM_MAX_FRAMES \in Nat /\ PMM_MAX_FRAMES > 0
  BY PmmAssumption
<1> QED BY <1>1 DEF Init, PmmInv, TypeOK, FreeCountExact, OutsideStaysReserved,
            HintIsFloor, HeldStaysReserved, Landmarks, AllFrames

\* Every step of the memory manager keeps the inductive invariant.
LEMMA PmmNextInv == PmmInv /\ [Next]_vars => PmmInv'
<1> SUFFICES ASSUME PmmInv, [Next]_vars PROVE PmmInv'
  OBVIOUS
<1>0. /\ PMM_MAX_FRAMES \in Nat /\ PMM_MAX_FRAMES > 0
      /\ FRAME_SIZE \in Nat /\ TypeOK
  BY PmmAssumption DEF PmmInv
<1>1. CASE pmm_init
  <2>1. /\ ReserveFloor \in 1 .. PMM_MAX_FRAMES
        /\ TotalFrames(mb_info) \in ReserveFloor .. PMM_MAX_FRAMES
    BY <1>0, FloorType, TotalType DEF TypeOK
  <2>2. FreeSet' = {} /\ Cardinality(FreeSet') = 0
    BY <1>1, FS_EmptySet DEF pmm_init, FreeSet, AllFrames
  <2>3. TypeOK' /\ Landmarks'
    BY <1>0, <1>1, <2>1 DEF pmm_init, TypeOK, Landmarks, PmmInv
  <2>4. HintIsFloor' /\ HeldStaysReserved'
    BY <1>0, <1>1, <2>1 DEF pmm_init, HintIsFloor, HeldStaysReserved, TypeOK, AllFrames
  <2> QED BY <1>1, <2>2, <2>3, <2>4
          DEF pmm_init, PmmInv, FreeCountExact, OutsideStaysReserved
<1>2. CASE process_without_mmap
  <2>1. /\ base_usable_frame * FRAME_SIZE \in Nat
        /\ (total_frames - base_usable_frame) * FRAME_SIZE \in Nat
    <3>1. /\ base_usable_frame \in Nat
          /\ total_frames - base_usable_frame \in Nat
      <4>1. total_frames \in Nat /\ search_hint \in Nat
        BY <1>0 DEF TypeOK
      <4>2. base_usable_frame \in 1 .. search_hint /\ search_hint <= total_frames
        <5>1. boot # "reset" /\ Landmarks
          BY <1>2 DEF process_without_mmap, PmmInv
        <5> QED BY <5>1 DEF Landmarks
      <4> QED BY <4>1, <4>2
    <3> QED BY <1>0, <3>1
  <2> QED BY <1>0, <1>2, <2>1, ReleaseStep DEF process_without_mmap, TypeOK
<1>3. CASE process_entry
  <2>1. /\ mb_info \in BootInfos /\ offset \in DOMAIN mb_info.mmap
        /\ offset' \in Nat \ {0} /\ boot = "mmap" /\ boot' \in {"mmap", "up"}
    BY <1>0, <1>3 DEF TypeOK, process_entry
  <2>2. mb_info.mmap[offset].addr \in Nat /\ mb_info.mmap[offset].len \in Nat
    BY <2>1, PmmAssumption
  <2>3. CASE mb_info.mmap[offset].type = 1
    BY <1>3, <2>1, <2>2, <2>3, ReleaseStep DEF process_entry
  <2>4. CASE mb_info.mmap[offset].type # 1
    BY <1>3, <2>1, <2>4
    DEF process_entry, PmmInv, TypeOK, FreeCountExact, OutsideStaysReserved, FreeSet,
        HintIsFloor, HeldStaysReserved, Landmarks
  <2> QED BY <2>3, <2>4
<1>4. CASE pmm_alloc_frame
  <2> DEFINE frame == Min(SearchHits)
  <2>1. /\ frame \in FreeSet /\ \A f \in FreeSet : frame <= f
        /\ reserved' = reserved \cup {frame} /\ free_frames' = free_frames - 1
        /\ search_hint' = frame /\ answer' = frame /\ granted' = granted \cup {frame}
        /\ boot = "up" /\ boot' = "up"
        /\ UNCHANGED <<total_frames, base_usable_frame, mb_info, offset>>
    BY <1>4, SearchFindsLowest DEF pmm_alloc_frame
  <2> HIDE DEF frame
  <2>2. FreeSet' = FreeSet \ {frame}
    BY <2>1 DEF FreeSet, AllFrames
  <2>3. /\ IsFiniteSet(FreeSet) /\ Cardinality(FreeSet \ {frame}) = Cardinality(FreeSet) - 1
        /\ Cardinality(FreeSet \ {frame}) \in 0 .. PMM_MAX_FRAMES
    <3>1. FreeSet \in SUBSET AllFrames /\ FreeSet \ {frame} \in SUBSET AllFrames
      BY DEF FreeSet
    <3> QED BY <2>1, <3>1, FramesFinite, FS_RemoveElement
  <2>4. FreeCountExact' /\ free_frames' \in 0 .. PMM_MAX_FRAMES
    BY <2>1, <2>2, <2>3 DEF FreeCountExact, PmmInv
  <2>5. frame \in AllFrames /\ base_usable_frame <= frame /\ frame < total_frames
    BY <2>1 DEF FreeSet, OutsideStaysReserved, PmmInv
  <2>6. TypeOK'
    BY <1>0, <2>1, <2>4, <2>5 DEF TypeOK, AllFrames
  <2>7. OutsideStaysReserved'
    BY <2>1, <2>2 DEF OutsideStaysReserved, PmmInv
  <2>8. HintIsFloor'
    <3> SUFFICES ASSUME NEW f \in base_usable_frame .. frame - 1 PROVE f \in reserved'
      BY <2>1 DEF HintIsFloor
    <3>1. f \in AllFrames /\ ~(frame <= f)
      BY <1>0, <2>5 DEF AllFrames, TypeOK
    <3> QED BY <2>1, <3>1 DEF FreeSet
  <2>9. HeldStaysReserved' /\ Landmarks'
    BY <1>0, <2>1, <2>5 DEF HeldStaysReserved, Landmarks, PmmInv, AllFrames, TypeOK
  <2> QED BY <2>4, <2>6, <2>7, <2>8, <2>9 DEF PmmInv
<1>5. CASE pmm_alloc_frame_none
  BY <1>0, <1>5 DEF pmm_alloc_frame_none, PmmInv, TypeOK, FreeCountExact, AllFrames,
     OutsideStaysReserved, FreeSet, HintIsFloor, HeldStaysReserved, Landmarks
<1>6. ASSUME NEW frame \in AllFrames, pmm_free_frame(frame) PROVE PmmInv'
  <2>1. /\ frame \in reserved /\ base_usable_frame <= frame /\ frame < total_frames
        /\ boot = "up" /\ boot' = "up"
        /\ reserved' = reserved \ {frame} /\ free_frames' = free_frames + 1
        /\ search_hint' = IF frame < search_hint THEN frame ELSE search_hint
        /\ granted' = granted \ {frame}
        /\ UNCHANGED <<total_frames, base_usable_frame, mb_info, offset, answer>>
    BY <1>0, <1>6 DEF pmm_free_frame, HintAfterFree, FreeIgnored, TypeOK, AllFrames
  <2>2. FreeSet' = FreeSet \cup {frame} /\ frame \notin FreeSet
    BY <2>1 DEF FreeSet, AllFrames
  <2>3. /\ Cardinality(FreeSet \cup {frame}) = Cardinality(FreeSet) + 1
        /\ Cardinality(FreeSet \cup {frame}) \in 0 .. PMM_MAX_FRAMES
    <3>1. FreeSet \in SUBSET AllFrames /\ FreeSet \cup {frame} \in SUBSET AllFrames
      BY DEF FreeSet
    <3> QED BY <2>2, <3>1, FramesFinite, FS_AddElement
  <2>4. FreeCountExact' /\ free_frames' \in 0 .. PMM_MAX_FRAMES
    BY <2>1, <2>2, <2>3 DEF FreeCountExact, PmmInv
  <2>5. TypeOK'
    BY <1>0, <2>1, <2>4 DEF TypeOK, AllFrames
  <2>6. OutsideStaysReserved'
    BY <2>1, <2>2 DEF OutsideStaysReserved, PmmInv
  <2>7. HintIsFloor'
    BY <1>0, <2>1 DEF HintIsFloor, PmmInv, TypeOK, AllFrames
  <2>8. HeldStaysReserved' /\ Landmarks'
    BY <1>0, <2>1 DEF HeldStaysReserved, Landmarks, PmmInv, TypeOK, AllFrames
  <2> QED BY <2>4, <2>5, <2>6, <2>7, <2>8 DEF PmmInv
<1>7. CASE UNCHANGED vars
  BY <1>7 DEF vars, PmmInv, TypeOK, FreeCountExact, OutsideStaysReserved, FreeSet,
     HintIsFloor, HeldStaysReserved, Landmarks
<1> QED BY <1>1, <1>2, <1>3, <1>4, <1>5, <1>6, <1>7 DEF Next
-----------------------------------------------------------------------------
\* The inductive invariant holds from pmm_init on, for every firmware map.
THEOREM PmmInvariant == Spec => []PmmInv
BY PmmInitInv, PmmNextInv, PTL DEF Spec

\* Every variable of the memory manager keeps its type.
THEOREM PmmTypeCorrect == Spec => []TypeOK
<1>1. PmmInv => TypeOK
  BY DEF PmmInv
<1> QED BY <1>1, PmmInvariant, PTL

\* free_frames is the number of clear bits of frame_bitmap, at every point of the
\* boot scan and after any calls of pmm_alloc_frame and pmm_free_frame.
THEOREM PmmFreeCountExact == Spec => []FreeCountExact
<1>1. PmmInv => FreeCountExact
  BY DEF PmmInv
<1> QED BY <1>1, PmmInvariant, PTL

\* Kernel, first MiB and absent frames are never on offer.
THEOREM PmmOutsideStaysReserved == Spec => []OutsideStaysReserved
<1>1. PmmInv => OutsideStaysReserved
  BY DEF PmmInv
<1> QED BY <1>1, PmmInvariant, PTL

\* search_hint never passes a clear frame.
THEOREM PmmHintIsFloor == Spec => []HintIsFloor
<1>1. PmmInv => HintIsFloor
  BY DEF PmmInv
<1> QED BY <1>1, PmmInvariant, PTL

\* pmm_alloc_frame returns the lowest free frame.
THEOREM PmmLowestFirst == Spec => LowestFirst
<1>1. PmmInv /\ [Next]_vars =>
        [granted' \ granted # {} => \A f \in FreeSet : answer' <= f]_vars
  <2> SUFFICES ASSUME PmmInv, [Next]_vars, granted' \ granted # {}
               PROVE  \A f \in FreeSet : answer' <= f
    OBVIOUS
  <2>1. pmm_alloc_frame
    BY DEF Next, vars, pmm_init, process_without_mmap, process_entry,
       pmm_alloc_frame_none, pmm_free_frame
  <2> QED BY <2>1, SearchFindsLowest DEF pmm_alloc_frame
<1> QED BY <1>1, PmmInvariant, PTL DEF Spec, LowestFirst

\* The bitmap allocator implements the abstract one: boot steps fill the pool,
\* an allocation takes a free frame or finds none, a free returns one.
THEOREM PmmRefinement == Spec => AbstractSpec
<1>1. Init => Abstract!Init
  BY DEF Init, Abstract!Init
<1>2. PmmInv /\ PmmInv' /\ [Next]_vars => [Abstract!Next]_(Abstract!faVars)
  <2> SUFFICES ASSUME PmmInv, PmmInv', [Next]_vars
               PROVE  [Abstract!Next]_(Abstract!faVars)
    OBVIOUS
  <2> USE DEF Abstract!Next, Abstract!faVars
  <2>1. ASSUME pmm_init \/ process_without_mmap \/ process_entry
        PROVE  Abstract!Discover
    <3>1. boot # "up" /\ boot' # "reset" /\ UNCHANGED <<granted, answer>>
      BY <2>1 DEF pmm_init, process_without_mmap, process_entry
    <3>2. 0 \notin FreeSet'
      BY <3>1 DEF PmmInv, OutsideStaysReserved, Landmarks, TypeOK
    <3>3. boot # "reset" => FreeSet \subseteq FreeSet'
      <4>1. CASE pmm_init
        BY <4>1 DEF pmm_init
      <4>2. CASE process_without_mmap
        BY <4>2 DEF process_without_mmap, release_region, FreeSet, AllFrames
      <4>3. CASE process_entry
        BY <4>3 DEF process_entry, release_region, FreeSet, AllFrames
      <4> QED BY <2>1, <4>1, <4>2, <4>3
    <3> QED BY <3>1, <3>2, <3>3 DEF Abstract!Discover
  <2>2. ASSUME pmm_alloc_frame PROVE Abstract!Alloc
    <3>1. Min(SearchHits) \in FreeSet /\ boot = "up" /\ boot' = "up"
      BY <2>2, SearchFindsLowest DEF pmm_alloc_frame
    <3>2. FreeSet' = FreeSet \ {Min(SearchHits)}
      BY <2>2 DEF pmm_alloc_frame, FreeSet, AllFrames
    <3> QED BY <2>2, <3>1, <3>2 DEF pmm_alloc_frame, Abstract!Alloc
  <2>3. ASSUME pmm_alloc_frame_none PROVE Abstract!Alloc
    <3>1. FreeSet = {}
      <4>1. FreeSet \in SUBSET AllFrames
        BY DEF FreeSet
      <4>2. CASE free_frames = 0
        BY <2>3, <4>1, <4>2, FramesFinite, FS_EmptySet
        DEF pmm_alloc_frame_none, PmmInv, FreeCountExact
      <4>3. CASE total_frames = 0
        BY <2>3, <4>1, <4>3, PmmAssumption
        DEF pmm_alloc_frame_none, PmmInv, OutsideStaysReserved, AllFrames
      <4>4. CASE SearchHits = {}
        BY <2>3, <4>4, SearchFindsLowest DEF pmm_alloc_frame_none
      <4> QED BY <2>3, <4>2, <4>3, <4>4 DEF pmm_alloc_frame_none, NoneFree
    <3>2. FreeSet' = FreeSet
      BY <2>3 DEF pmm_alloc_frame_none, FreeSet, AllFrames
    <3> QED BY <2>3, <3>1, <3>2 DEF pmm_alloc_frame_none, Abstract!Alloc
  <2>4. ASSUME NEW frame \in AllFrames, pmm_free_frame(frame)
        PROVE  Abstract!Free
    <3>1. frame \in granted
      BY <2>4 DEF pmm_free_frame, MayBeFreed, FreeIgnored
    <3>2. FreeSet' = FreeSet \cup {frame}
      BY <2>4 DEF pmm_free_frame, FreeSet, AllFrames
    <3> QED BY <2>4, <3>1, <3>2 DEF pmm_free_frame, Abstract!Free
  <2>5. ASSUME UNCHANGED vars PROVE UNCHANGED Abstract!faVars
    BY <2>5 DEF vars, FreeSet
  <2> QED BY <2>1, <2>2, <2>3, <2>4, <2>5 DEF Next
<1> QED BY <1>1, <1>2, PmmInvariant, PTL DEF Spec, AbstractSpec, Abstract!Spec
=============================================================================
