------------------------ MODULE ResourceManagerProofs ------------------------
(***************************************************************************)
(* Theorems about ResourceManager, for all names, numbers of edits and of  *)
(* objects, and all calls of the application's hooks: the types and every  *)
(* property its run checks.  All rest on one inductive invariant, IInv.    *)
(***************************************************************************)
EXTENDS ResourceManager, TLAPS, FiniteSetTheorems, WellFoundedInduction

(* The names in a resource file have a last one.                           *)
LEMMA LastOfFinite ==
  ASSUME NEW S \in SUBSET Nat, IsFiniteSet(S), S # {}
  PROVE  \E n \in S : \A m \in S : m <= n
  <1> DEFINE Above(n) == {m \in S : n < m}
             T == {Above(n) : n \in S}
  <1>1. T # {} /\ T \subseteq FiniteSubsetsOf(S)
    <2>1. ASSUME NEW n \in S
          PROVE  IsFiniteSet(Above(n)) /\ Above(n) \subseteq S
      BY FS_Subset
    <2> QED
      BY <2>1 DEF FiniteSubsetsOf
  <1>2. IsWellFoundedOn(StrictSubsetOrdering(S), FiniteSubsetsOf(S))
    BY FS_StrictSubsetOrderingWellFounded
  <1>3. PICK I \in T : \A J \in T : << J, I >> \notin StrictSubsetOrdering(S)
    BY <1>1, <1>2, WFMin
  <1>4. PICK n \in S : I = Above(n)
    OBVIOUS
  <1>5. ASSUME NEW m \in S, ~ m <= n
        PROVE  FALSE
    <2>1. n < m /\ \A k \in S : k \in Nat /\ (m < k => n < k)
      BY <1>5
    <2>2. Above(m) \in SUBSET S /\ Above(n) \in SUBSET S /\ Above(m) \subseteq Above(n)
      BY <2>1, Zenon
    <2>3. m \in Above(n) /\ m \notin Above(m)
      BY <1>5
    <2>4. Above(m) # Above(n)
      BY <2>3
    <2>5. << Above(m), Above(n) >> \in StrictSubsetOrdering(S)
      BY <2>2, <2>4 DEF StrictSubsetOrdering
    <2> QED
      BY <1>3, <1>4, <2>5
  <1> QED
    BY <1>5

LEMMA AllNamesIsAbove == AllNames \in Nat /\ \A n \in Names : n < AllNames
  <1> DEFINE last == CHOOSE n \in Names : \A m \in Names : m <= n
  <1>1. last \in Names /\ \A m \in Names : m <= last
    BY NamesAssumption, LastOfFinite
  <1> HIDE DEF last
  <1>2. last \in Nat /\ \A n \in Names : n \in Nat
    BY <1>1, NamesAssumption
  <1>3. AllNames = 1 + last
    BY DEF AllNames, last
  <1> QED
    BY <1>1, <1>2, <1>3
-----------------------------------------------------------------------------
(* The objects a load makes of the blocks of a file are numbered by the    *)
(* rank of their names among the names in the file.                        *)
Rank(S, n) == Cardinality({m \in S : m < n})

LEMMA Ranks ==
  ASSUME NEW S \in SUBSET Nat, IsFiniteSet(S)
  PROVE  /\ Cardinality(S) \in Nat
         /\ \A n \in S : Rank(S, n) \in Nat /\ Rank(S, n) < Cardinality(S)
         /\ \A m, n \in S : Rank(S, m) = Rank(S, n) => m = n
         /\ S # {} => \E n \in S : Rank(S, n) = Cardinality(S) - 1
  <1> DEFINE Below(n) == {m \in S : m < n}
  <1>1. Cardinality(S) \in Nat
    BY FS_CardinalityType
  <1>2. ASSUME NEW n \in S
        PROVE  IsFiniteSet(Below(n)) /\ Cardinality(Below(n)) \in Nat
    <2>1. IsFiniteSet(Below(n))
      BY FS_Subset
    <2> QED
      BY <2>1, FS_CardinalityType
  <1>3. ASSUME NEW n \in S
        PROVE  Cardinality(Below(n)) < Cardinality(S)
    <2>1. Below(n) \in SUBSET S /\ n \notin Below(n)
      OBVIOUS
    <2>2. Cardinality(Below(n)) <= Cardinality(S) /\ Cardinality(S) # Cardinality(Below(n))
      BY <2>1, FS_Subset
    <2> QED
      BY <1>1, <1>2, <2>2
  <1>4. ASSUME NEW m \in S, NEW n \in S, m < n
        PROVE  Cardinality(Below(m)) # Cardinality(Below(n))
    <2>1. \A k \in S : k \in Nat /\ (k < m => k < n) /\ ~ m < m
      BY <1>4
    <2>2. Below(m) \in SUBSET Below(n) /\ m \in Below(n) /\ m \notin Below(m)
      BY <1>4, <2>1, Zenon
    <2>3. IsFiniteSet(Below(n))
      BY <1>2
    <2> QED
      BY <2>2, <2>3, FS_Subset
  <1>5. ASSUME NEW n \in S, \A m \in S : m <= n
        PROVE  Cardinality(Below(n)) = Cardinality(S) - 1
    <2>1. \A m \in S : m \in Nat /\ (m < n <=> m # n)
      BY <1>5
    <2>2. Below(n) = S \ {n}
      BY <2>1, Zenon
    <2> QED
      BY <2>2, FS_RemoveElement
  <1>6. \A n \in S : Rank(S, n) = Cardinality(Below(n))
    BY DEF Rank
  <1> HIDE DEF Below
  <1>7. S # {} => \E n \in S : Rank(S, n) = Cardinality(S) - 1
    BY <1>5, <1>6, LastOfFinite
  <1>8. \A m, n \in S : Rank(S, m) = Rank(S, n) => m = n
    <2> SUFFICES ASSUME NEW m \in S, NEW n \in S, m # n
                 PROVE  Rank(S, m) # Rank(S, n)
      OBVIOUS
    <2>1. m \in Nat /\ n \in Nat /\ (m < n \/ n < m)
      <3>1. m \in Nat /\ n \in Nat
        OBVIOUS
      <3> QED
        BY <3>1
    <2> QED
      BY <1>4, <1>6, <2>1
  <1> QED
    BY <1>1, <1>2, <1>3, <1>6, <1>7, <1>8
-----------------------------------------------------------------------------
(* Maps.                                                                   *)
LEMMA OverIsMap ==
  ASSUME NEW S, NEW T, NEW f, NEW g, PartialMap(f, S, T), PartialMap(g, S, T)
  PROVE  PartialMap(Over(f, g), S, T)
  BY DEF PartialMap, Over

LEMMA WithoutIsMap ==
  ASSUME NEW S, NEW T, NEW f, NEW U, PartialMap(f, S, T)
  PROVE  PartialMap(Without(f, U), S, T)
  BY DEF PartialMap, Without

LEMMA EmptyIsMap ==
  ASSUME NEW S, NEW T
  PROVE  PartialMap(NoAssets, S, T) /\ DOMAIN NoAssets = {}
  BY DEF PartialMap, NoAssets

LEMMA ConstructedIsMap ==
  ASSUME NEW S, NEW T, NEW D \in SUBSET S, NEW f \in [D -> T]
  PROVE  PartialMap(f, S, T)
  BY DEF PartialMap

(* A file, written whole or cut, has the contents of the assets mapped.    *)
LEMMA SavedIsMap ==
  ASSUME TypeOK, Mapped \subseteq DOMAIN heap, NEW cut
  PROVE  PartialMap(Saved(cut), Names, Versions)
  <1> DEFINE D == {m \in DOMAIN assets : m < cut}
  <1>1. D \in SUBSET Names
    BY DEF TypeOK, PartialMap
  <1>2. \A n \in D : heap[assets[n]] \in Versions
    BY DEF TypeOK, PartialMap, Mapped
  <1>3. Saved(cut) \in [D -> Versions]
    BY <1>2 DEF Saved
  <1> QED
    BY <1>1, <1>3, ConstructedIsMap

LEMMA SavedWhole ==
  ASSUME TypeOK
  PROVE  DOMAIN Saved(AllNames) = DOMAIN assets
  BY AllNamesIsAbove DEF Saved, TypeOK, PartialMap
-----------------------------------------------------------------------------
(* The inductive invariant.  Objects are numbered as they are allocated.   *)
ObjectsInv == MapIsLive /\ \A o \in DOMAIN heap : o < next

(* A file is truncated only when it was empty already.                     *)
DiskInv ==
  /\ ~ madeDir => file = NoAssets
  /\ pc = "saving" => madeDir /\ file = NoAssets /\ build = "debug"

(* Hooks run, and their calls are made, only after Initialise has got its  *)
(* texture; the next run starts from nothing.                              *)
RunInv ==
  /\ pc = "off" => assets = NoAssets /\ t = NoAsset
  /\ pc = "off" \/ pc = "get" => ~ client
  /\ client \/ pc = "run" => t # NoAsset

(* Initialise always has its texture somewhere, unless its save fails: in  *)
(* the map up to the save, then there or in the file, and after the load   *)
(* in the map.                                                             *)
StartInv ==
  build = "debug" /\ ~ client /\ ~ failed =>
    /\ pc \in {"save", "saving", "get"} => Wup \in DOMAIN assets
    /\ pc = "load" => Wup \in DOMAIN assets \cup DOMAIN file

ServedInv ==
  pc = "get" /\ build = "debug" /\ Wup \in DOMAIN file =>
    Wup \in DOMAIN assets /\ heap[assets[Wup]] = file[Wup]

IInv ==
  /\ TypeOK
  /\ ObjectsInv
  /\ DiskInv
  /\ RunInv
  /\ StartInv
  /\ ServedInv
  /\ DebugStartSurvives
  /\ ReleaseServesShipped

LEMMA InitIInv == Init => IInv
  <1> SUFFICES ASSUME Init
               PROVE  IInv
    OBVIOUS
  <1> USE EmptyIsMap DEF Init
  <1>1. TypeOK
    <2>1. /\ PartialMap(NoAssets, Names, Versions)
          /\ PartialMap(NoAssets, Objects, Versions)
          /\ PartialMap(NoAssets, Names, Objects)
      BY EmptyIsMap, Zenon
    <2>2. 0 \in Versions /\ 1 \in 1 .. MaxObjects + 1
      BY VersionAssumption, ObjectsAssumption DEF Versions
    <2> QED
      BY <2>1, <2>2 DEF TypeOK, Pcs
  <1>2. ObjectsInv
    BY DEF ObjectsInv, MapIsLive, Mapped
  <1>3. DiskInv /\ RunInv /\ StartInv /\ ServedInv /\ DebugStartSurvives /\ ReleaseServesShipped
    BY DEF DiskInv, RunInv, StartInv, ServedInv, DebugStartSurvives, ReleaseServesShipped
  <1> QED
    BY <1>1, <1>2, <1>3 DEF IInv
-----------------------------------------------------------------------------
(* What the steps that change the map do to it.  A creation adds one       *)
(* object, of a new number, under a name that was not taken.               *)
LEMMA CreateAdds ==
  ASSUME IInv, NEW n \in Names, CreateAsset(n), MakesAsset(n)
  PROVE  /\ n \notin DOMAIN assets /\ next \notin DOMAIN heap
         /\ DOMAIN assets' = DOMAIN assets \cup {n} /\ assets'[n] = next
         /\ \A m \in DOMAIN assets : assets'[m] = assets[m]
         /\ DOMAIN heap' = DOMAIN heap \cup {next}
         /\ \A o \in DOMAIN heap : heap'[o] = heap[o]
         /\ next' = next + 1 /\ next' \in 1 .. MaxObjects + 1
         /\ PartialMap(heap', Objects, Versions) /\ PartialMap(assets', Names, Objects)
  <1> DEFINE f == [o \in {next} |-> source[n]]
             g == [m \in {n} |-> next]
  <1>1. next \in Objects /\ next' = next + 1 /\ heap' = Over(f, heap) /\ assets' = Over(g, assets)
    BY DEF CreateAsset
  <1>2. next \in Nat /\ next' \in 1 .. MaxObjects + 1
    BY <1>1, ObjectsAssumption DEF Objects
  <1>3. n \notin DOMAIN assets /\ next \notin DOMAIN heap
    BY <1>2 DEF MakesAsset, IInv, ObjectsInv
  <1>4. source[n] \in Versions
    BY DEF IInv, TypeOK
  <1>5. PartialMap(f, Objects, Versions) /\ PartialMap(g, Names, Objects)
    BY <1>1, <1>4, ConstructedIsMap
  <1>6. PartialMap(heap, Objects, Versions) /\ PartialMap(assets, Names, Objects)
    BY DEF IInv, TypeOK
  <1>7. DOMAIN f = {next} /\ DOMAIN g = {n} /\ g[n] = next
    OBVIOUS
  <1> HIDE DEF f, g
  <1>8. PartialMap(Over(f, heap), Objects, Versions)
    BY <1>5, <1>6, OverIsMap, Zenon
  <1>9. /\ DOMAIN Over(f, heap) = DOMAIN f \cup DOMAIN heap
        /\ \A o \in DOMAIN heap \ DOMAIN f : Over(f, heap)[o] = heap[o]
    BY DEF Over
  <1>10. PartialMap(Over(g, assets), Names, Objects)
    BY <1>5, <1>6, OverIsMap, Zenon
  <1>11. /\ DOMAIN Over(g, assets) = DOMAIN g \cup DOMAIN assets
         /\ \A m \in DOMAIN g : Over(g, assets)[m] = g[m]
         /\ \A m \in DOMAIN assets \ DOMAIN g : Over(g, assets)[m] = assets[m]
    BY DEF Over
  <1> QED
    BY <1>1, <1>2, <1>3, <1>7, <1>8, <1>9, <1>10, <1>11

(* Clear empties the map and deletes what was in it, once.                 *)
LEMMA ClearDeletes ==
  ASSUME IInv, Clear
  PROVE  /\ DOMAIN assets' = {} /\ PartialMap(assets', Names, Objects)
         /\ DOMAIN heap' = DOMAIN heap \ Mapped
         /\ \A o \in DOMAIN heap' : heap'[o] = heap[o]
         /\ PartialMap(heap', Objects, Versions)
  <1>1. PartialMap(heap, Objects, Versions)
    BY DEF IInv, TypeOK
  <1>2. assets' = NoAssets /\ heap' = Without(heap, Mapped)
    BY DEF Clear
  <1>3. PartialMap(NoAssets, Names, Objects) /\ DOMAIN NoAssets = {}
    BY EmptyIsMap, Zenon
  <1>4. PartialMap(Without(heap, Mapped), Objects, Versions)
    BY <1>1, WithoutIsMap, Zenon
  <1>5. /\ DOMAIN Without(heap, Mapped) = DOMAIN heap \ Mapped
        /\ \A o \in DOMAIN heap \ Mapped : Without(heap, Mapped)[o] = heap[o]
    BY DEF Without
  <1> QED
    BY <1>2, <1>3, <1>4, <1>5

(* A load maps every name in the file to a new object with the contents    *)
(* stored under it, no two to the same one, and leaves the rest alone.     *)
LEMMA LoadMaps ==
  ASSUME IInv, LoadResources
  PROVE  /\ DOMAIN assets' = DOMAIN assets \cup DOMAIN Stored
         /\ \A n \in DOMAIN assets \ DOMAIN Stored : assets'[n] = assets[n]
         /\ \A n \in DOMAIN Stored :
              /\ assets'[n] = ObjectOf(n) /\ ObjectOf(n) \notin DOMAIN heap
              /\ ObjectOf(n) < next' /\ heap'[ObjectOf(n)] = Stored[n]
         /\ \A m, n \in DOMAIN Stored : ObjectOf(m) = ObjectOf(n) => m = n
         /\ DOMAIN heap' = DOMAIN heap \cup {ObjectOf(n) : n \in DOMAIN Stored}
         /\ \A o \in DOMAIN heap : heap'[o] = heap[o]
         /\ next' \in 1 .. MaxObjects + 1 /\ next <= next'
         /\ PartialMap(heap', Objects, Versions) /\ PartialMap(assets', Names, Objects)
  <1> DEFINE names == DOMAIN Stored
             made  == {ObjectOf(n) : n \in names}
             nameOf(o) == CHOOSE n \in names : ObjectOf(n) = o
             f == [o \in made |-> Stored[nameOf(o)]]
             g == [n \in names |-> ObjectOf(n)]
  <1>1. /\ made \subseteq Objects
        /\ heap' = Over(f, Without(heap, {})) /\ assets' = Over(g, assets)
        /\ next' = next + Cardinality(names)
    BY DEF LoadResources, Superseded, MapLoaded
  <1>2. PartialMap(Stored, Names, Versions)
    BY DEF IInv, TypeOK, Stored
  <1>3. names \in SUBSET Nat /\ IsFiniteSet(names)
    BY <1>2, NamesAssumption, FS_Subset DEF PartialMap
  <1>4. next \in 1 .. MaxObjects + 1 /\ next \in Nat /\ MaxObjects \in Nat
    BY ObjectsAssumption DEF IInv, TypeOK
  <1>5. \A n \in names : ObjectOf(n) = next + Rank(names, n)
    BY DEF ObjectOf, Rank
  <1>6. PartialMap(heap, Objects, Versions) /\ PartialMap(assets, Names, Objects)
    BY DEF IInv, TypeOK
  <1>7. \A o \in DOMAIN heap : o < next
    BY DEF IInv, ObjectsInv
  <1> HIDE DEF names
  <1>8. /\ Cardinality(names) \in Nat
        /\ \A n \in names : Rank(names, n) \in Nat /\ Rank(names, n) < Cardinality(names)
        /\ \A m, n \in names : Rank(names, m) = Rank(names, n) => m = n
        /\ names # {} => \E n \in names : Rank(names, n) = Cardinality(names) - 1
    BY <1>3, Ranks
  <1>9. \A m, n \in names : ObjectOf(m) = ObjectOf(n) => m = n
    BY <1>4, <1>5, <1>8
  <1>10. ASSUME NEW n \in names
         PROVE  ObjectOf(n) \notin DOMAIN heap /\ ObjectOf(n) < next'
    <2>1. next <= ObjectOf(n) /\ ObjectOf(n) \in Nat /\ ObjectOf(n) < next'
      BY <1>1, <1>4, <1>5, <1>8
    <2> QED
      BY <1>4, <1>7, <2>1
  <1>11. next' \in 1 .. MaxObjects + 1 /\ next <= next'
    <2>1. CASE names = {}
      BY <1>1, <1>4, <2>1, FS_EmptySet
    <2>2. CASE names # {}
      <3>1. PICK n \in names : Rank(names, n) = Cardinality(names) - 1
        BY <1>8, <2>2
      <3>2. ObjectOf(n) \in 1 .. MaxObjects
        BY <1>1, <3>1 DEF Objects
      <3>3. ObjectOf(n) = next + (Cardinality(names) - 1)
        BY <1>5, <3>1
      <3> QED
        BY <1>1, <1>4, <1>8, <3>2, <3>3
    <2> QED
      BY <2>1, <2>2
  <1>12. \A n \in names : nameOf(ObjectOf(n)) = n
    BY <1>9
  <1>13. \A n \in names : Stored[n] \in Versions
    BY <1>2 DEF PartialMap, names
  <1>14. f \in [made -> Versions]
    BY <1>12, <1>13
  <1>15. \A n \in names : f[ObjectOf(n)] = Stored[n]
    BY <1>12
  <1>16. g \in [names -> Objects] /\ names \in SUBSET Names
    BY <1>1, <1>2 DEF PartialMap, names
  <1>17. PartialMap(f, Objects, Versions) /\ PartialMap(g, Names, Objects)
    BY <1>1, <1>14, <1>16, ConstructedIsMap
  <1>18. DOMAIN f = made /\ DOMAIN g = names /\ \A n \in names : g[n] = ObjectOf(n)
    OBVIOUS
  <1> DEFINE h == Without(heap, {})
  <1>19. PartialMap(h, Objects, Versions)
    BY <1>6, WithoutIsMap, Zenon
  <1>20. /\ DOMAIN h = DOMAIN heap
         /\ \A o \in DOMAIN heap : h[o] = heap[o]
    BY DEF Without
  <1>21. made \cap DOMAIN heap = {}
    BY <1>10
  <1>22. \A n \in names : ObjectOf(n) \in made
    OBVIOUS
  <1> HIDE DEF f, g, h, made
  <1>23. PartialMap(Over(f, h), Objects, Versions)
    BY <1>17, <1>19, OverIsMap, Zenon
  <1>24. /\ DOMAIN Over(f, h) = DOMAIN f \cup DOMAIN h
         /\ \A o \in DOMAIN f : Over(f, h)[o] = f[o]
         /\ \A o \in DOMAIN h \ DOMAIN f : Over(f, h)[o] = h[o]
    BY DEF Over
  <1>25. PartialMap(Over(g, assets), Names, Objects)
    BY <1>6, <1>17, OverIsMap, Zenon
  <1>26. /\ DOMAIN Over(g, assets) = DOMAIN g \cup DOMAIN assets
         /\ \A n \in DOMAIN g : Over(g, assets)[n] = g[n]
         /\ \A n \in DOMAIN assets \ DOMAIN g : Over(g, assets)[n] = assets[n]
    BY DEF Over
  <1>27. heap' = Over(f, h) /\ assets' = Over(g, assets)
    BY <1>1 DEF h
  <1>28. \A n \in names : heap'[ObjectOf(n)] = Stored[n]
    BY <1>15, <1>18, <1>22, <1>24, <1>27
  <1>29. ASSUME NEW o \in DOMAIN heap
         PROVE  heap'[o] = heap[o]
    <2>1. o \in DOMAIN h \ DOMAIN f
      BY <1>18, <1>20, <1>21, Zenon
    <2>2. Over(f, h)[o] = h[o]
      BY <1>24, <2>1
    <2> QED
      BY <1>20, <1>27, <2>2, Zenon
  <1>30. DOMAIN heap' = DOMAIN heap \cup made
    BY <1>18, <1>20, <1>24, <1>27
  <1>31. /\ DOMAIN assets' = DOMAIN assets \cup names
         /\ \A n \in names : assets'[n] = ObjectOf(n)
    BY <1>18, <1>26, <1>27, Zenon
  <1>32. \A n \in DOMAIN assets \ names : assets'[n] = assets[n]
    BY <1>18, <1>26, <1>27, Zenon
  <1>33. PartialMap(heap', Objects, Versions) /\ PartialMap(assets', Names, Objects)
    BY <1>23, <1>25, <1>27
  <1> QED
    BY <1>9, <1>10, <1>11, <1>28, <1>29, <1>30, <1>31, <1>32, <1>33 DEF names, made
-----------------------------------------------------------------------------
(* The steps.  Those that only move pc, or change the disk or the images,  *)
(* leave what is said of the memory alone.                                 *)
LEMMA MemoryKept ==
  ASSUME IInv, UNCHANGED memoryVars
  PROVE  /\ ObjectsInv'
         /\ PartialMap(heap', Objects, Versions) /\ PartialMap(assets', Names, Objects)
         /\ next' \in 1 .. MaxObjects + 1
  BY DEF IInv, TypeOK, memoryVars, ObjectsInv, MapIsLive, Mapped

LEMMA EditIInv == ASSUME IInv, NEW n \in Names, Edit(n) PROVE IInv'
  <1> USE DEF Edit, diskVars, shipVars, memoryVars
  <1>1. TypeOK'
    <2>1. source[n] + 1 \in Versions
      BY VersionAssumption DEF IInv, TypeOK, Versions
    <2> QED
      BY <2>1 DEF IInv, TypeOK
  <1>2. ObjectsInv'
    BY MemoryKept
  <1> QED
    BY <1>1, <1>2 DEF IInv, DiskInv, RunInv, StartInv, ServedInv, DebugStartSurvives, ReleaseServesShipped

LEMMA ShipIInv == ASSUME IInv, Ship PROVE IInv'
  <1> USE DEF Ship, diskVars, memoryVars
  <1>1. TypeOK'
    BY DEF IInv, TypeOK
  <1>2. ObjectsInv'
    BY MemoryKept
  <1> QED
    BY <1>1, <1>2 DEF IInv, DiskInv, RunInv, StartInv, ServedInv, DebugStartSurvives, ReleaseServesShipped

LEMMA DeleteDirectoryIInv == ASSUME IInv, DeleteDirectory PROVE IInv'
  <1> USE DEF DeleteDirectory, shipVars, memoryVars
  <1>1. TypeOK'
    <2>1. PartialMap(NoAssets, Names, Versions)
      BY EmptyIsMap, Zenon
    <2> QED
      BY <2>1 DEF IInv, TypeOK
  <1>2. ObjectsInv'
    BY MemoryKept
  <1> QED
    BY <1>1, <1>2 DEF IInv, DiskInv, RunInv, StartInv, ServedInv, DebugStartSurvives, ReleaseServesShipped

LEMMA StartIInv == ASSUME IInv, NEW b \in {"debug", "release"}, Start(b) PROVE IInv'
  <1> USE DEF Start, diskVars, shipVars, memoryVars
  <1>1. TypeOK'
    BY DEF IInv, TypeOK, Pcs
  <1>2. ObjectsInv'
    BY MemoryKept
  <1>3. DOMAIN assets' = {}
    BY EmptyIsMap DEF IInv, RunInv
  <1> QED
    BY <1>1, <1>2, <1>3 DEF IInv, DiskInv, RunInv, StartInv, ServedInv, DebugStartSurvives, ReleaseServesShipped

LEMMA CallIInv ==
  ASSUME IInv, NEW op, NEW p \in {"create", "save", "load"}, Call(op, p)
  PROVE  IInv'
  <1> USE DEF Call, diskVars, shipVars, memoryVars
  <1>1. TypeOK'
    BY DEF IInv, TypeOK, Pcs
  <1>2. ObjectsInv'
    BY MemoryKept
  <1> QED
    BY <1>1, <1>2 DEF IInv, DiskInv, RunInv, StartInv, ServedInv, DebugStartSurvives, ReleaseServesShipped

LEMMA CreateAssetIInv == ASSUME IInv, NEW n \in Names, CreateAsset(n) PROVE IInv'
  <1> USE DEF diskVars, shipVars
  <1>1. /\ pc = "create" /\ pc' = IF client THEN "run" ELSE "save"
        /\ client \/ n = Wup
        /\ UNCHANGED << client, build, source, diskVars, shipVars, t >>
    BY DEF CreateAsset, ReturnTo
  <1>2. DiskInv' /\ RunInv' /\ ServedInv' /\ DebugStartSurvives'
    BY <1>1 DEF IInv, DiskInv, RunInv, ServedInv, DebugStartSurvives
  <1>3. CASE MakesAsset(n)
    <2>1. /\ n \notin DOMAIN assets /\ next \notin DOMAIN heap
          /\ DOMAIN assets' = DOMAIN assets \cup {n} /\ assets'[n] = next
          /\ \A m \in DOMAIN assets : assets'[m] = assets[m]
          /\ DOMAIN heap' = DOMAIN heap \cup {next}
          /\ \A o \in DOMAIN heap : heap'[o] = heap[o]
          /\ next' = next + 1 /\ next' \in 1 .. MaxObjects + 1
          /\ PartialMap(heap', Objects, Versions) /\ PartialMap(assets', Names, Objects)
      BY <1>3, CreateAdds, Zenon
    <2>2. TypeOK'
      BY <1>1, <2>1 DEF IInv, TypeOK, Pcs
    <2>3. MapIsLive'
      BY <2>1 DEF IInv, ObjectsInv, MapIsLive, Mapped
    <2>4. \A o \in DOMAIN heap' : o < next'
      <3>1. next \in Nat /\ \A o \in DOMAIN heap : o \in Nat /\ o < next
        BY ObjectsAssumption DEF IInv, TypeOK, ObjectsInv, PartialMap, Objects
      <3> QED
        BY <2>1, <3>1
    <2>5. StartInv'
      BY <1>1, <2>1 DEF IInv, StartInv
    <2>6. ReleaseServesShipped'
      BY <1>1, <1>3 DEF MakesAsset, ReleaseServesShipped
    <2> QED
      BY <1>2, <2>2, <2>3, <2>4, <2>5, <2>6 DEF IInv, ObjectsInv
  <1>4. CASE ~ MakesAsset(n)
    <2>1. UNCHANGED << heap, next, assets >>
      BY <1>4 DEF CreateAsset, memoryVars
    <2>2. ObjectsInv'
      BY <2>1, MemoryKept DEF memoryVars
    <2>3. TypeOK'
      BY <1>1, <2>1 DEF IInv, TypeOK, Pcs
    <2>4. StartInv'
      BY <1>1, <1>4, <2>1 DEF MakesAsset, StartInv
    <2>5. ReleaseServesShipped'
      BY <1>1, <2>1 DEF IInv, ReleaseServesShipped
    <2> QED
      BY <1>2, <2>2, <2>3, <2>4, <2>5 DEF IInv
  <1> QED
    BY <1>3, <1>4

(* Clearing leaves no entry to be of a deleted object.                     *)
LEMMA ClearObjects ==
  ASSUME IInv, Clear, UNCHANGED next
  PROVE  ObjectsInv'
  <1>1. DOMAIN assets' = {} /\ DOMAIN heap' = DOMAIN heap \ Mapped
    BY ClearDeletes
  <1> QED
    BY <1>1 DEF IInv, ObjectsInv, MapIsLive, Mapped

LEMMA ClearAssetsIInv == ASSUME IInv, ClearAssets PROVE IInv'
  <1> USE DEF diskVars, shipVars
  <1>1. /\ pc = "run" /\ UNCHANGED << pc, client, build, source, diskVars, shipVars, next, t >>
        /\ Clear
    BY DEF ClearAssets
  <1>2. /\ DOMAIN assets' = {}
        /\ PartialMap(heap', Objects, Versions) /\ PartialMap(assets', Names, Objects)
    BY <1>1, ClearDeletes, Zenon
  <1>3. ObjectsInv'
    BY <1>1, ClearObjects
  <1>4. TypeOK'
    BY <1>1, <1>2 DEF IInv, TypeOK
  <1> QED
    BY <1>1, <1>2, <1>3, <1>4 DEF IInv, DiskInv, RunInv, StartInv, ServedInv, DebugStartSurvives, ReleaseServesShipped

LEMMA SaveSkippedIInv == ASSUME IInv, SaveSkipped PROVE IInv'
  <1> USE DEF diskVars, shipVars
  <1>1. /\ pc = "save" /\ pc' = (IF client THEN "run" ELSE "load")
        /\ UNCHANGED << client, build, source, diskVars, shipVars, t >>
        /\ UNCHANGED memoryVars
    BY DEF SaveSkipped, GiveUp, ReturnTo
  <1>2. UNCHANGED << heap, next, assets >>
    BY <1>1 DEF memoryVars
  <1>3. TypeOK'
    BY <1>1, <1>2 DEF IInv, TypeOK, Pcs
  <1>4. ObjectsInv'
    BY <1>1, MemoryKept
  <1> QED
    BY <1>1, <1>2, <1>3, <1>4 DEF IInv, DiskInv, RunInv, StartInv, ServedInv, DebugStartSurvives, ReleaseServesShipped

LEMMA SaveBeginIInv == ASSUME IInv, SaveBegin PROVE IInv'
  <1> USE DEF SaveBegin, MakeDirectory, shipVars, memoryVars
  <1>1. PartialMap(NoAssets, Names, Versions)
    BY EmptyIsMap, Zenon
  <1>2. TypeOK'
    BY <1>1 DEF IInv, TypeOK, Pcs
  <1>3. ObjectsInv'
    BY MemoryKept
  <1> QED
    BY <1>2, <1>3 DEF IInv, DiskInv, RunInv, StartInv, ServedInv, DebugStartSurvives, ReleaseServesShipped

LEMMA SaveEndIInv == ASSUME IInv, SaveEnd PROVE IInv'
  <1> USE DEF diskVars, shipVars
  <1>1. /\ pc = "saving" /\ pc' = (IF client THEN "run" ELSE "load")
        /\ file' = Saved(AllNames) /\ Clear
        /\ UNCHANGED << client, build, source, madeDir, torn, failed, shipVars, next, t >>
    BY DEF SaveEnd, ReturnTo
  <1>2. /\ DOMAIN assets' = {}
        /\ PartialMap(heap', Objects, Versions) /\ PartialMap(assets', Names, Objects)
    BY <1>1, ClearDeletes, Zenon
  <1>3. ObjectsInv'
    BY <1>1, ClearObjects
  <1>4. PartialMap(file', Names, Versions)
    BY <1>1, SavedIsMap DEF IInv, ObjectsInv, MapIsLive
  <1>5. TypeOK'
    BY <1>1, <1>2, <1>4 DEF IInv, TypeOK, Pcs
  <1>6. StartInv'
    <2>1. DOMAIN file' = DOMAIN assets
      BY <1>1, SavedWhole DEF IInv
    <2> QED
      BY <1>1, <2>1 DEF IInv, StartInv
  <1> QED
    BY <1>1, <1>2, <1>3, <1>5, <1>6 DEF IInv, DiskInv, RunInv, ServedInv, DebugStartSurvives, ReleaseServesShipped

(* What is written of a save that is cut short has its type.               *)
LEMMA PartIsFile ==
  ASSUME IInv, WrittenInPart
  PROVE  PartialMap(file', Names, Versions) /\ torn' \in BOOLEAN
  <1>1. PICK cut \in Names \cup {AllNames} :
          file' = Saved(cut) /\ torn' \in {FALSE, \E n \in DOMAIN assets : n >= cut}
    BY DEF WrittenInPart
  <1>2. PartialMap(file', Names, Versions)
    BY <1>1, SavedIsMap DEF IInv, ObjectsInv, MapIsLive
  <1> QED
    BY <1>1, <1>2

LEMMA SaveFailsIInv == ASSUME IInv, SaveFails PROVE IInv'
  <1> USE DEF diskVars, shipVars
  <1>1. /\ pc = "saving" /\ pc' = (IF client THEN "run" ELSE "load")
        /\ Clear /\ WrittenInPart /\ failed' = TRUE
        /\ UNCHANGED << client, build, source, madeDir, shipVars, next, t >>
    BY DEF SaveFails, ReturnTo
  <1>2. /\ DOMAIN assets' = {}
        /\ PartialMap(heap', Objects, Versions) /\ PartialMap(assets', Names, Objects)
    BY <1>1, ClearDeletes, Zenon
  <1>3. ObjectsInv'
    BY <1>1, ClearObjects
  <1>4. PartialMap(file', Names, Versions) /\ torn' \in BOOLEAN
    BY <1>1, PartIsFile
  <1>5. TypeOK'
    BY <1>1, <1>2, <1>4 DEF IInv, TypeOK, Pcs
  <1> QED
    BY <1>1, <1>2, <1>3, <1>5
    DEF IInv, DiskInv, RunInv, StartInv, ServedInv, DebugStartSurvives, ReleaseServesShipped

LEMMA LoadResourcesIInv == ASSUME IInv, LoadResources PROVE IInv'
  <1> USE DEF diskVars, shipVars
  <1>1. /\ pc = "load" /\ pc' = (IF client THEN "run" ELSE "get")
        /\ UNCHANGED << client, build, source, diskVars, shipVars, t >>
    BY DEF LoadResources, ReturnTo
  <1> DEFINE names == DOMAIN Stored
  <1>2. /\ DOMAIN assets' = DOMAIN assets \cup names
        /\ \A n \in DOMAIN assets \ names : assets'[n] = assets[n]
        /\ \A n \in names :
             /\ assets'[n] = ObjectOf(n) /\ ObjectOf(n) \notin DOMAIN heap
             /\ ObjectOf(n) < next' /\ heap'[ObjectOf(n)] = Stored[n]
        /\ \A m, n \in names : ObjectOf(m) = ObjectOf(n) => m = n
        /\ DOMAIN heap' = DOMAIN heap \cup {ObjectOf(n) : n \in names}
        /\ \A o \in DOMAIN heap : heap'[o] = heap[o]
        /\ next' \in 1 .. MaxObjects + 1 /\ next <= next'
        /\ PartialMap(heap', Objects, Versions) /\ PartialMap(assets', Names, Objects)
    BY LoadMaps, Zenon
  <1>3. \A n \in DOMAIN assets : assets[n] \in DOMAIN heap
    BY DEF IInv, ObjectsInv, MapIsLive, Mapped
  <1>4. build = "debug" => Stored = file
    BY DEF Stored
  <1>5. build = "release" => Stored = shipped
    BY DEF Stored
  <1> HIDE DEF names
  <1>6. TypeOK'
    BY <1>1, <1>2 DEF IInv, TypeOK, Pcs
  <1>7. MapIsLive'
    <2>1. \A n \in DOMAIN assets' : assets'[n] \in DOMAIN heap'
      BY <1>2, <1>3
    <2>2. ASSUME NEW n \in DOMAIN assets', NEW m \in DOMAIN assets', assets'[n] = assets'[m]
          PROVE  n = m
      <3>1. \A x \in DOMAIN assets \ names, y \in names : assets'[x] # assets'[y]
        BY <1>2, <1>3
      <3>2. \A x, y \in DOMAIN assets \ names : assets'[x] = assets'[y] => x = y
        BY <1>2 DEF IInv, ObjectsInv, MapIsLive
      <3> QED
        BY <1>2, <2>2, <3>1, <3>2
    <2> QED
      BY <2>1, <2>2 DEF MapIsLive, Mapped
  <1>8. \A o \in DOMAIN heap' : o < next'
    <2>1. next \in Nat /\ next' \in Nat /\ \A o \in DOMAIN heap : o \in Nat /\ o < next
      BY <1>2, ObjectsAssumption DEF IInv, TypeOK, ObjectsInv, PartialMap, Objects
    <2> QED
      BY <1>2, <2>1
  <1>9. StartInv'
    BY <1>1, <1>2, <1>4 DEF IInv, StartInv, names
  <1>10. ServedInv'
    BY <1>1, <1>2, <1>4 DEF ServedInv, names
  <1>11. ReleaseServesShipped'
    <2>1. CASE build = "release"
      <3>1. \A n \in names : heap'[assets'[n]] = shipped[n]
        BY <1>2, <1>5, <2>1
      <3>2. \A n \in DOMAIN assets : n \in DOMAIN shipped /\ heap[assets[n]] = shipped[n]
        BY <1>1, <2>1 DEF IInv, ReleaseServesShipped
      <3>3. \A n \in DOMAIN assets \ names : heap'[assets'[n]] = shipped[n]
        BY <1>2, <1>3, <3>2
      <3> QED
        BY <1>1, <1>2, <1>5, <2>1, <3>1, <3>2, <3>3 DEF ReleaseServesShipped, names
    <2>2. CASE build # "release"
      BY <1>1, <2>2 DEF ReleaseServesShipped
    <2> QED
      BY <2>1, <2>2
  <1>12. DiskInv' /\ RunInv' /\ DebugStartSurvives'
    BY <1>1 DEF IInv, DiskInv, RunInv, DebugStartSurvives
  <1> QED
    BY <1>6, <1>7, <1>8, <1>9, <1>10, <1>11, <1>12 DEF IInv, ObjectsInv

LEMMA LoadTornIInv == ASSUME IInv, LoadTorn PROVE IInv'
  <1> USE DEF LoadTorn, diskVars, shipVars, memoryVars
  <1>1. TypeOK'
    BY DEF IInv, TypeOK, Pcs
  <1>2. ObjectsInv'
    BY MemoryKept
  <1>3. DebugStartSurvives'
    BY DEF StoredTorn, DebugStartSurvives
  <1> QED
    BY <1>1, <1>2, <1>3 DEF IInv, DiskInv, RunInv, StartInv, ServedInv, ReleaseServesShipped

LEMMA GetAssetIInv == ASSUME IInv, GetAsset PROVE IInv'
  <1> USE DEF GetAsset, diskVars, shipVars, memoryVars
  <1>1. Wup \in DOMAIN assets => assets[Wup] \in Objects
    BY DEF IInv, TypeOK, PartialMap
  <1>2. TypeOK'
    BY <1>1 DEF IInv, TypeOK, Pcs
  <1>3. ObjectsInv'
    BY MemoryKept
  <1>4. RunInv'
    <2>1. NoAsset \notin Objects
      BY ObjectsAssumption DEF NoAsset, Objects
    <2> QED
      BY <1>1, <2>1 DEF IInv, RunInv
  <1>5. DebugStartSurvives'
    BY DEF IInv, RunInv, StartInv, DebugStartSurvives
  <1> QED
    BY <1>2, <1>3, <1>4, <1>5 DEF IInv, DiskInv, StartInv, ServedInv, ReleaseServesShipped

LEMMA RenderDanglingIInv == ASSUME IInv, RenderDangling PROVE IInv'
  <1> USE DEF RenderDangling, diskVars, shipVars, memoryVars
  <1>1. TypeOK'
    BY DEF IInv, TypeOK, Pcs
  <1>2. ObjectsInv'
    BY MemoryKept
  <1> QED
    BY <1>1, <1>2 DEF IInv, DiskInv, RunInv, StartInv, ServedInv, DebugStartSurvives, ReleaseServesShipped

(* A run that has ended leaves an empty memory.                            *)
LEMMA EndedEmpties ==
  ASSUME IInv, Ended, PartialMap(file', Names, Versions), torn' \in BOOLEAN
  PROVE  TypeOK' /\ ObjectsInv' /\ DOMAIN assets' = {}
  <1>1. /\ PartialMap(NoAssets, Objects, Versions) /\ PartialMap(NoAssets, Names, Objects)
        /\ DOMAIN NoAssets = {}
    BY EmptyIsMap, Zenon
  <1>2. 1 \in 1 .. MaxObjects + 1
    BY ObjectsAssumption
  <1>3. TypeOK'
    BY <1>1, <1>2 DEF IInv, TypeOK, Ended, Pcs, shipVars
  <1>4. ObjectsInv'
    BY <1>1 DEF ObjectsInv, MapIsLive, Mapped, Ended
  <1> QED
    BY <1>1, <1>3, <1>4 DEF Ended

LEMMA EndIInv == ASSUME IInv, End PROVE IInv'
  <1>1. TypeOK' /\ ObjectsInv' /\ DOMAIN assets' = {}
    BY EndedEmpties DEF IInv, TypeOK, End
  <1> QED
    BY <1>1 DEF End, Ended, shipVars, IInv, DiskInv, RunInv, StartInv, ServedInv, DebugStartSurvives, ReleaseServesShipped

LEMMA CrashInSaveIInv == ASSUME IInv, CrashInSave PROVE IInv'
  <1>1. pc = "saving" /\ Ended /\ WrittenInPart
    BY DEF CrashInSave
  <1>2. TypeOK' /\ ObjectsInv' /\ DOMAIN assets' = {}
    BY <1>1, PartIsFile, EndedEmpties
  <1> QED
    BY <1>1, <1>2 DEF Ended, shipVars, IInv, DiskInv, RunInv, StartInv, ServedInv, DebugStartSurvives, ReleaseServesShipped
-----------------------------------------------------------------------------
LEMMA NextIInv == IInv /\ [Next]_vars => IInv'
  <1> SUFFICES ASSUME IInv, [Next]_vars
               PROVE  IInv'
    OBVIOUS
  <1>1. CASE \E n \in Names : Edit(n) \/ CreateAsset(n)
    BY <1>1, EditIInv, CreateAssetIInv
  <1>2. CASE Ship
    BY <1>2, ShipIInv
  <1>3. CASE DeleteDirectory
    BY <1>3, DeleteDirectoryIInv
  <1>4. CASE \E b \in {"debug", "release"} : Start(b)
    BY <1>4, StartIInv
  <1>5. CASE Call("Create", "create") \/ Call("Save", "save") \/ Call("Load", "load")
    BY <1>5, CallIInv
  <1>6. CASE ClearAssets
    BY <1>6, ClearAssetsIInv
  <1>7. CASE SaveSkipped
    BY <1>7, SaveSkippedIInv
  <1>8. CASE SaveBegin
    BY <1>8, SaveBeginIInv
  <1>9. CASE SaveEnd \/ SaveFails
    BY <1>9, SaveEndIInv, SaveFailsIInv
  <1>10. CASE LoadResources
    BY <1>10, LoadResourcesIInv
  <1>11. CASE LoadTorn
    BY <1>11, LoadTornIInv
  <1>12. CASE GetAsset
    BY <1>12, GetAssetIInv
  <1>13. CASE RenderDangling
    BY <1>13, RenderDanglingIInv
  <1>14. CASE End
    BY <1>14, EndIInv
  <1>15. CASE CrashInSave
    BY <1>15, CrashInSaveIInv
  <1>16. CASE UNCHANGED vars
    <2> USE <1>16 DEF vars, diskVars, shipVars, memoryVars
    <2>1. TypeOK'
      BY DEF IInv, TypeOK
    <2>2. ObjectsInv'
      BY MemoryKept
    <2> QED
      BY <2>1, <2>2 DEF IInv, DiskInv, RunInv, StartInv, ServedInv, DebugStartSurvives, ReleaseServesShipped
  <1> QED
    BY <1>1, <1>2, <1>3, <1>4, <1>5, <1>6, <1>7, <1>8, <1>9, <1>10, <1>11, <1>12, <1>13,
       <1>14, <1>15, <1>16 DEF Next

LEMMA Invariant == Spec => []IInv
  <1>1. Init => IInv
    BY InitIInv
  <1>2. IInv /\ [Next]_vars => IInv'
    BY NextIInv
  <1> QED
    BY <1>1, <1>2, PTL DEF Spec
-----------------------------------------------------------------------------
(* The theorems.                                                           *)

(* Contents are kept under names and objects they belong to, in memory, in *)
(* the file and in what is shipped, whatever hooks call and runs leave.    *)
THEOREM TypeCorrect == Spec => []TypeOK
  BY Invariant, PTL DEF IInv

(* Every entry of m_loadedAssets is of an object of its own that has not   *)
(* been deleted, so no Clear deletes anything twice.                       *)
THEOREM ClearDeletesOnce == Spec => []MapIsLive
  BY Invariant, PTL DEF IInv, ObjectsInv

(* The start of a debug build dies of no resource file but a torn one, and *)
(* otherwise only of a disk its own save fails on.                         *)
THEOREM OnlyTornFilesKillAStart == Spec => []DebugStartSurvives
  BY Invariant, PTL DEF IInv

(* A release build only ever maps what was shipped, with its contents.     *)
THEOREM ReleaseIsShipped == Spec => []ReleaseServesShipped
  BY Invariant, PTL DEF IInv

(* Render's texture is deleted by the end of a run, a hook that clears or  *)
(* a save, and by no load or creation.                                     *)
THEOREM TextureOutlivesLoads == Spec => TextureKept
  <1>1. IInv /\ [Next]_vars
          => [(t \in DOMAIN heap /\ t \notin DOMAIN heap')
                => pc' = "off" \/ pc = "run" \/ pc = "saving"]_vars
    <2> SUFFICES ASSUME IInv, Next, t \in DOMAIN heap, t \notin DOMAIN heap'
                 PROVE  pc' = "off" \/ pc = "run" \/ pc = "saving"
      OBVIOUS
    <2> USE DEF memoryVars
    <2>1. ASSUME NEW n \in Names, Edit(n)
          PROVE  FALSE
      BY <2>1 DEF Edit
    <2>2. ASSUME NEW n \in Names, CreateAsset(n)
          PROVE  FALSE
      <3>1. CASE MakesAsset(n)
        BY <2>2, <3>1, CreateAdds
      <3>2. CASE ~ MakesAsset(n)
        BY <2>2, <3>2 DEF CreateAsset
      <3> QED
        BY <3>1, <3>2
    <2>3. CASE Ship \/ DeleteDirectory \/ \E b \in {"debug", "release"} : Start(b)
      BY <2>3 DEF Ship, DeleteDirectory, Start
    <2>4. CASE Call("Create", "create") \/ Call("Save", "save") \/ Call("Load", "load")
      BY <2>4 DEF Call
    <2>5. CASE ClearAssets \/ SaveEnd \/ SaveFails
      BY <2>5 DEF ClearAssets, SaveEnd, SaveFails
    <2>6. CASE SaveSkipped \/ SaveBegin
      BY <2>6 DEF SaveSkipped, GiveUp, SaveBegin
    <2>7. CASE LoadResources
      BY <2>7, LoadMaps
    <2>8. CASE LoadTorn \/ GetAsset \/ RenderDangling
      BY <2>8 DEF LoadTorn, GetAsset, RenderDangling
    <2>9. CASE End \/ CrashInSave
      BY <2>9 DEF End, CrashInSave, Ended
    <2> QED
      BY <2>1, <2>2, <2>3, <2>4, <2>5, <2>6, <2>7, <2>8, <2>9 DEF Next
  <1> QED
    BY <1>1, Invariant, PTL DEF Spec, TextureKept

(* What the steps do to the objects that nothing maps any more.            *)
LEMMA CreationLeaksNothing ==
  ASSUME IInv, NEW n \in Names, CreateAsset(n)
  PROVE  Leaked' = Leaked
  <1>1. CASE MakesAsset(n)
    <2>1. /\ n \notin DOMAIN assets /\ next \notin DOMAIN heap
          /\ DOMAIN assets' = DOMAIN assets \cup {n} /\ assets'[n] = next
          /\ \A m \in DOMAIN assets : assets'[m] = assets[m]
          /\ DOMAIN heap' = DOMAIN heap \cup {next}
      BY <1>1, CreateAdds, Zenon
    <2>2. Mapped' = Mapped \cup {next}
      BY <2>1 DEF Mapped
    <2>3. Mapped \subseteq DOMAIN heap
      BY DEF IInv, ObjectsInv, MapIsLive
    <2> QED
      BY <2>1, <2>2, <2>3 DEF Leaked
  <1>2. CASE ~ MakesAsset(n)
    BY <1>2 DEF CreateAsset, memoryVars, Leaked, Mapped
  <1> QED
    BY <1>1, <1>2

LEMMA ClearLeaksNothing ==
  ASSUME IInv, Clear
  PROVE  Leaked' = Leaked
  <1>1. DOMAIN assets' = {} /\ DOMAIN heap' = DOMAIN heap \ Mapped
    BY ClearDeletes
  <1>2. Mapped' = {}
    BY <1>1 DEF Mapped
  <1> QED
    BY <1>1, <1>2 DEF Leaked

LEMMA LoadLeaksSuperseded ==
  ASSUME IInv, LoadResources
  PROVE  Leaked' = Leaked \cup {assets[n] : n \in DOMAIN assets \cap DOMAIN Stored}
  <1> DEFINE names == DOMAIN Stored
             made  == {ObjectOf(n) : n \in names}
             kept  == {assets[n] : n \in DOMAIN assets \ names}
             old   == {assets[n] : n \in DOMAIN assets \cap names}
  <1>1. /\ DOMAIN assets' = DOMAIN assets \cup names
        /\ \A n \in DOMAIN assets \ names : assets'[n] = assets[n]
        /\ \A n \in names : assets'[n] = ObjectOf(n) /\ ObjectOf(n) \notin DOMAIN heap
        /\ DOMAIN heap' = DOMAIN heap \cup made
    BY LoadMaps, Zenon
  <1>2. /\ \A n \in DOMAIN assets : assets[n] \in DOMAIN heap
        /\ \A m, n \in DOMAIN assets : assets[m] = assets[n] => m = n
    BY DEF IInv, ObjectsInv, MapIsLive, Mapped
  <1>3. Mapped' = kept \cup made
    BY <1>1 DEF Mapped
  <1>4. Mapped = kept \cup old
    BY DEF Mapped
  <1>5. kept \cap old = {} /\ old \subseteq DOMAIN heap
    BY <1>2
  <1>6. made \cap DOMAIN heap = {}
    BY <1>1
  <1> HIDE DEF names, made, kept, old
  <1>7. Leaked' = Leaked \cup old
    BY <1>1, <1>3, <1>4, <1>5, <1>6 DEF Leaked
  <1> QED
    BY <1>7 DEF old, names

(* Nothing leaks but the objects whose names a load maps anew, and those   *)
(* all do.                                                                 *)
THEOREM LeaksAreOfReloads == Spec => LeaksOnlyReloads
  <1>1. IInv /\ [Next]_vars
          => [Leaked' # Leaked =>
                \/ pc' = "off"
                \/ /\ pc = "load"
                   /\ Leaked' = Leaked \cup {assets[n] : n \in DOMAIN assets \cap DOMAIN Stored}]_vars
    <2> SUFFICES ASSUME IInv, Next, Leaked' # Leaked, pc' # "off"
                 PROVE  /\ pc = "load"
                        /\ Leaked' = Leaked \cup {assets[n] : n \in DOMAIN assets \cap DOMAIN Stored}
      OBVIOUS
    <2>1. ~ UNCHANGED memoryVars
      BY DEF memoryVars, Leaked, Mapped
    <2>2. ASSUME NEW n \in Names, Edit(n) \/ CreateAsset(n)
          PROVE  FALSE
      BY <2>1, <2>2, CreationLeaksNothing DEF Edit
    <2>3. CASE Ship \/ DeleteDirectory \/ \E b \in {"debug", "release"} : Start(b)
      BY <2>1, <2>3 DEF Ship, DeleteDirectory, Start
    <2>4. CASE Call("Create", "create") \/ Call("Save", "save") \/ Call("Load", "load")
      BY <2>1, <2>4 DEF Call
    <2>5. CASE ClearAssets \/ SaveEnd \/ SaveFails
      BY <2>5, ClearLeaksNothing DEF ClearAssets, SaveEnd, SaveFails
    <2>6. CASE SaveSkipped \/ SaveBegin
      BY <2>1, <2>6 DEF SaveSkipped, GiveUp, SaveBegin
    <2>7. CASE LoadResources
      BY <2>7, LoadLeaksSuperseded DEF LoadResources
    <2>8. CASE LoadTorn \/ GetAsset \/ RenderDangling
      BY <2>1, <2>8 DEF LoadTorn, GetAsset, RenderDangling
    <2>9. CASE End \/ CrashInSave
      BY <2>9 DEF End, CrashInSave, Ended
    <2> QED
      BY <2>2, <2>3, <2>4, <2>5, <2>6, <2>7, <2>8, <2>9 DEF Next
  <1> QED
    BY <1>1, Invariant, PTL DEF Spec, LeaksOnlyReloads

(* A resource file with assets in it is never written to, nor torn: it     *)
(* stays until the directory is deleted.                                   *)
THEOREM FilesAreSafe == Spec => FileIsSafe
  <1>1. IInv /\ [Next]_vars
          => [file # NoAssets => << file', torn' >> = << file, torn >> \/ ~ madeDir']_vars
    <2> SUFFICES ASSUME IInv, Next, file # NoAssets, madeDir'
                 PROVE  UNCHANGED << file, torn >>
      OBVIOUS
    <2>1. madeDir /\ pc # "saving"
      <3>1. madeDir \in BOOLEAN
        BY DEF IInv, TypeOK
      <3> QED
        BY <3>1 DEF IInv, DiskInv
    <2> USE DEF diskVars
    <2>2. ASSUME NEW n \in Names, Edit(n) \/ CreateAsset(n)
          PROVE  UNCHANGED << file, torn >>
      BY <2>2 DEF Edit, CreateAsset
    <2>3. CASE Ship \/ DeleteDirectory \/ \E b \in {"debug", "release"} : Start(b)
      BY <2>3 DEF Ship, DeleteDirectory, Start
    <2>4. CASE Call("Create", "create") \/ Call("Save", "save") \/ Call("Load", "load")
      BY <2>4 DEF Call
    <2>5. CASE ClearAssets \/ SaveSkipped
      BY <2>5 DEF ClearAssets, SaveSkipped
    <2>6. CASE SaveBegin \/ SaveEnd \/ SaveFails \/ CrashInSave
      BY <2>1, <2>6 DEF SaveBegin, MakeDirectory, SaveEnd, SaveFails, CrashInSave
    <2>7. CASE LoadResources \/ LoadTorn \/ GetAsset
      BY <2>7 DEF LoadResources, LoadTorn, GetAsset
    <2>8. CASE RenderDangling \/ End
      BY <2>8 DEF RenderDangling, End
    <2> QED
      BY <2>2, <2>3, <2>4, <2>5, <2>6, <2>7, <2>8 DEF Next
  <1> QED
    BY <1>1, Invariant, PTL DEF Spec, FileIsSafe

(* If the file has Initialise's texture, that is the one Initialise gets.  *)
THEOREM InitialiseIsServedFromFile == Spec => ServedFromFile
  <1>1. IInv /\ [Next]_vars
          => [pc = "get" /\ pc' = "run" /\ build = "debug" /\ Wup \in DOMAIN file
                => heap[t'] = file[Wup]]_vars
    <2> SUFFICES ASSUME IInv, Next, pc = "get", pc' = "run", build = "debug", Wup \in DOMAIN file
                 PROVE  heap[t'] = file[Wup]
      OBVIOUS
    <2>1. GetAsset
      BY DEF Next, Edit, CreateAsset, Ship, DeleteDirectory, Start, Call, ClearAssets, SaveSkipped,
             SaveBegin, SaveEnd, SaveFails, LoadResources, LoadTorn, RenderDangling, End, Ended, CrashInSave
    <2>2. Wup \in DOMAIN assets /\ heap[assets[Wup]] = file[Wup]
      BY DEF IInv, ServedInv
    <2> QED
      BY <2>1, <2>2 DEF GetAsset
  <1> QED
    BY <1>1, Invariant, PTL DEF Spec, ServedFromFile
-----------------------------------------------------------------------------
(* The store of values.  What is not a debug run is not seen, and a run    *)
(* that dies has stopped.                                                  *)
LEMMA NothingIsNoAssets == DebugStore!Nothing = NoAssets
  BY DEF DebugStore!Nothing, NoAssets

LEMMA NotSeen ==
  ASSUME ~ InDebugRun, ~ InDebugRun', UNCHANGED file
  PROVE  UNCHANGED DebugStore!vars
  <1>1. InDebugRun' = InDebugRun
    BY DEF InDebugRun
  <1> QED
    BY <1>1 DEF DebugStore!vars, LoadedVersions

LEMMA SeenAlike ==
  ASSUME InDebugRun, InDebugRun', UNCHANGED << heap, assets, file >>
  PROVE  UNCHANGED DebugStore!vars
  BY DEF DebugStore!vars, LoadedVersions

LEMMA Stops ==
  ASSUME InDebugRun, ~ InDebugRun', UNCHANGED file
  PROVE  DebugStore!Stop
  BY NothingIsNoAssets DEF DebugStore!Stop, LoadedVersions

(* A step that changes neither the map nor the file, and starts no run.    *)
LEMMA SeenStep ==
  ASSUME UNCHANGED << heap, assets, file, build >>, InDebugRun' => InDebugRun
  PROVE  [DebugStore!Next]_DebugStore!vars
  BY NotSeen, SeenAlike, Stops DEF DebugStore!Next

LEMMA StartIsStart ==
  ASSUME IInv, NEW b \in {"debug", "release"}, Start(b)
  PROVE  [DebugStore!Next]_DebugStore!vars
  <1>1. /\ pc = "off" /\ pc' = "create" /\ build' = b
        /\ UNCHANGED << heap, assets, file >>
    BY DEF Start, diskVars, memoryVars
  <1>2. ~ InDebugRun
    BY <1>1 DEF InDebugRun
  <1>3. CASE b = "debug"
    <2>1. InDebugRun' /\ DOMAIN assets' = {}
      BY <1>1, <1>3, EmptyIsMap DEF InDebugRun, IInv, RunInv
    <2>2. LoadedVersions' = NoAssets /\ LoadedVersions = NoAssets
      BY <1>2, <2>1 DEF LoadedVersions, NoAssets
    <2>3. DebugStore!Start
      BY <1>1, <1>2, <2>1, <2>2 DEF DebugStore!Start
    <2> QED
      BY <2>3 DEF DebugStore!Next
  <1>4. CASE b # "debug"
    BY <1>1, <1>2, <1>4, NotSeen DEF InDebugRun
  <1> QED
    BY <1>3, <1>4

LEMMA CreateAssetIsCreate ==
  ASSUME IInv, NEW n \in Names, CreateAsset(n)
  PROVE  [DebugStore!Next]_DebugStore!vars
  <1>1. /\ pc = "create" /\ pc' \in {"run", "save"}
        /\ UNCHANGED << build, file >>
    BY DEF CreateAsset, ReturnTo, diskVars
  <1>2. CASE MakesAsset(n)
    <2>1. InDebugRun /\ InDebugRun'
      BY <1>1, <1>2 DEF MakesAsset, InDebugRun
    <2>2. /\ n \notin DOMAIN assets /\ next \notin DOMAIN heap
          /\ DOMAIN assets' = DOMAIN assets \cup {n} /\ assets'[n] = next
          /\ \A m \in DOMAIN assets : assets'[m] = assets[m]
          /\ \A o \in DOMAIN heap : heap'[o] = heap[o]
      BY <1>2, CreateAdds, Zenon
    <2>3. heap'[next] = source[n]
      BY <1>2 DEF CreateAsset, Over
    <2>4. \A m \in DOMAIN assets : heap'[assets'[m]] = heap[assets[m]]
      BY <2>2 DEF IInv, ObjectsInv, MapIsLive, Mapped
    <2>5. /\ LoadedVersions = [m \in DOMAIN assets |-> heap[assets[m]]]
          /\ LoadedVersions' = [m \in DOMAIN assets' |-> heap'[assets'[m]]]
      BY <2>1 DEF LoadedVersions
    <2>6. DOMAIN LoadedVersions = DOMAIN assets
      BY <2>5
    <2>7. LoadedVersions' = [m \in DOMAIN LoadedVersions \cup {n} |->
                               IF m = n THEN source[n] ELSE LoadedVersions[m]]
      BY <2>2, <2>3, <2>4, <2>5
    <2>8. source[n] \in Versions
      BY DEF IInv, TypeOK
    <2>9. DebugStore!Create(n, source[n])
      BY <1>1, <2>1, <2>2, <2>6, <2>7 DEF DebugStore!Create
    <2> QED
      BY <2>8, <2>9 DEF DebugStore!Next
  <1>3. CASE ~ MakesAsset(n)
    <2>1. UNCHANGED << heap, assets >>
      BY <1>3 DEF CreateAsset, memoryVars
    <2> QED
      BY <1>1, <2>1, SeenStep DEF InDebugRun
  <1> QED
    BY <1>2, <1>3

LEMMA ClearAssetsIsClear ==
  ASSUME IInv, ClearAssets
  PROVE  [DebugStore!Next]_DebugStore!vars
  <1>1. Clear /\ pc = "run" /\ UNCHANGED << pc, build, file >>
    BY DEF ClearAssets, diskVars
  <1>2. DOMAIN assets' = {}
    BY <1>1, ClearDeletes
  <1>3. CASE InDebugRun
    <2>1. InDebugRun'
      BY <1>1, <1>3 DEF InDebugRun
    <2>2. LoadedVersions' = NoAssets
      BY <1>2, <2>1 DEF LoadedVersions, NoAssets
    <2>3. DebugStore!Clear
      BY <1>1, <1>3, <2>1, <2>2, NothingIsNoAssets DEF DebugStore!Clear
    <2> QED
      BY <2>3 DEF DebugStore!Next
  <1>4. CASE ~ InDebugRun
    BY <1>1, <1>4, NotSeen DEF InDebugRun
  <1> QED
    BY <1>3, <1>4

(* The end of a save is the whole of it, since the file was empty and      *)
(* every name is before AllNames; a kill or a failure leaves a part of it. *)
LEMMA SaveEndIsSave ==
  ASSUME IInv, SaveEnd
  PROVE  [DebugStore!Next]_DebugStore!vars
  <1>1. /\ pc = "saving" /\ pc' \in {"run", "load"} /\ UNCHANGED build
        /\ file' = Saved(AllNames) /\ Clear
    BY DEF SaveEnd, ReturnTo
  <1>2. InDebugRun /\ InDebugRun' /\ file = NoAssets
    BY <1>1 DEF IInv, DiskInv, InDebugRun
  <1>3. DOMAIN assets' = {}
    BY <1>1, ClearDeletes
  <1>4. LoadedVersions = [m \in DOMAIN assets |-> heap[assets[m]]]
    BY <1>2 DEF LoadedVersions
  <1>5. {m \in DOMAIN assets : m < AllNames} = DOMAIN assets
    BY SavedWhole DEF IInv, Saved
  <1>6. file' = LoadedVersions
    BY <1>1, <1>4, <1>5, Zenon DEF Saved
  <1>7. LoadedVersions' = NoAssets
    BY <1>2, <1>3 DEF LoadedVersions, NoAssets
  <1>8. DebugStore!Save
    BY <1>2, <1>6, <1>7, NothingIsNoAssets DEF DebugStore!Save
  <1> QED
    BY <1>8 DEF DebugStore!Next

LEMMA PartIsRestriction ==
  ASSUME InDebugRun, WrittenInPart
  PROVE  \E part \in SUBSET DOMAIN LoadedVersions :
           file' = DebugStore!Restrict(LoadedVersions, part)
  <1>1. PICK cut \in Names \cup {AllNames} : file' = Saved(cut)
    BY DEF WrittenInPart
  <1>2. LoadedVersions = [m \in DOMAIN assets |-> heap[assets[m]]]
    BY DEF LoadedVersions
  <1> DEFINE part == {m \in DOMAIN assets : m < cut}
  <1>3. part \in SUBSET DOMAIN LoadedVersions
    BY <1>2
  <1>4. file' = [m \in part |-> LoadedVersions[m]]
    BY <1>1, <1>2 DEF Saved
  <1> HIDE DEF part
  <1>5. file' = DebugStore!Restrict(LoadedVersions, part)
    BY <1>4 DEF DebugStore!Restrict
  <1> QED
    BY <1>3, <1>5

LEMMA CrashInSaveIsDieSaving ==
  ASSUME IInv, CrashInSave
  PROVE  [DebugStore!Next]_DebugStore!vars
  <1>1. pc = "saving" /\ pc' = "off" /\ WrittenInPart
    BY DEF CrashInSave, Ended
  <1>2. InDebugRun /\ ~ InDebugRun' /\ file = NoAssets
    BY <1>1 DEF IInv, DiskInv, InDebugRun
  <1>3. LoadedVersions' = NoAssets
    BY <1>2 DEF LoadedVersions
  <1>4. DebugStore!DieSaving
    BY <1>1, <1>2, <1>3, PartIsRestriction, NothingIsNoAssets DEF DebugStore!DieSaving
  <1> QED
    BY <1>4 DEF DebugStore!Next

LEMMA SaveFailsIsSavePart ==
  ASSUME IInv, SaveFails
  PROVE  [DebugStore!Next]_DebugStore!vars
  <1>1. /\ pc = "saving" /\ pc' \in {"run", "load"} /\ UNCHANGED build
        /\ WrittenInPart /\ Clear
    BY DEF SaveFails, ReturnTo
  <1>2. InDebugRun = TRUE /\ InDebugRun' = TRUE /\ file = NoAssets
    BY <1>1 DEF IInv, DiskInv, InDebugRun
  <1>3. DOMAIN assets' = {}
    BY <1>1, ClearDeletes
  <1>4. LoadedVersions' = NoAssets
    BY <1>2, <1>3 DEF LoadedVersions, NoAssets
  <1>5. DebugStore!SavePart
    BY <1>1, <1>2, <1>4, PartIsRestriction, NothingIsNoAssets DEF DebugStore!SavePart
  <1> QED
    BY <1>5 DEF DebugStore!Next

LEMMA LoadResourcesIsLoad ==
  ASSUME IInv, LoadResources
  PROVE  [DebugStore!Next]_DebugStore!vars
  <1>1. pc = "load" /\ pc' \in {"run", "get"} /\ UNCHANGED << build, file >>
    BY DEF LoadResources, ReturnTo, diskVars
  <1>2. CASE InDebugRun
    <2>1. InDebugRun' /\ Stored = file
      BY <1>1, <1>2 DEF InDebugRun, Stored
    <2>2. /\ DOMAIN assets' = DOMAIN assets \cup DOMAIN Stored
          /\ \A n \in DOMAIN assets \ DOMAIN Stored : assets'[n] = assets[n]
          /\ \A n \in DOMAIN Stored :
               assets'[n] = ObjectOf(n) /\ heap'[ObjectOf(n)] = Stored[n]
          /\ \A o \in DOMAIN heap : heap'[o] = heap[o]
      BY LoadMaps, Zenon
    <2>3. \A n \in DOMAIN file : heap'[assets'[n]] = file[n]
      BY <2>1, <2>2
    <2>4. \A n \in DOMAIN assets \ DOMAIN file : heap'[assets'[n]] = heap[assets[n]]
      BY <2>1, <2>2 DEF IInv, ObjectsInv, MapIsLive, Mapped
    <2>5. /\ LoadedVersions = [m \in DOMAIN assets |-> heap[assets[m]]]
          /\ LoadedVersions' = [m \in DOMAIN assets' |-> heap'[assets'[m]]]
      BY <1>2, <2>1 DEF LoadedVersions
    <2>6. DOMAIN LoadedVersions = DOMAIN assets /\ DOMAIN assets' = DOMAIN file \cup DOMAIN assets
      BY <2>1, <2>2, <2>5
    <2>7. LoadedVersions' = [n \in DOMAIN file \cup DOMAIN LoadedVersions |->
                               IF n \in DOMAIN file THEN file[n] ELSE LoadedVersions[n]]
      BY <2>3, <2>4, <2>5, <2>6
    <2>8. DebugStore!Load
      BY <1>1, <1>2, <2>1, <2>7 DEF DebugStore!Load
    <2> QED
      BY <2>8 DEF DebugStore!Next
  <1>3. CASE ~ InDebugRun
    BY <1>1, <1>3, NotSeen DEF InDebugRun
  <1> QED
    BY <1>2, <1>3

LEMMA DeleteDirectoryIsLose ==
  ASSUME DeleteDirectory
  PROVE  [DebugStore!Next]_DebugStore!vars
  <1>1. UNCHANGED << pc, build, heap, assets >> /\ file' = NoAssets
    BY DEF DeleteDirectory, memoryVars
  <1>2. (InDebugRun' <=> InDebugRun) /\ InDebugRun \in BOOLEAN /\ InDebugRun' \in BOOLEAN
    BY <1>1 DEF InDebugRun
  <1>3. InDebugRun' = InDebugRun /\ LoadedVersions' = LoadedVersions
    BY <1>1, <1>2 DEF LoadedVersions
  <1>4. DebugStore!Lose
    BY <1>1, <1>3, NothingIsNoAssets DEF DebugStore!Lose
  <1> QED
    BY <1>4 DEF DebugStore!Next

(* Seen by its values, the manager of a debug build is a store: what a run *)
(* loads is what one before it saved, over every kill, deletion and        *)
(* failing disk.                                                           *)
THEOREM RefinesStore == Spec => ImplementsStore
  <1>1. Init => DebugStore!Init
    BY NothingIsNoAssets DEF Init, DebugStore!Init, InDebugRun, LoadedVersions
  <1>2. IInv /\ [Next]_vars => [DebugStore!Next]_DebugStore!vars
    <2> SUFFICES ASSUME IInv, [Next]_vars
                 PROVE  [DebugStore!Next]_DebugStore!vars
      OBVIOUS
    <2> USE DEF diskVars, memoryVars, InDebugRun
    <2>1. ASSUME NEW n \in Names, Edit(n)
          PROVE  [DebugStore!Next]_DebugStore!vars
      BY <2>1, SeenStep DEF Edit
    <2>2. ASSUME NEW n \in Names, CreateAsset(n)
          PROVE  [DebugStore!Next]_DebugStore!vars
      BY <2>2, CreateAssetIsCreate
    <2>3. CASE Ship
      BY <2>3, SeenStep DEF Ship
    <2>4. CASE DeleteDirectory
      BY <2>4, DeleteDirectoryIsLose
    <2>5. ASSUME NEW b \in {"debug", "release"}, Start(b)
          PROVE  [DebugStore!Next]_DebugStore!vars
      BY <2>5, StartIsStart
    <2>6. CASE Call("Create", "create") \/ Call("Save", "save") \/ Call("Load", "load")
      BY <2>6, SeenStep DEF Call
    <2>7. CASE ClearAssets
      BY <2>7, ClearAssetsIsClear
    <2>8. CASE SaveSkipped
      BY <2>8, SeenStep DEF SaveSkipped, GiveUp
    <2>9. CASE SaveBegin
      <3>1. file' = file
        BY <2>9 DEF SaveBegin, MakeDirectory, IInv, DiskInv
      <3> QED
        BY <2>9, <3>1, SeenStep DEF SaveBegin
    <2>10. CASE SaveEnd \/ SaveFails
      BY <2>10, SaveEndIsSave, SaveFailsIsSavePart
    <2>11. CASE LoadResources
      BY <2>11, LoadResourcesIsLoad
    <2>12. CASE LoadTorn \/ GetAsset \/ RenderDangling
      BY <2>12, SeenStep DEF LoadTorn, GetAsset, RenderDangling
    <2>13. CASE End
      <3>1. UNCHANGED << build, file >> /\ ~ InDebugRun'
        BY <2>13 DEF End, Ended
      <3> QED
        BY <3>1, NotSeen, Stops DEF DebugStore!Next
    <2>14. CASE CrashInSave
      BY <2>14, CrashInSaveIsDieSaving
    <2>15. CASE UNCHANGED vars
      BY <2>15, SeenStep DEF vars
    <2> QED
      BY <2>1, <2>2, <2>3, <2>4, <2>5, <2>6, <2>7, <2>8, <2>9, <2>10, <2>11, <2>12, <2>13,
         <2>14, <2>15 DEF Next
  <1> QED
    BY <1>1, <1>2, Invariant, PTL DEF Spec, ImplementsStore, DebugStore!Spec
=============================================================================
