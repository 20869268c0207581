-------------------------- MODULE Collector_proofs --------------------------
(***************************************************************************)
(* Proofs about Collector: for a heap of any size, any number of roots and *)
(* of fields, and any quantum, nothing that can be reached is freed.       *)
(***************************************************************************)
EXTENDS Collector, FiniteSetTheorems, TLAPS

-----------------------------------------------------------------------------
(* Counting.                                                               *)

\* With one element more the count grows by one at most.
LEMMA CountAdd ==
  ASSUME NEW S, IsFiniteSet(S), NEW x, NEW T, T \subseteq S \cup {x}
  PROVE  Cardinality(T) <= Cardinality(S) + 1
<1>1. Cardinality(S) \in Nat
  BY FS_CardinalityType
<1>2. /\ IsFiniteSet(S \cup {x})
      /\ Cardinality(S \cup {x}) <= Cardinality(S) + 1
  BY <1>1, FS_AddElement
<1>3. Cardinality(T) <= Cardinality(S \cup {x})
  BY <1>2, FS_Subset
<1>4. Cardinality(T) \in Nat /\ Cardinality(S \cup {x}) \in Nat
  BY <1>2, FS_Subset, FS_CardinalityType
<1> QED
  BY <1>1, <1>2, <1>3, <1>4

\* With one element less it falls by one.
LEMMA CountRemove ==
  ASSUME NEW S, IsFiniteSet(S), NEW x \in S, NEW T, T \subseteq S \ {x}
  PROVE  Cardinality(T) <= Cardinality(S) - 1
<1>1. /\ IsFiniteSet(S \ {x})
      /\ Cardinality(S \ {x}) = Cardinality(S) - 1
  BY FS_RemoveElement
<1>2. Cardinality(T) <= Cardinality(S \ {x})
  BY <1>1, FS_Subset
<1> QED
  BY <1>1, <1>2

\* With one element in another's place it does not grow.
LEMMA CountSwap ==
  ASSUME NEW S, IsFiniteSet(S), NEW x \in S, NEW y, NEW T, T \subseteq (S \ {x}) \cup {y}
  PROVE  Cardinality(T) <= Cardinality(S)
<1>1. /\ IsFiniteSet(S \ {x})
      /\ Cardinality(S \ {x}) = Cardinality(S) - 1
  BY FS_RemoveElement
<1>2. Cardinality(T) <= Cardinality(S \ {x}) + 1
  BY <1>1, CountAdd
<1>3. Cardinality(S) \in Nat /\ Cardinality(S \ {x}) \in Nat
  BY <1>1, FS_CardinalityType
<1>4. IsFiniteSet(T)
  BY <1>1, FS_AddElement, FS_Subset
<1>5. Cardinality(T) \in Nat
  BY <1>4, FS_CardinalityType
<1> QED
  BY <1>1, <1>2, <1>3, <1>5

-----------------------------------------------------------------------------
(* The heap.                                                               *)

\* There are finitely many locations.
LEMMA LocFinite ==
  ASSUME HeapAssumption
  PROVE  IsFiniteSet(Loc)
<1>1. IsFiniteSet(Block)
  BY FS_Interval DEF HeapAssumption, Block
<1>2. IsFiniteSet(Cell)
  BY <1>1, FS_Product DEF HeapAssumption, Cell
<1>3. IsFiniteSet({tmp})
  BY FS_Singleton
<1> QED
  BY <1>2, <1>3, FS_Union DEF HeapAssumption, Loc

\* The three colours are different, and with the propagator are all there are; the next
\* mutator is the sweeper and the next sweeper the marker.
LEMMA Colours ==
  ASSUME mutator \in 0..2
  PROVE  /\ mutator # marker /\ mutator # sweeper /\ marker # sweeper
         /\ {mutator, marker, sweeper} = 0..2
         /\ (mutator + 1) % 3 = sweeper
         /\ (((mutator + 1) % 3) + 1) % 3 = marker
         /\ propagator \notin {mutator, marker, sweeper}
<1>1. mutator = 0 \/ mutator = 1 \/ mutator = 2
  OBVIOUS
<1> QED
  BY <1>1 DEF marker, sweeper, propagator

\* Where a block is pointed to from.
Into(b) == {l \in Loc : Good(l) /\ mem[l] = b}

\* The parts of the invariant.  While rungc runs, no destroy is under way.
GcQuiet == visit > 0 => mem[tmp] = H /\ dying = {}
\* A block that destroy is freeing has no reference left.
DyingUnused == dying \subseteq alloc /\ \A b \in dying : ref[b] = 0 /\ color[b] # sweeper
\* What a root points to has been marked in this epoch, or is newer.
RootsMarked == \A r \in Root : mem[r] # H => color[mem[r]] \in {mutator, propagator}
\* So has what a block points to that has itself been scanned.
ScannedMarked ==
  \A l \in Cell : l[1] \in alloc /\ color[l[1]] = mutator /\ mem[l] # H
                    => color[mem[l]] \in {mutator, propagator}
\* A free block has nothing in its fields.
FreeEmpty == \A l \in Cell : l[1] \notin alloc => mem[l] = H
\* The pass leaves no sweeper's colour behind it, and nothing marked unless nprop says so.
Behind ==
  base \/ visit > 0 => \A b \in alloc : b < ptr =>
    color[b] # sweeper /\ (nprop = 0 => color[b] # propagator)
\* The block before ptr is not after it, and a pass that ends is at the end.
Place == prev <= ptr /\ (visit > 0 /\ ~base => ptr = N + 1)

Inv == /\ TypeOK /\ GcQuiet /\ DyingUnused /\ RootsMarked /\ ScannedMarked /\ FreeEmpty
       /\ Behind /\ Place /\ NoDangling /\ RefsCover

LEMMA InitInv ==
  ASSUME HeapAssumption, Init
  PROVE  Inv
<1>1. \A b \in Block : {l \in Loc : Good(l) /\ mem[l] = b} = {}
  BY DEF Init, Block, H
<1>2. RefsCover
  BY <1>1, FS_EmptySet DEF RefsCover, Init
<1>3. TypeOK
  <2>1. base \in BOOLEAN /\ alloc \subseteq Block /\ dying \subseteq Block
    BY DEF Init
  <2>2. mem \in [Loc -> Block \cup {H}]
    BY DEF Init
  <2>3. color \in [Block -> 0..3] /\ ref \in [Block -> Nat]
    BY DEF Init
  <2>4. /\ mutator \in 0..2 /\ nprop \in {0, 1}
        /\ ptr \in 0..(N + 1) /\ visit \in 0..Quanta /\ prev \in -1..N
    BY DEF Init, HeapAssumption
  <2> QED
    BY <2>1, <2>2, <2>3, <2>4 DEF TypeOK
<1>4. \A l \in Loc : mem[l] = H
  BY DEF Init
<1>5. NoDangling /\ RootsMarked /\ ScannedMarked /\ FreeEmpty
  BY <1>4 DEF NoDangling, RootsMarked, ScannedMarked, FreeEmpty, Loc
<1>6. GcQuiet /\ DyingUnused /\ Behind /\ Place
  BY DEF Init, GcQuiet, DyingUnused, Behind, Place, HeapAssumption
<1> QED
  BY <1>2, <1>3, <1>5, <1>6 DEF Inv

-----------------------------------------------------------------------------
(* Facts that several steps use.                                           *)

\* What an instruction can name matters, and is not tmp.
LEMMA AddrGood ==
  ASSUME HeapAssumption, Inv, NEW d \in Addr
  PROVE  d \in Loc /\ d # tmp /\ Good(d)
<1>1. CASE d \in Root
  BY <1>1 DEF HeapAssumption, Loc, Good
<1>2. CASE d \in Cell /\ \E r \in Root : mem[r] = d[1]
  <2>1. d \in Loc /\ d # tmp
    BY <1>2 DEF HeapAssumption, Loc
  <2>2. PICK r \in Root : mem[r] = d[1]
    BY <1>2
  <2>3. r \in Loc /\ Good(r)
    BY DEF Loc, Good
  <2>4. d[1] \in Block /\ d[1] # H
    BY <1>2 DEF Cell, Block, H
  <2>5. d[1] \in alloc /\ color[d[1]] # sweeper
    BY <2>2, <2>3, <2>4 DEF Inv, NoDangling
  <2> QED
    BY <2>1, <2>5, <1>2 DEF Good
<1> QED
  BY <1>1, <1>2 DEF Addr

\* What a location that matters points to is counted.
LEMMA IntoFacts ==
  ASSUME HeapAssumption, Inv, NEW b \in Block
  PROVE  /\ IsFiniteSet(Into(b)) /\ Cardinality(Into(b)) \in Nat
         /\ Cardinality(Into(b)) <= ref[b]
         /\ ref[b] \in Nat
         /\ ref[b] = 0 => Into(b) = {}
<1>1. IsFiniteSet(Into(b))
  BY LocFinite, FS_Subset DEF Into
<1>2. Cardinality(Into(b)) \in Nat
  BY <1>1, FS_CardinalityType
<1>3. Cardinality(Into(b)) <= ref[b] /\ ref[b] \in Nat
  BY DEF Inv, RefsCover, Into, TypeOK
<1>4. ref[b] = 0 => Cardinality(Into(b)) = 0
  BY <1>2, <1>3
<1>5. Cardinality(Into(b)) = 0 => Into(b) = {}
  BY <1>1, FS_EmptySet
<1> QED
  BY <1>1, <1>2, <1>3, <1>4, <1>5

-----------------------------------------------------------------------------
(* Instructions keep the invariant.                                        *)

LEMMA MovpInv ==
  ASSUME HeapAssumption, Inv, NEW d \in Addr, NEW sv \in {mem[l] : l \in Addr} \cup {H},
         movp(d, sv)
  PROVE  Inv'
<1>1. d \in Loc /\ d # tmp /\ Good(d) /\ tmp \in Loc
  BY AddrGood DEF Loc
<1>2. sv # H => sv \in Block /\ sv \in alloc /\ color[sv] # sweeper
  <2>1. SUFFICES ASSUME sv # H
                 PROVE  sv \in Block /\ sv \in alloc /\ color[sv] # sweeper
    OBVIOUS
  <2>2. PICK l \in Addr : sv = mem[l]
    BY <2>1
  <2>3. l \in Loc /\ Good(l)
    BY AddrGood
  <2> QED
    BY <2>1, <2>2, <2>3 DEF Inv, NoDangling, TypeOK
<1>3. /\ mem[tmp] = H /\ dying = {} /\ visit = 0
      /\ alloc' = alloc /\ dying' = dying /\ mutator' = mutator
      /\ base' = base /\ ptr' = ptr /\ visit' = visit /\ prev' = prev
      /\ mem' = [mem EXCEPT ![d] = sv, ![tmp] = mem[d]]
  BY DEF movp, Quiet, pass
<1>4. mutator \in 0..2 /\ mutator # sweeper /\ propagator # sweeper /\ propagator = 3
      /\ sweeper' = sweeper
  BY <1>3, Colours DEF Inv, TypeOK, sweeper, propagator
<1>5. /\ color' \in [Block -> 0..3]
      /\ \A b \in Block : color'[b] = IF b = sv /\ color[b] # mutator THEN propagator
                                                                     ELSE color[b]
      /\ sv # H => color'[sv] \in {mutator, propagator}
  <2>1. color' = Marked({sv} \ {H}) /\ color \in [Block -> 0..3]
    BY DEF movp, Inv, TypeOK
  <2>2. 0 \notin Block
    BY DEF Block
  <2> QED
    BY <2>1, <2>2, <1>2, <1>4 DEF Marked, H
<1>6. /\ nprop' \in {0, 1}
      /\ nprop' = 0 => nprop = 0 /\ \A b \in Block : color'[b] = color[b]
  <2>1. nprop' = IF Marks({sv} \ {H}) THEN 1 ELSE nprop
    BY DEF movp
  <2>2. CASE sv = H
    <3>1. \A b \in Block : b # sv
      BY <2>2 DEF Block, H
    <3> QED
      BY <2>1, <2>2, <3>1, <1>5 DEF Marks, Inv, TypeOK
  <2>3. CASE sv # H
    BY <2>1, <2>3, <1>2, <1>5 DEF Marks, Inv, TypeOK
  <2> QED
    BY <2>2, <2>3
<1>7. \A b \in Block : (color'[b] = sweeper <=> color[b] = sweeper)
                    /\ (color[b] \in {mutator, propagator} => color'[b] \in {mutator, propagator})
                    /\ (color'[b] = mutator => color[b] = mutator)
  <2>1. propagator # mutator /\ H \notin Block
    BY <1>4 DEF Block, H
  <2> QED
    BY <1>2, <1>4, <1>5, <2>1
<1>8. \A l \in Loc : Good(l)' <=> Good(l)
  <2>1. \A l \in Cell : l[1] \in Block
    BY DEF Cell
  <2> QED
    BY <1>3, <1>4, <1>7, <2>1 DEF Good
<1>9. /\ mem' \in [Loc -> Block \cup {H}]
      /\ mem'[d] = sv /\ mem'[tmp] = mem[d]
      /\ \A l \in Loc : l # d /\ l # tmp => mem'[l] = mem[l]
  BY <1>1, <1>2, <1>3 DEF Inv, TypeOK
<1>10. TypeOK'
  <2>1. ref' \in [Block -> Nat]
    BY <1>2 DEF movp, Inv, TypeOK
  <2> QED
    BY <1>3, <1>5, <1>6, <1>9, <2>1 DEF Inv, TypeOK
<1>11. GcQuiet' /\ DyingUnused' /\ Place'
  BY <1>3 DEF Inv, GcQuiet, DyingUnused, Place
<1>12. RootsMarked'
  <2>1. SUFFICES ASSUME NEW r \in Root, mem'[r] # H
                 PROVE  color'[mem'[r]] \in {mutator, propagator}
    BY <1>3 DEF RootsMarked
  <2>2. r \in Loc /\ r # tmp
    BY DEF Loc, HeapAssumption
  <2>3. CASE r = d
    BY <2>1, <2>3, <1>5, <1>9
  <2>4. CASE r # d
    BY <2>1, <2>2, <2>4, <1>7, <1>9 DEF Inv, RootsMarked, TypeOK
  <2> QED
    BY <2>3, <2>4
<1>13. ScannedMarked'
  <2>1. SUFFICES ASSUME NEW l \in Cell, l[1] \in alloc, color'[l[1]] = mutator, mem'[l] # H
                 PROVE  color'[mem'[l]] \in {mutator, propagator}
    BY <1>3 DEF ScannedMarked
  <2>2. l \in Loc /\ l # tmp /\ l[1] \in Block
    BY DEF Loc, Cell, HeapAssumption
  <2>3. CASE l = d
    BY <2>1, <2>3, <1>5, <1>9
  <2>4. CASE l # d
    BY <2>1, <2>2, <2>4, <1>7, <1>9 DEF Inv, ScannedMarked, TypeOK
  <2> QED
    BY <2>3, <2>4
<1>14. FreeEmpty'
  <2>1. SUFFICES ASSUME NEW l \in Cell, l[1] \notin alloc
                 PROVE  mem'[l] = H
    BY <1>3 DEF FreeEmpty
  <2>2. l \in Loc /\ l # tmp /\ l \notin Root
    BY DEF Loc, Cell, HeapAssumption
  <2>3. l # d
    BY <2>1, <2>2, <1>1 DEF Good
  <2> QED
    BY <2>1, <2>2, <2>3, <1>9 DEF Inv, FreeEmpty
<1>15. Behind'
  BY <1>3, <1>4, <1>6, <1>7 DEF Inv, Behind, TypeOK
<1>16. NoDangling'
  <2>1. SUFFICES ASSUME NEW l \in Loc, Good(l), mem'[l] # H
                 PROVE  mem'[l] \in alloc /\ color'[mem'[l]] # sweeper
    BY <1>3, <1>4, <1>8 DEF NoDangling
  <2>2. CASE l = d
    BY <2>1, <2>2, <1>2, <1>7, <1>9
  <2>3. CASE l = tmp
    BY <2>1, <2>3, <1>1, <1>7, <1>9 DEF Inv, NoDangling, TypeOK
  <2>4. CASE l # d /\ l # tmp
    BY <2>1, <2>4, <1>7, <1>9 DEF Inv, NoDangling, TypeOK
  <2> QED
    BY <2>2, <2>3, <2>4
<1>17. RefsCover'
  <2>1. SUFFICES ASSUME NEW b \in Block
                 PROVE  Cardinality(Into(b)') <= ref'[b]
    BY DEF RefsCover, Into
  <2>2. \A l \in Loc : l \in Into(b)' <=> Good(l) /\ mem'[l] = b
    BY <1>8 DEF Into
  <2>3. Into(b)' \subseteq Loc /\ Into(b) \subseteq Loc /\ tmp \notin Into(b)
    BY <1>3 DEF Into, Block, H
  <2>4. \A l \in Loc : l \in Into(b) <=> Good(l) /\ mem[l] = b
    BY DEF Into
  <2>5. /\ IsFiniteSet(Into(b)) /\ Cardinality(Into(b)) \in Nat
        /\ Cardinality(Into(b)) <= ref[b] /\ ref[b] \in Nat
    BY IntoFacts
  <2>6. ref'[b] = IF b = sv THEN ref[b] + 1 ELSE ref[b]
    <3>1. b # H
      BY DEF Block, H
    <3>2. CASE sv = H
      BY <3>1, <3>2 DEF movp
    <3>3. CASE sv # H
      <4>1. ref' = [ref EXCEPT ![sv] = ref[sv] + 1] /\ ref \in [Block -> Nat]
        BY <3>3 DEF movp, Inv, TypeOK
      <4> QED
        BY <4>1
    <3> QED
      BY <3>2, <3>3
  <2>7. CASE b # sv /\ b # mem[d]
    <3>1. Into(b)' \subseteq Into(b)
      BY <2>2, <2>3, <2>4, <2>7, <1>9
    <3> QED
      BY <3>1, <2>5, <2>6, <2>7, FS_Subset, FS_CardinalityType
  <2>8. CASE b # sv /\ b = mem[d]
    <3>1. d \in Into(b)
      BY <2>4, <2>8, <1>1
    <3>2. Into(b)' \subseteq (Into(b) \ {d}) \cup {tmp}
      BY <2>2, <2>3, <2>4, <2>8, <1>9
    <3>3. Cardinality(Into(b)') <= Cardinality(Into(b))
      BY <3>1, <3>2, <2>5, CountSwap
    <3>4. IsFiniteSet(Into(b)')
      BY LocFinite, FS_Subset, <2>3
    <3>5. Cardinality(Into(b)') \in Nat
      BY <3>4, FS_CardinalityType
    <3> QED
      BY <3>3, <3>5, <2>5, <2>6, <2>8
  <2>9. CASE b = sv
    <3>1. \E x : Into(b)' \subseteq Into(b) \cup {x}
      <4>1. CASE b = mem[d]
        <5>1. Into(b)' \subseteq Into(b) \cup {tmp}
          BY <2>2, <2>3, <2>4, <2>9, <4>1, <1>1, <1>9
        <5> QED
          BY <5>1
      <4>2. CASE b # mem[d]
        <5>1. Into(b)' \subseteq Into(b) \cup {d}
          BY <2>2, <2>3, <2>4, <2>9, <4>2, <1>9
        <5> QED
          BY <5>1
      <4> QED
        BY <4>1, <4>2
    <3>2. Cardinality(Into(b)') <= Cardinality(Into(b)) + 1
      BY <3>1, <2>5, CountAdd
    <3>4. IsFiniteSet(Into(b)')
      BY LocFinite, FS_Subset, <2>3
    <3>5. Cardinality(Into(b)') \in Nat
      BY <3>4, FS_CardinalityType
    <3> QED
      BY <3>2, <3>5, <2>5, <2>6, <2>9
  <2> QED
    BY <2>7, <2>8, <2>9
<1> QED
  BY <1>10, <1>11, <1>12, <1>13, <1>14, <1>15, <1>16, <1>17 DEF Inv

LEMMA NewInv ==
  ASSUME HeapAssumption, Inv, NEW d \in Addr, NEW n \in Block, new(d, n)
  PROVE  Inv'
<1>1. d \in Loc /\ d # tmp /\ Good(d) /\ tmp \in Loc
  BY AddrGood DEF Loc
<1>2. /\ n \notin alloc /\ n # H /\ mem[tmp] = H /\ dying = {} /\ visit = 0
      /\ alloc' = alloc \cup {n} /\ dying' = dying /\ mutator' = mutator /\ nprop' = nprop
      /\ base' = base /\ ptr' = ptr /\ visit' = visit /\ prev' = prev
      /\ mem' = [mem EXCEPT ![d] = n, ![tmp] = mem[d]]
  BY DEF new, Quiet, pass, Block, H
<1>3. mutator \in 0..2 /\ mutator # sweeper /\ mutator # propagator /\ sweeper' = sweeper
  BY <1>2, Colours DEF Inv, TypeOK, sweeper
<1>4. /\ color' \in [Block -> 0..3] /\ color'[n] = mutator
      /\ \A b \in Block : b # n => color'[b] = color[b]
  BY <1>3 DEF new, Inv, TypeOK
<1>5. /\ ref' \in [Block -> Nat] /\ ref'[n] = 1
      /\ \A b \in Block : b # n => ref'[b] = ref[b]
  BY DEF new, Inv, TypeOK
<1>6. /\ mem' \in [Loc -> Block \cup {H}]
      /\ mem'[d] = n /\ mem'[tmp] = mem[d]
      /\ \A l \in Loc : l # d /\ l # tmp => mem'[l] = mem[l]
  BY <1>1, <1>2 DEF Inv, TypeOK
<1>7. \A l \in Cell : l \in Loc /\ l # tmp /\ l \notin Root /\ l[1] \in Block
  BY DEF Loc, Cell, HeapAssumption
<1>8. \A l \in Cell : l[1] = n => l # d /\ mem'[l] = H
  BY <1>1, <1>2, <1>6, <1>7 DEF Good, Inv, FreeEmpty
<1>9. \A l \in Loc : Good(l)' <=> Good(l) \/ (l \in Cell /\ l[1] = n)
  BY <1>2, <1>3, <1>4, <1>7 DEF Good
<1>10. TypeOK'
  BY <1>2, <1>4, <1>5, <1>6 DEF Inv, TypeOK
<1>11. GcQuiet' /\ DyingUnused' /\ Place'
  BY <1>2 DEF Inv, GcQuiet, DyingUnused, Place
<1>12. \A l \in Loc : Good(l) => mem[l] # n
  BY <1>2 DEF Inv, NoDangling
<1>13. RootsMarked'
  <2>1. SUFFICES ASSUME NEW r \in Root, mem'[r] # H
                 PROVE  color'[mem'[r]] \in {mutator, propagator}
    BY <1>2 DEF RootsMarked
  <2>2. r \in Loc /\ r # tmp /\ Good(r)
    BY DEF Loc, Good, HeapAssumption
  <2> QED
    BY <2>1, <2>2, <1>4, <1>6, <1>12 DEF Inv, RootsMarked, TypeOK
<1>14. ScannedMarked'
  <2>1. SUFFICES ASSUME NEW l \in Cell, l[1] \in alloc', color'[l[1]] = mutator, mem'[l] # H
                 PROVE  color'[mem'[l]] \in {mutator, propagator}
    BY <1>2 DEF ScannedMarked
  <2>2. l[1] \in alloc /\ color[l[1]] = mutator /\ Good(l)
    BY <2>1, <1>2, <1>3, <1>4, <1>7, <1>8 DEF Good
  <2>3. CASE l = d
    BY <2>3, <1>4, <1>6
  <2>4. CASE l # d
    BY <2>1, <2>2, <2>4, <1>4, <1>6, <1>7, <1>12 DEF Inv, ScannedMarked, TypeOK
  <2> QED
    BY <2>3, <2>4
<1>15. FreeEmpty'
  <2>1. SUFFICES ASSUME NEW l \in Cell, l[1] \notin alloc
                 PROVE  mem'[l] = H
    BY <1>2 DEF FreeEmpty
  <2>2. l # d
    BY <2>1, <1>1, <1>7 DEF Good
  <2> QED
    BY <2>1, <2>2, <1>6, <1>7 DEF Inv, FreeEmpty
<1>16. Behind'
  BY <1>2, <1>3, <1>4 DEF Inv, Behind, TypeOK
<1>17. NoDangling'
  <2>1. SUFFICES ASSUME NEW l \in Loc, Good(l)', mem'[l] # H
                 PROVE  mem'[l] \in alloc' /\ color'[mem'[l]] # sweeper
    BY <1>3 DEF NoDangling
  <2>2. Good(l)
    BY <2>1, <1>8, <1>9
  <2>3. CASE l = d
    BY <2>3, <1>2, <1>3, <1>4, <1>6
  <2>4. CASE l = tmp
    BY <2>1, <2>4, <1>1, <1>2, <1>4, <1>6, <1>12 DEF Inv, NoDangling, TypeOK
  <2>5. CASE l # d /\ l # tmp
    BY <2>1, <2>2, <2>5, <1>2, <1>4, <1>6, <1>12 DEF Inv, NoDangling, TypeOK
  <2> QED
    BY <2>3, <2>4, <2>5
<1>18. RefsCover'
  <2>1. SUFFICES ASSUME NEW b \in Block
                 PROVE  Cardinality(Into(b)') <= ref'[b]
    BY DEF RefsCover, Into
  <2>2. \A l \in Loc : l \in Into(b)' <=> Good(l) /\ mem'[l] = b
    <3>1. b # H
      BY DEF Block, H
    <3> QED
      BY <3>1, <1>8, <1>9 DEF Into
  <2>3. Into(b)' \subseteq Loc /\ Into(b) \subseteq Loc
    BY DEF Into
  <2>4. \A l \in Loc : l \in Into(b) <=> Good(l) /\ mem[l] = b
    BY DEF Into
  <2>5. /\ IsFiniteSet(Into(b)) /\ Cardinality(Into(b)) \in Nat
        /\ Cardinality(Into(b)) <= ref[b] /\ ref[b] \in Nat
    BY IntoFacts
  <2>6. Cardinality(Into(b)') \in Nat
    BY LocFinite, FS_Subset, FS_CardinalityType, <2>3
  <2>7. CASE b = n
    <3>1. Into(b)' \subseteq {} \cup {d}
      BY <2>2, <2>3, <2>7, <1>1, <1>6, <1>12
    <3>2. Cardinality(Into(b)') <= 0 + 1
      BY <3>1, CountAdd, FS_EmptySet
    <3> QED
      BY <3>2, <2>6, <2>7, <1>5
  <2>8. CASE b # n /\ b = mem[d]
    <3>1. d \in Into(b)
      BY <2>4, <2>8, <1>1
    <3>2. Into(b)' \subseteq (Into(b) \ {d}) \cup {tmp}
      BY <2>2, <2>3, <2>4, <2>8, <1>6
    <3>3. Cardinality(Into(b)') <= Cardinality(Into(b))
      BY <3>1, <3>2, <2>5, CountSwap
    <3> QED
      BY <3>3, <2>5, <2>6, <2>8, <1>5
  <2>9. CASE b # n /\ b # mem[d]
    <3>1. Into(b)' \subseteq Into(b)
      BY <2>2, <2>3, <2>4, <2>9, <1>6
    <3> QED
      BY <3>1, <2>5, <2>6, <2>9, <1>5, FS_Subset
  <2> QED
    BY <2>7, <2>8, <2>9
<1> QED
  BY <1>10, <1>11, <1>13, <1>14, <1>15, <1>16, <1>17, <1>18 DEF Inv

-----------------------------------------------------------------------------
(* destroy keeps it.                                                       *)

LEMMA DestroyInv ==
  ASSUME HeapAssumption, Inv, NEW d \in Loc, d = tmp \/ (d \in Cell /\ d[1] \in dying),
         destroy(d)
  PROVE  Inv'
<1>0. PICK b : b = mem[d]
  OBVIOUS
<1>1. /\ b # H /\ alloc' = alloc /\ color' = color /\ mutator' = mutator /\ nprop' = nprop
      /\ base' = base /\ ptr' = ptr /\ visit' = visit /\ prev' = prev /\ sweeper' = sweeper
      /\ mem' = [mem EXCEPT ![d] = H]
  BY <1>0 DEF destroy, pass, sweeper
<1>2. Good(d)
  BY DEF Inv, DyingUnused, Good
<1>3. b \in Block /\ b \in alloc /\ color[b] # sweeper
  BY <1>0, <1>1, <1>2 DEF Inv, NoDangling, TypeOK
<1>4. visit = 0
  BY <1>0, <1>1 DEF Inv, GcQuiet, TypeOK, HeapAssumption
<1>5. /\ mem' \in [Loc -> Block \cup {H}] /\ mem'[d] = H
      /\ \A l \in Loc : l # d => mem'[l] = mem[l]
  BY <1>1 DEF Inv, TypeOK
<1>6. \A l \in Loc : Good(l)' <=> Good(l)
  BY <1>1 DEF Good
<1>7. /\ IsFiniteSet(Into(b)) /\ Cardinality(Into(b)) \in Nat
      /\ Cardinality(Into(b)) <= ref[b] /\ ref[b] \in Nat /\ d \in Into(b)
  BY <1>0, <1>2, <1>3, IntoFacts DEF Into
<1>8. Into(b)' \subseteq Into(b) \ {d}
  BY <1>1, <1>5, <1>6 DEF Into
<1>9. Cardinality(Into(b)') <= Cardinality(Into(b)) - 1 /\ Cardinality(Into(b)') \in Nat
  BY <1>7, <1>8, CountRemove, FS_Subset, FS_CardinalityType, FS_RemoveElement
<1>10. /\ ref' \in [Block -> Nat] /\ ref'[b] = ref[b] - 1
       /\ \A c \in Block : c # b => ref'[c] = ref[c]
  <2>1. ref[b] - 1 \in Nat
    BY <1>7, <1>9
  <2> QED
    BY <2>1, <1>0, <1>3 DEF destroy, Inv, TypeOK
<1>11. TypeOK'
  <2>1. dying' \subseteq Block
    BY <1>0, <1>3 DEF destroy, Inv, TypeOK
  <2> QED
    BY <2>1, <1>1, <1>5, <1>10 DEF Inv, TypeOK
<1>12. RefsCover'
  <2>1. SUFFICES ASSUME NEW c \in Block
                 PROVE  Cardinality(Into(c)') <= ref'[c]
    BY DEF RefsCover, Into
  <2>2. CASE c = b
    BY <2>2, <1>7, <1>9, <1>10
  <2>3. CASE c # b
    <3>1. c # H
      BY DEF Block, H
    <3>2. Into(c)' \subseteq Into(c)
      BY <3>1, <1>5, <1>6 DEF Into
    <3>3. /\ IsFiniteSet(Into(c)) /\ Cardinality(Into(c)) \in Nat
          /\ Cardinality(Into(c)) <= ref[c] /\ ref[c] \in Nat
      BY IntoFacts
    <3> QED
      BY <2>3, <3>2, <3>3, <1>10, FS_Subset, FS_CardinalityType
  <2> QED
    BY <2>2, <2>3
<1>13. DyingUnused'
  <2>1. b \notin dying
    BY <1>7, <1>9 DEF Inv, DyingUnused
  <2>2. ref[b] <= 1 => ref'[b] = 0
    BY <1>7, <1>9, <1>10
  <2>3. dying' = dying \/ (dying' = dying \cup {b} /\ ref[b] <= 1)
    BY <1>0 DEF destroy
  <2> QED
    BY <2>1, <2>2, <2>3, <1>1, <1>3, <1>10 DEF Inv, DyingUnused, TypeOK
<1>14. GcQuiet' /\ Place' /\ Behind'
  BY <1>1, <1>4 DEF Inv, GcQuiet, Place, Behind
<1>15. RootsMarked' /\ ScannedMarked' /\ FreeEmpty' /\ NoDangling'
  <2>1. \A l \in Loc : mem'[l] # H => mem'[l] = mem[l]
    BY <1>5
  <2>2. RootsMarked'
    BY <2>1, <1>1 DEF Inv, RootsMarked, Loc
  <2>3. ScannedMarked'
    BY <2>1, <1>1 DEF Inv, ScannedMarked, Loc
  <2>4. FreeEmpty'
    BY <2>1, <1>1 DEF Inv, FreeEmpty, Loc
  <2>5. NoDangling'
    BY <2>1, <1>1, <1>6 DEF Inv, NoDangling
  <2> QED
    BY <2>2, <2>3, <2>4, <2>5
<1> QED
  BY <1>11, <1>12, <1>13, <1>14, <1>15 DEF Inv

LEMMA FreedInv ==
  ASSUME HeapAssumption, Inv, NEW n \in Block, Freed(n)
  PROVE  Inv'
<1>1. /\ alloc' = alloc \ {n} /\ color' = color /\ mutator' = mutator /\ nprop' = nprop
      /\ base' = base /\ ptr' = ptr /\ visit' = visit /\ prev' = prev /\ sweeper' = sweeper
      /\ mem' = mem /\ ref' = ref /\ dying' = dying \ {n}
      /\ n \in dying /\ \A f \in Field : mem[<<n, f>>] = H
  BY DEF Freed, pass, sweeper
<1>2. Into(n) = {}
  BY <1>1, IntoFacts DEF Inv, DyingUnused
<1>3. \A l \in Loc : Good(l)' => Good(l)
  BY <1>1 DEF Good
<1>4. visit = 0
  BY <1>1 DEF Inv, GcQuiet, TypeOK, HeapAssumption
<1>5. TypeOK'
  BY <1>1 DEF Inv, TypeOK
<1>6. GcQuiet' /\ DyingUnused' /\ Place' /\ Behind' /\ RootsMarked' /\ ScannedMarked'
  BY <1>1, <1>4 DEF Inv, GcQuiet, DyingUnused, Place, Behind, RootsMarked, ScannedMarked
<1>7. FreeEmpty'
  BY <1>1 DEF Inv, FreeEmpty, Cell
<1>8. NoDangling'
  <2>1. SUFFICES ASSUME NEW l \in Loc, Good(l)', mem[l] # H
                 PROVE  mem[l] \in alloc' /\ color[mem[l]] # sweeper
    BY <1>1 DEF NoDangling
  <2>2. Good(l) /\ mem[l] # n
    BY <2>1, <1>2, <1>3 DEF Into
  <2> QED
    BY <2>1, <2>2, <1>1 DEF Inv, NoDangling
<1>9. RefsCover'
  <2>1. SUFFICES ASSUME NEW c \in Block
                 PROVE  Cardinality(Into(c)') <= ref[c]
    BY <1>1 DEF RefsCover, Into
  <2>2. Into(c)' \subseteq Into(c)
    BY <1>1, <1>3 DEF Into
  <2> QED
    BY <2>2, IntoFacts, FS_Subset, FS_CardinalityType
<1> QED
  BY <1>5, <1>6, <1>7, <1>8, <1>9 DEF Inv

-----------------------------------------------------------------------------
(* rungc keeps it.                                                         *)

LEMMA BeginInv ==
  ASSUME HeapAssumption, Inv, Begin
  PROVE  Inv'
<1>1. /\ alloc' = alloc /\ color' = color /\ ref' = ref /\ mem' = mem /\ dying' = dying
      /\ mutator' = mutator /\ nprop' = nprop /\ sweeper' = sweeper
      /\ mem[tmp] = H /\ dying = {} /\ visit = 0 /\ prev' = -1
  BY DEF Begin, Quiet, heap, sweeper
<1>2. /\ ptr' = 0 \/ ptr' = ptr
      /\ visit' > 0 => base'
      /\ base' \/ visit' > 0 => ptr' = 0 \/ (base /\ ptr' = ptr)
      /\ base' \in BOOLEAN /\ visit' \in 0..Quanta
  <2>1. base \in BOOLEAN /\ Quanta \in Nat \ {0}
    BY DEF Inv, TypeOK, HeapAssumption
  <2>2. CASE ~base /\ base' = TRUE /\ ptr' = 0 /\ visit' = Quanta
    BY <2>1, <2>2
  <2>3. CASE base /\ visit' = Quanta /\ base' = base /\ ptr' = ptr
    BY <2>1, <2>3
  <2>4. CASE base /\ base' = FALSE /\ ptr' = ptr /\ visit' = visit
    <3>1. visit' \in 0..Quanta /\ ~(visit' > 0)
      BY <2>1, <2>4, <1>1
    <3> QED
      BY <3>1, <2>1, <2>4, <1>1
  <2> QED
    BY <2>2, <2>3, <2>4 DEF Begin
<1>3. TypeOK'
  BY <1>1, <1>2 DEF Inv, TypeOK, HeapAssumption
<1>4. \A l \in Loc : Good(l)' <=> Good(l)
  BY <1>1 DEF Good
<1>5. GcQuiet' /\ DyingUnused' /\ RootsMarked' /\ ScannedMarked' /\ FreeEmpty'
  BY <1>1 DEF Inv, GcQuiet, DyingUnused, RootsMarked, ScannedMarked, FreeEmpty
<1>6. NoDangling' /\ RefsCover'
  BY <1>1, <1>4 DEF Inv, NoDangling, RefsCover
<1>7. Place'
  BY <1>1, <1>2 DEF Place, Inv, TypeOK
<1>8. Behind'
  <2>1. SUFFICES ASSUME base' \/ visit' > 0, NEW b \in alloc, b < ptr'
                 PROVE  color[b] # sweeper /\ (nprop = 0 => color[b] # propagator)
    BY <1>1 DEF Behind
  <2>2. ~(b < 0)
    BY DEF Inv, TypeOK, Block
  <2> QED
    BY <2>1, <2>2, <1>2 DEF Inv, Behind
<1> QED
  BY <1>3, <1>5, <1>6, <1>7, <1>8 DEF Inv

\* What comes before y and is not between x and y does not come after x.
LEMMA NotBetween ==
  ASSUME NEW x \in Int, NEW y \in Int, NEW z \in Int, z < y, z \notin (x + 1)..(y - 1)
  PROVE  z < x \/ z = x
OBVIOUS

\* Between a block and the next none is allocated.
LEMMA AdvanceFacts ==
  ASSUME HeapAssumption, Inv, Visit, Advance
  PROVE  /\ ptr' \in 1..(N + 1) /\ ptr < ptr' /\ prev' = ptr /\ prev' \in -1..N
         /\ base' \in BOOLEAN /\ visit' \in 0..Quanta
         /\ \A b \in alloc : b < ptr' => b < ptr \/ b = ptr
         /\ Place'
<1>1. /\ prev' = ptr /\ ptr' \in 1..(N + 1) /\ ptr < ptr'
      /\ \A k \in (ptr + 1)..(ptr' - 1) : ~okbhdr(k, alloc)
  BY DEF Advance, B2NB
<1>2. /\ ptr \in 0..(N + 1) /\ visit \in 0..Quanta /\ visit > 0 /\ alloc \subseteq 1..N
      /\ N \in Nat /\ Quanta \in Nat
  BY DEF Inv, TypeOK, Visit, Block, HeapAssumption
<1>3. prev' \in -1..N
  BY <1>1, <1>2
<1>4. \/ ptr' = N + 1 /\ base' = FALSE /\ visit' = visit
      \/ visit' = visit - 1 /\ base' = TRUE
  BY DEF Advance, Visit
<1>5. visit' \in 0..Quanta
  BY <1>2, <1>4
<1>6. ASSUME NEW b \in alloc, b < ptr'
      PROVE  b < ptr \/ b = ptr
  <2>1. b \in 1..N
    BY <1>2
  <2>2. okbhdr(b, alloc)
    BY <2>1 DEF okbhdr
  <2>3. b \notin (ptr + 1)..(ptr' - 1)
    BY <2>2, <1>1
  <2> QED
    <3>1. ptr \in Int /\ ptr' \in Int /\ b \in Int
      BY <2>1, <1>1, <1>2
    <3> QED
      BY <2>3, <3>1, <1>6, NotBetween
<1>7. Place'
  BY <1>1, <1>2, <1>4 DEF Place
<1> QED
  BY <1>1, <1>3, <1>4, <1>5, <1>6, <1>7

LEMMA PassInv ==
  ASSUME HeapAssumption, Inv, Pass
  PROVE  Inv'
<1>1. /\ alloc' = alloc /\ color' = color /\ ref' = ref /\ mem' = mem /\ dying' = dying
      /\ mutator' = mutator /\ nprop' = nprop /\ sweeper' = sweeper
      /\ Visit /\ Advance /\ visit > 0 /\ base
      /\ ptr \in alloc => color[ptr] \in {mutator, marker}
  BY DEF Pass, heap, sweeper, Visit
<1>2. /\ ptr' \in 1..(N + 1) /\ prev' \in -1..N
      /\ base' \in BOOLEAN /\ visit' \in 0..Quanta
      /\ \A b \in alloc : b < ptr' => b < ptr \/ b = ptr
      /\ Place'
  BY <1>1, AdvanceFacts
<1>3. TypeOK'
  BY <1>1, <1>2 DEF Inv, TypeOK, HeapAssumption
<1>4. \A l \in Loc : Good(l)' <=> Good(l)
  BY <1>1 DEF Good
<1>5. DyingUnused' /\ RootsMarked' /\ ScannedMarked' /\ FreeEmpty'
  BY <1>1 DEF Inv, DyingUnused, RootsMarked, ScannedMarked, FreeEmpty
<1>6. GcQuiet'
  BY <1>1 DEF Inv, GcQuiet
<1>7. NoDangling' /\ RefsCover'
  BY <1>1, <1>4 DEF Inv, NoDangling, RefsCover
<1>8. mutator # sweeper /\ marker # sweeper /\ mutator # propagator /\ marker # propagator
  BY Colours DEF Inv, TypeOK
<1>9. Behind'
  BY <1>1, <1>2, <1>8 DEF Inv, Behind
<1> QED
  BY <1>2, <1>3, <1>5, <1>6, <1>7, <1>9 DEF Inv

LEMMA AgainInv ==
  ASSUME HeapAssumption, Inv, Again
  PROVE  Inv'
<1>1. /\ alloc' = alloc /\ color' = color /\ ref' = ref /\ mem' = mem /\ dying' = dying
      /\ mutator' = mutator /\ nprop' = 0 /\ sweeper' = sweeper
      /\ base' = FALSE /\ ptr' = ptr /\ visit' = 0 /\ prev' = -1
  BY DEF Again, heap, sweeper, Inv, TypeOK
<1>2. TypeOK'
  <2>1. 0 \in 0..Quanta /\ -1 \in -1..N
    BY DEF HeapAssumption
  <2> QED
    BY <2>1, <1>1 DEF Inv, TypeOK
<1>3. \A l \in Loc : Good(l)' <=> Good(l)
  BY <1>1 DEF Good
<1>4. DyingUnused' /\ RootsMarked' /\ ScannedMarked' /\ FreeEmpty'
  BY <1>1 DEF Inv, DyingUnused, RootsMarked, ScannedMarked, FreeEmpty
<1>5. NoDangling' /\ RefsCover'
  BY <1>1, <1>3 DEF Inv, NoDangling, RefsCover
<1>6. GcQuiet' /\ Behind' /\ Place'
  BY <1>1 DEF Inv, TypeOK, GcQuiet, Behind, Place
<1> QED
  BY <1>2, <1>4, <1>5, <1>6 DEF Inv

LEMMA ScanInv ==
  ASSUME HeapAssumption, Inv, Scan
  PROVE  Inv'
<1>0. PICK S : S = {mem[<<ptr, f>>] : f \in Field} \ {H, ptr}
  OBVIOUS
<1>1. /\ alloc' = alloc /\ ref' = ref /\ mem' = mem /\ dying' = dying
      /\ mutator' = mutator /\ sweeper' = sweeper
      /\ Visit /\ Advance /\ visit > 0 /\ base
      /\ ptr \in alloc /\ color[ptr] = propagator /\ ptr \in Block
      /\ color' = [Marked(S) EXCEPT ![ptr] = mutator]
      /\ nprop' = IF Marks(S) THEN 1 ELSE nprop
  BY <1>0 DEF Scan, heap, sweeper, Visit, Inv, TypeOK
<1>2. /\ ptr' \in 1..(N + 1) /\ prev' \in -1..N
      /\ base' \in BOOLEAN /\ visit' \in 0..Quanta
      /\ \A b \in alloc : b < ptr' => b < ptr \/ b = ptr
      /\ Place'
  BY <1>1, AdvanceFacts
<1>3. mutator \in 0..2 /\ mutator # sweeper /\ propagator # sweeper /\ propagator # mutator
      /\ propagator = 3
  BY Colours DEF Inv, TypeOK, propagator
<1>4. \A l \in Cell : l \in Loc /\ l[1] \in Block
  BY DEF Loc, Cell
<1>5. \A b \in S : b \in Block /\ b \in alloc /\ color[b] # sweeper /\ b # ptr
  <2>1. SUFFICES ASSUME NEW f \in Field, mem[<<ptr, f>>] # H
                 PROVE  /\ mem[<<ptr, f>>] \in alloc /\ mem[<<ptr, f>>] \in Block
                        /\ color[mem[<<ptr, f>>]] # sweeper
    BY <1>0
  <2>2. <<ptr, f>> \in Cell /\ <<ptr, f>>[1] = ptr
    BY <1>1 DEF Cell
  <2>3. <<ptr, f>> \in Loc /\ Good(<<ptr, f>>)
    BY <2>2, <1>1, <1>3, <1>4 DEF Good
  <2> QED
    BY <2>1, <2>3 DEF Inv, NoDangling, TypeOK
<1>6. /\ color' \in [Block -> 0..3] /\ color'[ptr] = mutator
      /\ \A b \in Block : b # ptr => color'[b] = IF b \in S /\ color[b] # mutator
                                                 THEN propagator ELSE color[b]
  <2>1. color \in [Block -> 0..3]
    BY DEF Inv, TypeOK
  <2> QED
    BY <2>1, <1>1, <1>3 DEF Marked
<1>7. \A b \in Block : /\ color'[b] = sweeper <=> color[b] = sweeper
                       /\ color[b] \in {mutator, propagator} => color'[b] \in {mutator, propagator}
                       /\ color'[b] = mutator => color[b] = mutator \/ b = ptr
                       /\ b \in S \cup {ptr} => color'[b] \in {mutator, propagator}
  BY <1>1, <1>3, <1>5, <1>6
<1>8. /\ nprop' \in {0, 1}
      /\ nprop' = 0 => nprop = 0 /\ \A b \in Block : b # ptr => color'[b] = color[b]
  <2>1. CASE Marks(S)
    BY <2>1, <1>1
  <2>2. CASE ~Marks(S)
    <3>1. \A b \in S : color[b] = mutator
      BY <2>2 DEF Marks
    <3>2. nprop' = nprop /\ nprop \in {0, 1}
      BY <2>2, <1>1 DEF Inv, TypeOK
    <3> QED
      BY <3>1, <3>2, <1>6
  <2> QED
    BY <2>1, <2>2
<1>9. \A l \in Loc : Good(l)' <=> Good(l)
  BY <1>1, <1>4, <1>7 DEF Good
<1>10. TypeOK'
  BY <1>1, <1>2, <1>6, <1>8 DEF Inv, TypeOK
<1>11. GcQuiet' /\ DyingUnused' /\ FreeEmpty'
  BY <1>1 DEF Inv, GcQuiet, DyingUnused, FreeEmpty
<1>12. RootsMarked'
  BY <1>1, <1>7 DEF Inv, RootsMarked, TypeOK, Loc
<1>13. ScannedMarked'
  <2>1. SUFFICES ASSUME NEW l \in Cell, l[1] \in alloc, color'[l[1]] = mutator, mem[l] # H
                 PROVE  color'[mem[l]] \in {mutator, propagator}
    BY <1>1 DEF ScannedMarked
  <2>2. mem[l] \in Block
    BY <2>1, <1>4 DEF Inv, TypeOK
  <2>3. CASE l[1] = ptr
    <3>1. l = <<ptr, l[2]>> /\ l[2] \in Field
      BY <2>3 DEF Cell
    <3>2. mem[l] \in S \cup {ptr}
      BY <3>1, <2>1, <1>0
    <3> QED
      BY <3>2, <2>2, <1>7
  <2>4. CASE l[1] # ptr
    BY <2>1, <2>2, <2>4, <1>4, <1>7 DEF Inv, ScannedMarked
  <2> QED
    BY <2>3, <2>4
<1>14. Behind'
  <2>1. SUFFICES ASSUME NEW b \in alloc, b < ptr'
                 PROVE  color'[b] # sweeper /\ (nprop' = 0 => color'[b] # propagator)
    BY <1>1 DEF Behind
  <2>2. b \in Block
    BY DEF Inv, TypeOK
  <2>3. CASE b = ptr
    BY <2>3, <1>3, <1>6
  <2>4. CASE b < ptr /\ b # ptr
    BY <2>2, <2>4, <1>1, <1>7, <1>8 DEF Inv, Behind
  <2> QED
    BY <2>1, <2>3, <2>4, <1>2
<1>15. NoDangling'
  <2>1. SUFFICES ASSUME NEW l \in Loc, Good(l), mem[l] # H
                 PROVE  mem[l] \in alloc /\ color'[mem[l]] # sweeper
    BY <1>1, <1>9 DEF NoDangling
  <2> QED
    BY <2>1, <1>7 DEF Inv, NoDangling, TypeOK
<1>16. RefsCover'
  BY <1>1, <1>9 DEF Inv, RefsCover
<1> QED
  BY <1>2, <1>10, <1>11, <1>12, <1>13, <1>14, <1>15, <1>16 DEF Inv

LEMMA SweepInv ==
  ASSUME HeapAssumption, Inv, Sweep
  PROVE  Inv'
<1>1. /\ alloc' = alloc \ {ptr} /\ color' = color /\ ref' = ref /\ dying' = dying
      /\ mutator' = mutator /\ nprop' = nprop /\ sweeper' = sweeper
      /\ visit > 0 /\ base /\ ptr \in alloc /\ color[ptr] = sweeper
      /\ mem' = [l \in Loc |-> IF l \in {ptr} \X Field THEN H ELSE mem[l]]
  BY DEF Sweep, sweeper, Visit
<1>2. \A l \in Cell : l \in Loc /\ l[1] \in Block /\ l # tmp /\ l \notin Root
  BY DEF Loc, Cell, HeapAssumption
<1>3. /\ mem' \in [Loc -> Block \cup {H}]
      /\ \A l \in Loc : mem'[l] = H \/ mem'[l] = mem[l]
      /\ \A l \in Cell : l[1] = ptr => mem'[l] = H
      /\ \A l \in Loc : (l \in Cell => l[1] # ptr) => mem'[l] = mem[l]
  <2>1. mem \in [Loc -> Block \cup {H}] /\ ptr \in Block
    BY <1>1 DEF Inv, TypeOK
  <2>2. \A l \in Loc : l \in {ptr} \X Field <=> l \in Cell /\ l[1] = ptr
    BY <2>1 DEF Cell
  <2> QED
    BY <2>1, <2>2, <1>1, <1>2
<1>4. \A l \in Loc : Good(l)' <=> Good(l)
  BY <1>1, <1>2 DEF Good
<1>5. \A l \in Loc : Good(l) => mem'[l] = mem[l]
  <2>1. \A l \in Loc : Good(l) /\ l \in Cell => l[1] # ptr
    BY <1>1, <1>2 DEF Good
  <2> QED
    BY <2>1, <1>3
<1>6. dying = {} /\ mem[tmp] = H
  BY <1>1 DEF Inv, GcQuiet
<1>7. \/ /\ ptr' = prev /\ prev >= 0 /\ visit' = visit - 1 /\ base' = base /\ prev' = prev
      \/ /\ base' = FALSE /\ visit' = 0 /\ prev' = -1 /\ ptr' = ptr
  BY DEF Sweep, okbhdr
<1>8. /\ ptr' \in 0..(N + 1) /\ visit' \in 0..Quanta /\ prev' \in -1..N
      /\ ptr' <= ptr /\ prev' <= ptr' /\ base' \in BOOLEAN
      /\ base' \/ visit' > 0 => base'
  <2>1. /\ ptr \in 0..(N + 1) /\ visit \in 0..Quanta /\ prev \in -1..N /\ prev <= ptr
        /\ N \in Nat /\ Quanta \in Nat
    BY DEF Inv, TypeOK, Place, HeapAssumption
  <2>2. CASE ptr' = prev /\ prev >= 0 /\ visit' = visit - 1 /\ base' = base /\ prev' = prev
    BY <2>1, <2>2, <1>1
  <2>3. CASE base' = FALSE /\ visit' = 0 /\ prev' = -1 /\ ptr' = ptr
    <3>1. /\ ptr' \in 0..(N + 1) /\ visit' \in 0..Quanta /\ prev' \in -1..N
          /\ ptr' <= ptr /\ prev' <= ptr' /\ ~(visit' > 0)
      BY <2>1, <2>3
    <3> QED
      BY <3>1, <2>3
  <2> QED
    BY <2>2, <2>3, <1>7
<1>9. TypeOK'
  BY <1>1, <1>3, <1>8 DEF Inv, TypeOK
<1>10. GcQuiet' /\ DyingUnused' /\ Place'
  <2>1. tmp \in Loc /\ tmp \notin Cell
    BY DEF Loc, HeapAssumption
  <2>2. mem'[tmp] = H
    BY <2>1, <1>3, <1>6
  <2> QED
    BY <2>2, <1>1, <1>6, <1>8 DEF GcQuiet, DyingUnused, Place
<1>11. RootsMarked' /\ ScannedMarked'
  <2>1. RootsMarked'
    BY <1>1, <1>3 DEF Inv, RootsMarked, Loc
  <2>2. ScannedMarked'
    BY <1>1, <1>2, <1>3 DEF Inv, ScannedMarked
  <2> QED
    BY <2>1, <2>2
<1>12. FreeEmpty'
  <2>1. SUFFICES ASSUME NEW l \in Cell, l[1] \notin alloc'
                 PROVE  mem'[l] = H
    BY DEF FreeEmpty
  <2> QED
    BY <2>1, <1>1, <1>2, <1>3 DEF Inv, FreeEmpty
<1>13. Behind'
  <2>1. SUFFICES ASSUME NEW b \in alloc, b < ptr'
                 PROVE  color[b] # sweeper /\ (nprop = 0 => color[b] # propagator)
    BY <1>1 DEF Behind
  <2>2. b < ptr
    <3>1. b \in Int /\ ptr \in Int /\ ptr' \in Int
      BY <1>8 DEF Inv, TypeOK, Block
    <3> QED
      BY <2>1, <3>1, <1>8
  <2> QED
    BY <2>2, <1>1 DEF Inv, Behind
<1>14. NoDangling'
  <2>1. SUFFICES ASSUME NEW l \in Loc, Good(l), mem'[l] # H
                 PROVE  mem'[l] \in alloc' /\ color[mem'[l]] # sweeper
    BY <1>1, <1>4 DEF NoDangling
  <2> QED
    BY <2>1, <1>1, <1>5 DEF Inv, NoDangling
<1>15. RefsCover'
  <2>1. \A b \in Block : {l \in Loc : Good(l)' /\ mem'[l] = b} = {l \in Loc : Good(l) /\ mem[l] = b}
    BY <1>4, <1>5
  <2> QED
    BY <2>1, <1>1 DEF Inv, RefsCover
<1> QED
  BY <1>9, <1>10, <1>11, <1>12, <1>13, <1>14, <1>15 DEF Inv

LEMMA RootsetInv ==
  ASSUME HeapAssumption, Inv, rootset
  PROVE  Inv'
<1>0. PICK S : S = {mem[r] : r \in Root} \ {H}
  OBVIOUS
<1>1. /\ alloc' = alloc /\ ref' = ref /\ mem' = mem /\ dying' = dying
      /\ base' = base /\ ptr' = ptr /\ visit' = 0 /\ prev' = -1
      /\ visit > 0 /\ ~base /\ nprop = 0 /\ mutator' = (mutator + 1) % 3
      /\ color' = [b \in Block |-> IF b \in S /\ color[b] # mutator' THEN propagator
                                                                    ELSE color[b]]
      /\ nprop' = IF \E b \in S : color[b] # mutator' THEN 1 ELSE 0
  BY <1>0 DEF rootset
<1>2. /\ mutator \in 0..2 /\ mutator # marker /\ mutator # sweeper /\ marker # sweeper
      /\ {mutator, marker, sweeper} = 0..2
      /\ propagator \notin {mutator, marker, sweeper} /\ propagator = 3
      /\ mutator' = sweeper /\ sweeper' = marker
  BY <1>1, Colours DEF Inv, TypeOK, sweeper, propagator
<1>3. color \in [Block -> 0..3] /\ alloc \subseteq Block
  BY DEF Inv, TypeOK
<1>4. \A b \in alloc : color[b] = mutator \/ color[b] = marker
  <2>1. SUFFICES ASSUME NEW b \in alloc
                 PROVE  color[b] = mutator \/ color[b] = marker
    OBVIOUS
  <2>2. b < ptr
    <3>1. ptr = N + 1
      BY <1>1 DEF Inv, Place
    <3>2. b \in 1..N /\ N \in Nat
      BY DEF Inv, TypeOK, Block, HeapAssumption
    <3> QED
      BY <3>1, <3>2
  <2>3. color[b] # sweeper /\ color[b] # propagator
    BY <2>2, <1>1 DEF Inv, Behind
  <2>4. color[b] \in 0..3
    BY <1>3
  <2>5. color[b] \in 0..2
    BY <2>3, <2>4, <1>2
  <2> QED
    BY <2>3, <2>5, <1>2
<1>5. \A r \in Root : mem[r] # H => mem[r] \in alloc /\ mem[r] \in S
  <2>1. \A r \in Root : r \in Loc /\ Good(r)
    BY DEF Loc, Good
  <2> QED
    BY <2>1, <1>0 DEF Inv, NoDangling
<1>6. \A b \in S : b \in alloc /\ b \in Block /\ color[b] = mutator
  <2>1. SUFFICES ASSUME NEW r \in Root, mem[r] # H
                 PROVE  mem[r] \in alloc /\ mem[r] \in Block /\ color[mem[r]] = mutator
    BY <1>0
  <2>2. color[mem[r]] \in {mutator, propagator}
    BY <2>1 DEF Inv, RootsMarked
  <2> QED
    BY <2>1, <2>2, <1>2, <1>3, <1>4, <1>5
<1>7. /\ color' \in [Block -> 0..3]
      /\ \A b \in Block : color'[b] = IF b \in S THEN propagator ELSE color[b]
  BY <1>1, <1>2, <1>3, <1>6
<1>8. \A b \in alloc : /\ color'[b] # mutator'
                       /\ color'[b] # sweeper' => color[b] = mutator
                       /\ color[b] = mutator => color'[b] # sweeper'
  BY <1>2, <1>3, <1>4, <1>6, <1>7
<1>9. \A l \in Loc : Good(l)' => Good(l)
  BY <1>1, <1>2, <1>4 DEF Good
<1>10. dying = {} /\ mem[tmp] = H
  BY <1>1 DEF Inv, GcQuiet
<1>11. TypeOK'
  <2>1. mutator' \in 0..2
    BY <1>2
  <2>2. nprop' \in {0, 1}
    BY <1>1
  <2>3. 0 \in 0..Quanta /\ -1 \in -1..N
    BY DEF HeapAssumption
  <2> QED
    BY <2>1, <2>2, <2>3, <1>1, <1>7 DEF Inv, TypeOK
<1>12. GcQuiet' /\ DyingUnused' /\ FreeEmpty'
  BY <1>1, <1>10 DEF Inv, GcQuiet, DyingUnused, FreeEmpty
<1>13. Behind' /\ Place'
  <2>1. ~(visit' > 0) /\ ~base' /\ prev' <= ptr'
    BY <1>1 DEF Inv, TypeOK
  <2> QED
    BY <2>1 DEF Behind, Place
<1>14. RootsMarked'
  <2>1. SUFFICES ASSUME NEW r \in Root, mem[r] # H
                 PROVE  color'[mem[r]] = propagator
    BY <1>1 DEF RootsMarked, propagator
  <2> QED
    BY <2>1, <1>5, <1>6, <1>7
<1>15. ScannedMarked'
  BY <1>1, <1>8 DEF ScannedMarked
<1>16. NoDangling'
  <2>1. SUFFICES ASSUME NEW l \in Loc, Good(l)', mem[l] # H
                 PROVE  mem[l] \in alloc /\ color[mem[l]] = mutator
    BY <1>1, <1>8 DEF NoDangling
  <2>2. CASE l \in Root
    BY <2>1, <2>2, <1>5, <1>6
  <2>3. CASE l = tmp
    BY <2>1, <2>3, <1>10
  <2>4. CASE l \in Cell /\ l \notin Root /\ l # tmp
    <3>1. l[1] \in alloc /\ color[l[1]] = mutator
      BY <2>1, <2>4, <1>1, <1>8 DEF Good
    <3>2. color[mem[l]] \in {mutator, propagator}
      BY <3>1, <2>1, <2>4 DEF Inv, ScannedMarked
    <3>3. mem[l] \in alloc
      BY <2>1, <1>9 DEF Inv, NoDangling
    <3> QED
      BY <3>2, <3>3, <1>2, <1>4
  <2> QED
    BY <2>2, <2>3, <2>4 DEF Loc
<1>17. RefsCover'
  <2>1. SUFFICES ASSUME NEW c \in Block
                 PROVE  Cardinality(Into(c)') <= ref[c]
    BY <1>1 DEF RefsCover, Into
  <2>2. Into(c)' \subseteq Into(c)
    BY <1>1, <1>9 DEF Into
  <2> QED
    BY <2>2, IntoFacts, FS_Subset, FS_CardinalityType
<1> QED
  BY <1>11, <1>12, <1>13, <1>14, <1>15, <1>16, <1>17 DEF Inv

-----------------------------------------------------------------------------
LEMMA NextInv ==
  ASSUME HeapAssumption, Inv, [Next]_vars
  PROVE  Inv'
<1>1. CASE Mutate
  <2>1. CASE \E d \in Addr : \E sv \in {mem[l] : l \in Addr} \cup {H} : movp(d, sv)
    BY <2>1, MovpInv
  <2>2. CASE \E d \in Addr, b \in Block : new(d, b)
    BY <2>2, NewInv
  <2> QED
    BY <1>1, <2>1, <2>2 DEF Mutate
<1>2. CASE Destroy
  <2>1. CASE \E l \in Loc : (l = tmp \/ (l \in Cell /\ l[1] \in dying)) /\ destroy(l)
    BY <2>1, DestroyInv
  <2>2. CASE \E b \in Block : Freed(b)
    BY <2>2, FreedInv
  <2> QED
    BY <1>2, <2>1, <2>2 DEF Destroy
<1>3. CASE Rungc
  BY <1>3, BeginInv, ScanInv, SweepInv, PassInv, AgainInv, RootsetInv DEF Rungc
<1>4. CASE UNCHANGED vars
  <2>1. /\ alloc' = alloc /\ color' = color /\ ref' = ref /\ mem' = mem /\ dying' = dying
        /\ mutator' = mutator /\ nprop' = nprop /\ sweeper' = sweeper
        /\ base' = base /\ ptr' = ptr /\ visit' = visit /\ prev' = prev
    BY <1>4 DEF vars, heap, pass, sweeper
  <2>2. \A l \in Loc : Good(l)' <=> Good(l)
    BY <2>1 DEF Good
  <2>3. TypeOK' /\ GcQuiet' /\ DyingUnused' /\ Behind' /\ Place'
    BY <2>1 DEF Inv, TypeOK, GcQuiet, DyingUnused, Behind, Place
  <2>4. RootsMarked' /\ ScannedMarked' /\ FreeEmpty'
    BY <2>1 DEF Inv, RootsMarked, ScannedMarked, FreeEmpty
  <2>5. NoDangling' /\ RefsCover'
    BY <2>1, <2>2 DEF Inv, NoDangling, RefsCover
  <2> QED
    BY <2>3, <2>4, <2>5 DEF Inv
<1> QED
  BY <1>1, <1>2, <1>3, <1>4 DEF Next

\* The invariant holds of every state that threads and rungc can bring about.
LEMMA Invariant ==
  ASSUME HeapAssumption
  PROVE  Spec => []Inv
<1>1. Init => Inv
  BY InitInv
<1>2. Inv /\ [Next]_vars => Inv'
  BY NextInv
<1> QED
  BY <1>1, <1>2, PTL DEF Spec

\* Neither destroy nor rungc frees a block that a thread can still come to, nor does a
\* change of colours give such a block to the sweeper (gc.c: rungc, rootset; heap.c:
\* destroy), whatever threads do between two calls of rungc.
THEOREM NothingReachableFreed ==
  ASSUME HeapAssumption
  PROVE  Spec => []NoDangling
<1>1. Inv => NoDangling
  BY DEF Inv
<1> QED
  BY <1>1, Invariant, PTL

\* The count of a block is never smaller than the number of pointers to it, not counting
\* those in blocks about to be swept (xec.c: movp; heap.c: destroy).
THEOREM CountsNeverShort ==
  ASSUME HeapAssumption
  PROVE  Spec => []RefsCover
<1>1. Inv => RefsCover
  BY DEF Inv
<1> QED
  BY <1>1, Invariant, PTL

=============================================================================
