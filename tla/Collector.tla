----------------------------- MODULE Collector -----------------------------
(***************************************************************************)
(* Reference counts and the collector of cycles, interp/gc.c and heap.c.   *)
(* Threads move pointers, counting and marking as they go (movp); destroy  *)
(* frees what has no reference left.  Between the turns of threads rungc   *)
(* goes through the heap, a few blocks at a time: it scans the blocks that *)
(* are marked (propagator), frees those of the sweeper's colour, and when  *)
(* a whole pass has marked nothing the colours change places and the       *)
(* roots are marked anew.                                                  *)
(*                                                                         *)
(* The heap is one arena of N slots of a size, behind its leader, slot 0.  *)
(* poolfree joins a free slot to a free one before it, whose header is     *)
(* then gone.  A location is a root (a cell of a frame or of module data), *)
(* a pointer field of a block, or tmp, where an instruction keeps a        *)
(* pointer it has replaced until destroy is through with it.  Blocks are   *)
(* of types whose free function keeps the VM, so that destroy and rungc    *)
(* run to their end: not file descriptors, nor file2chan's channels.       *)
(***************************************************************************)
EXTENDS Integers, FiniteSets

CONSTANTS N, Root, Field, tmp,
          Quanta     \* blocks visited in a call of rungc

H == 0
Block == 1..N
Cell == Block \X Field
Loc == Root \cup {tmp} \cup Cell

HeapAssumption ==
  /\ N \in Nat /\ Quanta \in Nat \ {0}
  /\ IsFiniteSet(Root) /\ IsFiniteSet(Field)
  /\ tmp \notin Root /\ tmp \notin Cell /\ Root \cap Cell = {}

VARIABLES
  alloc,             \* blocks whose header says MAGIC_A
  color, ref,        \* Heap.color, Heap.ref
  mem,               \* what each location points to
  dying,             \* blocks that destroy is freeing, their fields first
  mutator, nprop,    \* the colour of what is alive; whether anything has been marked
  base, ptr,         \* a pass is under way; its place
  visit, prev        \* in rungc: blocks left to visit (0 outside), the one before ptr

heap == <<alloc, color, ref, mem, dying>>
pass == <<base, ptr, visit, prev>>
vars == <<heap, mutator, nprop, pass>>

\* The colours.  (Until the first rootset the code has marker and sweeper the other way
\* round, when nothing has either colour.)
propagator == 3
marker == (mutator + 2) % 3
sweeper == (mutator + 1) % 3

TypeOK ==
  /\ alloc \subseteq Block /\ color \in [Block -> 0..3] /\ ref \in [Block -> Nat]
  /\ mem \in [Loc -> Block \cup {H}] /\ dying \subseteq Block
  /\ mutator \in 0..2 /\ nprop \in {0, 1}
  /\ base \in BOOLEAN /\ ptr \in 0..(N + 1) /\ visit \in 0..Quanta /\ prev \in -1..N

Init ==
  /\ alloc = {} /\ color = [b \in Block |-> 0] /\ ref = [b \in Block |-> 0]
  /\ mem = [l \in Loc |-> H] /\ dying = {}
  /\ mutator = 0 /\ nprop = 0
  /\ base = FALSE /\ ptr = 0 /\ visit = 0 /\ prev = -1

-----------------------------------------------------------------------------
(* Instructions.                                                           *)

\* destroy has done all it has to, and rungc is not running.
Quiet == mem[tmp] = H /\ dying = {} /\ visit = 0

\* What an instruction can name: a root, or a field of a block a root points to.
Addr == Root \cup {l \in Cell : \E r \in Root : mem[r] = l[1]}

\* Setmark, of each block in S.
Marked(S) == [b \in Block |-> IF b \in S /\ color[b] # mutator THEN propagator ELSE color[b]]
Marks(S) == \E b \in S : color[b] # mutator

\* P(d) = sv, or H; the pointer that was there is destroyed.
movp(d, sv) ==
  /\ Quiet
  /\ mem' = [mem EXCEPT ![d] = sv, ![tmp] = mem[d]]
  /\ ref' = IF sv = H THEN ref ELSE [ref EXCEPT ![sv] = @ + 1]
  /\ color' = Marked({sv} \ {H})
  /\ nprop' = IF Marks({sv} \ {H}) THEN 1 ELSE nprop
  /\ UNCHANGED <<alloc, dying, mutator, pass>>

\* A block of the live colour, with nothing in its fields.
new(d, b) ==
  /\ Quiet /\ b \notin alloc
  /\ alloc' = alloc \cup {b}
  /\ color' = [color EXCEPT ![b] = mutator] /\ ref' = [ref EXCEPT ![b] = 1]
  /\ mem' = [mem EXCEPT ![d] = b, ![tmp] = mem[d]]
  /\ UNCHANGED <<dying, mutator, nprop, pass>>

\* destroy of the pointer at l: one reference less, and with the last the block goes.
destroy(l) ==
  /\ mem[l] # H
  /\ mem' = [mem EXCEPT ![l] = H]
  /\ ref' = [ref EXCEPT ![mem[l]] = @ - 1]
  /\ dying' = IF ref[mem[l]] <= 1 THEN dying \cup {mem[l]} ELSE dying
  /\ UNCHANGED <<alloc, color, mutator, nprop, pass>>
\* t->free has destroyed the fields; poolfree.
Freed(b) ==
  /\ b \in dying /\ \A f \in Field : mem[<<b, f>>] = H
  /\ dying' = dying \ {b} /\ alloc' = alloc \ {b}
  /\ UNCHANGED <<color, ref, mem, mutator, nprop, pass>>

-----------------------------------------------------------------------------
(* rungc.                                                                  *)

\* The header at slot i is one, the blocks in A being allocated.
okbhdr(i, A) == i >= 0 /\ (i = 0 \/ i \in A \/ i - 1 \in A \cup {0})
\* The block after the one at i is at j, or i is in the last and j the end.
B2NB(i, j) ==
  /\ i < j /\ (j = N + 1 \/ okbhdr(j, alloc))
  /\ \A k \in (i + 1)..(j - 1) : ~okbhdr(k, alloc)

\* A pass is begun, or gone on with if its place is still a block.
Begin ==
  /\ Quiet
  /\ \/ ~base /\ base' = TRUE /\ ptr' = 0 /\ visit' = Quanta
     \/ base /\ okbhdr(ptr, alloc) /\ visit' = Quanta /\ UNCHANGED <<base, ptr>>
     \/ base /\ ~okbhdr(ptr, alloc) /\ base' = FALSE /\ UNCHANGED <<ptr, visit>>
  /\ prev' = -1
  /\ UNCHANGED <<heap, mutator, nprop>>

\* On to the next block, or to the end of the pass.
Advance ==
  /\ prev' = ptr /\ ptr' \in 1..(N + 1) /\ B2NB(ptr, ptr')
  /\ IF ptr' = N + 1
     THEN base' = FALSE /\ UNCHANGED visit
     ELSE visit' = visit - 1 /\ UNCHANGED base

Visit == visit > 0 /\ base

\* A block that is marked: alive, and what it points to is marked.
Scan ==
  LET S == {mem[<<ptr, f>>] : f \in Field} \ {H, ptr} IN
  /\ Visit /\ ptr \in alloc /\ color[ptr] = propagator
  /\ color' = [Marked(S) EXCEPT ![ptr] = mutator]
  /\ nprop' = IF Marks(S) THEN 1 ELSE nprop
  /\ Advance
  /\ UNCHANGED <<alloc, ref, mem, dying, mutator>>
\* A block of the sweeper's colour: freed, what it points to being left as it is.
Sweep ==
  /\ Visit /\ ptr \in alloc /\ color[ptr] = sweeper
  /\ alloc' = alloc \ {ptr}
  /\ mem' = [l \in Loc |-> IF l \in {ptr} \X Field THEN H ELSE mem[l]]
  /\ IF okbhdr(prev, alloc \ {ptr})
     THEN ptr' = prev /\ visit' = visit - 1 /\ UNCHANGED <<base, prev>>
     ELSE base' = FALSE /\ visit' = 0 /\ prev' = -1 /\ UNCHANGED ptr
  /\ UNCHANGED <<color, ref, dying, mutator, nprop>>
Pass ==
  /\ Visit /\ (ptr \in alloc => color[ptr] \in {mutator, marker})
  /\ Advance
  /\ UNCHANGED <<heap, mutator, nprop>>

\* The end of a pass: another, if anything was marked in this one; or the colours are
\* changed, and the roots marked (rootset).
Again ==
  /\ visit > 0 /\ ~base /\ nprop = 1
  /\ nprop' = 0 /\ visit' = 0 /\ prev' = -1
  /\ UNCHANGED <<heap, mutator, base, ptr>>
rootset ==
  LET S == {mem[r] : r \in Root} \ {H} IN
  /\ visit > 0 /\ ~base /\ nprop = 0
  /\ mutator' = (mutator + 1) % 3
  /\ color' = [b \in Block |-> IF b \in S /\ color[b] # mutator' THEN propagator ELSE color[b]]
  /\ nprop' = IF \E b \in S : color[b] # mutator' THEN 1 ELSE 0
  /\ visit' = 0 /\ prev' = -1
  /\ UNCHANGED <<alloc, ref, mem, dying, base, ptr>>

-----------------------------------------------------------------------------
Mutate ==
  \/ \E d \in Addr : \E sv \in {mem[l] : l \in Addr} \cup {H} : movp(d, sv)
  \/ \E d \in Addr, b \in Block : new(d, b)
Destroy ==
  \/ \E l \in Loc : (l = tmp \/ (l \in Cell /\ l[1] \in dying)) /\ destroy(l)
  \/ \E b \in Block : Freed(b)
Rungc == Begin \/ Scan \/ Sweep \/ Pass \/ Again \/ rootset

Next == Mutate \/ Destroy \/ Rungc

Spec == Init /\ [][Next]_vars
FairSpec == Spec /\ WF_vars(Destroy) /\ WF_vars(Rungc)

-----------------------------------------------------------------------------
(* Properties.                                                             *)

\* A location that can matter: not a field of a block that is waiting to be swept.
Good(l) == l \in Root \cup {tmp} \/ (l \in Cell /\ l[1] \in alloc /\ color[l[1]] # sweeper)

\* Nothing that a thread can come to, however far, is freed or about to be swept.
NoDangling ==
  \A l \in Loc : Good(l) /\ mem[l] # H => mem[l] \in alloc /\ color[mem[l]] # sweeper

\* No count is too small.
RefsCover == \A b \in Block : Cardinality({l \in Loc : Good(l) /\ mem[l] = b}) <= ref[b]

\* When threads leave pointers alone, what they cannot come to is freed in the end.
Reached ==
  LET step(S) == S \cup ({mem[l] : l \in S \X Field} \ {H})
      reach[n \in 0..N] == IF n = 0 THEN {mem[r] : r \in Root} \ {H} ELSE step(reach[n - 1])
  IN  reach[N]
Collected == <>[][~Mutate]_vars => []<>(alloc \subseteq Reached)

=============================================================================
