------------------------------ MODULE PMMProofs ------------------------------
(***************************************************************************)
(* Proofs about the physical memory manager, for every memory map, every   *)
(* page size and every kernel size.                                        *)
(***************************************************************************)
EXTENDS PMM, ArithmeticLemmas

(* What the constructor derives from one entry of the loader's map: the    *)
(* bitmap of a zone has a bit for each of its pages.                       *)
LEMMA ZoneFacts ==
    ASSUME NEW z \in Zones
    PROVE  /\ Start(z) \in 0..(AddrSpace - 1)
           /\ PageCount(z) \in Nat
           /\ BitmapBytes(z) \in Nat \ {0}
           /\ PageCount(z) < BitsPerByte * BitmapBytes(z)
<1>1. LoaderMap[z] \in LoaderEntry
  BY LoaderAssumption DEF Zones
<1>2. LoaderMap[z].addr \in Nat /\ LoaderMap[z].len \in Nat
  BY <1>1 DEF LoaderEntry
<1>3. Start(z) \in 0..(AddrSpace - 1) /\ Length(z) \in Nat
  <2>1. ASSUME NEW x \in Nat
        PROVE  x % AddrSpace \in 0..(AddrSpace - 1) /\ x % AddrSpace \in Nat
    BY SizesAssumption
  <2>2. LoaderMap[z].addr % AddrSpace \in 0..(AddrSpace - 1)
    BY <1>2, <2>1
  <2>3. LoaderMap[z].len % AddrSpace \in Nat
    BY <1>2, <2>1
  <2> QED
    BY <2>2, <2>3 DEF Start, Length
<1>4. PageCount(z) \in Nat
  BY <1>3, SizesAssumption, DivisionRoundsDown DEF PageCount
<1>5. /\ PageCount(z) \div BitsPerByte \in Nat
      /\ PageCount(z) < BitsPerByte * ((PageCount(z) \div BitsPerByte) + 1)
  BY <1>4, SizesAssumption, DivisionRoundsDown
<1> QED
  BY <1>3, <1>4, <1>5 DEF BitmapBytes

-----------------------------------------------------------------------------
(* Bits of the pool. *)

(* Each page of each laid zone has a bit of its own: the bits of a run of  *)
(* pages inside a zone are, among the bits of all pages, those of the run. *)
LEMMA RunBits ==
    ASSUME TypeOK, Layout,
           NEW y \in Laid, NEW z \in Laid,
           NEW q \in 0..(PageCount(y) - 1),
           NEW p \in Nat, NEW n \in Nat, p + n =< PageCount(z)
    PROVE  Bit(y, q) \in BitRun(z, p, n) <=> <<y, q>> \in FrameRun(z, p, n)
<1> DEFINE base(x) == BitsPerByte * alloc_bitmap[x]
           size(x) == BitsPerByte * BitmapBytes(x)
<1>1. y \in Zones /\ z \in Zones /\ Laid \subseteq Zones /\ Zones \subseteq Int
  BY DEF Laid, Zones
<1>2. \A x \in Zones :
         /\ base(x) \in Nat
         /\ PageCount(x) \in Nat
         /\ PageCount(x) < size(x)
         /\ size(x) \in Nat
  BY ZoneFacts, SizesAssumption DEF TypeOK
<1>3. ASSUME NEW u \in Laid, NEW v \in Laid, u < v
      PROVE  base(u) + size(u) =< base(v)
  <2>1. alloc_bitmap[u] + BitmapBytes(u) =< alloc_bitmap[v]
    BY <1>3 DEF Layout
  <2>2. alloc_bitmap[u] \in Nat /\ alloc_bitmap[v] \in Nat /\ BitmapBytes(u) \in Nat
    BY <1>1, ZoneFacts DEF TypeOK
  <2>3. BitsPerByte * (alloc_bitmap[u] + BitmapBytes(u)) =< BitsPerByte * alloc_bitmap[v]
    BY <2>1, <2>2, MulMonotone, SizesAssumption
  <2>4. BitsPerByte * (alloc_bitmap[u] + BitmapBytes(u)) = base(u) + size(u)
    BY <2>2, SizesAssumption
  <2> QED
    BY <2>3, <2>4
<1> HIDE DEF base, size
<1>4. Bit(y, q) = base(y) + q /\ \A i \in Nat : Bit(z, i) = base(z) + i
  BY DEF Bit, base
<1>5. CASE y = z
  BY <1>1, <1>2, <1>4, <1>5 DEF BitRun, FrameRun
<1>6. ASSUME y # z, NEW i \in p..(p + n - 1)
      PROVE  Bit(y, q) # Bit(z, i)
  <2>1. i \in Nat /\ i < PageCount(z) /\ q \in Nat /\ q < PageCount(y)
    BY <1>1, <1>2
  <2>2. CASE y < z
    BY <1>1, <1>2, <1>3, <1>4, <2>1, <2>2
  <2>3. CASE z < y
    BY <1>1, <1>2, <1>3, <1>4, <2>1, <2>3
  <2> QED
    BY <1>1, <1>6, <2>2, <2>3
<1>7. CASE y # z
  BY <1>6, <1>7 DEF BitRun, FrameRun
<1> QED
  BY <1>5, <1>7

-----------------------------------------------------------------------------
(* The steps. *)

(* The invariant when the constructor starts: no zone is laid. *)
LEMMA InitInv == Init => PMMInv
<1> SUFFICES ASSUME Init PROVE PMMInv
  OBVIOUS
<1>1. Len(LoaderMap) \in Nat
  BY LoaderAssumption
<1>2. Laid = {}
  BY <1>1 DEF Init, Laid, Zones
<1>3. TypeOK
  <2>1. kend \in Nat
    BY <1>1, SizesAssumption DEF Init
  <2>2. /\ alloc_bitmap \in [Zones -> Nat]
        /\ first_free_addr \in [Zones -> 0..(AddrSpace - 1)]
    BY SizesAssumption DEF Init
  <2>3. bits \subseteq Bits
    BY BoundsAssumption DEF Init
  <2>4. next \in 1..(Len(LoaderMap) + 1)
    BY <1>1 DEF Init
  <2> QED
    BY <2>1, <2>2, <2>3, <2>4 DEF Init, TypeOK
<1>4. Layout
  BY <1>1, <1>2, SizesAssumption DEF Init, Layout
<1>5. Ready /\ BitmapAgrees /\ Exclusive
  BY <1>2 DEF Init, Ready, BitmapAgrees, Exclusive
<1> QED
  BY <1>3, <1>4, <1>5 DEF PMMInv

(* A turn of the constructor's loop: the new bitmap starts where the last  *)
(* one ended, and clearing it touches no bit of an earlier zone.           *)
LEMMA LayZoneInv == PMMInv /\ LayZone => PMMInv'
<1> SUFFICES ASSUME PMMInv, LayZone PROVE PMMInv'
  OBVIOUS
<1> DEFINE cleared == {BitsPerByte * kend + i :
                          i \in 0..(BitsPerByte * BitmapBytes(next) - 1)}
<1> USE DEF PMMInv
<1>1. /\ Len(LoaderMap) \in Nat
      /\ next \in Zones
      /\ Start(next) \in 0..(AddrSpace - 1)
      /\ PageCount(next) \in Nat
      /\ BitmapBytes(next) \in Nat \ {0}
      /\ PageCount(next) < BitsPerByte * BitmapBytes(next)
  BY LoaderAssumption, ZoneFacts DEF LayZone
<1>2. /\ alloc_bitmap'[next] = kend
      /\ \A z \in Zones : z # next => alloc_bitmap'[z] = alloc_bitmap[z]
      /\ kend' = kend + BitmapBytes(next)
      /\ bits' = bits \ cleared
      /\ held = {} /\ held' = {} /\ ~overran /\ ~overran' /\ shared' = {}
      /\ pc' = "zones"
      /\ next' = next + 1
  BY DEF LayZone, TypeOK, Ready, ghosts
<1>3. /\ Laid' = Laid \cup {next}
      /\ \A z \in Laid : z < next /\ z # next /\ z \in Zones
      /\ Zones \subseteq Nat
  BY <1>1, <1>2 DEF Laid, Zones
<1>4. TypeOK'
  <2>1. alloc_bitmap' \in [Zones -> Nat]
    BY DEF LayZone, TypeOK
  <2>2. first_free_addr' \in [Zones -> 0..(AddrSpace - 1)]
    BY <1>1 DEF LayZone, TypeOK
  <2>3. next' \in 1..(Len(LoaderMap) + 1) /\ kend' \in Nat
    BY <1>1, <1>2 DEF TypeOK, Zones
  <2>4. /\ pc' \in {"zones", "reserve", "running", "panic", "lost"}
        /\ kernel' \in KernelImages
        /\ bits' \subseteq Bits
        /\ held' \subseteq Zones \X Nat /\ shared' \subseteq Zones \X Nat
        /\ overran' \in BOOLEAN
    BY <1>2 DEF TypeOK, LayZone, ghosts
  <2> QED
    BY <2>1, <2>2, <2>3, <2>4 DEF TypeOK
<1>5. Layout'
  <2>1. ZoneStructSize * Len(LoaderMap) \in Nat
    BY <1>1, SizesAssumption
  <2>2. \A z \in Zones : BitmapBytes(z) \in Nat
    BY ZoneFacts
  <2>3. kend \in Nat /\ \A z \in Zones : alloc_bitmap[z] \in Nat
    BY DEF TypeOK
  <2>4. kend' >= ZoneStructSize * Len(LoaderMap)
    BY <1>1, <1>2, <2>1, <2>3 DEF Layout
  <2>5. \A z \in Laid' :
            /\ alloc_bitmap'[z] >= ZoneStructSize * Len(LoaderMap)
            /\ alloc_bitmap'[z] + BitmapBytes(z) =< kend'
            /\ PageCount(z) =< BitsPerByte * BitmapBytes(z)
    <3> TAKE z \in Laid'
    <3>1. CASE z = next
      BY <1>1, <1>2, <2>1, <2>3, <3>1, SizesAssumption DEF Layout
    <3>2. CASE z # next
      <4>1. z \in Laid /\ z \in Zones /\ alloc_bitmap'[z] = alloc_bitmap[z]
        BY <1>2, <1>3, <3>2
      <4>2. alloc_bitmap[z] + BitmapBytes(z) =< kend'
        BY <1>1, <1>2, <2>2, <2>3, <4>1 DEF Layout
      <4> QED
        BY <4>1, <4>2 DEF Layout
    <3> QED
      BY <3>1, <3>2
  <2>6. \A y, z \in Laid' :
            y < z => alloc_bitmap'[y] + BitmapBytes(y) =< alloc_bitmap'[z]
    <3> SUFFICES ASSUME NEW y \in Laid', NEW z \in Laid', y < z
                 PROVE  alloc_bitmap'[y] + BitmapBytes(y) =< alloc_bitmap'[z]
      OBVIOUS
    <3>1. y \in Laid /\ y # next /\ y \in Zones
      <4>1. y \in Nat /\ z \in Nat /\ next \in Nat /\ z =< next
        BY <1>1, <1>2 DEF Laid, Zones
      <4>2. y # next
        BY <4>1
      <4> QED
        BY <1>3, <4>2
    <3>2. CASE z = next
      BY <1>2, <1>3, <3>1, <3>2 DEF Layout
    <3>3. CASE z # next
      BY <1>2, <1>3, <3>1, <3>3 DEF Layout
    <3> QED
      BY <3>2, <3>3
  <2> QED
    BY <2>4, <2>5, <2>6 DEF Layout
<1>6. Ready' /\ Exclusive'
  BY <1>2 DEF Ready, Exclusive
<1>7. ASSUME NEW z \in Laid', NEW p \in 0..(PageCount(z) - 1)
      PROVE  Bit(z, p)' \notin bits'
  <2>1. CASE z = next
    <3>1. p \in 0..(BitsPerByte * BitmapBytes(next) - 1)
      BY <1>1, <2>1, SizesAssumption
    <3>2. Bit(z, p)' = BitsPerByte * kend + p
      BY <1>2, <2>1 DEF Bit
    <3> QED
      BY <1>2, <3>1, <3>2
  <2>2. CASE z # next
    <3>1. z \in Laid /\ z \in Zones
      BY <1>3, <2>2
    <3>2. Bit(z, p)' = Bit(z, p)
      BY <1>2, <3>1, <2>2 DEF Bit
    <3>3. Bit(z, p) \notin bits
      BY <1>2, <3>1 DEF BitmapAgrees
    <3> QED
      BY <1>2, <3>2, <3>3
  <2> QED
    BY <2>1, <2>2
<1>8. BitmapAgrees'
  BY <1>2, <1>7 DEF BitmapAgrees
<1> QED
  BY <1>4, <1>5, <1>6, <1>8

(* A free run of bits that a call sets and hands out, whichever call it is *)
(* and wherever the run lies: either it ends inside its zone, and then     *)
(* none of its pages was held, or the overrun is recorded.                 *)
LEMMA HandOutInv ==
    ASSUME PMMInv, pc # "zones", pc' = "running",
           NEW z \in Zones, NEW p \in Nat, NEW n \in Nat,
           CheckIfPagesFree(z, p, n), Modelled(z, p, n),
           MapPagesInBitmap(z, p, n), HandOut(z, p, n),
           first_free_addr' \in [Zones -> 0..(AddrSpace - 1)],
           UNCHANGED table
    PROVE  PMMInv'
<1> USE DEF PMMInv
<1>1. Laid = Zones /\ Laid' = Zones /\ next' = next /\ kend' = kend
      /\ alloc_bitmap' = alloc_bitmap /\ kernel' = kernel
  BY LoaderAssumption DEF Ready, Laid, Zones, table
<1>2. TypeOK'
  <2>1. FrameRun(z, p, n) \subseteq Zones \X Nat
    BY DEF FrameRun
  <2>2. bits' \subseteq Bits
    BY DEF TypeOK, MapPagesInBitmap, Modelled
  <2>3. held' \subseteq Zones \X Nat /\ shared' \subseteq Zones \X Nat
    BY <2>1 DEF TypeOK, HandOut
  <2>4. overran' \in BOOLEAN
    BY DEF TypeOK, HandOut
  <2> QED
    BY <1>1, <2>2, <2>3, <2>4 DEF TypeOK
<1>3. Layout' /\ Ready'
  BY <1>1 DEF Layout, Ready
<1>4. CASE overran'
  BY <1>2, <1>3, <1>4 DEF BitmapAgrees, Exclusive
<1>5. CASE ~overran'
  <2>1. PageCount(z) \in Nat
    BY ZoneFacts
  <2>2. ~overran /\ p + n =< PageCount(z)
    <3>1. ~overran /\ ~(p + n > PageCount(z))
      BY <1>5, Zenon DEF HandOut
    <3> QED
      BY <2>1, <3>1
  <2>3. ASSUME NEW y \in Zones, NEW q \in 0..(PageCount(y) - 1)
        PROVE  Bit(y, q) \in BitRun(z, p, n) <=> <<y, q>> \in FrameRun(z, p, n)
    BY <1>1, <2>2, <2>3, RunBits
  <2>4. \A y, q : Bit(y, q)' = Bit(y, q)
    BY <1>1 DEF Bit
  <2>5. BitmapAgrees'
    <3> SUFFICES ASSUME NEW y \in Zones, NEW q \in 0..(PageCount(y) - 1)
                 PROVE  Bit(y, q) \in bits' <=> <<y, q>> \in held'
      BY <1>1, <2>4 DEF BitmapAgrees
    <3>1. Bit(y, q) \in bits <=> <<y, q>> \in held
      BY <1>1, <2>2 DEF BitmapAgrees
    <3> QED
      BY <2>3, <3>1 DEF MapPagesInBitmap, HandOut
  <2>6. held \cap FrameRun(z, p, n) = {}
    <3> SUFFICES ASSUME NEW i \in p..(p + n - 1), <<z, i>> \in held
                 PROVE  FALSE
      BY DEF FrameRun
    <3>1. i \in 0..(PageCount(z) - 1)
      BY <2>1, <2>2
    <3>2. Bit(z, i) \in bits
      BY <1>1, <2>2, <3>1 DEF BitmapAgrees
    <3> QED
      BY <3>2 DEF CheckIfPagesFree, BitRun
  <2>7. \A f \in FrameRun(z, p, n) : InZone(f)
    BY <2>1, <2>2 DEF FrameRun, InZone
  <2>8. Exclusive'
    <3>1. shared' = {}
      BY <2>2, <2>6 DEF Exclusive, HandOut
    <3>2. \A f \in held' : InZone(f)
      BY <2>2, <2>7 DEF Exclusive, HandOut
    <3>3. \A f \in held' : InZone(f)'
      BY <3>2 DEF InZone
    <3> QED
      BY <3>1, <3>3 DEF Exclusive
  <2> QED
    BY <1>2, <1>3, <2>5, <2>8
<1> QED
  BY <1>4, <1>5

(* An address in a zone names a page of it. *)
LEMMA PageOfNat ==
    ASSUME NEW z \in Zones, NEW addr \in Nat, Contains(z, addr)
    PROVE  PageOf(z, addr) \in Nat
<1>1. Start(z) \in Nat /\ addr >= Start(z)
  BY ZoneFacts, SizesAssumption DEF Contains
<1>2. addr - Start(z) \in Nat
  BY <1>1
<1> QED
  BY <1>2, DivisionRoundsDown, SizesAssumption DEF PageOf

(* The pages the constructor reserves are a number. *)
LEMMA PmmPageCountNat == TypeOK => PmmPageCount \in Nat
<1> SUFFICES ASSUME TypeOK PROVE PmmPageCount \in Nat
  OBVIOUS
<1>1. kernel.end + kend - kernel.start \in Nat
  BY KernelAssumption, SizesAssumption DEF TypeOK
<1>2. (kernel.end + kend - kernel.start) \div PageSize \in Nat
  BY <1>1, DivisionRoundsDown, SizesAssumption
<1> QED
  BY <1>2 DEF PmmPageCount

(* MapPages, called by a driver or by the constructor. *)
LEMMA DoMapInv ==
    ASSUME PMMInv, pc # "zones", pc' = "running",
           NEW z \in Zones, NEW addr \in Nat, NEW n \in Nat,
           CanMap(z, addr, n), DoMap(z, addr, n),
           UNCHANGED table
    PROVE  PMMInv'
<1>1. PageOf(z, addr) \in Nat
  BY PageOfNat DEF CanMap, FindZone
<1>2. (addr + n * PageSize) % AddrSpace \in 0..(AddrSpace - 1)
  <2>1. addr + n * PageSize \in Nat
    BY SizesAssumption
  <2> QED
    BY <2>1, DivisionRoundsDown, SizesAssumption
<1>3. first_free_addr' \in [Zones -> 0..(AddrSpace - 1)]
  BY <1>2 DEF DoMap, PMMInv, TypeOK
<1>4. /\ CheckIfPagesFree(z, PageOf(z, addr), n)
      /\ Modelled(z, PageOf(z, addr), n)
      /\ MapPagesInBitmap(z, PageOf(z, addr), n)
      /\ HandOut(z, PageOf(z, addr), n)
  BY DEF CanMap, DoMap
<1> QED
  BY <1>1, <1>3, <1>4, HandOutInv

(* AllocatePhysical: the run it finds has no bit set, so none is held. *)
LEMMA AllocateInv ==
    ASSUME PMMInv, NEW n \in Nat, NEW t, AllocatePhysical(n, t)
    PROVE  PMMInv'
<1>1. PICK z \in Zones, p \in Bits :
          /\ FirstFreeRun(z, p, n)
          /\ Modelled(z, p, n)
          /\ DoAllocate(z, p, n)
  BY DEF AllocatePhysical
<1>2. p \in Nat
  BY SizesAssumption DEF Bits
<1>3. (Start(z) + (p + n) * PageSize) % AddrSpace \in 0..(AddrSpace - 1)
  <2>1. Start(z) \in Nat /\ (p + n) * PageSize \in Nat
    BY <1>2, ZoneFacts, SizesAssumption
  <2>2. Start(z) + (p + n) * PageSize \in Nat
    BY <2>1
  <2> QED
    BY <2>2, DivisionRoundsDown, SizesAssumption
<1>4. first_free_addr' \in [Zones -> 0..(AddrSpace - 1)]
  BY <1>1, <1>3 DEF DoAllocate, PMMInv, TypeOK
<1>5. pc = "running" /\ pc' = "running" /\ UNCHANGED table
  BY DEF AllocatePhysical
<1>6. /\ CheckIfPagesFree(z, p, n)
      /\ MapPagesInBitmap(z, p, n)
      /\ HandOut(z, p, n)
  BY <1>1 DEF FirstFreeRun, DoAllocate
<1> QED
  BY <1>1, <1>2, <1>4, <1>5, <1>6, HandOutInv

(* UnmapPages called by the owner: the bits it flips are set. *)
LEMMA ReleaseInv ==
    ASSUME PMMInv, NEW addr \in Targets, NEW n \in Nat, Release(addr, n)
    PROVE  PMMInv'
<1> USE DEF PMMInv
<1>1. PICK z \in Zones :
          /\ FindZone(addr, z)
          /\ Modelled(z, PageOf(z, addr), n)
          /\ first_free_addr' =
                IF addr < first_free_addr[z]
                THEN [first_free_addr EXCEPT ![z] = Align(addr)]
                ELSE first_free_addr
          /\ bits' = SymDiff(bits, BitRun(z, PageOf(z, addr), n))
          /\ held' = held \ FrameRun(z, PageOf(z, addr), n)
  BY DEF Release, UnmapPages
<1> DEFINE p == PageOf(z, addr)
<1>2. /\ pc = "running" /\ pc' = "running"
      /\ UNCHANGED <<table, shared, overran>>
      /\ FrameRun(z, p, n) \subseteq held
  BY <1>1 DEF Release, UnmapPages, Owned
<1>3. Laid = Zones /\ Laid' = Zones /\ next' = next /\ kend' = kend
      /\ alloc_bitmap' = alloc_bitmap /\ kernel' = kernel
  BY <1>2, LoaderAssumption DEF Ready, Laid, Zones, table
<1>4. addr \in 0..(AddrSpace - 1) /\ p \in Nat
  BY <1>1, BoundsAssumption, SizesAssumption, PageOfNat DEF FindZone
<1>5. Align(addr) \in 0..(AddrSpace - 1)
  <2>0. addr \in Nat
    BY <1>4, SizesAssumption
  <2>1. addr \in Nat /\ addr \div PageSize \in Nat
    BY <2>0, SizesAssumption, DivisionRoundsDown
  <2>2. (addr \div PageSize) * PageSize =< addr
    BY <2>1, SizesAssumption
  <2>3. (addr \div PageSize) * PageSize \in Nat
    BY <2>1, SizesAssumption
  <2> QED
    BY <1>4, <2>1, <2>2, <2>3, SizesAssumption DEF Align
<1>6. TypeOK'
  <2>1. first_free_addr' \in [Zones -> 0..(AddrSpace - 1)]
    BY <1>1, <1>5 DEF TypeOK
  <2>2. bits' \subseteq Bits
    BY <1>1 DEF TypeOK, SymDiff, Modelled
  <2>3. held' \subseteq Zones \X Nat
    BY <1>1 DEF TypeOK
  <2> QED
    BY <1>2, <1>3, <2>1, <2>2, <2>3 DEF TypeOK
<1>7. Layout' /\ Ready'
  BY <1>2, <1>3 DEF Layout, Ready
<1>8. CASE overran
  BY <1>2, <1>6, <1>7, <1>8 DEF BitmapAgrees, Exclusive
<1>9. CASE ~overran
  <2>1. PageCount(z) \in Nat
    BY ZoneFacts
  <2>2. p + n =< PageCount(z) \/ n = 0
    <3> SUFFICES ASSUME n # 0 PROVE p + n =< PageCount(z)
      OBVIOUS
    <3>1. <<z, p + n - 1>> \in FrameRun(z, p, n)
      BY <1>4 DEF FrameRun
    <3>2. InZone(<<z, p + n - 1>>)
      BY <1>2, <1>9, <3>1 DEF Exclusive
    <3> QED
      BY <1>4, <2>1, <3>2 DEF InZone
  <2>3. ASSUME NEW y \in Zones, NEW q \in 0..(PageCount(y) - 1)
        PROVE  Bit(y, q) \in BitRun(z, p, n) <=> <<y, q>> \in FrameRun(z, p, n)
    <3>1. CASE p + n =< PageCount(z)
      BY <1>3, <1>4, <2>3, <3>1, RunBits
    <3>2. CASE n = 0
      <4>1. p..(p + n - 1) = {}
        BY <1>4, <3>2
      <4> QED
        BY <4>1 DEF BitRun, FrameRun
    <3> QED
      BY <2>2, <3>1, <3>2
  <2>4. \A y, q : Bit(y, q)' = Bit(y, q)
    BY <1>3 DEF Bit
  <2>5. BitmapAgrees'
    <3> SUFFICES ASSUME NEW y \in Zones, NEW q \in 0..(PageCount(y) - 1)
                 PROVE  Bit(y, q) \in bits' <=> <<y, q>> \in held'
      BY <1>3, <2>4 DEF BitmapAgrees
    <3>1. Bit(y, q) \in bits <=> <<y, q>> \in held
      BY <1>3, <1>9 DEF BitmapAgrees
    <3> QED
      BY <1>1, <1>2, <2>3, <3>1 DEF SymDiff
  <2>6. Exclusive'
    BY <1>1, <1>2, <1>9 DEF Exclusive, InZone
  <2> QED
    BY <1>6, <1>7, <2>5, <2>6
<1> QED
  BY <1>8, <1>9

(* A step that leaves the table, the bits and the ghosts alone. *)
LEMMA QuietInv ==
    ASSUME PMMInv, UNCHANGED <<table, first_free_addr, bits, ghosts>>,
           \/ pc' = pc
           \/ pc = "zones" /\ next \notin Zones /\ pc' = "reserve"
           \/ pc # "zones" /\ pc' \in {"panic", "lost"}
    PROVE  PMMInv'
<1> USE DEF PMMInv, table, ghosts
<1>1. Laid' = Laid
  BY DEF Laid
<1>2. TypeOK'
  BY DEF TypeOK
<1>3. Layout' /\ Exclusive'
  BY <1>1 DEF Layout, Exclusive, InZone
<1>4. BitmapAgrees'
  BY <1>1 DEF BitmapAgrees, Bit
<1>5. Ready'
  <2>1. Len(LoaderMap) \in Nat
    BY LoaderAssumption
  <2>2. next \notin Zones => next = Len(LoaderMap) + 1
    BY <2>1 DEF TypeOK, Zones
  <2> QED
    BY <2>2 DEF Ready
<1> QED
  BY <1>2, <1>3, <1>4, <1>5

(* Each step of the constructor. *)
LEMMA BootInv == PMMInv /\ Boot => PMMInv'
<1> SUFFICES ASSUME PMMInv, Boot PROVE PMMInv'
  OBVIOUS
<1>1. CASE LayZone
  BY <1>1, LayZoneInv
<1>2. CASE ZonesLaid
  BY <1>2, QuietInv DEF ZonesLaid
<1>3. CASE Reserve
  <2>1. PICK z \in Zones : /\ CanMap(z, kernel.start, PmmPageCount)
                           /\ DoMap(z, kernel.start, PmmPageCount)
    BY <1>3 DEF Reserve
  <2>2. kernel.start \in Nat /\ PmmPageCount \in Nat
    <3>1. TypeOK
      BY DEF PMMInv
    <3>2. kernel.start \in Nat
      BY <3>1, KernelAssumption, SizesAssumption DEF TypeOK
    <3> QED
      BY <3>1, <3>2, PmmPageCountNat
  <2>3. pc # "zones" /\ pc' = "running" /\ UNCHANGED table
    BY <1>3 DEF Reserve
  <2> QED
    BY <2>1, <2>2, <2>3, DoMapInv
<1>4. CASE ReservePanics
  BY <1>4, QuietInv DEF ReservePanics
<1> QED
  BY <1>1, <1>2, <1>3, <1>4 DEF Boot

(* Every step of the allocator and of its callers. *)
LEMMA NextInv == PMMInv /\ [Next]_vars => PMMInv'
<1> SUFFICES ASSUME PMMInv, [Next]_vars PROVE PMMInv'
  OBVIOUS
<1>0. Runs \subseteq Nat /\ Targets \subseteq Nat
  BY SizesAssumption, BoundsAssumption DEF Runs
<1>1. CASE Boot
  BY <1>1, BootInv
<1>2. CASE Allocations(PMMZoneType)
  <2>1. PICK n \in Runs, t \in PMMZoneType :
            \/ AllocatePhysical(n, t)
            \/ AllocatePanics(n, t)
            \/ AllocateRunsAway(n, t)
    BY <1>2 DEF Allocations
  <2>2. CASE AllocatePhysical(n, t)
    BY <1>0, <2>2, AllocateInv
  <2>3. CASE AllocatePanics(n, t)
    BY <2>3, QuietInv DEF AllocatePanics
  <2>4. CASE AllocateRunsAway(n, t)
    BY <2>4, QuietInv DEF AllocateRunsAway
  <2> QED
    BY <2>1, <2>2, <2>3, <2>4
<1>3. CASE Mappings
  <2>1. PICK addr \in Targets, n \in Runs :
            MapPages(addr, n) \/ MapPagesFails(addr, n)
    BY <1>3 DEF Mappings
  <2>2. CASE MapPages(addr, n)
    <3>1. PICK z \in Zones : CanMap(z, addr, n) /\ DoMap(z, addr, n)
      BY <2>2 DEF MapPages
    <3>2. pc # "zones" /\ pc' = "running" /\ UNCHANGED table
      BY <2>2 DEF MapPages
    <3> QED
      BY <1>0, <3>1, <3>2, DoMapInv
  <2>3. CASE MapPagesFails(addr, n)
    BY <2>3, QuietInv DEF MapPagesFails, vars
  <2> QED
    BY <2>1, <2>2, <2>3
<1>4. ASSUME NEW addr \in Targets, NEW n \in Runs,
             Release(addr, n) \/ UnmapPagesFails(addr, n)
      PROVE  PMMInv'
  <2>1. CASE Release(addr, n)
    BY <1>0, <2>1, ReleaseInv
  <2>2. CASE UnmapPagesFails(addr, n)
    BY <2>2, QuietInv DEF UnmapPagesFails, vars
  <2> QED
    BY <1>4, <2>1, <2>2
<1>5. CASE Halted \/ UNCHANGED vars
  BY <1>5, QuietInv DEF Halted, vars
<1> QED
  BY <1>1, <1>2, <1>3, <1>4, <1>5 DEF Next

(* The inductive invariant holds in every state of callers that respect    *)
(* ownership, whatever the loader's map.                                   *)
THEOREM Invariance == Spec => []PMMInv
BY InitInv, NextInv, PTL DEF Spec

(* Type correctness of the zone table, the bit array and the ghosts. *)
THEOREM TypeCorrect == Spec => []TypeOK
<1>1. PMMInv => TypeOK
  BY DEF PMMInv
<1> QED
  BY <1>1, Invariance, PTL

(* The constructor lays the bitmaps of any memory map side by side: no two *)
(* overlap, none reaches into the zone table or past kend_addr.            *)
THEOREM BitmapsDisjoint == Spec => []Layout
<1>1. PMMInv => Layout
  BY DEF PMMInv
<1> QED
  BY <1>1, Invariance, PTL

(* AllocatePhysical, MapPages and owners' UnmapPages keep bitmap and       *)
(* ownership equal until one of them hands out a page past its zone.       *)
THEOREM BitmapCorrect == Spec => []BitmapAgrees
<1>1. PMMInv => BitmapAgrees
  BY DEF PMMInv
<1> QED
  BY <1>1, Invariance, PTL

(* Until then no page is handed out twice. *)
THEOREM PagesExclusive == Spec => []Exclusive
<1>1. PMMInv => Exclusive
  BY DEF PMMInv
<1> QED
  BY <1>1, Invariance, PTL

(* The pages of a zone that is neither padded nor moved lie in the range   *)
(* the loader reported.                                                    *)
LEMMA WholeZone ==
    ASSUME NEW z \in Zones, Whole(z)
    PROVE  /\ LoaderMap[z].addr \in Nat /\ LoaderMap[z].len \in Nat
           /\ Start(z) = LoaderMap[z].addr
           /\ PageCount(z) * PageSize =< LoaderMap[z].len
<1> DEFINE a == LoaderMap[z].addr
           l == LoaderMap[z].len
           q == Length(z) \div PageSize
<1>1. LoaderMap[z] \in LoaderEntry
  BY LoaderAssumption DEF Zones
<1>2. /\ a \in Nat /\ l \in Nat /\ AddrSpace \in Nat \ {0} /\ PageSize \in Nat \ {0}
      /\ a + l =< AddrSpace /\ l >= PageSize
  BY <1>1, SizesAssumption DEF LoaderEntry, Whole, Fits
<1>3. Start(z) = a % AddrSpace /\ Length(z) = l % AddrSpace
  BY DEF Start, Length
<1>4. PageCount(z) = IF Length(z) > 0 /\ q = 0 THEN 1 ELSE q
  BY DEF PageCount
<1> HIDE DEF a, l
<1>5. \A x \in Nat : x < AddrSpace => x % AddrSpace = x
  BY <1>2
<1>6. Start(z) = a
  BY <1>2, <1>3, <1>5
<1>7. CASE l < AddrSpace
  <2>1. Length(z) = l
    BY <1>2, <1>3, <1>5, <1>7
  <2>2. q \in Nat /\ l % PageSize \in 0..(PageSize - 1) /\ l = PageSize * q + (l % PageSize)
    BY <1>2, <2>1, DivisionSplits
  <2>3. l % PageSize \in Nat /\ l % PageSize < PageSize
    BY <1>2, <2>2
  <2> HIDE DEF q
  <2>4. PageSize * q \in Nat /\ q * PageSize = PageSize * q
    BY <1>2, <2>2
  <2>5. \A x, r \in Nat : l = x + r => x =< l
    BY <1>2
  <2>6. q * PageSize =< l
    BY <2>2, <2>3, <2>4, <2>5
  <2>7. q # 0
    <3>1. PageSize * 0 = 0
      BY <1>2
    <3>2. q = 0 => l = 0 + (l % PageSize)
      BY <2>2, <3>1
    <3> QED
      BY <1>2, <2>3, <3>2
  <2> QED
    BY <1>2, <1>4, <1>6, <2>6, <2>7 DEF a, l
<1>8. CASE ~(l < AddrSpace)
  <2>1. l = AddrSpace
    BY <1>2, <1>8
  <2>2. Length(z) = 0
    BY <1>2, <1>3, <2>1
  <2>3. q = 0 /\ 0 * PageSize = 0
    BY <1>2, <2>2
  <2>4. PageCount(z) = 0
    BY <1>4, <2>2, <2>3
  <2> QED
    BY <1>2, <1>6, <2>3, <2>4 DEF a, l
<1> QED
  BY <1>7, <1>8

(* Pages of disjoint ranges, or different pages of one range, have no byte *)
(* in common.                                                              *)
LEMMA FramesApart ==
    ASSUME RangesDisjoint,
           NEW f \in Zones \X Nat, NEW g \in Zones \X Nat,
           InZone(f), InZone(g), f # g, Whole(f[1]), Whole(g[1])
    PROVE  FrameBytes(f) \cap FrameBytes(g) = {}
<1> DEFINE end(h) == FrameAddr(h) + PageSize
<1>1. ASSUME NEW h \in Zones \X Nat
      PROVE  /\ h[1] \in Zones /\ h[2] \in Nat
             /\ FrameAddr(h) \in Nat
             /\ FrameAddr(h) >= Start(h[1])
  <2>1. h[1] \in Zones /\ h[2] \in Nat
    OBVIOUS
  <2>2. h[2] * PageSize \in Nat /\ Start(h[1]) \in Nat
    BY <2>1, ZoneFacts, SizesAssumption
  <2> QED
    BY <2>1, <2>2 DEF FrameAddr
<1>2. ASSUME NEW h \in Zones \X Nat, NEW m \in Nat, h[2] < m
      PROVE  end(h) =< Start(h[1]) + m * PageSize
  <2>1. h[1] \in Zones /\ h[2] \in Nat /\ h[2] + 1 =< m /\ h[2] + 1 \in Nat
    BY <1>2
  <2>2. PageSize * (h[2] + 1) =< PageSize * m
    BY <2>1, MulMonotone, SizesAssumption
  <2>3. h[2] * PageSize + PageSize =< m * PageSize
    BY <2>1, <2>2, SizesAssumption
  <2>4. Start(h[1]) \in Nat /\ h[2] * PageSize \in Nat /\ m * PageSize \in Nat
    BY <2>1, ZoneFacts, SizesAssumption
  <2> QED
    BY <2>3, <2>4, SizesAssumption DEF FrameAddr
<1>3. ASSUME NEW a \in Zones \X Nat, NEW b \in Zones \X Nat,
             a[1] = b[1], a[2] < b[2]
      PROVE  end(a) =< FrameAddr(b)
  BY <1>1, <1>2, <1>3 DEF FrameAddr
<1>4. ASSUME NEW a \in Zones \X Nat, NEW b \in Zones \X Nat, InZone(a),
             Start(a[1]) + PageCount(a[1]) * PageSize =< Start(b[1])
      PROVE  end(a) =< FrameAddr(b)
  <2>1. a[1] \in Zones /\ b[1] \in Zones /\ PageCount(a[1]) \in Nat
    BY <1>1, ZoneFacts
  <2>2. end(a) =< Start(a[1]) + PageCount(a[1]) * PageSize
    BY <1>2, <1>4, <2>1 DEF InZone
  <2>3. /\ Start(a[1]) + PageCount(a[1]) * PageSize \in Int
        /\ Start(b[1]) \in Int
    BY <2>1, ZoneFacts, SizesAssumption
  <2> QED
    BY <1>1, <1>4, <2>2, <2>3, SizesAssumption
<1>5. end(f) =< FrameAddr(g) \/ end(g) =< FrameAddr(f)
  <2>1. CASE f[1] = g[1]
    <3>1. f[2] # g[2] /\ f[2] \in Nat /\ g[2] \in Nat
      BY <2>1
    <3>2. f[2] < g[2] \/ g[2] < f[2]
      BY <3>1
    <3> QED
      BY <1>3, <2>1, <3>2
  <2>2. CASE f[1] # g[1]
    <3> DEFINE y == f[1]
               z == g[1]
               below(u, v) == Start(u) + PageCount(u) * PageSize =< Start(v)
    <3>1. y \in Zones /\ z \in Zones /\ y # z
      BY <2>2
    <3>2. ASSUME NEW u \in Zones, NEW v \in Zones, Whole(u), Whole(v),
                 LoaderMap[u].addr + LoaderMap[u].len =< LoaderMap[v].addr
          PROVE  below(u, v)
      <4>1. PageCount(u) * PageSize \in Nat
        BY ZoneFacts, SizesAssumption
      <4>2. /\ LoaderMap[u].addr \in Nat /\ LoaderMap[u].len \in Nat
            /\ Start(u) = LoaderMap[u].addr /\ Start(v) = LoaderMap[v].addr
            /\ LoaderMap[v].addr \in Nat /\ PageCount(u) * PageSize =< LoaderMap[u].len
        BY <3>2, WholeZone
      <4> QED
        BY <3>2, <4>1, <4>2
    <3>3. below(y, z) \/ below(z, y)
      BY <3>1, <3>2 DEF RangesDisjoint
    <3> QED
      BY <1>4, <3>1, <3>3
  <2> QED
    BY <2>1, <2>2
<1>6. FrameAddr(f) \in Nat /\ FrameAddr(g) \in Nat
  BY <1>1
<1> QED
  BY <1>5, <1>6, SizesAssumption DEF FrameBytes

(* If the loader's ranges do not overlap, no byte of memory is handed out  *)
(* to two owners before a page past the end of a zone is, except by the    *)
(* page of a range that is padded or narrowed.                             *)
THEOREM BytesExclusive ==
    ASSUME RangesDisjoint
    PROVE  Spec => []NoSharedByte
<1>1. PMMInv => NoSharedByte
  BY FramesApart DEF PMMInv, TypeOK, Exclusive, NoSharedByte
<1> QED
  BY <1>1, Invariance, PTL

-----------------------------------------------------------------------------
(* The promise to the callers. *)

(* FindZone finds one zone. *)
LEMMA FindZoneUnique ==
    ASSUME NEW y \in Zones, NEW z \in Zones, NEW addr,
           FindZone(addr, y), FindZone(addr, z)
    PROVE  y = z
<1>1. y \in Int /\ z \in Int /\ y >= 1 /\ z >= 1
  BY DEF Zones
<1>2. ~(y < z)
  BY <1>1 DEF FindZone
<1>3. ~(z < y)
  BY <1>1 DEF FindZone
<1> QED
  BY <1>1, <1>2, <1>3

(* The frames of the kernel are those the constructor reserves in the zone *)
(* it finds for the kernel's start.                                        *)
LEMMA KernelRun ==
    ASSUME NEW z \in Zones, FindZone(kernel.start, z)
    PROVE  KernelFrames = FrameRun(z, PageOf(z, kernel.start), PmmPageCount)
<1>1. {y \in Zones : FindZone(kernel.start, y)} = {z}
  BY FindZoneUnique
<1> QED
  BY <1>1 DEF KernelFrames

(* The kernel's frames are given by the zone table alone. *)
LEMMA KernelFramesKept ==
    ASSUME UNCHANGED table PROVE KernelFrames' = KernelFrames
BY DEF KernelFrames, table, PmmPageCount, FindZone, Contains, Start, PageCount,
       Length, PageOf, FrameRun, Zones

(* What a caller is handed out is a run of the abstract allocator, unless  *)
(* it passes the end of its zone.                                          *)
LEMMA RunInZone ==
    ASSUME NEW z \in Zones, NEW p \in Nat, NEW n \in Nat \ {0},
           p + n =< PageCount(z)
    PROVE  FrameRun(z, p, n) \in Allocator!RunsOf(z) /\ FrameRun(z, p, n) # {}
<1>1. PageCount(z) \in Nat
  BY ZoneFacts
<1>2. p \in 0..(PageCount(z) - 1) /\ p + n - 1 \in 0..(PageCount(z) - 1)
  BY <1>1
<1>3. <<z, p>> \in FrameRun(z, p, n)
  BY DEF FrameRun
<1> QED
  BY <1>2, <1>3 DEF Allocator!RunsOf, FrameRun

(* While the kernel runs and no page past a zone's end was handed out, its *)
(* own frames are held.                                                    *)
KernelHeld ==
    pc = "running" /\ ~overran =>
        KernelFrames # {} /\ KernelFrames \subseteq held

(* A run handed out of a running allocator. *)
LEMMA HandOutGrants ==
    ASSUME PMMInv, PMMInv', KernelHeld, pc = "running", pc' = "running",
           NEW z \in Zones, NEW p \in Nat, NEW n \in Nat \ {0},
           HandOut(z, p, n), UNCHANGED table
    PROVE  KernelHeld' /\ Allocator!Next
<1>1. KernelFrames' = KernelFrames
  BY KernelFramesKept
<1>2. held \subseteq held' /\ (overran => overran')
  BY DEF HandOut
<1>3. KernelHeld'
  BY <1>1, <1>2 DEF KernelHeld
<1>4. CASE overran'
  <2>1. overran' = TRUE
    BY <1>4 DEF PMMInv, TypeOK
  <2>2. Allocator!Break
    BY <2>1 DEF Allocator!Break
  <2> QED
    BY <1>3, <2>2 DEF Allocator!Next
<1>5. CASE ~overran'
  <2>1. PageCount(z) \in Nat
    BY ZoneFacts
  <2>2. ~overran /\ p + n =< PageCount(z)
    <3>1. ~overran /\ ~(p + n > PageCount(z))
      BY <1>5, Zenon DEF HandOut
    <3> QED
      BY <2>1, <3>1
  <2>3. shared = {} /\ shared' = {}
    BY <1>5, <2>2 DEF PMMInv, Exclusive
  <2>4. FrameRun(z, p, n) \cap held = {}
    BY <2>3 DEF HandOut
  <2>5. /\ held \cap KernelFrames # {}
        /\ held' \cap KernelFrames' = held \cap KernelFrames
    BY <1>1, <1>2, <2>2 DEF KernelHeld
  <2>6. overran' = overran
    BY <1>5, <2>2 DEF PMMInv, TypeOK
  <2>7. Allocator!Grant(FrameRun(z, p, n))
    BY <2>2, <2>3, <2>4, <2>5, <2>6 DEF Allocator!Grant, HandOut
  <2>8. FrameRun(z, p, n) \in Allocator!RunsOf(z)
    BY <2>2, RunInZone
  <2> QED
    BY <1>3, <2>7, <2>8 DEF Allocator!Next
<1> QED
  BY <1>4, <1>5

(* A step that hands out nothing and takes nothing back. *)
LEMMA QuietAllocates ==
    ASSUME PMMInv, PMMInv', KernelHeld, UNCHANGED <<table, ghosts>>,
           pc' \in {pc, "panic", "lost"} \/ (pc = "zones" /\ pc' = "reserve")
    PROVE  KernelHeld' /\ [Allocator!Next]_Allocator!vars
<1>1. KernelFrames' = KernelFrames
  BY KernelFramesKept
<1>2. held' = held /\ shared' = shared /\ overran' = overran
  BY DEF ghosts
<1>3. KernelHeld'
  BY <1>1, <1>2 DEF KernelHeld
<1>4. CASE pc' \in {"panic", "lost"}
  <2>1. (pc \in {"panic", "lost"})' = TRUE
    BY <1>4
  <2>2. Allocator!Halt
    BY <1>1, <1>2, <2>1 DEF Allocator!Halt
  <2> QED
    BY <1>3, <2>2 DEF Allocator!Next
<1>5. CASE pc' \notin {"panic", "lost"}
  <2>1. (pc \in {"panic", "lost"})' = (pc \in {"panic", "lost"})
    BY <1>5
  <2>2. UNCHANGED Allocator!vars
    BY <1>1, <1>2, <2>1 DEF Allocator!vars
  <2> QED
    BY <1>3, <2>2
<1> QED
  BY <1>4, <1>5

(* Each step of the constructor. *)
LEMMA BootAllocates ==
    ASSUME PMMInv, PMMInv', KernelHeld, Boot
    PROVE  KernelHeld' /\ [Allocator!Next]_Allocator!vars
<1>1. CASE LayZone
  <2>1. pc = "zones" /\ pc' = "zones" /\ held = {} /\ held' = {}
        /\ shared' = shared /\ overran' = overran
    BY <1>1 DEF LayZone, PMMInv, Ready, ghosts
  <2>2. (held \cap KernelFrames)' = held \cap KernelFrames
    BY <2>1
  <2>3. UNCHANGED Allocator!vars
    BY <2>1, <2>2 DEF Allocator!vars
  <2> QED
    BY <2>1, <2>3 DEF KernelHeld
<1>2. CASE ZonesLaid
  BY <1>2, QuietAllocates DEF ZonesLaid
<1>3. CASE Reserve
  <2>1. PICK z \in Zones : /\ CanMap(z, kernel.start, PmmPageCount)
                           /\ DoMap(z, kernel.start, PmmPageCount)
    BY <1>3 DEF Reserve
  <2> DEFINE run == FrameRun(z, PageOf(z, kernel.start), PmmPageCount)
  <2>2. kernel.start \in Nat /\ PmmPageCount \in Nat
    <3>1. TypeOK
      BY DEF PMMInv
    <3>2. kernel.start \in Nat
      BY <3>1, KernelAssumption, SizesAssumption DEF TypeOK
    <3> QED
      BY <3>1, <3>2, PmmPageCountNat
  <2>3. PmmPageCount # 0
    <3>0. /\ kernel.start \in Nat /\ kernel.end \in Nat /\ kend \in Nat
          /\ kernel.start =< kernel.end
      BY <2>2, KernelAssumption DEF PMMInv, TypeOK
    <3>1. kernel.end + kend - kernel.start \in Nat
      BY <3>0
    <3>2. (kernel.end + kend - kernel.start) \div PageSize \in Nat
      BY <3>1, DivisionRoundsDown, SizesAssumption
    <3> QED
      BY <3>2 DEF PmmPageCount
  <2>4. PageOf(z, kernel.start) \in Nat
    BY <2>1, <2>2, PageOfNat DEF CanMap, FindZone
  <2>5. pc = "reserve" /\ pc' = "running" /\ UNCHANGED table
        /\ held = {} /\ shared = {} /\ ~overran
    BY <1>3 DEF Reserve, PMMInv, Ready
  <2>6. KernelFrames' = KernelFrames /\ KernelFrames = run
    BY <2>1, <2>5, KernelRun, KernelFramesKept DEF CanMap
  <2>7. held' = run /\ shared' = {}
    BY <2>1, <2>5 DEF DoMap, HandOut
  <2>8. <<z, PageOf(z, kernel.start)>> \in run
    BY <2>2, <2>3, <2>4 DEF FrameRun
  <2>9. KernelHeld'
    BY <2>6, <2>7, <2>8 DEF KernelHeld
  <2>10. CASE overran'
    <3>1. overran' = TRUE
      BY <2>10 DEF PMMInv, TypeOK
    <3>2. Allocator!Break
      BY <2>5, <3>1 DEF Allocator!Break
    <3> QED
      BY <2>9, <3>2 DEF Allocator!Next
  <2>11. CASE ~overran'
    <3>1. PageCount(z) \in Nat
      BY ZoneFacts
    <3>2. PageOf(z, kernel.start) + PmmPageCount =< PageCount(z)
      <4>1. ~(PageOf(z, kernel.start) + PmmPageCount > PageCount(z))
        BY <2>1, <2>11, Zenon DEF DoMap, HandOut
      <4> QED
        BY <2>2, <2>4, <3>1, <4>1
    <3>3. run \in Allocator!RunsOf(z)
      BY <2>2, <2>3, <2>4, <3>2, RunInZone
    <3>4. overran' = overran
      BY <2>5, <2>11 DEF PMMInv, TypeOK
    <3>5. Allocator!Reserve(run)
      BY <2>5, <2>6, <2>7, <3>4 DEF Allocator!Reserve
    <3> QED
      BY <2>9, <3>3, <3>5 DEF Allocator!Next
  <2> QED
    BY <2>10, <2>11
<1>4. CASE ReservePanics
  BY <1>4, QuietAllocates DEF ReservePanics
<1> QED
  BY <1>1, <1>2, <1>3, <1>4 DEF Boot

(* UnmapPages called by the owner. *)
LEMMA ReleaseReturns ==
    ASSUME PMMInv, PMMInv', KernelHeld,
           NEW addr \in Targets, NEW n \in Nat \ {0}, Release(addr, n)
    PROVE  KernelHeld' /\ Allocator!Next
<1>1. PICK z \in Zones : /\ FindZone(addr, z)
                         /\ held' = held \ FrameRun(z, PageOf(z, addr), n)
  BY DEF Release, UnmapPages
<1> DEFINE p == PageOf(z, addr)
<1>2. /\ pc = "running" /\ pc' = "running"
      /\ UNCHANGED <<table, shared, overran>>
      /\ FrameRun(z, p, n) \subseteq held \ KernelFrames
  BY <1>1 DEF Release, UnmapPages, Owned
<1>3. KernelFrames' = KernelFrames
  BY <1>2, KernelFramesKept
<1>4. KernelHeld'
  BY <1>1, <1>2, <1>3 DEF KernelHeld
<1>5. CASE overran
  <2>1. overran' = TRUE
    BY <1>2, <1>5 DEF PMMInv, TypeOK
  <2>2. Allocator!Break
    BY <1>2, <2>1 DEF Allocator!Break
  <2> QED
    BY <1>4, <2>2 DEF Allocator!Next
<1>6. CASE ~overran
  <2>1. PageCount(z) \in Nat /\ p \in Nat
    BY <1>1, ZoneFacts, PageOfNat, BoundsAssumption, SizesAssumption DEF FindZone
  <2>2. <<z, p + n - 1>> \in FrameRun(z, p, n)
    BY <2>1 DEF FrameRun
  <2>3. InZone(<<z, p + n - 1>>)
    BY <1>2, <1>6, <2>2 DEF PMMInv, Exclusive
  <2>4. p + n =< PageCount(z)
    BY <2>1, <2>3 DEF InZone
  <2>5. FrameRun(z, p, n) \in Allocator!RunsOf(z)
    BY <2>1, <2>4, RunInZone
  <2>6. held' \cap KernelFrames' = held \cap KernelFrames
    BY <1>1, <1>2, <1>3
  <2>7. Allocator!Return(FrameRun(z, p, n))
    BY <1>1, <1>2, <1>6, <2>6 DEF Allocator!Return
  <2> QED
    BY <1>4, <2>5, <2>7 DEF Allocator!Next
<1> QED
  BY <1>5, <1>6

(* Every step is one of the abstract allocator's, or changes nothing of it. *)
LEMMA StepAllocates ==
    ASSUME PMMInv, PMMInv', KernelHeld, [Next]_vars
    PROVE  KernelHeld' /\ [Allocator!Next]_Allocator!vars
<1>0. Runs \subseteq Nat \ {0} /\ Targets \subseteq Nat
  BY SizesAssumption, BoundsAssumption DEF Runs
<1>1. CASE Boot
  BY <1>1, BootAllocates
<1>2. CASE Allocations(PMMZoneType)
  <2>1. PICK n \in Runs, t \in PMMZoneType :
            \/ AllocatePhysical(n, t)
            \/ AllocatePanics(n, t)
            \/ AllocateRunsAway(n, t)
    BY <1>2 DEF Allocations
  <2>2. CASE AllocatePhysical(n, t)
    <3>1. PICK z \in Zones, p \in Bits : HandOut(z, p, n)
      BY <2>2 DEF AllocatePhysical, DoAllocate
    <3>2. p \in Nat
      BY SizesAssumption DEF Bits
    <3>3. pc = "running" /\ pc' = "running" /\ UNCHANGED table
      BY <2>2 DEF AllocatePhysical
    <3> QED
      BY <1>0, <3>1, <3>2, <3>3, HandOutGrants
  <2>3. CASE AllocatePanics(n, t)
    BY <2>3, QuietAllocates DEF AllocatePanics
  <2>4. CASE AllocateRunsAway(n, t)
    BY <2>4, QuietAllocates DEF AllocateRunsAway
  <2> QED
    BY <2>1, <2>2, <2>3, <2>4
<1>3. CASE Mappings
  <2>1. PICK addr \in Targets, n \in Runs :
            MapPages(addr, n) \/ MapPagesFails(addr, n)
    BY <1>3 DEF Mappings
  <2>2. CASE MapPages(addr, n)
    <3>1. PICK z \in Zones : CanMap(z, addr, n) /\ DoMap(z, addr, n)
      BY <2>2 DEF MapPages
    <3>2. pc = "running" /\ pc' = "running" /\ UNCHANGED table
      BY <2>2 DEF MapPages
    <3>3. PageOf(z, addr) \in Nat
      BY <1>0, <3>1, PageOfNat DEF CanMap, FindZone
    <3>4. HandOut(z, PageOf(z, addr), n)
      BY <3>1 DEF DoMap
    <3> QED
      BY <1>0, <3>2, <3>3, <3>4, HandOutGrants
  <2>3. CASE MapPagesFails(addr, n)
    BY <2>3, QuietAllocates DEF MapPagesFails, vars
  <2> QED
    BY <2>1, <2>2, <2>3
<1>4. ASSUME NEW addr \in Targets, NEW n \in Runs,
             Release(addr, n) \/ UnmapPagesFails(addr, n)
      PROVE  KernelHeld' /\ [Allocator!Next]_Allocator!vars
  <2>1. CASE Release(addr, n)
    BY <1>0, <2>1, ReleaseReturns
  <2>2. CASE UnmapPagesFails(addr, n)
    BY <2>2, QuietAllocates DEF UnmapPagesFails, vars
  <2> QED
    BY <1>4, <2>1, <2>2
<1>5. CASE Halted \/ UNCHANGED vars
  BY <1>5, QuietAllocates DEF Halted, vars
<1> QED
  BY <1>1, <1>2, <1>3, <1>4, <1>5 DEF Next

(* The allocator keeps its promise: every step is one that the abstract    *)
(* allocator allows or leaves what callers see unchanged, for every map.   *)
THEOREM KeepsPromise == Spec => ImplementsAllocator
<1>1. Init => KernelHeld /\ Allocator!Init
  BY DEF Init, KernelHeld, Allocator!Init
<1>2. PMMInv /\ PMMInv' /\ KernelHeld /\ [Next]_vars
          => KernelHeld' /\ [Allocator!Next]_Allocator!vars
  BY StepAllocates
<1> QED
  BY <1>1, <1>2, Invariance, PTL DEF Spec, ImplementsAllocator, Allocator!Spec

-----------------------------------------------------------------------------
(* The manager as this kernel uses it: the kernel keeps its own pages, and *)
(* with the calls it makes today no search passes the end of a zone and    *)
(* every page handed out is memory.  What the proofs take from the machine *)
(* and the linker script is stated first, about the constants alone.       *)

(* The kernel starts on a page of its zone.  linker.ld puts it at 1 MB.    *)
KernelAligned ==
    \A image \in KernelImages, z \in Zones :
        FindZone(image.start, z) => (image.start - Start(z)) % PageSize = 0

(* e[z] is the size of the pool once z zones are laid. *)
PoolEnds ==
    {e \in [0..Len(LoaderMap) -> Nat] :
        /\ e[0] = ZoneStructSize * Len(LoaderMap)
        /\ \A z \in Zones : e[z] = e[z - 1] + BitmapBytes(z)}

(* The size of the pool in the end, which the map alone decides. *)
PoolEnd == CHOOSE e \in PoolEnds : TRUE
PoolSize == PoolEnd[Len(LoaderMap)]

(* The kernel is loaded where a range of memory starts (RAM above 1 MB     *)
(* does), and that range holds it and a pool of the given size, in whole   *)
(* pages that end below the end of the address space.                      *)
KernelFits(pool) ==
    \A image \in KernelImages, z \in Zones : FindZone(image.start, z) =>
        LET size == (1 + (image.end + pool - image.start) \div PageSize) * PageSize
        IN  /\ image.start = Start(z)
            /\ size =< Length(z)
            /\ image.start + size < AddrSpace

(* The bits that are modelled are at least those of the pool. *)
PoolModelled(pool) == BitsPerByte * pool =< MaxBit + 1

-----------------------------------------------------------------------------
(* The kernel's own pages. *)

(* The pages reserved for the kernel cover the image and the pool. *)
LEMMA ReservedCover ==
    ASSUME TypeOK, KernelAligned, NEW z \in Zones, FindZone(kernel.start, z),
           NEW b \in kernel.start..(kernel.end + kend - 1)
    PROVE  \E f \in FrameRun(z, PageOf(z, kernel.start), PmmPageCount) : b \in FrameBytes(f)
<1> DEFINE S == Start(z)
           s == kernel.start
           p == PageOf(z, s)
           L == kernel.end + kend - s
           N == PmmPageCount
           x == b - S
           q == x \div PageSize
           r == x % PageSize
<1>1. /\ S \in Nat /\ s \in Nat /\ s >= S /\ kernel.end \in Nat /\ kend \in Nat
      /\ s =< kernel.end /\ kernel \in KernelImages /\ PageSize \in Nat \ {0}
  BY ZoneFacts, KernelAssumption, SizesAssumption DEF TypeOK, FindZone, Contains
<1>2. L \in Nat /\ s - S \in Nat /\ x \in Nat /\ b \in Nat
  BY <1>1
<1>3. p \in Nat /\ s - S = PageSize * p
  <2>1. (s - S) % PageSize = 0
    BY <1>1 DEF KernelAligned
  <2>2. p \in Nat /\ s - S = PageSize * p + ((s - S) % PageSize)
    BY <1>1, <1>2, DivisionSplits DEF PageOf
  <2> QED
    BY <1>1, <2>1, <2>2
<1>4. N \in Nat /\ L < PageSize * N
  <2>1. L \div PageSize \in Nat /\ L < PageSize * ((L \div PageSize) + 1)
    BY <1>1, <1>2, DivisionRoundsDown
  <2>2. N = (L \div PageSize) + 1
    BY <2>1 DEF PmmPageCount
  <2> QED
    BY <2>1, <2>2
<1>5. q \in Nat /\ r \in 0..(PageSize - 1) /\ x = PageSize * q + r
  BY <1>1, <1>2, DivisionSplits
<1> HIDE DEF p, N, q, r
<1>6. q < p + N
  <2>1. PageSize * (p + N) = PageSize * p + PageSize * N
    BY <1>1, <1>3, <1>4
  <2>2. x < PageSize * p + L /\ PageSize * p \in Nat /\ PageSize * N \in Nat
    BY <1>1, <1>2, <1>3, <1>4
  <2>3. x < PageSize * (p + N)
    BY <1>2, <1>4, <2>1, <2>2
  <2> QED
    BY <1>1, <1>2, <1>3, <1>4, <2>3, RowBelow DEF q
<1>7. p =< q
  <2>1. ASSUME q < p PROVE FALSE
    <3>1. PageSize * q + PageSize =< PageSize * p
      BY <1>1, <1>3, <1>5, <2>1, RowsInOrder
    <3>2. PageSize * q \in Nat /\ PageSize * p \in Nat /\ PageSize * p =< x
      BY <1>1, <1>2, <1>3, <1>5
    <3> QED
      BY <1>1, <1>5, <3>1, <3>2
  <2> QED
    BY <1>3, <1>5, <2>1
<1>8. q \in p..(p + N - 1) /\ PageSize * q = q * PageSize
  BY <1>1, <1>3, <1>4, <1>5, <1>6, <1>7
<1>9. <<z, q>> \in FrameRun(z, p, N)
  BY <1>8 DEF FrameRun
<1>10. b \in FrameBytes(<<z, q>>)
  <2>1. q * PageSize \in Nat
    BY <1>1, <1>5
  <2>2. b = S + q * PageSize + r
    <3>1. x = q * PageSize + r
      BY <1>5, <1>8
    <3>2. b = S + x
      BY <1>1, <1>2
    <3>3. \A y \in Nat : x = y + r => b = S + y + r
      BY <1>1, <1>2, <1>5, <3>2
    <3> QED
      BY <2>1, <3>1, <3>3
  <2> QED
    BY <1>1, <1>5, <2>1, <2>2 DEF FrameBytes, FrameAddr
<1> QED
  BY <1>9, <1>10 DEF p, N

(* While no page past a zone's end is handed out, the pages of the kernel  *)
(* are held and their bits set.                                            *)
LEMMA InvKernelKept ==
    ASSUME PMMInv, KernelHeld, KernelAligned
    PROVE  KernelKept
<1> SUFFICES ASSUME pc = "running", ~overran
             PROVE  /\ kernel.start..(kernel.end + kend - 1) \subseteq
                          UNION {FrameBytes(f) : f \in held \cap KernelFrames}
                    /\ \A f \in KernelFrames : Bit(f[1], f[2]) \in bits
  BY DEF KernelKept
<1>1. PICK z \in Zones : FindZone(kernel.start, z)
  BY DEF KernelHeld, KernelFrames
<1>2. /\ KernelFrames = FrameRun(z, PageOf(z, kernel.start), PmmPageCount)
      /\ KernelFrames \subseteq held /\ TypeOK
  BY <1>1, KernelRun DEF KernelHeld, PMMInv
<1>3. ASSUME NEW b \in kernel.start..(kernel.end + kend - 1)
      PROVE  \E f \in held \cap KernelFrames : b \in FrameBytes(f)
  BY <1>1, <1>2, ReservedCover
<1>4. ASSUME NEW f \in KernelFrames PROVE Bit(f[1], f[2]) \in bits
  <2>1. f \in held /\ f \in Zones \X Nat /\ InZone(f)
    BY <1>2 DEF PMMInv, TypeOK, Exclusive
  <2>2. f = <<f[1], f[2]>> /\ f[1] \in Zones /\ f[2] \in Nat /\ PageCount(f[1]) \in Nat
    BY <2>1, ZoneFacts
  <2>3. f[2] \in 0..(PageCount(f[1]) - 1)
    BY <2>1, <2>2 DEF InZone
  <2>4. Laid = Zones
    BY LoaderAssumption DEF PMMInv, Ready, Laid, Zones
  <2> QED
    BY <2>1, <2>2, <2>3, <2>4 DEF PMMInv, BitmapAgrees
<1> QED
  BY <1>3, <1>4

(* The kernel's image, the zone table and the bitmaps are never handed to  *)
(* a caller, by any calls of owners, before a page past a zone's end is.   *)
THEOREM KernelStaysReserved ==
    ASSUME KernelAligned
    PROVE  Spec => []KernelKept
<1>1. Init => KernelHeld
  BY DEF Init, KernelHeld
<1>2. PMMInv /\ PMMInv' /\ KernelHeld /\ [Next]_vars => KernelHeld'
  BY StepAllocates
<1>3. PMMInv /\ KernelHeld => KernelKept
  BY InvKernelKept
<1> QED
  BY <1>1, <1>2, <1>3, Invariance, PTL DEF Spec
-----------------------------------------------------------------------------
(* The calls this kernel makes. *)

(* first_free_addr of a zone the kernel allocates from is a page of it,    *)
(* inside the range the loader reported; the pages held are those below.   *)
HintInv ==
    \A z \in Laid : "Normal" \in Type(z) =>
        /\ HintPage(z) \in Nat
        /\ HintPage(z) * PageSize =< Length(z)
        /\ first_free_addr[z] = Start(z) + HintPage(z) * PageSize
        /\ \A p \in Nat : <<z, p>> \in held <=> p < HintPage(z)

(* The inductive invariant.  Once a table is mapped past the end of its    *)
(* range, only the layout of the pool is certain.                          *)
CallsInv(ends) ==
    /\ PMMInv
    /\ kend = ends[next - 1]
    /\ ~overran => pc # "lost" /\ HintInv

(* The numbers of a zone. *)
LEMMA ZoneNumbers ==
    ASSUME NEW z \in Zones
    PROVE  /\ Start(z) \in Nat /\ Start(z) < AddrSpace
           /\ Length(z) \in Nat /\ Length(z) < AddrSpace
<1>1. LoaderMap[z] \in LoaderEntry
  BY LoaderAssumption DEF Zones
<1>2. LoaderMap[z].addr \in Nat /\ LoaderMap[z].len \in Nat
  BY <1>1 DEF LoaderEntry
<1>3. \A x \in Nat : x % AddrSpace \in Nat /\ x % AddrSpace < AddrSpace
  BY SizesAssumption
<1> QED
  BY <1>2, <1>3 DEF Start, Length

(* An allocatable zone is RAM.  One that narrowing has not moved is where  *)
(* the loader says.                                                        *)
LEMMA NormalZone ==
    ASSUME NEW z \in Zones, "Normal" \in Type(z), Fits(z)
    PROVE  /\ LoaderMap[z].type = 1
           /\ Length(z) > 0 => Start(z) = LoaderMap[z].addr /\ Length(z) = LoaderMap[z].len
<1> DEFINE a == LoaderMap[z].addr
           l == LoaderMap[z].len
<1>1. LoaderMap[z] \in LoaderEntry
  BY LoaderAssumption DEF Zones
<1>2. a \in Nat /\ l \in Nat /\ AddrSpace \in Nat \ {0}
  BY <1>1, SizesAssumption DEF LoaderEntry
<1>3. LoaderMap[z].type = 1
  BY DEF Type
<1>4. a + l =< AddrSpace
  BY DEF Fits
<1> HIDE DEF a, l
<1>5. \A x \in Nat : x < AddrSpace => x % AddrSpace = x
  BY <1>2
<1>6. AddrSpace % AddrSpace = 0 /\ 0 % AddrSpace = 0
  BY <1>2
<1>7. Start(z) = a % AddrSpace /\ Length(z) = l % AddrSpace
  BY DEF Start, Length, a, l
<1>8. CASE a < AddrSpace /\ l < AddrSpace
  BY <1>2, <1>3, <1>5, <1>7, <1>8 DEF a, l
<1>9. CASE ~(a < AddrSpace /\ l < AddrSpace)
  <2>1. l = 0 \/ l = AddrSpace
    BY <1>2, <1>4, <1>9
  <2>2. Length(z) = 0
    BY <1>6, <1>7, <2>1
  <2> QED
    BY <1>3, <2>2
<1> QED
  BY <1>8, <1>9

(* The page a hint stands for. *)
LEMMA HintIs ==
    ASSUME NEW z \in Zones, NEW k \in Nat, Start(z) + k * PageSize < AddrSpace
    PROVE  /\ (Start(z) + k * PageSize) % AddrSpace = Start(z) + k * PageSize
           /\ first_free_addr[z] = Start(z) + k * PageSize => HintPage(z) = k
           /\ first_free_addr'[z] = Start(z) + k * PageSize => HintPage(z)' = k
<1> DEFINE x == k * PageSize
<1>1. /\ Start(z) \in Nat /\ Start(z) + x < AddrSpace
      /\ x \in Nat /\ AddrSpace \in Nat \ {0} /\ PageSize \in Nat \ {0}
  BY ZoneNumbers, SizesAssumption
<1>2. x \div PageSize = k
  <2>1. x = PageSize * k + 0 /\ 0 \in 0..(PageSize - 1)
    BY <1>1
  <2> QED
    BY <1>1, <2>1, DivisionUnique
<1> HIDE DEF x
<1>3. \A y \in Nat : y < AddrSpace => y % AddrSpace = y
  BY <1>1
<1>4. (Start(z) + x) % AddrSpace = Start(z) + x
  BY <1>1, <1>3
<1>5. ASSUME NEW f, f = Start(z) + x
      PROVE  ((f - Start(z)) % AddrSpace) \div PageSize = k
  <2>1. f - Start(z) = x /\ x < AddrSpace
    BY <1>1, <1>5
  <2>2. x % AddrSpace = x
    BY <1>1, <1>3, <2>1
  <2> QED
    BY <1>2, <2>1, <2>2
<1>6. first_free_addr[z] = Start(z) + x => HintPage(z) = k
  BY <1>5 DEF HintPage
<1>7. first_free_addr'[z] = Start(z) + x => HintPage(z)' = k
  <2>1. Start(z)' = Start(z)
    BY DEF Start
  <2>2. HintPage(z)' = ((first_free_addr'[z] - Start(z)) % AddrSpace) \div PageSize
    BY <2>1 DEF HintPage
  <2> QED
    BY <1>5, <2>2
<1> QED
  BY <1>4, <1>6, <1>7 DEF x

(* A zone of more than a page is not padded. *)
LEMMA PagesInRange ==
    ASSUME NEW z \in Zones, NEW k \in Nat
    PROVE  /\ k =< PageCount(z) /\ k > 1 => k * PageSize =< Length(z)
           /\ k < PageCount(z) => k * PageSize =< Length(z)
           /\ k * PageSize =< Length(z) => k =< PageCount(z)
<1> DEFINE L == Length(z)
           q == L \div PageSize
<1>1. L \in Nat /\ PageSize \in Nat \ {0}
  <2>1. LoaderMap[z] \in LoaderEntry
    BY LoaderAssumption DEF Zones
  <2>2. LoaderMap[z].len \in Nat
    BY <2>1 DEF LoaderEntry
  <2> QED
    BY <2>2, SizesAssumption DEF Length
<1>2. q \in Nat /\ PageSize * q =< L /\ L < PageSize * (q + 1)
  <2>1. q \in Nat /\ L % PageSize \in 0..(PageSize - 1) /\ L = PageSize * q + (L % PageSize)
    BY <1>1, DivisionSplits
  <2>2. L < PageSize * (q + 1)
    BY <1>1, DivisionRoundsDown
  <2>3. PageSize * q \in Nat
    <3> HIDE DEF q
    <3> QED
      BY <1>1, <2>1
  <2>4. \A y, r \in Nat : L = y + r => y =< L
    BY <1>1
  <2>5. L % PageSize \in Nat
    BY <1>1, <2>1
  <2> QED
    BY <2>1, <2>2, <2>3, <2>4, <2>5
<1>3. PageCount(z) = IF L > 0 /\ q = 0 THEN 1 ELSE q
  BY DEF PageCount
<1> HIDE DEF L, q
<1>4. ASSUME k =< q PROVE k * PageSize =< L
  <2>1. PageSize * k =< PageSize * q
    BY <1>1, <1>2, <1>4, MulMonotone
  <2>2. PageSize * k \in Nat /\ PageSize * q \in Nat /\ k * PageSize = PageSize * k
    BY <1>1, <1>2
  <2> QED
    BY <1>1, <1>2, <2>1, <2>2
<1>5. ASSUME k * PageSize =< L PROVE k =< q
  <2>1. ASSUME q + 1 =< k PROVE FALSE
    <3>1. PageSize * (q + 1) =< PageSize * k
      BY <1>1, <1>2, <2>1, MulMonotone
    <3>2. PageSize * k \in Nat /\ PageSize * (q + 1) \in Nat /\ k * PageSize = PageSize * k
      BY <1>1, <1>2
    <3> QED
      BY <1>1, <1>2, <1>5, <3>1, <3>2
  <2> QED
    BY <1>2, <2>1
<1>6. /\ k =< PageCount(z) /\ k > 1 => k =< q
      /\ k < PageCount(z) => k =< q
      /\ k =< q => k =< PageCount(z)
  BY <1>2, <1>3
<1> QED
  BY <1>4, <1>5, <1>6 DEF L
(* The hint and the held pages of one Normal zone after a run of pages is  *)
(* handed out right at the hint, and of the others.                        *)
LEMMA HintMoves ==
    ASSUME TypeOK, HintInv, Laid' = Laid,
           NEW z \in Zones, NEW p \in Nat, NEW n \in Nat,
           held' = held \cup FrameRun(z, p, n),
           \A y \in Zones : y # z => first_free_addr'[y] = first_free_addr[y],
           "Normal" \in Type(z) =>
              /\ z \in Laid /\ p = HintPage(z) /\ (p + n) * PageSize =< Length(z)
              /\ first_free_addr'[z] = Start(z) + (p + n) * PageSize
              /\ Start(z) + (p + n) * PageSize < AddrSpace
    PROVE  HintInv'
<1> SUFFICES ASSUME NEW y \in Laid, "Normal" \in Type(y)
             PROVE  /\ HintPage(y)' \in Nat
                    /\ HintPage(y)' * PageSize =< Length(y)
                    /\ first_free_addr'[y] = Start(y) + HintPage(y)' * PageSize
                    /\ \A q \in Nat : <<y, q>> \in held' <=> q < HintPage(y)'
  BY DEF HintInv, Type, InLowMemory, Start, Length
<1>0. y \in Zones
  BY DEF Laid
<1>1. CASE y = z
  <2>1. HintPage(y)' = p + n /\ p + n \in Nat
    BY <1>0, <1>1, HintIs
  <2>2. ASSUME NEW q \in Nat PROVE <<y, q>> \in held' <=> q < p + n
    <3>1. <<y, q>> \in held <=> q < p
      BY <1>1 DEF HintInv
    <3>2. <<y, q>> \in FrameRun(z, p, n) <=> q \in p..(p + n - 1)
      BY <1>1 DEF FrameRun
    <3>3. q \in p..(p + n - 1) <=> ~(q < p) /\ q < p + n
      OBVIOUS
    <3>4. q < p => q < p + n
      OBVIOUS
    <3> QED
      BY <3>1, <3>2, <3>3, <3>4
  <2> QED
    BY <1>1, <2>1, <2>2
<1>2. CASE y # z
  <2>1. HintPage(y)' = HintPage(y) /\ first_free_addr'[y] = first_free_addr[y]
    BY <1>0, <1>2 DEF HintPage, Start
  <2>2. \A q : <<y, q>> \in held' <=> <<y, q>> \in held
    BY <1>2 DEF FrameRun
  <2> QED
    BY <2>1, <2>2 DEF HintInv
<1> QED
  BY <1>1, <1>2

(* A step that moves no hint and hands out nothing. *)
LEMMA HintRests ==
    ASSUME HintInv, UNCHANGED <<next, first_free_addr, held>>
    PROVE  HintInv'
<1>1. Laid' = Laid /\ \A z : HintPage(z)' = HintPage(z)
  BY DEF Laid, HintPage, Start
<1> QED
  BY <1>1 DEF HintInv, Type, InLowMemory, Start, Length

(* There is such a function for every map, so the size of the pool is well *)
(* defined: every shorter prefix of the map has one, and a longer one is   *)
(* made by adding the next zone's bitmap.                                  *)
LEMMA PoolSized == PoolEnds # {}
<1> DEFINE N == Len(LoaderMap)
           c == ZoneStructSize * N
           Upto(n) == {e \in [0..n -> Nat] :
                          /\ e[0] = c
                          /\ \A z \in 1..n : e[z] = e[z - 1] + BitmapBytes(z)}
           Bad == {n \in 0..N : Upto(n) = {}}
<1>1. N \in Nat /\ c \in Nat /\ Zones = 1..N
  BY LoaderAssumption, SizesAssumption DEF Zones
<1>2. Upto(0) # {}
  <2>1. [i \in 0..0 |-> c] \in Upto(0)
    BY <1>1
  <2> QED
    BY <2>1
<1>3. ASSUME NEW n \in Nat, n + 1 =< N, Upto(n) # {}
      PROVE  Upto(n + 1) # {}
  <2>1. PICK e \in [0..n -> Nat] :
          e[0] = c /\ \A z \in 1..n : e[z] = e[z - 1] + BitmapBytes(z)
    BY <1>3
  <2> DEFINE last == e[n] + BitmapBytes(n + 1)
             f == [i \in 0..(n + 1) |-> IF i = n + 1 THEN last ELSE e[i]]
  <2>2. last \in Nat
    BY <1>1, <1>3, <2>1, ZoneFacts
  <2> HIDE DEF last
  <2>3. f \in [0..(n + 1) -> Nat]
    BY <2>1, <2>2
  <2>4. f[0] = c
    BY <2>1
  <2>5. ASSUME NEW z \in 1..(n + 1) PROVE f[z] = f[z - 1] + BitmapBytes(z)
    <3>1. CASE z = n + 1
      <4>1. z - 1 = n /\ n \in 0..(n + 1) /\ n # n + 1 /\ z \in 0..(n + 1)
        BY <1>3, <3>1
      <4> QED
        BY <3>1, <4>1 DEF last
    <3>2. CASE z # n + 1
      <4>1. z \in 1..n /\ z \in 0..(n + 1) /\ z - 1 \in 0..(n + 1) /\ z - 1 # n + 1
        BY <1>3, <3>2
      <4> QED
        BY <2>1, <3>2, <4>1
    <3> QED
      BY <3>1, <3>2
  <2>6. f \in Upto(n + 1)
    BY <2>3, <2>4, <2>5
  <2> QED
    BY <2>6
<1>4. ASSUME Bad # {} PROVE FALSE
  <2>1. \A x \in Bad : x \in Nat
    BY <1>1
  <2>2. PICK k \in Bad : \A j \in Bad : k =< j
    BY <1>4, <2>1, LeastNatural
  <2> HIDE DEF Upto
  <2>3. k \in Nat /\ k =< N /\ Upto(k) = {}
    BY <1>1, <2>2
  <2>4. k # 0
    BY <1>2, <2>3
  <2>5. k - 1 \in Nat /\ k - 1 \in 0..N /\ (k - 1) + 1 = k /\ ~(k =< k - 1)
    BY <1>1, <2>3, <2>4
  <2>6. Upto(k - 1) # {}
    BY <2>2, <2>5
  <2>7. Upto((k - 1) + 1) # {}
    BY <1>3, <2>3, <2>5, <2>6
  <2> QED
    BY <2>3, <2>5, <2>7
<1>5. Upto(N) # {}
  <2> HIDE DEF Upto
  <2> QED
    BY <1>1, <1>4
<1>6. PICK e : e \in Upto(N)
  BY <1>5
<1>7. e \in PoolEnds
  BY <1>1, <1>6 DEF PoolEnds
<1> QED
  BY <1>7

(* The invariant when the constructor starts. *)
LEMMA CallsStart ==
    ASSUME NEW ends \in PoolEnds, Init
    PROVE  CallsInv(ends)
<1>1. Laid = {} /\ next = 1 /\ kend = ends[0] /\ next - 1 = 0
  BY LoaderAssumption DEF Init, Laid, Zones, PoolEnds
<1> QED
  BY <1>1, InitInv DEF CallsInv, HintInv, Init

(* A turn of the constructor's loop. *)
LEMMA CallsLayZone ==
    ASSUME NEW ends \in PoolEnds, CallsInv(ends), LayZone
    PROVE  CallsInv(ends)'
<1>1. /\ PMMInv /\ PMMInv' /\ TypeOK /\ next \in Zones /\ next \in Nat
      /\ pc' = "zones" /\ UNCHANGED ghosts /\ held = {} /\ ~overran /\ next' = next + 1
      /\ kend' = kend + BitmapBytes(next)
      /\ first_free_addr' = [first_free_addr EXCEPT ![next] = Start(next)]
  BY LayZoneInv DEF CallsInv, PMMInv, LayZone, Ready, Zones
<1>2. kend' = ends[next' - 1]
  <2>1. kend = ends[next - 1] /\ ends[next] = ends[next - 1] + BitmapBytes(next)
    BY <1>1 DEF CallsInv, PoolEnds
  <2>2. next' - 1 = next
    BY <1>1
  <2> QED
    BY <1>1, <2>1, <2>2
<1>3. Laid' = Laid \cup {next} /\ \A y \in Laid : y \in Zones /\ y # next
  BY <1>1 DEF Laid, Zones
<1>4. ASSUME NEW y \in Laid', "Normal" \in Type(y)
      PROVE  /\ HintPage(y)' = 0
             /\ first_free_addr'[y] = Start(y) /\ Start(y) \in Nat /\ Length(y) \in Nat
  <2>1. y \in Zones
    BY <1>1, <1>3
  <2>2. first_free_addr'[y] = Start(y)
    <3>1. CASE y = next
      BY <1>1, <2>1, <3>1 DEF TypeOK
    <3>2. CASE y # next
      <4>1. y \in Laid /\ first_free_addr'[y] = first_free_addr[y]
        BY <1>1, <1>3, <2>1, <3>2 DEF TypeOK
      <4>2. /\ HintPage(y) \in Nat /\ ~(0 < HintPage(y))
            /\ first_free_addr[y] = Start(y) + HintPage(y) * PageSize
        BY <1>1, <1>4, <4>1 DEF CallsInv, HintInv
      <4>3. HintPage(y) = 0
        BY <4>2
      <4>4. Start(y) \in Nat /\ 0 * PageSize = 0
        BY <2>1, ZoneNumbers, SizesAssumption
      <4> QED
        BY <4>1, <4>2, <4>3, <4>4
    <3> QED
      BY <3>1, <3>2
  <2>3. Start(y) \in Nat /\ Length(y) \in Nat /\ 0 * PageSize = 0 /\ Start(y) < AddrSpace
    BY <2>1, ZoneNumbers, SizesAssumption
  <2>4. first_free_addr'[y] = Start(y) + 0 * PageSize /\ Start(y) + 0 * PageSize < AddrSpace
    BY <2>2, <2>3
  <2>5. HintPage(y)' = 0
    BY <2>1, <2>4, HintIs
  <2> QED
    BY <2>2, <2>3, <2>5
<1>5. HintInv'
  <2>1. \A y \in Laid' : "Normal" \in Type(y) =>
          /\ HintPage(y)' \in Nat
          /\ HintPage(y)' * PageSize =< Length(y)
          /\ first_free_addr'[y] = Start(y) + HintPage(y)' * PageSize
          /\ \A q \in Nat : <<y, q>> \in held' <=> q < HintPage(y)'
    <3> SUFFICES ASSUME NEW y \in Laid', "Normal" \in Type(y)
                 PROVE  /\ 0 * PageSize =< Length(y)
                        /\ first_free_addr'[y] = Start(y) + 0 * PageSize
                        /\ \A q \in Nat : <<y, q>> \in held' <=> q < 0
      BY <1>4
    <3>1. 0 * PageSize = 0 /\ held' = {}
      BY <1>1, SizesAssumption DEF ghosts
    <3> QED
      BY <1>4, <3>1
  <2> QED
    BY <2>1 DEF HintInv, Type, InLowMemory, Start, Length
<1> QED
  BY <1>1, <1>2, <1>5 DEF CallsInv, ghosts

(* The constructor reserves the kernel's pages at the start of its zone. *)
LEMMA CallsReserve ==
    ASSUME NEW ends \in PoolEnds, KernelFits(ends[Len(LoaderMap)]),
           CallsInv(ends), Reserve
    PROVE  CallsInv(ends)' /\ ~overran'
<1> DEFINE N == PmmPageCount
           s == kernel.start
<1>1. PICK z \in Zones : CanMap(z, s, N) /\ DoMap(z, s, N)
  BY DEF Reserve
<1>2. /\ PMMInv /\ PMMInv' /\ TypeOK /\ pc' = "running" /\ UNCHANGED table
      /\ held = {} /\ ~overran /\ next = Len(LoaderMap) + 1 /\ kend = ends[next - 1]
      /\ kernel \in KernelImages
  BY BootInv DEF CallsInv, PMMInv, Reserve, Ready, Boot, TypeOK
<1>3. next - 1 = Len(LoaderMap) /\ Laid = Zones /\ Laid' = Laid
  BY <1>2, LoaderAssumption DEF Laid, Zones, table
<1>4. s = Start(z) /\ N * PageSize =< Length(z) /\ s + N * PageSize < AddrSpace
  BY <1>1, <1>2, <1>3 DEF KernelFits, CanMap, PmmPageCount
<1>5. /\ N \in Nat /\ Start(z) \in Nat /\ PageCount(z) \in Nat
      /\ PageOf(z, s) = 0 /\ PageSize \in Nat \ {0}
  <2>1. Start(z) \in Nat /\ PageSize \in Nat \ {0}
    BY ZoneFacts, SizesAssumption
  <2>2. s - Start(z) = 0 /\ 0 \div PageSize = 0
    BY <1>4, <2>1
  <2> QED
    BY <1>2, <2>1, <2>2, PmmPageCountNat, ZoneFacts DEF PageOf
<1>6. N =< PageCount(z)
  BY <1>4, <1>5, PagesInRange
<1> HIDE DEF N
<1>7. HandOut(z, 0, N)
  BY <1>1, <1>5 DEF DoMap, N
<1>8. ~overran'
  <2>1. overran' = (overran \/ 0 + N > PageCount(z))
    BY <1>7 DEF HandOut
  <2>2. ~(0 + N > PageCount(z))
    BY <1>5, <1>6
  <2> QED
    BY <1>2, <2>1, <2>2
<1>9. held' = held \cup FrameRun(z, 0, N)
  BY <1>7 DEF HandOut
<1>10. first_free_addr' = IF s = first_free_addr[z]
                          THEN [first_free_addr EXCEPT ![z] = (s + N * PageSize) % AddrSpace]
                          ELSE first_free_addr
  BY <1>1 DEF DoMap, N
<1>11. \A y \in Zones : y # z => first_free_addr'[y] = first_free_addr[y]
  BY <1>2, <1>10 DEF TypeOK
<1>12. ASSUME "Normal" \in Type(z)
       PROVE  /\ 0 = HintPage(z) /\ (0 + N) * PageSize =< Length(z)
              /\ first_free_addr'[z] = Start(z) + (0 + N) * PageSize
              /\ Start(z) + (0 + N) * PageSize < AddrSpace
  <2>1. /\ HintPage(z) \in Nat /\ ~(0 < HintPage(z))
        /\ first_free_addr[z] = Start(z) + HintPage(z) * PageSize
    BY <1>2, <1>3, <1>12 DEF CallsInv, HintInv
  <2>2. HintPage(z) = 0
    BY <2>1
  <2>3. 0 * PageSize = 0 /\ 0 + N = N
    BY <1>5
  <2>4. first_free_addr[z] = s
    BY <1>4, <1>5, <2>1, <2>2, <2>3
  <2>5. first_free_addr'[z] = (Start(z) + N * PageSize) % AddrSpace
    BY <1>2, <1>4, <1>10, <2>4 DEF TypeOK
  <2>6. (Start(z) + N * PageSize) % AddrSpace = Start(z) + N * PageSize
    BY <1>4, <1>5, HintIs DEF N
  <2> QED
    BY <1>4, <2>2, <2>3, <2>5, <2>6 DEF N
<1>13. HintInv'
  BY <1>2, <1>3, <1>5, <1>9, <1>11, <1>12, HintMoves DEF CallsInv
<1> QED
  BY <1>2, <1>8, <1>13 DEF CallsInv, table
(* In a zone that passes AllocatePhysical's tests the run at the hint is   *)
(* free, so that the search ends where it begins.                          *)
LEMMA HintIsFree ==
    ASSUME NEW ends \in PoolEnds, PoolModelled(ends[Len(LoaderMap)]),
           CallsInv(ends), pc = "running", ~overran,
           NEW z \in Zones, NEW n \in Nat \ {0}, Suitable(z, n, "Normal")
    PROVE  /\ "Normal" \in Type(z) /\ z \in Laid
           /\ HintPage(z) \in Bits /\ HintPage(z) \in Nat /\ HintPage(z) + n < PageCount(z)
           /\ FirstFreeRun(z, HintPage(z), n)
           /\ Modelled(z, HintPage(z), n)
<1> DEFINE k == HintPage(z)
           B == BitsPerByte
<1>1. "Normal" \in Type(z) /\ k + n < PageCount(z)
  BY DEF Suitable
<1>2. /\ PMMInv /\ TypeOK /\ Layout /\ ~overran /\ Laid = Zones
      /\ kend = ends[Len(LoaderMap)]
  <2>1. next = Len(LoaderMap) + 1 /\ Len(LoaderMap) \in Nat
    BY LoaderAssumption DEF CallsInv, PMMInv, Ready
  <2>2. next - 1 = Len(LoaderMap) /\ Laid = Zones
    BY <2>1 DEF Laid, Zones
  <2> QED
    BY <2>2 DEF CallsInv, PMMInv
<1>3. k \in Nat /\ PageCount(z) \in Nat /\ \A p \in Nat : <<z, p>> \in held <=> p < k
  BY <1>1, <1>2, ZoneFacts DEF CallsInv, HintInv
<1> HIDE DEF k
<1>4. ASSUME NEW i \in k..(k + n - 1)
      PROVE  i \in Nat /\ i \in 0..(PageCount(z) - 1) /\ Bit(z, i) \notin bits
  <2>1. i \in Nat /\ i \in 0..(PageCount(z) - 1) /\ ~(i < k)
    BY <1>1, <1>3
  <2>2. <<z, i>> \notin held
    BY <1>3, <2>1
  <2> QED
    BY <1>2, <2>1, <2>2 DEF PMMInv, BitmapAgrees
<1>5. CheckIfPagesFree(z, k, n)
  BY <1>4 DEF CheckIfPagesFree, BitRun
<1>6. FirstFreeRun(z, k, n)
  BY <1>3, <1>5 DEF FirstFreeRun, k
<1>7. ASSUME NEW i \in 0..(PageCount(z) - 1) PROVE Bit(z, i) \in Bits /\ i \in Bits
  <2>1. /\ B \in Nat \ {0} /\ MaxBit \in Nat /\ kend \in Nat /\ alloc_bitmap[z] \in Nat
        /\ BitmapBytes(z) \in Nat /\ PageCount(z) < B * BitmapBytes(z)
        /\ alloc_bitmap[z] + BitmapBytes(z) =< kend /\ B * kend =< MaxBit + 1
    BY <1>2, ZoneFacts, SizesAssumption DEF TypeOK, Layout, PoolModelled
  <2>2. B * (alloc_bitmap[z] + BitmapBytes(z)) =< B * kend
    BY <2>1, MulMonotone
  <2>3. /\ B * (alloc_bitmap[z] + BitmapBytes(z)) = B * alloc_bitmap[z] + B * BitmapBytes(z)
        /\ B * alloc_bitmap[z] \in Nat /\ B * BitmapBytes(z) \in Nat /\ B * kend \in Nat
    BY <2>1
  <2>4. i \in Nat /\ i < PageCount(z)
    BY <1>3
  <2>5. \A x, y, w \in Nat : x + y =< w /\ w =< MaxBit + 1 /\ PageCount(z) < y =>
           x + i \in 0..MaxBit /\ i \in 0..MaxBit
    BY <1>3, <2>4, SizesAssumption
  <2>6. B * alloc_bitmap[z] + B * BitmapBytes(z) =< B * kend
    BY <2>2, <2>3
  <2>7. B * alloc_bitmap[z] + i \in 0..MaxBit /\ i \in 0..MaxBit
    BY <2>1, <2>3, <2>5, <2>6
  <2> QED
    BY <2>7 DEF Bit, Bits
<1>8. Modelled(z, k, n)
  BY <1>4, <1>7 DEF Modelled, BitRun
<1>9. k \in Bits
  <2>1. k \in 0..(PageCount(z) - 1)
    BY <1>1, <1>3 DEF k
  <2> QED
    BY <1>7, <2>1
<1> QED
  BY <1>1, <1>2, <1>3, <1>6, <1>8, <1>9 DEF k

(* A zone that passes the tests ends inside the address space: the end of  *)
(* one that does not has wrapped to below the hint.                        *)
LEMMA RunEnds ==
    ASSUME NEW z \in Zones, NEW n \in Nat \ {0}, NEW k \in Nat,
           Suitable(z, n, "Normal"), k = HintPage(z),
           first_free_addr[z] = Start(z) + k * PageSize
    PROVE  Start(z) + (k + n) * PageSize < AddrSpace
<1> DEFINE s == Start(z)
           c == PageCount(z)
           x == c * PageSize
           y == (k + n) * PageSize
           w == k * PageSize
<1>1. /\ s \in Nat /\ s < AddrSpace /\ Length(z) \in Nat /\ Length(z) < AddrSpace
      /\ c \in Nat /\ PageSize \in Nat \ {0} /\ AddrSpace \in Nat \ {0}
  BY ZoneNumbers, ZoneFacts, SizesAssumption
<1>2. k + n < c /\ s + w < (s + x) % AddrSpace
  BY DEF Suitable, ZoneLimit
<1>3. x \in Nat /\ y \in Nat /\ w \in Nat
  BY <1>1
<1>4. x =< Length(z)
  <2>1. c > 1
    BY <1>1, <1>2
  <2> QED
    BY <1>1, <2>1, PagesInRange
<1>5. y =< x
  <2>1. PageSize * (k + n) =< PageSize * c
    BY <1>1, <1>2, MulMonotone
  <2>2. PageSize * (k + n) = y /\ PageSize * c = x
    BY <1>1
  <2> QED
    BY <2>1, <2>2
<1> HIDE DEF s, c, x, y, w
<1>6. ASSUME s + x >= AddrSpace PROVE FALSE
  <2>1. s + x - AddrSpace \in Nat /\ s + x - AddrSpace < AddrSpace
    BY <1>1, <1>3, <1>4, <1>6
  <2>2. (s + x) % AddrSpace = (s + x) - AddrSpace
    <3>1. s + x \in Nat /\ AddrSpace =< s + x /\ s + x < AddrSpace + AddrSpace
      BY <1>1, <1>3, <1>6, <2>1
    <3> QED
      BY <1>1, <3>1, RemainderOnce
  <2> QED
    BY <1>1, <1>2, <1>3, <1>4, <2>2
<1>7. s + y < AddrSpace
  BY <1>1, <1>3, <1>5, <1>6
<1> QED
  BY <1>7 DEF s, y

(* AllocatePhysical hands out the run at the hint. *)
LEMMA CallsAllocate ==
    ASSUME NEW ends \in PoolEnds, PoolModelled(ends[Len(LoaderMap)]),
           CallsInv(ends), ~overran, NEW n \in Nat \ {0}, AllocatePhysical(n, "Normal")
    PROVE  CallsInv(ends)' /\ ~overran'
<1>1. PICK z \in Zones, p \in Bits : /\ FirstSuitable(z, n, "Normal")
                                    /\ FirstFreeRun(z, p, n)
                                    /\ DoAllocate(z, p, n)
  BY DEF AllocatePhysical
<1> DEFINE k == HintPage(z)
<1>2. /\ PMMInv /\ PMMInv' /\ TypeOK /\ pc = "running" /\ pc' = "running"
      /\ UNCHANGED table /\ ~overran
  BY AllocateInv DEF CallsInv, AllocatePhysical, PMMInv
<1>3. /\ "Normal" \in Type(z) /\ z \in Laid /\ k \in Nat /\ k + n < PageCount(z)
      /\ FirstFreeRun(z, k, n) /\ Suitable(z, n, "Normal")
  BY <1>1, <1>2, HintIsFree DEF FirstSuitable
<1>4. p \in Nat /\ PageCount(z) \in Nat
  BY SizesAssumption, ZoneFacts DEF Bits
<1>5. p = k
  <2>1. p >= k /\ (\A q \in k..(p - 1) : ~CheckIfPagesFree(z, q, n)) /\ CheckIfPagesFree(z, k, n)
    BY <1>1, <1>3 DEF FirstFreeRun
  <2>2. p > k => k \in k..(p - 1)
    BY <1>3, <1>4
  <2>3. ~(p > k)
    BY <2>1, <2>2
  <2> QED
    BY <1>3, <1>4, <2>1, <2>3
<1>6. /\ first_free_addr' = [first_free_addr EXCEPT
                               ![z] = (Start(z) + (k + n) * PageSize) % AddrSpace]
      /\ held' = held \cup FrameRun(z, k, n)
      /\ overran' = (overran \/ k + n > PageCount(z))
  BY <1>1, <1>5 DEF DoAllocate, HandOut
<1>w. Start(z) + (k + n) * PageSize < AddrSpace
  <2>1. first_free_addr[z] = Start(z) + k * PageSize
    BY <1>2, <1>3 DEF CallsInv, HintInv
  <2> QED
    BY <1>3, <2>1, RunEnds
<1> HIDE DEF k
<1>7. ~overran'
  <2>1. ~(k + n > PageCount(z))
    BY <1>3, <1>4
  <2> QED
    BY <1>2, <1>6, <2>1
<1>8. k + n \in Nat /\ (k + n) * PageSize =< Length(z)
  BY <1>3, <1>4, PagesInRange
<1>9. /\ first_free_addr'[z] = Start(z) + (k + n) * PageSize
      /\ \A y \in Zones : y # z => first_free_addr'[y] = first_free_addr[y]
  <2>1. (Start(z) + (k + n) * PageSize) % AddrSpace = Start(z) + (k + n) * PageSize
    BY <1>8, <1>w, HintIs
  <2> QED
    BY <1>2, <1>6, <2>1 DEF TypeOK
<1>10. Laid' = Laid
  BY <1>2 DEF Laid, table
<1>11. HintInv'
  BY <1>2, <1>3, <1>6, <1>8, <1>9, <1>10, <1>w, HintMoves DEF CallsInv, k
<1> QED
  BY <1>2, <1>7, <1>11 DEF CallsInv, table

(* VMM::MapPhysicalAddress takes pages of a reserved range, and more if    *)
(* the range ends before the run does.                                     *)
LEMMA CallsMap ==
    ASSUME DevicesReserved, NEW ends \in PoolEnds, CallsInv(ends),
           NEW phys \in Targets, NEW n \in Nat \ {0}, MapDevice(phys, n)
    PROVE  /\ CallsInv(ends)' /\ pc' = "running"
           /\ \A f \in held' \ held : "Normal" \notin Type(f[1])
<1> DEFINE a == Align(phys)
<1>1. PICK z \in Zones : CanMap(z, a, n) /\ DoMap(z, a, n)
  BY DEF MapDevice, MapPages
<1>2. pc = "running" /\ pc' = "running" /\ UNCHANGED table /\ PMMInv /\ TypeOK
  BY DEF MapDevice, MapPages, CallsInv, PMMInv
<1>3. a \in Nat
  <2>1. phys \in Nat /\ PageSize \in Nat \ {0}
    BY BoundsAssumption, SizesAssumption
  <2>2. phys \div PageSize \in Nat
    BY <2>1, DivisionRoundsDown
  <2> QED
    BY <2>1, <2>2 DEF Align
<1>5. "Normal" \notin Type(z)
  BY <1>1 DEF DevicesReserved, CanMap
<1> HIDE DEF a
<1>4. PMMInv'
  BY <1>1, <1>2, <1>3, DoMapInv
<1>6. PageOf(z, a) \in Nat
  BY <1>1, <1>3, PageOfNat DEF CanMap, FindZone
<1>7. /\ held' = held \cup FrameRun(z, PageOf(z, a), n)
      /\ overran' = (overran \/ PageOf(z, a) + n > PageCount(z))
      /\ \A y \in Zones : y # z => first_free_addr'[y] = first_free_addr[y]
  BY <1>1, <1>2 DEF DoMap, HandOut, TypeOK
<1>8. \A f \in held' \ held : f[1] = z
  BY <1>7 DEF FrameRun
<1>9. Laid' = Laid
  BY <1>2 DEF Laid, table
<1>10. ASSUME ~overran' PROVE HintInv'
  <2>1. ~overran
    BY <1>7, <1>10
  <2>2. HintInv
    BY <2>1 DEF CallsInv
  <2> QED
    BY <1>2, <1>5, <1>6, <1>7, <1>9, <2>2, HintMoves
<1> QED
  BY <1>2, <1>4, <1>5, <1>8, <1>10 DEF CallsInv, table

(* A step that only moves pc. *)
LEMMA CallsQuiet ==
    ASSUME NEW ends, CallsInv(ends), UNCHANGED <<table, first_free_addr, bits, ghosts>>,
           \/ pc' = pc
           \/ pc = "zones" /\ next \notin Zones /\ pc' = "reserve"
           \/ pc # "zones" /\ pc' = "panic"
           \/ pc # "zones" /\ pc' = "lost" /\ overran
    PROVE  CallsInv(ends)' /\ (~overran => ~overran')
<1>1. PMMInv'
  BY QuietInv DEF CallsInv
<1>2. overran' = overran /\ kend' = kend /\ next' = next
  BY DEF ghosts, table
<1>3. ASSUME ~overran PROVE HintInv' /\ pc' # "lost"
  BY <1>3, HintRests DEF CallsInv, table, ghosts
<1> QED
  BY <1>1, <1>2, <1>3 DEF CallsInv

(* AllocatePhysical after a table has been mapped past its range. *)
LEMMA CallsAllocateAfter ==
    ASSUME NEW ends, CallsInv(ends), overran, NEW n \in Nat, AllocatePhysical(n, "Normal")
    PROVE  CallsInv(ends)'
<1>1. PMMInv' /\ UNCHANGED table
  BY AllocateInv DEF CallsInv, AllocatePhysical
<1>2. overran'
  BY DEF AllocatePhysical, DoAllocate, HandOut
<1> QED
  BY <1>1, <1>2 DEF CallsInv, table

(* Every call of this kernel keeps the invariant, and only the mapping of  *)
(* a table hands out a page past the end of a zone.                        *)
LEMMA CallsStep ==
    ASSUME DevicesReserved, NEW ends \in PoolEnds,
           KernelFits(ends[Len(LoaderMap)]), PoolModelled(ends[Len(LoaderMap)]),
           CallsInv(ends), [NextKernel]_vars
    PROVE  /\ CallsInv(ends)'
           /\ ~overran => \/ ~overran'
                          \/ \E phys \in Targets, n \in Runs : MapDevice(phys, n)
<1>0. \A n \in Runs : n \in Nat \ {0}
  BY SizesAssumption DEF Runs
<1>1. ASSUME Boot PROVE CallsInv(ends)' /\ (~overran => ~overran')
  <2>1. CASE LayZone
    BY <2>1, CallsLayZone DEF LayZone, ghosts
  <2>2. CASE ZonesLaid
    BY <2>2, CallsQuiet DEF ZonesLaid
  <2>3. CASE Reserve
    BY <2>3, CallsReserve
  <2>4. CASE ReservePanics
    BY <2>4, CallsQuiet DEF ReservePanics
  <2> QED
    BY <1>1, <2>1, <2>2, <2>3, <2>4 DEF Boot
<1>2. ASSUME Allocations({"Normal"}) PROVE CallsInv(ends)' /\ (~overran => ~overran')
  <2>1. PICK n \in Runs : \/ AllocatePhysical(n, "Normal")
                          \/ AllocatePanics(n, "Normal")
                          \/ AllocateRunsAway(n, "Normal")
    BY <1>2 DEF Allocations
  <2>2. CASE AllocatePhysical(n, "Normal")
    <3>1. CASE ~overran
      BY <1>0, <2>2, <3>1, CallsAllocate
    <3>2. CASE overran
      BY <1>0, <2>2, <3>2, CallsAllocateAfter
    <3> QED
      BY <3>1, <3>2
  <2>3. CASE AllocatePanics(n, "Normal")
    BY <2>3, CallsQuiet DEF AllocatePanics
  <2>4. CASE AllocateRunsAway(n, "Normal")
    <3>1. CASE ~overran
      <4>1. PICK z \in Zones : /\ FirstSuitable(z, n, "Normal")
                               /\ \A p \in Bits : FirstFreeRun(z, p, n) => ~Modelled(z, p, n)
        BY <2>4 DEF AllocateRunsAway
      <4>2. pc = "running" /\ Suitable(z, n, "Normal") /\ n \in Nat \ {0}
        BY <1>0, <2>4, <4>1 DEF AllocateRunsAway, FirstSuitable
      <4>3. /\ HintPage(z) \in Bits /\ FirstFreeRun(z, HintPage(z), n)
            /\ Modelled(z, HintPage(z), n)
        BY <3>1, <4>2, HintIsFree
      <4> QED
        BY <4>1, <4>3
    <3>2. CASE overran
      BY <2>4, <3>2, CallsQuiet DEF AllocateRunsAway
    <3> QED
      BY <3>1, <3>2
  <2> QED
    BY <2>1, <2>2, <2>3, <2>4
<1>3. ASSUME NEW phys \in Targets, NEW n \in Runs, MapDevice(phys, n)
      PROVE  CallsInv(ends)'
  BY <1>0, <1>3, CallsMap
<1>4. ASSUME NEW phys \in Targets, NEW n \in Runs, MapDevicePanics(phys, n)
      PROVE  CallsInv(ends)' /\ (~overran => ~overran')
  BY <1>4, CallsQuiet DEF MapDevicePanics
<1>5. ASSUME Halted \/ UNCHANGED vars PROVE CallsInv(ends)' /\ (~overran => ~overran')
  BY <1>5, CallsQuiet DEF Halted, vars
<1> QED
  BY <1>1, <1>2, <1>3, <1>4, <1>5 DEF NextKernel

-----------------------------------------------------------------------------
(* What follows for the calls this kernel makes, from the same hypotheses: *)
(* a kernel at the start of a range that holds it and the pool, and tables *)
(* of the firmware in ranges that are not allocatable.  A table may be     *)
(* mapped past the end of its range, and RAM may be above the 32-bit       *)
(* addresses.                                                              *)

(* No page past the end of an allocatable zone is handed out, and no       *)
(* search runs away, although AllocatePhysical's search has no end; until  *)
(* a table is mapped past the end of its range.                            *)
THEOREM CallsConfined ==
    ASSUME DevicesReserved, KernelFits(PoolSize), PoolModelled(PoolSize)
    PROVE  SpecKernel => Confined
<1>0. PoolEnd \in PoolEnds
  BY PoolSized DEF PoolEnd
<1>1. Init => CallsInv(PoolEnd)
  BY <1>0, CallsStart
<1>2. CallsInv(PoolEnd) /\ [NextKernel]_vars => CallsInv(PoolEnd)'
  BY <1>0, CallsStep DEF PoolSize
<1>3. CallsInv(PoolEnd) /\ [NextKernel]_vars =>
        [~overran =>
           /\ pc' # "lost"
           /\ \A f \in held' \ held : "Normal" \in Type(f[1]) => InZone(f)]_vars
  <2> SUFFICES ASSUME CallsInv(PoolEnd), [NextKernel]_vars, ~overran
               PROVE  /\ pc' # "lost"
                      /\ \A f \in held' \ held : "Normal" \in Type(f[1]) => InZone(f)
    OBVIOUS
  <2>1. CASE ~overran'
    <3>1. CallsInv(PoolEnd)'
      BY <1>2
    <3>2. pc' # "lost" /\ \A f \in held' : InZone(f)'
      BY <2>1, <3>1 DEF CallsInv, PMMInv, Exclusive
    <3>3. \A f \in held' : InZone(f)
      BY <3>2 DEF InZone
    <3> QED
      BY <3>2, <3>3
  <2>2. CASE overran'
    <3>1. PICK phys \in Targets, n \in Runs : MapDevice(phys, n)
      BY <1>0, <2>2, CallsStep DEF PoolSize
    <3>2. n \in Nat \ {0}
      BY SizesAssumption DEF Runs
    <3>3. pc' = "running" /\ \A f \in held' \ held : "Normal" \notin Type(f[1])
      BY <1>0, <3>1, <3>2, CallsMap
    <3> QED
      BY <3>3
  <2> QED
    BY <2>1, <2>2
<1> QED
  BY <1>1, <1>2, <1>3, PTL DEF SpecKernel, Confined

(* Until then, first_free_addr of every allocatable zone separates the     *)
(* pages that are held from the ones that are free.                        *)
THEOREM HintSeparates ==
    ASSUME DevicesReserved, KernelFits(PoolSize), PoolModelled(PoolSize)
    PROVE  SpecKernel => []FirstFreeIsFirst
<1>0. PoolEnd \in PoolEnds
  BY PoolSized DEF PoolEnd
<1>1. Init => CallsInv(PoolEnd)
  BY <1>0, CallsStart
<1>2. CallsInv(PoolEnd) /\ [NextKernel]_vars => CallsInv(PoolEnd)'
  BY <1>0, CallsStep DEF PoolSize
<1>3. CallsInv(PoolEnd) => FirstFreeIsFirst
  <2> SUFFICES ASSUME CallsInv(PoolEnd), pc = "running", ~overran,
                      NEW z \in Zones, "Normal" \in Type(z), NEW p \in 0..(PageCount(z) - 1)
               PROVE  <<z, p>> \in held <=> FrameAddr(<<z, p>>) < first_free_addr[z]
    BY DEF FirstFreeIsFirst
  <2> DEFINE k == HintPage(z)
  <2>1. Laid = Zones
    BY LoaderAssumption DEF CallsInv, PMMInv, Ready, Laid, Zones
  <2>2. /\ k \in Nat /\ first_free_addr[z] = Start(z) + k * PageSize
        /\ p \in Nat /\ (<<z, p>> \in held <=> p < k)
    BY <2>1, ZoneFacts DEF CallsInv, HintInv
  <2> HIDE DEF k
  <2>3. FrameAddr(<<z, p>>) = Start(z) + p * PageSize
    BY DEF FrameAddr
  <2>4. p * PageSize \in Nat /\ k * PageSize \in Nat /\ Start(z) \in Nat
        /\ PageSize \in Nat \ {0} /\ p * PageSize = PageSize * p /\ k * PageSize = PageSize * k
    BY <2>2, ZoneFacts, SizesAssumption
  <2>5. CASE p < k
    <3>1. PageSize * p + PageSize =< PageSize * k
      BY <2>2, <2>4, <2>5, RowsInOrder
    <3>2. p * PageSize < k * PageSize
      BY <2>4, <3>1
    <3>3. Start(z) + p * PageSize < Start(z) + k * PageSize
      BY <2>4, <3>2
    <3> QED
      BY <2>2, <2>3, <2>5, <3>3
  <2>6. CASE ~(p < k)
    <3>1. PageSize * k =< PageSize * p
      BY <2>2, <2>4, <2>6, MulMonotone
    <3>2. ~(Start(z) + p * PageSize < Start(z) + k * PageSize)
      BY <2>4, <3>1
    <3> QED
      BY <2>2, <2>3, <2>6, <3>2
  <2> QED
    BY <2>5, <2>6
<1> QED
  BY <1>1, <1>2, <1>3, PTL DEF SpecKernel

(* Until then, every page handed out of an allocatable zone that narrowing *)
(* has not moved is RAM that the loader reported, down to its last byte.   *)
THEOREM PagesAreRam ==
    ASSUME DevicesReserved, KernelFits(PoolSize), PoolModelled(PoolSize)
    PROVE  SpecKernel => []GrantsAreRam
<1>0. PoolEnd \in PoolEnds
  BY PoolSized DEF PoolEnd
<1>1. Init => CallsInv(PoolEnd)
  BY <1>0, CallsStart
<1>2. CallsInv(PoolEnd) /\ [NextKernel]_vars => CallsInv(PoolEnd)'
  BY <1>0, CallsStep DEF PoolSize
<1>3. CallsInv(PoolEnd) => GrantsAreRam
  <2> SUFFICES ASSUME CallsInv(PoolEnd), ~overran, NEW f \in held,
                      "Normal" \in Type(f[1]), Fits(f[1])
               PROVE  /\ LoaderMap[f[1]].type = 1
                      /\ FrameBytes(f) \subseteq
                            LoaderMap[f[1]].addr
                               ..(LoaderMap[f[1]].addr + LoaderMap[f[1]].len - 1)
    BY DEF GrantsAreRam
  <2> DEFINE z == f[1]
             p == f[2]
             k == HintPage(z)
  <2>1. z \in Zones /\ p \in Nat /\ f = <<z, p>>
    BY DEF CallsInv, PMMInv, TypeOK
  <2>2. Laid = Zones
    <3>1. next = Len(LoaderMap) + 1
      BY DEF CallsInv, PMMInv, Ready
    <3> QED
      BY <3>1, LoaderAssumption DEF Laid, Zones
  <2>3. k \in Nat /\ k * PageSize =< Length(z) /\ p < k
    BY <2>1, <2>2 DEF CallsInv, HintInv
  <2>4. /\ LoaderMap[z].type = 1 /\ Length(z) \in Nat /\ Start(z) \in Nat
        /\ Length(z) > 0 => Start(z) = LoaderMap[z].addr /\ Length(z) = LoaderMap[z].len
    BY <2>1, NormalZone, ZoneNumbers
  <2> HIDE DEF p, k, z
  <2>5. /\ PageSize \in Nat \ {0} /\ k * PageSize \in Nat /\ p * PageSize \in Nat
        /\ p * PageSize = PageSize * p /\ k * PageSize = PageSize * k
    BY <2>1, <2>3, SizesAssumption
  <2>6. PageSize * p + PageSize =< PageSize * k
    BY <2>1, <2>3, <2>5, RowsInOrder
  <2>7. p * PageSize + PageSize =< Length(z)
    BY <2>3, <2>4, <2>5, <2>6
  <2>8. Length(z) > 0
    BY <2>4, <2>5, <2>7
  <2>9. FrameBytes(f) \subseteq Start(z)..(Start(z) + Length(z) - 1)
    <3>1. FrameBytes(f) = (Start(z) + p * PageSize)..(Start(z) + p * PageSize + PageSize - 1)
      BY DEF FrameBytes, FrameAddr, p, z
    <3> QED
      BY <2>4, <2>5, <2>7, <3>1
  <2> QED
    BY <2>4, <2>8, <2>9 DEF z
<1> QED
  BY <1>1, <1>2, <1>3, PTL DEF SpecKernel
=============================================================================
