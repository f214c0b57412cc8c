------------------------------ MODULE VMMProofs ------------------------------
(***************************************************************************)
(* Proofs about the virtual memory manager, for every size of the tables,  *)
(* every place of the boot tables, every zone and every order of calls, on *)
(* a machine whose memory does not fill the space of a zone.               *)
(***************************************************************************)
EXTENDS VMM, ArithmeticLemmas, FiniteSetTheorems

(* The pages that calls can ever be given: one for each frame of memory,   *)
(* and a run for each frame of the devices.                                *)
Supply == Cardinality(Ram) + MaxDeviceRun * Cardinality(DeviceFrames)

(* The pages of every frame there is, from a zone's start on, end before   *)
(* the recursive window and before the start of the next zone.  The        *)
(* kernel's zone alone has it on a machine of up to 1016 MB, less the runs *)
(* of the drivers.                                                         *)
SupplyFits ==
    /\ \A z \in VMMZone : FirstVaddr[z] + Supply =< D * (D - 1)
    /\ \A y, z \in VMMZone :
          y # z => \/ FirstVaddr[y] + Supply =< FirstVaddr[z]
                   \/ FirstVaddr[z] + Supply =< FirstVaddr[y]

-----------------------------------------------------------------------------
(* The invariant. *)

Jobs == [at : {"dir", "loop"}, zone : VMMZone, phys : Nat, n : Nat \ {0}, virt : Nat, i : Nat]

TypeInv ==
    /\ pc \in {"boot", "run", "panic", "lost"}
    /\ mem \in [Frames -> [Index -> Entries]]
    /\ handed \subseteq Ram
    /\ devices \subseteq DeviceFrames
    /\ stray \subseteq Frames
    /\ last_vaddr \in [VMMZone -> Nat]
    /\ given \in [Pages -> Entries]
    /\ job = NoJob \/ (job \in Jobs /\ job.i =< job.n)

(* The directory: its entries are the boot tables and frames the PMM has   *)
(* handed out, each at most once, and itself in the last one.              *)
DirInv ==
    /\ \A d \in Index : mem[Cr3][d] \in {None, Cr3, Low, High} \cup handed
    /\ \A d, e \in Index : mem[Cr3][d] # None /\ mem[Cr3][d] = mem[Cr3][e] => d = e
    /\ pc # "boot" => mem[Cr3][D - 1] = Cr3
    /\ pc = "boot" => /\ \A d \in Index : mem[Cr3][d] # Cr3
                      /\ job = NoJob
                      /\ given = [v \in Pages |-> None]

Working == job # NoJob

(* The frames of callers: handed out, no table, and nobody else's, except  *)
(* those that a driver's run took past the end of its zone.                *)
Callers == handed \cup devices

FrameInv ==
    /\ \A v \in Pages : given[v] # None /\ given[v] \notin stray
          => given[v] \in Callers \ TableFrames
    /\ \A u, v \in Pages : given[u] # None /\ given[u] = given[v] /\ given[u] \notin stray
          => u = v
    /\ Working => \A k \in 0..(job.n - 1) :
          /\ job.phys + k \in Frames
          /\ job.phys + k \notin stray =>
                /\ job.phys + k \in Callers \ TableFrames
                /\ \A v \in Pages : given[v] # job.phys + k

(* The pages of callers lie between their zone's start and its cursor,     *)
(* which is no further from the start than frames have been given; a run   *)
(* of a driver takes at least one frame of its zone.                       *)
Spent == Cardinality(handed) + MaxDeviceRun * Cardinality(devices)

Ahead(z) == last_vaddr[z] + (IF Working /\ job.zone = z THEN job.n ELSE 0)

PageInv ==
    /\ \A z \in VMMZone : last_vaddr[z] >= FirstVaddr[z] /\ Ahead(z) =< FirstVaddr[z] + Spent
    /\ \A v \in Pages : given[v] # None =>
          \E z \in VMMZone : FirstVaddr[z] =< v /\ v < last_vaddr[z]
    /\ Working => job.virt = last_vaddr[job.zone]

(* Translations: those given, and those of the pages the call in progress  *)
(* has mapped so far; the table of its next page is there.                 *)
WalkInv ==
    /\ TranslationsHold
    /\ Working /\ job.at = "loop" =>
          /\ \A k \in 0..(job.i - 1) : Walk(job.virt + k) = job.phys + k
          /\ job.i < job.n => mem[Cr3][Dir(job.virt + job.i)] # None
    /\ Working /\ job.at = "dir" => job.i = 0

VMMInv == TypeInv /\ DirInv /\ FrameInv /\ PageInv /\ WalkInv

-----------------------------------------------------------------------------
(* Facts about the constants and about page numbers. *)

(* The boot tables and the indices of a table are frames, and no frame is  *)
(* the mark of an absent entry.                                            *)
LEMMA Sizes ==
    /\ D \in Nat \ {0} /\ D > 1
    /\ MaxFrame \in Nat
    /\ Index \subseteq Frames /\ Index \subseteq Nat /\ Frames \subseteq Nat
    /\ Cr3 \in Index /\ Low \in Index /\ High \in Index
    /\ D - 1 \in Index
    /\ None \notin Frames
BY LayoutAssumption DEF Index, Frames, None

(* A page below the recursive window: its place in the directory and in    *)
(* its table.                                                              *)
LEMMA PageFacts ==
    ASSUME NEW v \in Nat, v < D * (D - 1)
    PROVE  /\ v \in Pages
           /\ Dir(v) \in Index /\ Dir(v) < D - 1 /\ Dir(v) + 1 \in Index
           /\ v % D \in Index
<1>1. Dir(v) \in Nat /\ v % D \in 0..(D - 1)
  BY Sizes, DivisionSplits DEF Dir
<1>2. Dir(v) < D - 1
  <2>1. D - 1 \in Nat
    BY Sizes
  <2> QED
    BY <2>1, Sizes, RowBelow DEF Dir
<1>3. v \in Pages
  <2>1. D * (D - 1) = D * D - D /\ D * D \in Nat
    BY Sizes
  <2> QED
    BY <2>1, Sizes DEF Pages
<1> QED
  BY <1>1, <1>2, <1>3, Sizes DEF Index

(* Two pages with the same directory and the same table entry are one. *)
LEMMA PagesDiffer ==
    ASSUME NEW u \in Nat, NEW v \in Nat, Dir(u) = Dir(v), u % D = v % D
    PROVE  u = v
<1>1. u = D * Dir(u) + (u % D) /\ v = D * Dir(v) + (v % D)
  BY Sizes, DivisionSplits DEF Dir
<1> QED
  BY <1>1

(* Page numbers are natural numbers. *)
LEMMA PagesNat == Pages \subseteq Nat
BY DEF Pages

(* Page d of the recursive window is table d, and the last is the          *)
(* directory.                                                              *)
LEMMA WindowIsTable ==
    ASSUME TypeInv, DirInv, pc # "boot", NEW d \in Index
    PROVE  Window(d) = mem[Cr3][d]
<1> DEFINE x == (D - 1) * D + d
<1>1. x = D * (D - 1) + d /\ x \in Nat /\ D - 1 \in Nat /\ d \in 0..(D - 1)
  BY Sizes DEF Index
<1>2. x \div D = D - 1 /\ x % D = d
  <2>1. \A q \in Nat, r \in 0..(D - 1), y \in Nat :
            y = D * q + r => y \div D = q /\ y % D = r
    BY Sizes, DivisionUnique
  <2> QED
    BY <1>1, <2>1
<1>3. mem[Cr3][D - 1] = Cr3 /\ Cr3 # None
  BY Sizes DEF DirInv
<1> QED
  BY <1>2, <1>3 DEF Window, Walk

(* So pdir is the directory, and pdir[d].present tells whether table d is  *)
(* there.                                                                  *)
LEMMA DirectoryInWindow ==
    ASSUME TypeInv, DirInv, pc # "boot"
    PROVE  /\ Window(D - 1) = Cr3
           /\ \A d \in Index : Present(d) <=> mem[Cr3][d] # None
BY WindowIsTable, Sizes DEF DirInv, Present

(* Sets of frames are finite. *)
LEMMA FramesFinite ==
    ASSUME NEW S, S \subseteq Frames
    PROVE  IsFiniteSet(S) /\ Cardinality(S) \in Nat
<1>1. IsFiniteSet(0..MaxFrame)
  BY Sizes, FS_Interval
<1>2. IsFiniteSet(S)
  BY <1>1, FS_Subset DEF Frames
<1> QED
  BY <1>2, FS_CardinalityType

(* No more has been spent than there is. *)
LEMMA SpentBound ==
    ASSUME TypeInv
    PROVE  /\ Spent \in Nat /\ Supply \in Nat /\ Spent =< Supply
           /\ IsFiniteSet(devices) /\ Cardinality(devices) \in Nat
           /\ IsFiniteSet(handed) /\ Cardinality(handed) \in Nat
<1>1. /\ Ram \subseteq Frames /\ DeviceFrames \subseteq Frames
      /\ handed \subseteq Ram /\ devices \subseteq DeviceFrames
      /\ MaxDeviceRun \in Nat
  BY LayoutAssumption DEF TypeInv
<1>2. /\ IsFiniteSet(Ram) /\ IsFiniteSet(DeviceFrames)
      /\ Cardinality(Ram) \in Nat /\ Cardinality(DeviceFrames) \in Nat
  BY <1>1, FramesFinite
<1>3. /\ IsFiniteSet(handed) /\ Cardinality(handed) =< Cardinality(Ram)
      /\ IsFiniteSet(devices) /\ Cardinality(devices) =< Cardinality(DeviceFrames)
  BY <1>1, <1>2, FS_Subset
<1>4. Cardinality(handed) \in Nat /\ Cardinality(devices) \in Nat
  BY <1>3, FS_CardinalityType
<1> DEFINE c == Cardinality(devices)
           d == Cardinality(DeviceFrames)
<1>5. MaxDeviceRun * c =< MaxDeviceRun * d
  BY <1>1, <1>2, <1>3, <1>4, MulMonotone
<1>6. MaxDeviceRun * c \in Nat /\ MaxDeviceRun * d \in Nat
  BY <1>1, <1>2, <1>4
<1> QED
  BY <1>2, <1>3, <1>4, <1>5, <1>6 DEF Spent, Supply

(* The pages of callers lie below the recursive window, and those of the   *)
(* call in progress too, which are nobody's yet.                           *)
LEMMA Below ==
    ASSUME SupplyFits, TypeInv, PageInv
    PROVE  /\ \A v \in Pages : given[v] # None => v < D * (D - 1)
           /\ Working => /\ job \in Jobs /\ job.i \in Nat /\ job.n \in Nat \ {0}
                         /\ job.virt \in Nat /\ job.phys \in Nat
                         /\ job.virt + job.n =< D * (D - 1)
                         /\ \A v \in job.virt..(job.virt + job.n - 1) :
                               v \in Pages /\ given[v] = None
<1>0. \A z \in VMMZone : FirstVaddr[z] \in Nat /\ last_vaddr[z] \in Nat
  BY LayoutAssumption, PagesNat DEF TypeInv
<1>1. \A z \in VMMZone : FirstVaddr[z] + Spent =< D * (D - 1) /\ D * (D - 1) \in Nat
  BY <1>0, SpentBound, Sizes DEF SupplyFits
<1>2. \A z \in VMMZone : last_vaddr[z] =< Ahead(z) /\ Ahead(z) \in Nat
  BY <1>0 DEF Ahead, TypeInv, Working, Jobs
<1>3. \A z \in VMMZone : last_vaddr[z] =< FirstVaddr[z] + Spent
  BY <1>0, <1>2, SpentBound DEF PageInv
<1>4. \A v \in Pages : given[v] # None => v < D * (D - 1)
  BY <1>0, <1>1, <1>3, SpentBound, PagesNat DEF PageInv
<1>5. ASSUME Working
      PROVE  /\ job \in Jobs /\ job.i \in Nat /\ job.n \in Nat \ {0}
             /\ job.virt \in Nat /\ job.phys \in Nat
             /\ job.virt + job.n =< D * (D - 1)
             /\ \A v \in job.virt..(job.virt + job.n - 1) : v \in Pages /\ given[v] = None
  <2>1. /\ job \in Jobs /\ job.zone \in VMMZone /\ job.virt \in Nat /\ job.i \in Nat
        /\ job.n \in Nat \ {0} /\ job.phys \in Nat
    BY <1>5 DEF TypeInv, Working, Jobs
  <2>2. job.virt = last_vaddr[job.zone] /\ Ahead(job.zone) = job.virt + job.n
    BY <1>5, <2>1 DEF PageInv, Ahead
  <2>3. job.virt + job.n =< FirstVaddr[job.zone] + Spent
    BY <2>1, <2>2 DEF PageInv
  <2>4. job.virt + job.n =< D * (D - 1)
    BY <1>0, <1>1, <2>1, <2>3, SpentBound
  <2>5. ASSUME NEW v \in job.virt..(job.virt + job.n - 1)
        PROVE  v \in Pages /\ given[v] = None
    <3>1. v \in Nat /\ v < D * (D - 1) /\ v >= job.virt /\ v < job.virt + job.n
      BY <1>1, <2>1, <2>4
    <3>2. v \in Pages
      BY <3>1, PageFacts
    <3>3. ASSUME NEW z \in VMMZone, FirstVaddr[z] =< v, v < last_vaddr[z]
          PROVE  FALSE
      <4>1. z # job.zone
        BY <3>1, <3>3, <2>2, <1>0
      <4>2. v < FirstVaddr[z] + Supply
        BY <1>0, <1>3, <3>1, <3>3, SpentBound
      <4>3. FirstVaddr[job.zone] =< v /\ v < FirstVaddr[job.zone] + Supply
        BY <1>0, <2>1, <2>2, <2>3, <3>1, SpentBound DEF PageInv
      <4> QED
        BY <1>0, <2>1, <3>1, <3>3, <4>1, <4>2, <4>3, SpentBound DEF SupplyFits
    <3> QED
      BY <3>2, <3>3 DEF PageInv
  <2> QED
    BY <2>1, <2>4, <2>5
<1> QED
  BY <1>4, <1>5

(* The table of a page below the window: a boot table or a frame that was  *)
(* handed out, and not the directory.                                      *)
LEMMA TableOf ==
    ASSUME TypeInv, DirInv, pc # "boot", NEW v \in Nat, v < D * (D - 1),
           mem[Cr3][Dir(v)] # None
    PROVE  /\ mem[Cr3][Dir(v)] \in {Low, High} \cup handed
           /\ mem[Cr3][Dir(v)] \in Frames \ {Cr3}
<1>1. Dir(v) \in Index /\ Dir(v) < D - 1
  BY PageFacts
<1>2. mem[Cr3][D - 1] = Cr3
  BY DEF DirInv
<1>3. mem[Cr3][Dir(v)] # Cr3
  <2>1. D - 1 \in Index /\ Cr3 # None
    BY Sizes
  <2>2. Dir(v) # D - 1
    BY <1>1, Sizes DEF Index
  <2> QED
    BY <1>1, <1>2, <2>1, <2>2 DEF DirInv
<1>4. mem[Cr3][Dir(v)] \in {Low, High} \cup handed
  BY <1>1, <1>3 DEF DirInv
<1>5. handed \subseteq Frames
  BY LayoutAssumption DEF TypeInv
<1> QED
  BY <1>3, <1>4, <1>5, Sizes

(* No caller's frame is a boot table. *)
LEMMA CallersFrames ==
    ASSUME TypeInv
    PROVE  /\ Callers \subseteq Frames \ {Cr3, Low, High}
           /\ handed \cap devices = {}
BY LayoutAssumption DEF TypeInv, Callers

(* A frame that the PMM may hand out is none that is in use. *)
LEMMA FreeFrame ==
    ASSUME TypeInv, DirInv, NEW f \in Ram \ handed
    PROVE  /\ f \in Frames \ {Cr3, Low, High, None}
           /\ f \notin Callers
           /\ \A d \in Index : mem[Cr3][d] # f
<1>1. f \in Frames \ {Cr3, Low, High} /\ f \notin DeviceFrames
  BY LayoutAssumption
<1>2. f # None
  BY <1>1, Sizes
<1> QED
  BY <1>1, <1>2 DEF TypeInv, DirInv, Callers

-----------------------------------------------------------------------------
(* The steps. *)

(* entry.S leaves two tables in the directory and nothing handed out. *)
LEMMA InitInv == Init => VMMInv
<1> SUFFICES ASSUME Init PROVE VMMInv
  OBVIOUS
<1>1. PICK junk \in {None, 0} :
         mem = [f \in Frames |->
                   CASE f = Cr3 -> [i \in Index |-> IF i = 0 THEN Low
                                                    ELSE IF i = KernelDir THEN High
                                                    ELSE None]
                     [] f \in {Low, High} -> [i \in Index |-> i]
                     [] OTHER -> [i \in Index |-> junk]]
  BY DEF Init
<1>2. junk \in Entries /\ None \in Entries /\ Index \subseteq Entries
  BY Sizes DEF Entries, Frames
<1>3. mem[Cr3] = [i \in Index |-> IF i = 0 THEN Low ELSE IF i = KernelDir THEN High ELSE None]
  <2>1. Cr3 \in Frames
    BY Sizes
  <2> QED
    BY <1>1, <2>1, LayoutAssumption
<1>4. \A f \in Frames : mem[f] \in [Index -> Entries]
  <2> SUFFICES ASSUME NEW f \in Frames PROVE mem[f] \in [Index -> Entries]
    OBVIOUS
  <2>1. CASE f = Cr3
    BY <1>2, <1>3, <2>1, Sizes
  <2>2. CASE f # Cr3 /\ f \in {Low, High}
    <3>1. mem[f] = [i \in Index |-> i]
      BY <1>1, <2>2
    <3> QED
      BY <3>1, <1>2
  <2>3. CASE f # Cr3 /\ f \notin {Low, High}
    <3>1. mem[f] = [i \in Index |-> junk]
      BY <1>1, <2>3
    <3> QED
      BY <3>1, <1>2
  <2> QED
    BY <2>1, <2>2, <2>3
<1>5. TypeInv
  <2>1. mem \in [Frames -> [Index -> Entries]]
    BY <1>1, <1>4
  <2>2. handed \subseteq Ram /\ devices \subseteq DeviceFrames /\ stray \subseteq Frames
    BY DEF Init
  <2>3. last_vaddr \in [VMMZone -> Nat]
    BY LayoutAssumption, PagesNat DEF Init
  <2>4. given \in [Pages -> Entries]
    BY <1>2 DEF Init
  <2> QED
    BY <2>1, <2>2, <2>3, <2>4 DEF Init, TypeInv
<1>6. DirInv
  BY <1>3, Sizes, LayoutAssumption DEF Init, DirInv
<1>7. FrameInv /\ WalkInv
  BY DEF Init, FrameInv, WalkInv, Working, TranslationsHold
<1>8. PageInv
  <2>1. Spent \in Nat
    BY <1>5, SpentBound
  <2>2. \A z \in VMMZone : FirstVaddr[z] \in Nat
    BY LayoutAssumption, PagesNat
  <2> QED
    BY <2>1, <2>2 DEF Init, PageInv, Ahead, Working
<1> QED
  BY <1>5, <1>6, <1>7, <1>8 DEF VMMInv

(* VMM::Init enters the directory in itself and unmaps pages that nobody   *)
(* was given.                                                              *)
LEMMA VMMInitStep == VMMInv /\ VMMInit => VMMInv'
<1> SUFFICES ASSUME VMMInv, VMMInit PROVE VMMInv'
  OBVIOUS
<1>1. /\ TypeInv /\ DirInv /\ pc = "boot" /\ pc' = "run" /\ job' = NoJob
      /\ given' = [v \in Pages |-> None]
      /\ UNCHANGED <<handed, devices, stray, last_vaddr, job>>
  BY DEF VMMInv, VMMInit, DirInv, pmm
<1>2. mem' = [mem EXCEPT ![Cr3][D - 1] = Cr3,
                         ![Low] = [i \in Index |-> IF i \in LowUnmapped THEN None ELSE @[i]]]
  BY DEF VMMInit
<1>3. mem'[Cr3] = [mem[Cr3] EXCEPT ![D - 1] = Cr3]
  BY <1>1, <1>2, Sizes, LayoutAssumption DEF TypeInv
<1>4. mem' \in [Frames -> [Index -> Entries]]
  <2>1. mem \in [Frames -> [Index -> Entries]] /\ Low \in Frames /\ Cr3 \in Frames
    BY <1>1, Sizes DEF TypeInv
  <2>2. \A f \in Frames \ {Cr3, Low} : mem'[f] = mem[f]
    BY <1>2, <2>1
  <2>3. mem'[Low] = [i \in Index |-> IF i \in LowUnmapped THEN None ELSE mem[Low][i]]
    BY <1>2, <2>1, LayoutAssumption
  <2>4. mem'[Low] \in [Index -> Entries]
    BY <2>1, <2>3 DEF Entries
  <2>5. mem'[Cr3] \in [Index -> Entries]
    BY <1>3, <2>1 DEF Entries
  <2>6. mem' = [f \in Frames |-> mem'[f]]
    BY <1>2, <2>1
  <2> QED
    BY <2>1, <2>2, <2>4, <2>5, <2>6
<1>5. TypeInv'
  <2>1. given' = given
    BY DEF VMMInit
  <2> QED
    BY <1>1, <1>4, <2>1 DEF TypeInv
<1>6. DirInv'
  <2>1. \A d \in Index : mem'[Cr3][d] = IF d = D - 1 THEN Cr3 ELSE mem[Cr3][d]
    BY <1>1, <1>3, Sizes DEF TypeInv
  <2> QED
    BY <1>1, <2>1, Sizes DEF DirInv
<1>7. FrameInv' /\ WalkInv'
  BY <1>1 DEF FrameInv, WalkInv, Working, TranslationsHold
<1>8. PageInv'
  BY <1>1 DEF VMMInv, PageInv, Ahead, Working, Spent
<1> QED
  BY <1>5, <1>6, <1>7, <1>8 DEF VMMInv

(* A call that has taken its frames, from the PMM or from a device, starts *)
(* to map them at the zone's cursor.                                       *)
LEMMA StartStep ==
    ASSUME VMMInv, pc = "run", job = NoJob,
           NEW n \in Nat \ {0}, NEW z \in VMMZone, NEW phys \in Nat,
           Start(phys, n, z), UNCHANGED <<pc, mem, last_vaddr, given>>,
           handed \subseteq handed', handed' \subseteq Ram,
           devices \subseteq devices', devices' \subseteq DeviceFrames,
           stray \subseteq stray', stray' \subseteq Frames,
           Spent' >= Spent + n,
           \A k \in 0..(n - 1) :
              phys + k \in Frames /\ (phys + k \notin stray' => phys + k \in Callers' \ Callers)
    PROVE  VMMInv'
<1>t. TypeInv /\ DirInv /\ FrameInv /\ PageInv /\ WalkInv
  BY DEF VMMInv
<1>1. job' = [at |-> "dir", zone |-> z, phys |-> phys, n |-> n, virt |-> last_vaddr[z], i |-> 0]
  BY DEF Start
<1>2. job' \in Jobs /\ job'.i = 0 /\ job'.n = n /\ job'.at = "dir" /\ job' # NoJob
  BY <1>t, <1>1 DEF Jobs, TypeInv, NoJob
<1>3. TypeInv'
  BY <1>t, <1>2 DEF TypeInv
<1>4. DirInv'
  BY <1>t DEF DirInv
<1>5. TableFrames' = TableFrames /\ TableFrames \subseteq {Cr3, Low, High} \cup handed
  BY <1>t DEF TableFrames, DirInv
<1>6. Callers \subseteq Callers'
  BY DEF Callers
<1>7. FrameInv'
  <2>1. ASSUME NEW k \in 0..(n - 1), phys + k \notin stray'
        PROVE  phys + k \in Callers' \ TableFrames /\ \A v \in Pages : given[v] # phys + k
    <3>1. phys + k \in Callers' \ Callers /\ phys + k \in Frames
      BY <2>1
    <3>2. Callers' \subseteq Frames \ {Cr3, Low, High}
      BY <1>3, LayoutAssumption DEF TypeInv, Callers
    <3>3. phys + k \notin TableFrames
      BY <1>5, <3>1, <3>2 DEF Callers
    <3>4. \A v \in Pages : given[v] # phys + k
      BY <1>t, <2>1, <3>1, Sizes DEF FrameInv
    <3> QED
      BY <3>1, <3>3, <3>4
  <2>2. \A v \in Pages : given'[v] # None /\ given'[v] \notin stray'
           => given'[v] \in Callers' \ TableFrames'
    BY <1>t, <1>5, <1>6 DEF FrameInv
  <2>3. \A u, v \in Pages : given'[u] # None /\ given'[u] = given'[v] /\ given'[u] \notin stray'
           => u = v
    BY <1>t DEF FrameInv
  <2>4. job'.n = n /\ job'.phys = phys
    BY <1>1
  <2> QED
    BY <1>5, <2>1, <2>2, <2>3, <2>4 DEF FrameInv
<1>8. PageInv'
  <2>1. Working' /\ ~Working /\ job'.zone = z /\ job'.n = n /\ job'.virt = last_vaddr'[z]
    BY <1>1, <1>2 DEF Working
  <2>2. Spent \in Nat /\ \A y \in VMMZone : last_vaddr[y] \in Nat /\ FirstVaddr[y] \in Nat
    BY <1>t, SpentBound, LayoutAssumption, PagesNat DEF TypeInv
  <2>s. Spent' \in Nat
    <3>1. /\ handed' \subseteq Frames /\ devices' \subseteq Frames /\ MaxDeviceRun \in Nat
      BY LayoutAssumption
    <3>2. Cardinality(handed') \in Nat /\ Cardinality(devices') \in Nat
      BY <3>1, FramesFinite
    <3> QED
      BY <3>1, <3>2 DEF Spent
  <2>3. \A y \in VMMZone : Ahead(y)' =< Ahead(y) + n /\ Ahead(y) = last_vaddr[y]
                           /\ Ahead(y)' \in Nat
    BY <2>1, <2>2 DEF Ahead
  <2>4. \A y \in VMMZone : Ahead(y)' =< FirstVaddr[y] + Spent'
    BY <1>t, <2>1, <2>2, <2>3, <2>s DEF PageInv
  <2> QED
    BY <1>t, <2>1, <2>4 DEF PageInv
<1>9. WalkInv'
  BY <1>t, <1>2 DEF WalkInv, TranslationsHold, Walk
<1> QED
  BY <1>3, <1>4, <1>7, <1>8, <1>9 DEF VMMInv

(* AllocateVirtualPhysical takes a run of free frames. *)
LEMMA AllocateStep ==
    ASSUME VMMInv, NEW n \in Runs, NEW z \in VMMZone, AllocateVirtualPhysical(n, z)
    PROVE  VMMInv'
<1>1. /\ TypeInv /\ DirInv /\ n \in Nat \ {0} /\ pc = "run" /\ job = NoJob
      /\ UNCHANGED <<pc, mem, devices, stray, last_vaddr, given>>
  BY LayoutAssumption DEF VMMInv, Runs, AllocateVirtualPhysical
<1>2. PICK p \in Grants(n) : handed' = handed \cup FrameRun(p, n) /\ Start(p, n, z)
  BY DEF AllocateVirtualPhysical
<1> DEFINE run == FrameRun(p, n)
<1>3. p \in Nat /\ run \subseteq Ram \ handed /\ \A k \in 0..(n - 1) : p + k \in run
  <2>1. p \in Ram /\ run \subseteq Ram \ handed
    BY DEF Grants
  <2>2. p \in Nat
    BY <2>1, LayoutAssumption, Sizes
  <2> QED
    BY <1>1, <2>1, <2>2 DEF FrameRun
<1>4. Spent' = Spent + n /\ Spent \in Nat
  <2>1. IsFiniteSet(handed) /\ Cardinality(handed) \in Nat /\ Cardinality(devices) \in Nat
        /\ MaxDeviceRun \in Nat /\ Spent \in Nat
    BY <1>1, SpentBound, LayoutAssumption
  <2>2. IsFiniteSet(run) /\ Cardinality(run) = n
    BY <1>1, <1>3, FS_Interval DEF FrameRun
  <2>3. handed \cap run = {}
    BY <1>3
  <2> HIDE DEF run
  <2>4. Cardinality(handed \cup run) = Cardinality(handed) + n
    <3>1. Cardinality(handed \cup run)
             = Cardinality(handed) + Cardinality(run) - Cardinality(handed \cap run)
      BY <2>1, <2>2, FS_Union
    <3>2. Cardinality(handed \cap run) = 0
      BY <2>3, FS_EmptySet
    <3> QED
      BY <1>1, <2>1, <2>2, <3>1, <3>2
  <2>5. MaxDeviceRun * Cardinality(devices) \in Nat /\ devices' = devices
    BY <1>1, <2>1
  <2>6. Spent' = (Cardinality(handed) + n) + MaxDeviceRun * Cardinality(devices)
    BY <1>2, <2>4, <2>5 DEF Spent, run
  <2> QED
    BY <1>1, <2>1, <2>5, <2>6 DEF Spent
<1>5. \A k \in 0..(n - 1) : p + k \in Frames /\ p + k \in Callers' \ Callers
  <2>1. \A f \in Ram \ handed : f \in Frames /\ f \notin Callers
    BY <1>1, FreeFrame
  <2>2. run \subseteq Callers'
    BY <1>2 DEF Callers
  <2> QED
    BY <1>3, <2>1, <2>2
<1>6. Spent' >= Spent + n /\ handed \subseteq handed' /\ handed' \subseteq Ram
      /\ devices \subseteq devices' /\ devices' \subseteq DeviceFrames
      /\ stray \subseteq stray' /\ stray' \subseteq Frames
  BY <1>1, <1>2, <1>3, <1>4 DEF TypeInv
<1> HIDE DEF run
<1> QED
  BY <1>1, <1>2, <1>3, <1>5, <1>6, StartStep

(* MapPhysicalAddress takes frames of a device that are not mapped yet, at *)
(* least one, and whatever follows its zone.                               *)
LEMMA MapDeviceStep ==
    ASSUME VMMInv, NEW phys \in DeviceFrames, NEW n \in 1..MaxDeviceRun, NEW z \in VMMZone,
           MapPhysicalAddress(phys, n, z)
    PROVE  VMMInv'
<1> DEFINE run == FrameRun(phys, n)
<1>1. /\ TypeInv /\ DirInv /\ n \in Nat \ {0} /\ n =< MaxDeviceRun /\ MaxDeviceRun \in Nat
      /\ phys \in Nat /\ pc = "run" /\ job = NoJob /\ Start(phys, n, z)
      /\ run \subseteq Frames /\ UNCHANGED <<pc, mem, handed, last_vaddr, given>>
  BY LayoutAssumption, Sizes DEF VMMInv, MapPhysicalAddress
<1>2. PICK Z \in DeviceZones : /\ phys \in Z /\ run \cap Z \cap devices = {}
                               /\ devices' = devices \cup (run \cap Z)
                               /\ stray' = stray \cup (run \ Z)
  BY DEF MapPhysicalAddress
<1>3. phys \in run /\ \A k \in 0..(n - 1) : phys + k \in run
  BY <1>1 DEF FrameRun
<1> HIDE DEF run
<1>4. /\ Z \subseteq DeviceFrames /\ phys \notin devices /\ phys \in devices'
      /\ devices' \subseteq DeviceFrames /\ devices' \subseteq Frames
  BY <1>1, <1>2, <1>3, LayoutAssumption DEF DeviceFrames, TypeInv
<1>5. Spent' >= Spent + n
  <2>1. /\ IsFiniteSet(devices) /\ Cardinality(devices) \in Nat
        /\ Cardinality(handed) \in Nat
    BY <1>1, SpentBound
  <2>2. IsFiniteSet(devices') /\ Cardinality(devices') \in Nat
    BY <1>4, FramesFinite
  <2>3. Cardinality(devices \cup {phys}) = Cardinality(devices) + 1
    BY <1>4, <2>1, FS_AddElement
  <2>4. Cardinality(devices \cup {phys}) =< Cardinality(devices')
    <3>1. devices \cup {phys} \subseteq devices'
      BY <1>2, <1>4
    <3> QED
      BY <2>2, <3>1, FS_Subset
  <2> DEFINE c == Cardinality(devices)
             e == Cardinality(devices')
  <2>5. c + 1 =< e /\ c \in Nat /\ e \in Nat
    BY <2>1, <2>2, <2>3, <2>4
  <2>6. Spent' = Cardinality(handed) + MaxDeviceRun * e
    BY <1>1 DEF Spent
  <2>7. Spent = Cardinality(handed) + MaxDeviceRun * c
    BY DEF Spent
  <2> HIDE DEF c, e
  <2>8. MaxDeviceRun * (c + 1) =< MaxDeviceRun * e
    BY <1>1, <2>5, MulMonotone
  <2>9. MaxDeviceRun * (c + 1) = MaxDeviceRun * c + MaxDeviceRun
    BY <1>1, <2>5
  <2>10. MaxDeviceRun * c \in Nat /\ MaxDeviceRun * e \in Nat
    BY <1>1, <2>5
  <2> QED
    BY <1>1, <2>1, <2>6, <2>7, <2>8, <2>9, <2>10
<1>6. ASSUME NEW k \in 0..(n - 1), phys + k \notin stray'
      PROVE  phys + k \in Callers' \ Callers
  <2>1. phys + k \in run \cap Z
    BY <1>2, <1>3, <1>6
  <2>2. phys + k \in devices' /\ phys + k \notin devices /\ phys + k \in DeviceFrames
    BY <1>2, <1>4, <2>1
  <2>3. phys + k \notin handed
    BY <1>1, <2>2, LayoutAssumption DEF TypeInv
  <2> QED
    BY <2>2, <2>3 DEF Callers
<1>7. \A k \in 0..(n - 1) : phys + k \in Frames
  BY <1>1, <1>3
<1>8. /\ handed \subseteq handed' /\ handed' \subseteq Ram /\ devices \subseteq devices'
      /\ stray \subseteq stray' /\ stray' \subseteq Frames
  BY <1>1, <1>2 DEF TypeInv
<1> QED
  BY <1>1, <1>4, <1>5, <1>6, <1>7, <1>8, StartStep

(* MapPageDirectoryIndex: a step of MapPhysicalToVirtual leaves the        *)
(* directory alone or enters a free frame where there was none.            *)
DirectoryStep ==
    \/ mem'[Cr3] = mem[Cr3] /\ UNCHANGED handed
    \/ \E p \in Ram \ handed, d \in Index :
          /\ handed' = handed \cup {p}
          /\ mem[Cr3][d] = None
          /\ mem'[Cr3] = [mem[Cr3] EXCEPT ![d] = p]

(* Such a step keeps the directory, the callers' frames and their pages.   *)
LEMMA DirectoryGrows ==
    ASSUME TypeInv, DirInv, FrameInv, PageInv, pc = "run", Working, Working', TypeInv',
           UNCHANGED <<pc, devices, stray, last_vaddr, given>>,
           job'.zone = job.zone, job'.phys = job.phys, job'.n = job.n, job'.virt = job.virt,
           DirectoryStep
    PROVE  DirInv' /\ FrameInv' /\ PageInv'
<1>1. CASE mem'[Cr3] = mem[Cr3] /\ UNCHANGED handed
  <2>1. Callers' = Callers /\ TableFrames' = TableFrames /\ Spent' = Spent
    BY <1>1 DEF Callers, TableFrames, Spent
  <2>2. \A z \in VMMZone : Ahead(z)' = Ahead(z)
    BY DEF Ahead
  <2> QED
    BY <1>1, <2>1, <2>2 DEF DirInv, FrameInv, PageInv
<1>2. ASSUME NEW p \in Ram \ handed, NEW d \in Index, handed' = handed \cup {p},
             mem[Cr3][d] = None, mem'[Cr3] = [mem[Cr3] EXCEPT ![d] = p]
      PROVE  DirInv' /\ FrameInv' /\ PageInv'
  <2>1. p \in Frames \ {Cr3, Low, High, None} /\ p \notin Callers
        /\ \A e \in Index : mem[Cr3][e] # p
    BY FreeFrame
  <2>3. \A e \in Index : mem'[Cr3][e] = IF e = d THEN p ELSE mem[Cr3][e]
    BY <1>2, Sizes DEF TypeInv
  <2>5. DirInv'
    <3>1. d # D - 1
      BY <1>2, Sizes DEF DirInv
    <3>2. mem'[Cr3][D - 1] = Cr3
      BY <2>3, <3>1, Sizes DEF DirInv
    <3>3. \A e \in Index : mem'[Cr3][e] \in {None, Cr3, Low, High} \cup handed'
      BY <1>2, <2>3 DEF DirInv
    <3>4. \A e, f \in Index : mem'[Cr3][e] # None /\ mem'[Cr3][e] = mem'[Cr3][f] => e = f
      BY <2>1, <2>3 DEF DirInv
    <3> QED
      BY <3>2, <3>3, <3>4 DEF DirInv
  <2>6. TableFrames' \subseteq TableFrames \cup {p}
    BY <2>3 DEF TableFrames
  <2>7. Callers \subseteq Callers'
    BY <1>2 DEF Callers
  <2>8. FrameInv'
    <3>1. Callers \ TableFrames \subseteq Callers' \ TableFrames'
      BY <2>1, <2>6, <2>7
    <3> QED
      BY <3>1 DEF FrameInv
  <2>9. PageInv'
    <3>1. Spent' = Spent + 1 /\ Spent \in Nat
      <4>1. /\ IsFiniteSet(handed) /\ Cardinality(handed) \in Nat
            /\ Cardinality(devices) \in Nat /\ MaxDeviceRun \in Nat /\ Spent \in Nat
        BY SpentBound, LayoutAssumption
      <4>2. Cardinality(handed \cup {p}) = Cardinality(handed) + 1
        BY <4>1, FS_AddElement
      <4>3. MaxDeviceRun * Cardinality(devices) \in Nat
        BY <4>1
      <4>4. Spent' = (Cardinality(handed) + 1) + MaxDeviceRun * Cardinality(devices)
        BY <1>2, <4>2 DEF Spent
      <4> QED
        BY <4>1, <4>3, <4>4 DEF Spent
    <3>2. \A z \in VMMZone : Ahead(z)' = Ahead(z) /\ FirstVaddr[z] \in Nat /\ Ahead(z) \in Nat
      BY LayoutAssumption, PagesNat DEF Ahead, TypeInv, Working, Jobs
    <3> QED
      BY <3>1, <3>2 DEF PageInv
  <2> QED
    BY <2>5, <2>8, <2>9
<1> QED
  BY <1>1, <1>2 DEF DirectoryStep

(* A grant of one frame. *)
LEMMA GrantedOne ==
    ASSUME NEW p \in Grants(1) PROVE p \in Ram \ handed
<1>1. p \in Ram /\ FrameRun(p, 1) \subseteq Ram \ handed
  BY DEF Grants
<1>2. p \in Nat
  BY <1>1, LayoutAssumption, Sizes
<1>3. p \in FrameRun(p, 1)
  BY <1>2 DEF FrameRun
<1> QED
  BY <1>1, <1>3

(* The first directory of a call: it is there, or a free frame becomes     *)
(* it and is cleared.                                                      *)
LEMMA EnterDirectoryStep ==
    ASSUME SupplyFits, VMMInv, EnterDirectory
    PROVE  VMMInv'
<1>t. TypeInv /\ DirInv /\ FrameInv /\ PageInv /\ WalkInv /\ pc = "run"
  BY DEF VMMInv, EnterDirectory
<1>w. Working /\ job.at = "dir" /\ job.i = 0
  BY <1>t DEF EnterDirectory, Working, NoJob, WalkInv
<1>b. /\ job \in Jobs /\ job.virt \in Nat /\ job.n \in Nat \ {0}
      /\ job.virt + job.n =< D * (D - 1)
      /\ \A v \in Pages : given[v] # None => v < D * (D - 1)
  BY <1>t, <1>w, Below
<1>d. job.virt < D * (D - 1)
  BY <1>b, Sizes
<1>v. Dir(job.virt) \in Index
  BY <1>b, <1>d, PageFacts
<1>j. /\ job' = [job EXCEPT !.at = "loop"]
      /\ UNCHANGED <<pc, devices, stray, last_vaddr, given>>
  BY DEF EnterDirectory
<1>k. /\ job'.zone = job.zone /\ job'.phys = job.phys /\ job'.n = job.n
      /\ job'.virt = job.virt /\ job'.i = 0 /\ job'.at = "loop"
      /\ job' \in Jobs /\ Working'
  BY <1>b, <1>j, <1>w DEF Jobs, Working, NoJob
<1>1. CASE Present(Dir(job.virt))
  <2>1. UNCHANGED <<mem, handed>> /\ mem[Cr3][Dir(job.virt)] # None
    BY <1>1, <1>t, <1>v, DirectoryInWindow DEF EnterDirectory
  <2>2. TypeInv'
    BY <1>t, <1>b, <1>j, <1>k, <2>1 DEF TypeInv
  <2>3. DirInv' /\ FrameInv' /\ PageInv'
    BY <1>t, <1>w, <1>j, <1>k, <2>1, <2>2, DirectoryGrows DEF DirectoryStep
  <2>4. WalkInv'
    <3>1. job'.virt + job'.i = job.virt
      BY <1>b, <1>k
    <3> QED
      BY <1>t, <1>j, <1>k, <2>1, <3>1 DEF WalkInv, TranslationsHold, Walk
  <2> QED
    BY <2>2, <2>3, <2>4 DEF VMMInv
<1>2. CASE ~Present(Dir(job.virt))
  <2>0. mem[Cr3][Dir(job.virt)] = None
    BY <1>2, <1>t, <1>v, DirectoryInWindow
  <2>1. PICK p \in Grants(1) :
          /\ mem' = [mem EXCEPT ![Cr3][Dir(job.virt)] = p, ![p] = Cleared]
          /\ handed' = handed \cup {p}
    BY <1>2, <1>t, DirectoryInWindow DEF EnterDirectory
  <2>2. p \in Ram \ handed /\ p \in Frames /\ p \notin {Cr3, Low, High, None} /\ Cr3 \in Frames
    <3>1. p \in Ram \ handed
      BY GrantedOne
    <3> QED
      BY <1>t, <3>1, FreeFrame, Sizes
  <2>3. mem'[Cr3] = [mem[Cr3] EXCEPT ![Dir(job.virt)] = p]
    BY <1>t, <2>1, <2>2 DEF TypeInv
  <2>4. \A f \in Frames \ {Cr3, p} : mem'[f] = mem[f]
    BY <1>t, <2>1, <2>2 DEF TypeInv
  <2>5. mem' \in [Frames -> [Index -> Entries]]
    <3>1. mem'[p] = Cleared /\ Cleared \in [Index -> Entries]
      BY <1>t, <2>1, <2>2 DEF TypeInv, Cleared, Entries
    <3>2. mem'[Cr3] \in [Index -> Entries]
      BY <1>t, <2>2, <2>3 DEF TypeInv, Entries
    <3>3. mem' = [f \in Frames |-> mem'[f]]
      BY <1>t, <2>1 DEF TypeInv
    <3> QED
      BY <1>t, <2>4, <3>1, <3>2, <3>3 DEF TypeInv
  <2>6. TypeInv'
    <3>1. handed' \subseteq Ram
      BY <1>t, <2>1, <2>2 DEF TypeInv
    <3> QED
      BY <1>t, <1>b, <1>j, <1>k, <2>5, <3>1 DEF TypeInv
  <2>7. DirInv' /\ FrameInv' /\ PageInv'
    <3>1. DirectoryStep
      BY <1>v, <2>0, <2>1, <2>2, <2>3 DEF DirectoryStep
    <3> QED
      BY <1>t, <1>w, <1>j, <1>k, <2>6, <3>1, DirectoryGrows
  <2>8. \A d \in Index : mem'[Cr3][d] = IF d = Dir(job.virt) THEN p ELSE mem[Cr3][d]
    BY <1>t, <2>2, <2>3 DEF TypeInv
  <2>9. WalkInv'
    <3>1. ASSUME NEW v \in Pages, given[v] # None
          PROVE  Walk(v)' = given[v]
      <4>1. Walk(v) = given[v]
        BY <1>t, <3>1 DEF WalkInv, TranslationsHold
      <4>2. v \in Nat /\ v < D * (D - 1) /\ Dir(v) \in Index
        BY <1>b, <3>1, PagesNat, PageFacts
      <4>3. mem[Cr3][Dir(v)] # None
        BY <3>1, <4>1 DEF Walk, Dir
      <4>4. mem[Cr3][Dir(v)] \in Frames \ {Cr3, p}
        BY <1>t, <2>2, <4>2, <4>3, TableOf
      <4>5. mem'[Cr3][Dir(v)] = mem[Cr3][Dir(v)]
        BY <2>0, <2>8, <4>2, <4>3
      <4> QED
        BY <2>4, <4>1, <4>3, <4>4, <4>5 DEF Walk, Dir
    <3>2. mem'[Cr3][Dir(job.virt)] # None
      BY <1>v, <2>2, <2>8, Sizes
    <3>3. job'.virt + job'.i = job.virt
      BY <1>b, <1>k
    <3> QED
      BY <1>j, <1>k, <3>1, <3>2, <3>3 DEF WalkInv, TranslationsHold
  <2> QED
    BY <2>6, <2>7, <2>9 DEF VMMInv
<1> QED
  BY <1>1, <1>2

(* One page of MapPhysicalToVirtual: the entry is written in a table that  *)
(* is there, in no other page's entry, and the table of the next page is   *)
(* there or is entered.                                                    *)
LEMMA MapPageStep ==
    ASSUME SupplyFits, VMMInv, MapPage
    PROVE  VMMInv'
<1> DEFINE p == job.virt + job.i
           t == mem[Cr3][Dir(p)]
           written == [mem EXCEPT ![t][p % D] = job.phys + job.i]
<1>t. TypeInv /\ DirInv /\ FrameInv /\ PageInv /\ WalkInv /\ pc = "run"
  BY DEF VMMInv, MapPage
<1>w. Working /\ job.at = "loop" /\ job.i < job.n
  BY <1>t DEF MapPage, Working, NoJob
<1>b. /\ job \in Jobs /\ job.virt \in Nat /\ job.n \in Nat \ {0} /\ job.i \in Nat
      /\ job.phys \in Nat
      /\ job.virt + job.n =< D * (D - 1)
      /\ \A v \in job.virt..(job.virt + job.n - 1) : v \in Pages /\ given[v] = None
      /\ \A v \in Pages : given[v] # None => v < D * (D - 1)
  BY <1>t, <1>w, Below
<1>p. p \in Nat /\ p < D * (D - 1) /\ p \in job.virt..(job.virt + job.n - 1)
  BY <1>b, <1>w, Sizes
<1>i. Dir(p) \in Index /\ Dir(p) < D - 1 /\ Dir(p) + 1 \in Index /\ p % D \in Index
  BY <1>p, PageFacts
<1>n. t # None /\ t \in Frames \ {Cr3}
  BY <1>t, <1>w, <1>p, TableOf DEF WalkInv
<1>j. /\ job' = [job EXCEPT !.i = @ + 1]
      /\ UNCHANGED <<pc, devices, stray, last_vaddr, given>>
  BY DEF MapPage
<1>k. /\ job'.zone = job.zone /\ job'.phys = job.phys /\ job'.n = job.n
      /\ job'.virt = job.virt /\ job'.i = job.i + 1 /\ job'.at = "loop"
      /\ job' \in Jobs /\ Working' /\ job'.i =< job'.n
  BY <1>b, <1>j, <1>w DEF Jobs, Working, NoJob
<1>e. job.phys + job.i \in Entries
  <2>1. job.i \in 0..(job.n - 1)
    BY <1>b, <1>w
  <2>2. job.phys + job.i \in Frames
    BY <1>t, <1>w, <2>1 DEF FrameInv
  <2> QED
    BY <2>2 DEF Entries
<1>m. /\ Window(Dir(p)) = t /\ Window(D - 1) = Cr3
      /\ Present(Dir(p) + 1) <=> mem[Cr3][Dir(p) + 1] # None
  BY <1>t, <1>i, WindowIsTable, DirectoryInWindow
<1>1. written \in [Frames -> [Index -> Entries]]
  BY <1>t, <1>n, <1>i, <1>e DEF TypeInv
<1>2. /\ written[Cr3] = mem[Cr3]
      /\ \A f \in Frames, x \in Index :
            written[f][x] = IF f = t /\ x = p % D THEN job.phys + job.i ELSE mem[f][x]
  BY <1>t, <1>n, <1>i, Sizes DEF TypeInv
<1>3. \/ mem' = written /\ UNCHANGED handed
         /\ (Wraps(p) => mem[Cr3][Dir(p) + 1] # None)
      \/ /\ mem[Cr3][Dir(p) + 1] = None
         /\ \E g \in Grants(1) : /\ mem' = [written EXCEPT ![Cr3][Dir(p) + 1] = g]
                                 /\ handed' = handed \cup {g}
  BY <1>m DEF MapPage, SetEntry
<1>z. Cr3 \in Frames /\ Cr3 # None
  BY Sizes
<1>4. /\ mem' \in [Frames -> [Index -> Entries]]
      /\ handed' \subseteq Ram
      /\ \A f \in Frames \ {Cr3} : mem'[f] = written[f]
      /\ DirectoryStep
      /\ \A d \in Index : mem[Cr3][d] # None => mem'[Cr3][d] = mem[Cr3][d]
      /\ Wraps(p) => mem'[Cr3][Dir(p) + 1] # None
  <2> HIDE DEF written, t, p
  <2>1. CASE /\ mem' = written /\ UNCHANGED handed
             /\ (Wraps(p) => mem[Cr3][Dir(p) + 1] # None)
    BY <1>t, <1>1, <1>2, <2>1 DEF TypeInv, DirectoryStep
  <2>2. ASSUME mem[Cr3][Dir(p) + 1] = None, NEW g \in Grants(1),
               mem' = [written EXCEPT ![Cr3][Dir(p) + 1] = g], handed' = handed \cup {g}
        PROVE  /\ mem' \in [Frames -> [Index -> Entries]]
               /\ handed' \subseteq Ram
               /\ \A f \in Frames \ {Cr3} : mem'[f] = written[f]
               /\ DirectoryStep
               /\ \A d \in Index : mem[Cr3][d] # None => mem'[Cr3][d] = mem[Cr3][d]
               /\ Wraps(p) => mem'[Cr3][Dir(p) + 1] # None
    <3>0. g \in Ram \ handed /\ g \in Frames /\ g # None /\ handed' \subseteq Ram
      <4>1. g \in Ram \ handed
        BY GrantedOne
      <4> QED
        BY <1>t, <2>2, <4>1, FreeFrame DEF TypeInv
    <3>1. mem' \in [Frames -> [Index -> Entries]]
      BY <1>1, <1>i, <1>z, <2>2, <3>0 DEF Entries
    <3>2. mem'[Cr3] = [mem[Cr3] EXCEPT ![Dir(p) + 1] = g]
      BY <1>1, <1>2, <1>z, <2>2
    <3>3. \A f \in Frames \ {Cr3} : mem'[f] = written[f]
      BY <1>1, <2>2
    <3>4. DirectoryStep
      BY <1>i, <2>2, <3>0, <3>2 DEF DirectoryStep
    <3>5. \A d \in Index : mem'[Cr3][d] = IF d = Dir(p) + 1 THEN g ELSE mem[Cr3][d]
      BY <1>t, <1>z, <3>2 DEF TypeInv
    <3> QED
      BY <1>i, <2>2, <3>0, <3>1, <3>3, <3>4, <3>5
  <2> QED
    BY <1>3, <2>1, <2>2
<1>5. TypeInv'
  BY <1>t, <1>j, <1>k, <1>4 DEF TypeInv
<1>6. DirInv' /\ FrameInv' /\ PageInv'
  BY <1>t, <1>w, <1>j, <1>k, <1>4, <1>5, DirectoryGrows
<1>7. ASSUME NEW v \in Nat, v < D * (D - 1), v # p, NEW f \in Frames, Walk(v) = f
      PROVE  Walk(v)' = f
  <2>1. f # None
    BY Sizes
  <2>2. mem[Cr3][Dir(v)] # None /\ mem[mem[Cr3][Dir(v)]][v % D] = f
    BY <1>7, <2>1 DEF Walk, Dir
  <2>3. mem[Cr3][Dir(v)] \in Frames \ {Cr3} /\ Dir(v) \in Index /\ v % D \in Index
    BY <1>t, <1>7, <2>2, TableOf, PageFacts
  <2>4. mem'[Cr3][Dir(v)] = mem[Cr3][Dir(v)]
    BY <1>4, <2>2, <2>3
  <2>5. ~(mem[Cr3][Dir(v)] = t /\ v % D = p % D)
    <3>1. mem[Cr3][Dir(v)] = t => Dir(v) = Dir(p)
      BY <1>t, <1>i, <2>2, <2>3 DEF DirInv
    <3>2. ~(Dir(v) = Dir(p) /\ v % D = p % D)
      BY <1>7, <1>p, PagesDiffer
    <3> QED
      BY <3>1, <3>2
  <2>6. mem'[mem[Cr3][Dir(v)]][v % D] = f
    BY <1>2, <1>4, <2>2, <2>3, <2>5
  <2> QED
    BY <2>2, <2>4, <2>6 DEF Walk, Dir
<1>8. ASSUME NEW v \in Nat, v = p
      PROVE  Walk(v)' = job.phys + job.i
  <2>1. mem'[Cr3][Dir(v)] = t
    BY <1>4, <1>8, <1>i, <1>n
  <2>2. mem'[t][v % D] = job.phys + job.i
    BY <1>2, <1>4, <1>8, <1>i, <1>n
  <2> QED
    BY <1>n, <2>1, <2>2 DEF Walk, Dir
<1>9. WalkInv'
  <2>1. ASSUME NEW v \in Pages, given[v] # None
        PROVE  Walk(v)' = given[v]
    <3>1. v \in Nat /\ v < D * (D - 1) /\ v # p
      BY <1>b, <1>p, <2>1, PagesNat
    <3>2. Walk(v) = given[v] /\ given[v] \in Frames
      BY <1>t, <2>1 DEF WalkInv, TranslationsHold, TypeInv, Entries
    <3> QED
      BY <1>7, <3>1, <3>2
  <2>2. ASSUME NEW k \in 0..job.i
        PROVE  Walk(job.virt + k)' = job.phys + k
    <3>0. PICK v \in Nat : v = job.virt + k
      BY <1>b
    <3>1. CASE k = job.i
      <4>1. Walk(v)' = job.phys + k
        BY <1>8, <3>0, <3>1
      <4> QED
        BY <4>1, <3>0, <1>k DEF Walk
    <3>2. CASE k # job.i
      <4>1. k \in 0..(job.i - 1) /\ k \in 0..(job.n - 1)
        BY <1>b, <1>w, <3>2
      <4>2. v < D * (D - 1) /\ v # p
        BY <1>b, <1>w, <3>0, <4>1, Sizes
      <4>3. Walk(v) = job.phys + k
        BY <1>t, <1>w, <3>0, <4>1 DEF WalkInv
      <4>4. job.phys + k \in Frames
        BY <1>t, <1>w, <4>1 DEF FrameInv
      <4>5. Walk(v)' = job.phys + k
        BY <1>7, <4>2, <4>3, <4>4
      <4> QED
        BY <4>5, <3>0, <1>k DEF Walk
    <3> QED
      BY <3>1, <3>2
  <2>3. 0..(job'.i - 1) = 0..job.i
    BY <1>b, <1>k
  <2>4. ASSUME job.i + 1 < job.n
        PROVE  mem'[Cr3][Dir(job.virt + (job.i + 1))] # None
    <3>1. job.virt + (job.i + 1) = p + 1
      BY <1>b
    <3>2. Dir(p + 1) = IF Wraps(p) THEN Dir(p) + 1 ELSE Dir(p)
      BY <1>p, Sizes, NextInRow DEF Dir, Wraps
    <3>3. mem'[Cr3][Dir(p)] # None
      BY <1>4, <1>i, <1>n
    <3> QED
      BY <1>4, <3>1, <3>2, <3>3
  <2>5. TranslationsHold'
    BY <1>j, <2>1 DEF TranslationsHold
  <2>6. \A k \in 0..(job'.i - 1) : Walk(job.virt + k)' = job'.phys + k
    BY <1>k, <2>2, <2>3
  <2> QED
    BY <1>k, <2>4, <2>5, <2>6 DEF WalkInv
<1> QED
  BY <1>5, <1>6, <1>9 DEF VMMInv

(* Back in the caller, the run's pages are given. *)
LEMMA FinishStep ==
    ASSUME SupplyFits, VMMInv, Finish
    PROVE  VMMInv'
<1>t. TypeInv /\ DirInv /\ FrameInv /\ PageInv /\ WalkInv /\ pc = "run"
  BY DEF VMMInv, Finish
<1>w. Working /\ job.at = "loop" /\ job.i = job.n
  BY DEF Finish, Working, NoJob
<1>b. /\ job \in Jobs /\ job.virt \in Nat /\ job.n \in Nat \ {0} /\ job.i \in Nat
      /\ job.phys \in Nat /\ job.zone \in VMMZone
      /\ \A v \in job.virt..(job.virt + job.n - 1) : v \in Pages /\ given[v] = None
  BY <1>t, <1>w, Below DEF Jobs
<1> DEFINE run == job.virt..(job.virt + job.n - 1)
<1>j. /\ job' = NoJob /\ ~Working' /\ UNCHANGED <<pc, mem, handed, devices, stray>>
      /\ last_vaddr' = [last_vaddr EXCEPT ![job.zone] = job.virt + job.n]
  BY DEF Finish, Working, pmm
<1>g. \A v \in Pages : given'[v] = IF v \in run THEN job.phys + (v - job.virt) ELSE given[v]
  BY DEF Finish
<1>o. \A v \in run : v - job.virt \in 0..(job.n - 1) /\ v = job.virt + (v - job.virt)
  BY <1>b
<1>u. Callers' = Callers /\ TableFrames' = TableFrames /\ Spent' = Spent
  BY <1>j DEF Callers, TableFrames, Spent
<1>f. ASSUME NEW v \in run
      PROVE  LET f == job.phys + (v - job.virt)
             IN  /\ f \in Frames
                 /\ f \notin stray => /\ f \in Callers \ TableFrames
                                     /\ \A u \in Pages : given[u] # f
  BY <1>t, <1>w, <1>o DEF FrameInv
<1> HIDE DEF run
<1>1. TypeInv'
  <2>1. given' \in [Pages -> Entries]
    <3>1. \A v \in Pages : given'[v] \in Entries
      BY <1>t, <1>g, <1>f DEF TypeInv, Entries
    <3>2. given' = [v \in Pages |-> given'[v]]
      BY DEF Finish
    <3> QED
      BY <3>1, <3>2
  <2>2. last_vaddr' \in [VMMZone -> Nat]
    BY <1>t, <1>b, <1>j DEF TypeInv
  <2> QED
    BY <1>t, <1>j, <2>1, <2>2 DEF TypeInv
<1>2. DirInv'
  BY <1>t, <1>j, <1>u DEF DirInv
<1>3. FrameInv'
  <2>1. \A v \in Pages : given'[v] # None /\ given'[v] \notin stray
           => given'[v] \in Callers \ TableFrames
    BY <1>t, <1>g, <1>f DEF FrameInv
  <2>2. ASSUME NEW v \in Pages, NEW u \in Pages, v \in run, given'[u] = given'[v],
               given'[v] \notin stray
        PROVE  u = v
    <3>1. u \in run
      BY <1>f, <1>g, <2>2
    <3> QED
      BY <1>b, <1>g, <1>o, <2>2, <3>1, PagesNat
  <2>3. \A u, v \in Pages : given'[u] # None /\ given'[u] = given'[v] /\ given'[u] \notin stray
           => u = v
    BY <1>t, <1>g, <2>2 DEF FrameInv
  <2> QED
    BY <1>j, <1>u, <2>1, <2>3 DEF FrameInv
<1>4. PageInv'
  <2>1. job.virt = last_vaddr[job.zone] /\ FirstVaddr[job.zone] =< job.virt
    BY <1>t, <1>w, <1>b DEF PageInv
  <2>2. \A z \in VMMZone : /\ FirstVaddr[z] \in Nat /\ last_vaddr[z] \in Nat
                           /\ last_vaddr[z] =< last_vaddr'[z] /\ last_vaddr'[z] \in Nat
                           /\ Ahead(z)' = Ahead(z)
    <3>1. \A z \in VMMZone : FirstVaddr[z] \in Nat /\ last_vaddr[z] \in Nat
      BY <1>t, LayoutAssumption, PagesNat DEF TypeInv
    <3>2. \A z \in VMMZone :
             last_vaddr'[z] = IF z = job.zone THEN job.virt + job.n ELSE last_vaddr[z]
      BY <1>t, <1>j DEF TypeInv
    <3>3. \A z \in VMMZone : Ahead(z)' = last_vaddr'[z]
      BY <1>b, <1>j, <3>1, <3>2 DEF Ahead
    <3>4. \A z \in VMMZone : Ahead(z) = last_vaddr'[z]
      BY <1>b, <1>w, <2>1, <3>1, <3>2 DEF Ahead
    <3> QED
      BY <1>b, <2>1, <3>1, <3>2, <3>3, <3>4
  <2>3. ASSUME NEW v \in Pages, given'[v] # None
        PROVE  \E z \in VMMZone : FirstVaddr[z] =< v /\ v < last_vaddr'[z]
    <3>1. CASE v \in run
      <4>1. job.virt =< v /\ v < job.virt + job.n /\ v \in Nat
        BY <1>b, <3>1 DEF run
      <4>2. last_vaddr'[job.zone] = job.virt + job.n
        BY <1>t, <1>b, <1>j DEF TypeInv
      <4>3. FirstVaddr[job.zone] =< v /\ v < last_vaddr'[job.zone]
        BY <1>b, <2>1, <2>2, <4>1, <4>2
      <4> QED
        BY <1>b, <4>3
    <3>2. CASE v \notin run
      <4>1. PICK z \in VMMZone : FirstVaddr[z] =< v /\ v < last_vaddr[z]
        BY <1>t, <1>g, <2>3, <3>2 DEF PageInv
      <4>2. v < last_vaddr'[z]
        BY <2>2, <4>1, PagesNat
      <4> QED
        BY <4>1, <4>2
    <3> QED
      BY <3>1, <3>2
  <2>4. Spent \in Nat
    BY <1>t, SpentBound
  <2>5. \A z \in VMMZone : last_vaddr'[z] >= FirstVaddr[z] /\ Ahead(z)' =< FirstVaddr[z] + Spent'
    BY <1>t, <1>u, <2>2, <2>4 DEF PageInv
  <2> QED
    BY <1>j, <2>3, <2>5 DEF PageInv
<1>5. WalkInv'
  <2>1. ASSUME NEW v \in Pages, given'[v] # None
        PROVE  Walk(v) = given'[v]
    <3>1. CASE v \in run
      <4>1. v - job.virt \in 0..(job.i - 1)
        BY <1>o, <1>w, <3>1
      <4>2. Walk(job.virt + (v - job.virt)) = job.phys + (v - job.virt)
        BY <1>t, <1>w, <4>1 DEF WalkInv
      <4> QED
        BY <1>g, <1>o, <3>1, <4>2
    <3>2. CASE v \notin run
      BY <1>t, <1>g, <2>1, <3>2 DEF WalkInv, TranslationsHold
    <3> QED
      BY <3>1, <3>2
  <2>2. TranslationsHold'
    BY <1>j, <2>1 DEF TranslationsHold, Walk
  <2> QED
    BY <1>j, <2>2 DEF WalkInv
<1> QED
  BY <1>1, <1>2, <1>3, <1>4, <1>5 DEF VMMInv

(* Unmap clears the entries of its pages and of no others. *)
LEMMA UnmapStep ==
    ASSUME SupplyFits, VMMInv, NEW virt \in Pages, NEW n \in Runs, Unmap(virt, n)
    PROVE  VMMInv'
<1> DEFINE run == virt..(virt + n - 1)
<1>t. TypeInv /\ DirInv /\ FrameInv /\ PageInv /\ WalkInv /\ pc = "run" /\ job = NoJob
  BY DEF VMMInv, Unmap
<1>j. /\ UNCHANGED <<pc, handed, devices, stray, last_vaddr, job>>
      /\ mem' = [f \in Frames |-> [i \in Index |->
                    IF \E v \in run : Window(Dir(v)) = f /\ v % D = i
                    THEN None ELSE mem[f][i]]]
      /\ run \subseteq Pages
      /\ \A v \in run : given[v] # None
  BY DEF Unmap, pmm
<1>g. \A v \in Pages : given'[v] = IF v \in run THEN None ELSE given[v]
  BY DEF Unmap
<1>b. \A v \in Pages : given[v] # None =>
         /\ v \in Nat /\ v < D * (D - 1) /\ Dir(v) \in Index /\ v % D \in Index
         /\ Window(Dir(v)) = mem[Cr3][Dir(v)] /\ mem[Cr3][Dir(v)] # None
         /\ mem[Cr3][Dir(v)] \in Frames \ {Cr3}
  <2> SUFFICES ASSUME NEW v \in Pages, given[v] # None
               PROVE  /\ v \in Nat /\ v < D * (D - 1) /\ Dir(v) \in Index /\ v % D \in Index
                      /\ Window(Dir(v)) = mem[Cr3][Dir(v)] /\ mem[Cr3][Dir(v)] # None
                      /\ mem[Cr3][Dir(v)] \in Frames \ {Cr3}
    OBVIOUS
  <2>1. v \in Nat /\ v < D * (D - 1)
    BY <1>t, Below, PagesNat
  <2>2. Dir(v) \in Index /\ v % D \in Index
    BY <2>1, PageFacts
  <2>3. mem[Cr3][Dir(v)] # None
    BY <1>t DEF WalkInv, TranslationsHold, Walk, Dir
  <2> QED
    BY <1>t, <2>1, <2>2, <2>3, WindowIsTable, TableOf
<1> HIDE DEF run
<1>m. \A f \in Frames, i \in Index :
         mem'[f][i] = IF \E v \in run : Window(Dir(v)) = f /\ v % D = i THEN None ELSE mem[f][i]
  BY <1>j
<1>c. mem'[Cr3] = mem[Cr3]
  <2>1. \A v \in run : Window(Dir(v)) # Cr3
    BY <1>b, <1>j
  <2>2. \A i \in Index : mem'[Cr3][i] = mem[Cr3][i]
    BY <1>m, <2>1, Sizes
  <2>3. mem'[Cr3] = [i \in Index |-> mem'[Cr3][i]] /\ mem[Cr3] = [i \in Index |-> mem[Cr3][i]]
    BY <1>j, <1>t, Sizes DEF TypeInv
  <2> QED
    BY <2>2, <2>3
<1>u. Callers' = Callers /\ TableFrames' = TableFrames /\ Spent' = Spent
  BY <1>j, <1>c DEF Callers, TableFrames, Spent
<1>1. TypeInv'
  <2>1. mem' \in [Frames -> [Index -> Entries]]
    BY <1>j, <1>t DEF TypeInv, Entries
  <2>2. given' \in [Pages -> Entries]
    BY <1>t DEF Unmap, TypeInv, Entries
  <2> QED
    BY <1>t, <1>j, <2>1, <2>2 DEF TypeInv
<1>2. DirInv'
  <2>1. pc' = pc /\ pc = "run" /\ handed' = handed
    BY <1>t, <1>j, <1>u
  <2>2. DirInv
    BY <1>t
  <2> QED
    BY <1>c, <2>1, <2>2 DEF DirInv
<1>3. FrameInv'
  <2>1. Callers' \ TableFrames' = Callers \ TableFrames
    BY <1>u
  <2> QED
    BY <1>t, <1>g, <1>j, <2>1 DEF FrameInv, Working
<1>4. PageInv'
  <2>1. \A z \in VMMZone : Ahead(z)' = Ahead(z)
    BY <1>j DEF Ahead, Working
  <2> QED
    BY <1>t, <1>g, <1>j, <1>u, <2>1 DEF PageInv, Working
<1>5. WalkInv'
  <2>1. ASSUME NEW v \in Pages, given'[v] # None
        PROVE  Walk(v)' = given'[v]
    <3> DEFINE t == mem[Cr3][Dir(v)]
    <3>1. v \notin run /\ given[v] # None /\ given'[v] = given[v]
      BY <1>g, <2>1
    <3>2. Walk(v) = given[v]
      BY <1>t, <3>1 DEF WalkInv, TranslationsHold
    <3>3. /\ v \in Nat /\ Dir(v) \in Index /\ v % D \in Index
          /\ t # None /\ t \in Frames
      BY <1>b, <3>1
    <3>4. ASSUME NEW u \in run, Window(Dir(u)) = t, u % D = v % D
          PROVE  FALSE
      <4>1. u \in Nat /\ Dir(u) \in Index /\ mem[Cr3][Dir(u)] = t
        BY <1>b, <1>j, <3>4
      <4>2. Dir(u) = Dir(v)
        BY <1>t, <3>3, <4>1 DEF DirInv
      <4>3. u = v
        BY <3>3, <3>4, <4>1, <4>2, PagesDiffer
      <4> QED
        BY <3>1, <4>3
    <3>5. mem'[t][v % D] = mem[t][v % D]
      BY <1>m, <3>3, <3>4
    <3>6. mem[t][v % D] = given[v]
      BY <3>2, <3>3 DEF Walk, Dir
    <3> QED
      BY <1>c, <3>1, <3>3, <3>5, <3>6 DEF Walk, Dir
  <2> QED
    BY <1>t, <1>j, <2>1 DEF WalkInv, TranslationsHold, Working
<1> QED
  BY <1>1, <1>2, <1>3, <1>4, <1>5 DEF VMMInv

(* A panic leaves everything as it is, and so does the end of what is      *)
(* followed of the PMM.                                                    *)
LEMMA PanicStep == VMMInv /\ pc = "run" /\ (Panic \/ PromiseBroken) => VMMInv'
<1> SUFFICES ASSUME VMMInv, pc = "run", Panic \/ PromiseBroken PROVE VMMInv'
  OBVIOUS
<1>1. /\ pc' \in {"panic", "lost"}
      /\ UNCHANGED <<mem, handed, devices, stray, last_vaddr, job, given>>
  BY DEF Panic, PromiseBroken, pmm
<1>2. TypeInv'
  BY <1>1 DEF VMMInv, TypeInv
<1>3. DirInv'
  BY <1>1 DEF VMMInv, DirInv
<1>4. FrameInv' /\ PageInv' /\ WalkInv'
  BY <1>1 DEF VMMInv, FrameInv, PageInv, WalkInv, TranslationsHold, Walk, Working, Ahead,
              Spent, Callers, TableFrames
<1> QED
  BY <1>2, <1>3, <1>4 DEF VMMInv

(* Every step keeps the invariant. *)
LEMMA NextStep == SupplyFits /\ VMMInv /\ [Next]_vars => VMMInv'
<1> SUFFICES ASSUME SupplyFits, VMMInv, [Next]_vars PROVE VMMInv'
  OBVIOUS
<1>1. CASE VMMInit
  BY <1>1, VMMInitStep
<1>2. ASSUME NEW n \in Runs, NEW z \in VMMZone,
             AllocateVirtualPhysical(n, z) \/ AllocateVirtualPanics(n, z)
      PROVE  VMMInv'
  BY <1>2, AllocateStep, PanicStep DEF AllocateVirtualPanics
<1>3. ASSUME NEW f \in DeviceFrames, NEW n \in 1..MaxDeviceRun, NEW z \in VMMZone,
             MapPhysicalAddress(f, n, z) \/ MapPhysicalPanics(f, n, z)
      PROVE  VMMInv'
  BY <1>3, MapDeviceStep, PanicStep DEF MapPhysicalPanics
<1>4. CASE EnterDirectory
  BY <1>4, EnterDirectoryStep
<1>p. CASE EnterDirectoryPanics \/ PromiseBroken
  BY <1>p, PanicStep DEF EnterDirectoryPanics, PromiseBroken
<1>5. CASE MapPage
  BY <1>5, MapPageStep
<1>6. CASE MapPagePanics
  BY <1>6, PanicStep DEF MapPagePanics
<1>7. CASE Finish
  BY <1>7, FinishStep
<1>8. ASSUME NEW v \in UnmapTargets, NEW n \in Runs, Unmap(v, n)
      PROVE  VMMInv'
  BY <1>8, UnmapStep, LayoutAssumption
<1>9. CASE UNCHANGED vars
  <2>1. UNCHANGED <<pc, mem, handed, devices, stray, last_vaddr, job, given>>
    BY <1>9 DEF vars, pmm
  <2> QED
    BY <2>1 DEF VMMInv, TypeInv, DirInv, FrameInv, PageInv, WalkInv, TranslationsHold, Walk,
                Working, Ahead, Spent, Callers, TableFrames
<1> QED
  BY <1>1, <1>2, <1>3, <1>4, <1>p, <1>5, <1>6, <1>7, <1>8, <1>9 DEF Next, Halted

-----------------------------------------------------------------------------
(* Results. *)

(* The invariant holds throughout. *)
THEOREM Invariance ==
    ASSUME SupplyFits
    PROVE  Spec => []VMMInv
<1>1. VMMInv /\ [Next]_vars => VMMInv'
  BY NextStep
<1> QED
  BY <1>1, InitInv, PTL DEF Spec

(* Whatever is allocated, mapped or unmapped later, a page translates to   *)
(* the frame it was given with.                                            *)
THEOREM TranslationsKept ==
    ASSUME SupplyFits
    PROVE  Spec => []TranslationsHold
<1>1. VMMInv => TranslationsHold
  BY DEF VMMInv, WalkInv
<1> QED
  BY <1>1, Invariance, PTL

(* No two pages of callers share a frame and none maps a page table,       *)
(* except for frames that a driver took past the end of its zone.          *)
THEOREM FramesSeparate ==
    ASSUME SupplyFits
    PROVE  Spec => []FramesApart
<1>1. VMMInv => FramesApart
  <2> SUFFICES ASSUME VMMInv PROVE FramesApart
    OBVIOUS
  <2>1. FrameInv
    BY DEF VMMInv
  <2>2. \A v \in Pages : given[v] \in TableFrames => given[v] \in stray
    BY <2>1 DEF FrameInv, TableFrames
  <2>3. \A u, v \in Pages :
           given[u] # None /\ given[u] = given[v] => u = v \/ given[u] \in stray
    BY <2>1 DEF FrameInv
  <2> QED
    BY <2>2, <2>3 DEF FramesApart
<1> QED
  BY <1>1, Invariance, PTL

(* MapPhysicalToVirtual never writes through a missing table. *)
THEOREM TablesPresent ==
    ASSUME SupplyFits
    PROVE  Spec => []NoTableFault
<1>1. VMMInv => NoTableFault
  <2> SUFFICES ASSUME VMMInv, job.at = "loop", job.i < job.n
               PROVE  Window(Dir(job.virt + job.i)) # None
    BY DEF NoTableFault
  <2>1. TypeInv /\ DirInv /\ PageInv /\ WalkInv /\ Working
    BY DEF VMMInv, Working, NoJob
  <2>2. /\ job.virt \in Nat /\ job.n \in Nat /\ job.i \in Nat
        /\ job.virt + job.n =< D * (D - 1) /\ pc # "boot"
    BY <2>1, Below DEF DirInv, Working
  <2>3. job.virt + job.i \in Nat /\ job.virt + job.i < D * (D - 1)
    BY <2>2, Sizes
  <2>4. Dir(job.virt + job.i) \in Index /\ mem[Cr3][Dir(job.virt + job.i)] # None
    BY <2>1, <2>3, PageFacts DEF WalkInv
  <2> QED
    BY <2>1, <2>2, <2>4, WindowIsTable
<1> QED
  BY <1>1, Invariance, PTL
=============================================================================
