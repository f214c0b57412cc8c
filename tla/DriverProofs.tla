---------------------------- MODULE DriverProofs ----------------------------
(***************************************************************************)
(* Proofs about the drivers that run while the kernel boots.               *)
(*                                                                         *)
(* The scan of the PCI bus, for every machine and every limit of the bus:  *)
(* the invariant of Initialize's three loops and of the search for a       *)
(* device, with the steps that keep it.                                    *)
(*                                                                         *)
(* The walk over the SMBIOS tables, for every table laid out as the        *)
(* standard says, wherever in its page it begins: the invariant of the     *)
(* walk and of GetSMBiosString, with the steps that keep it.               *)
(***************************************************************************)
EXTENDS PCIBus, SMBIOS, ArithmeticLemmas, FiniteSetTheorems, SequenceTheorems

Listed == {pcidevs[k] : k \in DOMAIN pcidevs}

(* The table has room for the functions of the machine. *)
Fits == Cardinality(Scanned) <= MaxDevs

(* Functions above 0 are asked of a device only if function 0 does not say *)
(* that it is the only one.                                                *)
Asked(a) ==
    /\ a \in Address /\ a[1] < BusLimit
    /\ a[3] # 0 /\ Zero(a) \in DOMAIN pci.funs => pci.funs[Zero(a)].multi

(* The table holds the functions before the one asked next, in order. *)
TableInv ==
    /\ pcidevs \in Seq(Scanned) /\ Cardinality(Listed) = Len(pcidevs)
    /\ \A j, k \in DOMAIN pcidevs : j < k => Before(pcidevs[j], pcidevs[k])
    /\ scan # Overran
    /\ IF scan = None THEN Listed = Scanned
       ELSE Asked(scan) /\ Listed = {a \in Scanned : Before(a, scan)}

(* What the search for class c returned. *)
Found(c, a) ==
    LET match == {b \in Scanned : pci.funs[b].class = c}
    IN  IF a = None THEN match = {}
        ELSE a \in match /\ \A b \in match : ~Before(b, a)

PCIInv ==
    /\ pci \in Machines
    /\ Fits => TableInv
    /\ drivers = [c \in Classes |-> drivers[c]]
    /\ \A c \in Classes : drivers[c] # Unasked =>
          scan = None /\ (Fits => Found(c, drivers[c]))

-----------------------------------------------------------------------------
(* The order of addresses. *)

(* An address is a triple of numbers, and no other mark of the scan. *)
LEMMA AddressFacts ==
    ASSUME NEW a \in Address
    PROVE  /\ a = <<a[1], a[2], a[3]>>
           /\ a[1] \in 0..BusLimit /\ a[2] \in 0..(DevLimit - 1) /\ a[3] \in 0..(FunLimit - 1)
           /\ a[1] \in Nat /\ a[2] \in Nat /\ a[3] \in Nat
           /\ a # None /\ a # Overran /\ a # Unasked
<1>1. /\ a = <<a[1], a[2], a[3]>>
      /\ a[1] \in 0..BusLimit /\ a[2] \in 0..(DevLimit - 1) /\ a[3] \in 0..(FunLimit - 1)
  BY DEF Address
<1>2. Len(a) = 3
  BY <1>1
<1>3. Len(None) = 0 /\ Len(Overran) = 1 /\ Len(Unasked) = 1
  BY DEF None, Overran, Unasked
<1>4. a[1] \in Nat /\ a[2] \in Nat /\ a[3] \in Nat
  BY <1>1, PCIAssumption
<1>5. a # None
  BY <1>2, <1>3
<1>6. a # Overran
  BY <1>2, <1>3
<1>7. a # Unasked
  BY <1>2, <1>3
<1> QED
  BY <1>1, <1>4, <1>5, <1>6, <1>7

(* Addresses are ordered. *)
LEMMA BeforeOrders ==
    ASSUME NEW a \in Address, NEW b \in Address
    PROVE  /\ ~Before(a, a)
           /\ Before(a, b) => ~Before(b, a)
           /\ Before(a, b) \/ Before(b, a) \/ a = b
<1>1. /\ a = <<a[1], a[2], a[3]>> /\ a[1] \in Nat /\ a[2] \in Nat /\ a[3] \in Nat
      /\ b = <<b[1], b[2], b[3]>> /\ b[1] \in Nat /\ b[2] \in Nat /\ b[3] \in Nat
  BY AddressFacts
<1> QED
  BY <1>1 DEF Before

(* A machine has finitely many functions that are scanned. *)
LEMMA ScannedFinite ==
    ASSUME pci \in Machines
    PROVE  /\ Scanned \subseteq Address /\ IsFiniteSet(Scanned)
           /\ Cardinality(Scanned) \in Nat
<1> DEFINE B == 0..BusLimit
           D == 0..(DevLimit - 1)
           F == 0..(FunLimit - 1)
           P == (B \X D) \X F
           f == [p \in P |-> <<p[1][1], p[1][2], p[2]>>]
<1>1. IsFiniteSet(B) /\ IsFiniteSet(D) /\ IsFiniteSet(F)
  <2>1. BusLimit \in Int /\ DevLimit - 1 \in Int /\ FunLimit - 1 \in Int
    BY PCIAssumption
  <2> QED
    BY <2>1, FS_Interval
<1>2. IsFiniteSet(P)
  <2>1. IsFiniteSet(B \X D)
    BY <1>1, FS_Product
  <2> QED
    BY <1>1, <2>1, FS_Product
<1>3. f \in Surjection(P, Address)
  <2>1. f \in [P -> Address]
    BY DEF Address
  <2>2. ASSUME NEW a \in Address
        PROVE  \E p \in P : f[p] = a
    <3>1. a = <<a[1], a[2], a[3]>> /\ a[1] \in B /\ a[2] \in D /\ a[3] \in F
      BY AddressFacts
    <3>2. <<<<a[1], a[2]>>, a[3]>> \in P /\ f[<<<<a[1], a[2]>>, a[3]>>] = a
      BY <3>1
    <3> QED
      BY <3>2
  <2> QED
    BY <2>1, <2>2 DEF Surjection
<1>4. IsFiniteSet(Address)
  BY <1>2, <1>3, FS_Surjection
<1>5. Scanned \subseteq Address
  BY PCIAssumption DEF Scanned
<1> QED
  BY <1>4, <1>5, FS_Subset, FS_CardinalityType

(* A function that answers the scan exists: aliases are never asked. *)
LEMMA NoAliasAsked ==
    ASSUME NEW a, Asked(a)
    PROVE  /\ Exists(a) <=> a \in DOMAIN pci.funs
           /\ Exists(a) <=> a \in Scanned
           /\ Exists(a) => Shows(a) = pci.funs[a]
<1>1. a \in Address /\ a = <<a[1], a[2], a[3]>>
  BY AddressFacts DEF Asked
<1>2. CASE a[3] = 0
  <2>1. Zero(a) = a
    BY <1>1, <1>2 DEF Zero
  <2> QED
    BY <2>1 DEF Exists, Alias, Shows, Scanned, Asked
<1>3. CASE a[3] # 0
  BY <1>3 DEF Exists, Alias, Shows, Scanned, Asked
<1> QED
  BY <1>2, <1>3

(* The next address: nothing that exists lies between. *)
LEMMA NextDeviceAfter ==
    ASSUME pci \in Machines, NEW a, Asked(a),
           \A b \in Scanned : b[1] = a[1] /\ b[2] = a[2] => b[3] =< a[3]
    PROVE  /\ NextDevice(a) = None \/ Asked(NextDevice(a))
           /\ NextDevice(a) = None => \A b \in Scanned : Before(b, a) \/ b = a
           /\ NextDevice(a) # None =>
                 \A b \in Scanned : Before(b, NextDevice(a)) <=> Before(b, a) \/ b = a
<1>0. /\ a = <<a[1], a[2], a[3]>> /\ a[1] \in Nat /\ a[2] \in Nat /\ a[3] \in Nat
      /\ a[1] < BusLimit /\ a[2] < DevLimit
      /\ BusLimit \in Nat \ {0} /\ DevLimit \in Nat \ {0} /\ FunLimit \in Nat \ {0}
  BY AddressFacts, PCIAssumption DEF Asked
<1>1. \A b \in Scanned : /\ b = <<b[1], b[2], b[3]>>
                         /\ b[1] \in Nat /\ b[2] \in Nat /\ b[3] \in Nat
                         /\ b[1] < BusLimit /\ b[2] < DevLimit
  <2>1. \A b \in Scanned : b \in Address /\ b[1] < BusLimit
    BY ScannedFinite DEF Scanned
  <2> QED
    BY <1>0, <2>1, AddressFacts
<1>2. CASE a[2] + 1 < DevLimit
  <2> DEFINE n == <<a[1], a[2] + 1, 0>>
  <2>1. NextDevice(a) = n /\ n[1] = a[1] /\ n[2] = a[2] + 1 /\ n[3] = 0
    BY <1>2 DEF NextDevice
  <2>2. n \in Address
    BY <1>0, <1>2 DEF Address
  <2>3. Asked(n)
    BY <1>0, <2>2 DEF Asked
  <2>4. \A b \in Scanned : Before(b, n) <=> Before(b, a) \/ b = a
    BY <1>0, <1>1 DEF Before
  <2> QED
    BY <2>1, <2>2, <2>3, <2>4, AddressFacts
<1>3. CASE ~(a[2] + 1 < DevLimit) /\ a[1] + 1 < BusLimit
  <2> DEFINE n == <<a[1] + 1, 0, 0>>
  <2>1. NextDevice(a) = n /\ n[1] = a[1] + 1 /\ n[2] = 0 /\ n[3] = 0
    BY <1>3 DEF NextDevice
  <2>2. n \in Address
    BY <1>0, <1>3 DEF Address
  <2>3. Asked(n)
    BY <1>3, <2>2 DEF Asked
  <2>4. \A b \in Scanned : Before(b, n) <=> Before(b, a) \/ b = a
    BY <1>0, <1>1, <1>3 DEF Before
  <2> QED
    BY <2>1, <2>2, <2>3, <2>4, AddressFacts
<1>4. CASE ~(a[2] + 1 < DevLimit) /\ ~(a[1] + 1 < BusLimit)
  <2>1. NextDevice(a) = None
    BY <1>4 DEF NextDevice
  <2>2. \A b \in Scanned : Before(b, a) \/ b = a
    BY <1>0, <1>1, <1>4 DEF Before
  <2> QED
    BY <2>1, <2>2
<1> QED
  BY <1>2, <1>3, <1>4

(* One turn of the inner loop passes over no function that exists. *)
LEMMA AfterNext ==
    ASSUME pci \in Machines, NEW a, Asked(a)
    PROVE  /\ After(a) = None \/ Asked(After(a))
           /\ After(a) = None => \A b \in Scanned : Before(b, a) \/ b = a
           /\ After(a) # None =>
                 \A b \in Scanned : Before(b, After(a)) <=> Before(b, a) \/ b = a
<1>0. /\ a \in Address /\ a = <<a[1], a[2], a[3]>>
      /\ a[1] \in Nat /\ a[2] \in Nat /\ a[3] \in Nat
      /\ a[1] < BusLimit /\ a[2] < DevLimit /\ a[3] < FunLimit
      /\ BusLimit \in Nat \ {0} /\ DevLimit \in Nat \ {0} /\ FunLimit \in Nat \ {0}
  BY AddressFacts, PCIAssumption DEF Asked
<1>1. \A b \in Scanned : /\ b = <<b[1], b[2], b[3]>>
                         /\ b[1] \in Nat /\ b[2] \in Nat /\ b[3] \in Nat /\ b[3] < FunLimit
  <2>1. \A b \in Scanned : b \in Address
    BY ScannedFinite
  <2> QED
    BY <1>0, <2>1, AddressFacts
<1>2. CASE a[3] = 0 /\ Exists(a) /\ ~Shows(a).multi
  <2>1. a \in DOMAIN pci.funs /\ ~pci.funs[a].multi
    BY <1>2, NoAliasAsked
  <2>2. ASSUME NEW b \in Scanned, b[1] = a[1], b[2] = a[2] PROVE b[3] =< a[3]
    <3>1. b \in DOMAIN pci.funs
      BY DEF Scanned
    <3>2. b[3] = 0
      BY <1>2, <2>1, <2>2, <3>1, PCIAssumption
    <3> QED
      BY <1>2, <3>2
  <2>3. After(a) = NextDevice(a)
    BY <1>2 DEF After
  <2> QED
    BY <2>2, <2>3, NextDeviceAfter
<1>3. CASE ~(a[3] = 0 /\ Exists(a) /\ ~Shows(a).multi) /\ a[3] + 1 < FunLimit
  <2> DEFINE n == <<a[1], a[2], a[3] + 1>>
  <2>1. After(a) = n /\ n[1] = a[1] /\ n[2] = a[2] /\ n[3] = a[3] + 1
    BY <1>3 DEF After, NextFunction
  <2>2. n \in Address
    BY <1>0, <1>3 DEF Address
  <2>3. Zero(n) = Zero(a)
    BY DEF Zero
  <2>4. Zero(a) \in DOMAIN pci.funs => pci.funs[Zero(a)].multi
    <3>1. CASE a[3] = 0
      <4>1. Zero(a) = a
        BY <1>0, <3>1 DEF Zero
      <4> QED
        BY <1>3, <3>1, <4>1, NoAliasAsked
    <3>2. CASE a[3] # 0
      BY <3>2 DEF Asked
    <3> QED
      BY <3>1, <3>2
  <2>5. Asked(n)
    BY <1>0, <2>2, <2>3, <2>4 DEF Asked
  <2>6. \A b \in Scanned : Before(b, n) <=> Before(b, a) \/ b = a
    BY <1>0, <1>1 DEF Before
  <2> QED
    BY <2>1, <2>2, <2>5, <2>6, AddressFacts
<1>4. CASE ~(a[3] = 0 /\ Exists(a) /\ ~Shows(a).multi) /\ ~(a[3] + 1 < FunLimit)
  <2>1. After(a) = NextDevice(a)
    BY <1>4 DEF After, NextFunction
  <2>2. \A b \in Scanned : b[3] =< a[3]
    BY <1>0, <1>1, <1>4
  <2> QED
    BY <2>1, <2>2, NextDeviceAfter
<1> QED
  BY <1>2, <1>3, <1>4

-----------------------------------------------------------------------------
(* The scan. *)

(* Initialize begins with an empty table. *)
LEMMA ScanStart ==
    ASSUME PCIInit
    PROVE  PCIInv
<1>1. /\ pci \in Machines /\ scan = <<0, 0, 0>> /\ pcidevs = <<>>
      /\ drivers = [c \in Classes |-> Unasked]
  BY DEF PCIInit
<1>2. scan \in Address /\ scan[1] = 0 /\ scan[2] = 0 /\ scan[3] = 0
  BY <1>1, PCIAssumption DEF Address
<1>3. Asked(scan)
  BY <1>2, PCIAssumption DEF Asked
<1>4. pcidevs \in Seq(Scanned) /\ DOMAIN pcidevs = {} /\ Len(pcidevs) = 0 /\ Listed = {}
  BY <1>1 DEF Listed
<1>5. ASSUME NEW a \in Scanned PROVE ~Before(a, scan)
  <2>1. a[1] \in Nat /\ a[2] \in Nat /\ a[3] \in Nat
    BY <1>1, ScannedFinite, AddressFacts
  <2> QED
    BY <1>2, <2>1 DEF Before
<1>6. TableInv
  <2>1. Listed = {a \in Scanned : Before(a, scan)}
    BY <1>4, <1>5
  <2>2. scan # None /\ scan # Overran
    BY <1>2, AddressFacts
  <2>3. Cardinality(Listed) = Len(pcidevs)
    BY <1>4, FS_EmptySet
  <2> QED
    BY <1>3, <1>4, <2>1, <2>2, <2>3 DEF TableInv
<1>7. /\ drivers = [c \in Classes |-> drivers[c]]
      /\ \A c \in Classes : drivers[c] = Unasked
  BY <1>1
<1> QED
  BY <1>1, <1>6, <1>7 DEF PCIInv

(* One turn of the inner loop.  If the table was going to be full, there   *)
(* would be more functions than it has room for.                           *)
LEMMA TableKept ==
    ASSUME pci \in Machines, Fits, TableInv, Query
    PROVE  TableInv'
<1> DEFINE n == Len(pcidevs)
<1>0. /\ scan # None /\ scan # Overran /\ pci' = pci
      /\ pcidevs' = IF Exists(scan) THEN Append(pcidevs, scan) ELSE pcidevs
      /\ scan' = After(scan) \/ (scan' = Overran /\ Exists(scan) /\ n >= MaxDevs)
  BY DEF Query
<1>1. /\ Asked(scan) /\ Listed = {a \in Scanned : Before(a, scan)}
      /\ pcidevs \in Seq(Scanned) /\ Cardinality(Listed) = n
      /\ \A j, k \in DOMAIN pcidevs : j < k => Before(pcidevs[j], pcidevs[k])
      /\ n \in Nat /\ DOMAIN pcidevs = 1..n
  BY <1>0 DEF TableInv
<1>2. /\ Scanned \subseteq Address /\ IsFiniteSet(Scanned) /\ Cardinality(Scanned) \in Nat
      /\ MaxDevs \in Nat /\ Scanned' = Scanned
  BY <1>0, ScannedFinite, PCIAssumption DEF Scanned
<1>3. scan \in Address /\ scan \notin Listed
  BY <1>1, BeforeOrders DEF Asked
<1>4. /\ pcidevs' \in Seq(Scanned) /\ Cardinality(Listed') = Len(pcidevs')
      /\ Listed' = {a \in Scanned : Before(a, scan) \/ a = scan}
      /\ \A j, k \in DOMAIN pcidevs' : j < k => Before(pcidevs'[j], pcidevs'[k])
      /\ ~(Exists(scan) /\ n >= MaxDevs)
  <2>1. CASE ~Exists(scan)
    <3>1. pcidevs' = pcidevs /\ Listed' = Listed
      BY <1>0, <2>1 DEF Listed
    <3>2. scan \notin Scanned
      BY <1>1, <2>1, NoAliasAsked
    <3> QED
      BY <1>1, <2>1, <3>1, <3>2
  <2>2. CASE Exists(scan)
    <3>1. scan \in Scanned
      BY <1>1, <2>2, NoAliasAsked
    <3>2. /\ pcidevs' \in Seq(Scanned) /\ Len(pcidevs') = n + 1
          /\ \A k \in 1..n : pcidevs'[k] = pcidevs[k]
          /\ pcidevs'[n + 1] = scan
      BY <1>0, <1>1, <2>2, <3>1, AppendProperties
    <3>3. /\ DOMAIN pcidevs' = 1..(n + 1)
          /\ \A k \in 1..(n + 1) : k \in 1..n \/ k = n + 1
          /\ \A k \in 1..n : k \in 1..(n + 1)
          /\ n + 1 \in 1..(n + 1)
      BY <1>1, <3>2
    <3>4. Listed' = Listed \cup {scan}
      BY <1>1, <3>2, <3>3 DEF Listed
    <3>5. \A k \in 1..n : Before(pcidevs[k], scan)
      <4>1. \A k \in 1..n : pcidevs[k] \in Listed
        BY <1>1 DEF Listed
      <4> QED
        BY <1>1, <4>1
    <3>6. ASSUME NEW j \in DOMAIN pcidevs', NEW k \in DOMAIN pcidevs', j < k
          PROVE  Before(pcidevs'[j], pcidevs'[k])
      <4>1. j \in 1..n
        BY <1>1, <3>3, <3>6
      <4>2. CASE k \in 1..n
        BY <1>1, <3>2, <3>6, <4>1, <4>2
      <4>3. CASE k = n + 1
        BY <3>2, <3>5, <4>1, <4>3
      <4> QED
        BY <3>3, <4>2, <4>3
    <3>7. Cardinality(Listed \cup {scan}) = n + 1
      <4>1. IsFiniteSet(Listed)
        <5>1. Listed \in SUBSET Scanned
          BY <1>1
        <5> QED
          BY <1>2, <5>1, FS_Subset
      <4> QED
        BY <1>1, <1>3, <4>1, FS_AddElement
    <3>8. n + 1 =< Cardinality(Scanned)
      <4>1. Listed \cup {scan} \in SUBSET Scanned
        BY <1>1, <3>1
      <4> QED
        BY <1>2, <3>7, <4>1, FS_Subset
    <3>9. ~(n >= MaxDevs)
      BY <1>1, <1>2, <3>8 DEF Fits
    <3>10. Listed' = {a \in Scanned : Before(a, scan) \/ a = scan}
      BY <1>1, <3>1, <3>4
    <3> QED
      BY <3>2, <3>4, <3>6, <3>7, <3>9, <3>10
  <2> QED
    BY <2>1, <2>2
<1>5. scan' = After(scan)
  BY <1>0, <1>4
<1>6. CASE After(scan) = None
  <2>1. \A b \in Scanned : Before(b, scan) \/ b = scan
    BY <1>1, <1>6, AfterNext
  <2>2. scan' = None /\ scan' # Overran
    BY <1>5, <1>6 DEF None, Overran
  <2>3. Listed' = Scanned'
    BY <1>2, <1>4, <2>1
  <2> QED
    BY <1>2, <1>4, <2>2, <2>3 DEF TableInv
<1>7. CASE After(scan) # None
  <2>1. /\ Asked(After(scan))
        /\ \A b \in Scanned : Before(b, After(scan)) <=> Before(b, scan) \/ b = scan
    BY <1>1, <1>7, AfterNext
  <2>2. Asked(scan)'
    BY <1>0, <1>5, <2>1 DEF Asked, Zero, Address
  <2>3. scan' # None /\ scan' # Overran
    BY <1>5, <1>7, <2>1, AddressFacts DEF Asked
  <2>4. Listed' = {a \in Scanned' : Before(a, scan')}
    BY <1>2, <1>4, <1>5, <2>1
  <2> QED
    BY <1>2, <1>4, <2>2, <2>3, <2>4 DEF TableInv
<1> QED
  BY <1>6, <1>7

(* A turn of the inner loop keeps the invariant: no driver has asked yet. *)
LEMMA QueryKeeps ==
    ASSUME PCIInv, Query
    PROVE  PCIInv'
<1>1. /\ scan # None /\ UNCHANGED <<pci, drivers>> /\ pci \in Machines
  BY DEF Query, PCIInv
<1>2. Fits' = Fits
  BY <1>1 DEF Fits, Scanned
<1>3. (Fits => TableInv)'
  BY <1>1, <1>2, TableKept DEF PCIInv
<1>4. \A c \in Classes : drivers'[c] = Unasked
  BY <1>1 DEF PCIInv
<1> QED
  BY <1>1, <1>3, <1>4 DEF PCIInv, Address

-----------------------------------------------------------------------------
(* The search for a device. *)

(* The search returns the first device of its class. *)
LEMMA FirstFound ==
    ASSUME pci \in Machines, TableInv, scan = None, NEW c
    PROVE  Found(c, FindPCIByClass(c))
<1> DEFINE match == {k \in DOMAIN pcidevs : Shows(pcidevs[k]).class = c}
           of == {b \in Scanned : pci.funs[b].class = c}
<1>1. /\ Listed = Scanned /\ pcidevs \in Seq(Scanned) /\ Scanned \subseteq Address
      /\ \A j, k \in DOMAIN pcidevs : j < k => Before(pcidevs[j], pcidevs[k])
      /\ DOMAIN pcidevs = 1..Len(pcidevs) /\ Len(pcidevs) \in Nat
  BY ScannedFinite DEF TableInv
<1>2. \A k \in DOMAIN pcidevs : pcidevs[k] \in Scanned /\ Shows(pcidevs[k]) = pci.funs[pcidevs[k]]
  BY <1>1 DEF Shows, Scanned
<1>3. \A b \in of : \E k \in match : pcidevs[k] = b
  BY <1>1, <1>2 DEF Listed
<1>4. CASE match = {}
  <2>1. FindPCIByClass(c) = None
    BY <1>4 DEF FindPCIByClass
  <2>2. of = {}
    BY <1>3, <1>4
  <2> QED
    BY <2>1, <2>2 DEF Found
<1>5. CASE match # {}
  <2> DEFINE m == CHOOSE k \in match : \A j \in match : k <= j
  <2>1. \A k \in match : k \in Nat
    BY <1>1
  <2>2. \E k \in match : \A j \in match : k <= j
    <3> HIDE DEF match
    <3> QED
      BY <1>5, <2>1, LeastNatural
  <2>3. m \in match /\ \A j \in match : m <= j
    BY <2>2
  <2>4. FindPCIByClass(c) = pcidevs[m]
    BY <1>5 DEF FindPCIByClass
  <2> HIDE DEF m
  <2>5. pcidevs[m] \in of /\ pcidevs[m] \in Address
    BY <1>1, <1>2, <2>3
  <2>6. ASSUME NEW b \in of PROVE ~Before(b, pcidevs[m])
    <3>1. PICK k \in match : pcidevs[k] = b
      BY <1>3
    <3>2. m = k \/ m < k
      BY <2>1, <2>3
    <3>3. b \in Address /\ (b = pcidevs[m] \/ Before(pcidevs[m], b))
      BY <1>1, <2>3, <3>1, <3>2
    <3> QED
      BY <2>5, <3>3, BeforeOrders
  <2>7. pcidevs[m] # None
    BY <2>5, AddressFacts
  <2> QED
    BY <2>4, <2>5, <2>6, <2>7 DEF Found
<1> QED
  BY <1>4, <1>5

(* A search keeps the invariant. *)
LEMMA DetectKeeps ==
    ASSUME PCIInv, NEW c \in Classes, DetectPCIByClass(c)
    PROVE  PCIInv'
<1>1. /\ scan = None /\ UNCHANGED <<pci, scan, pcidevs>> /\ pci \in Machines
      /\ drivers' = [drivers EXCEPT ![c] = FindPCIByClass(c)]
  BY DEF DetectPCIByClass, PCIInv
<1>2. Fits' = Fits /\ TableInv' = TableInv
  BY <1>1 DEF Fits, Scanned, TableInv, Listed, Asked, Zero, Address
<1>3. /\ drivers' = [d \in Classes |-> drivers'[d]]
      /\ drivers'[c] = FindPCIByClass(c)
      /\ \A d \in Classes : d # c => drivers'[d] = drivers[d]
  BY <1>1 DEF PCIInv
<1>4. Fits => Found(c, FindPCIByClass(c))
  BY <1>1, FirstFound DEF PCIInv
<1>5. ASSUME NEW d \in Classes, drivers'[d] # Unasked
      PROVE  Fits => Found(d, drivers'[d])
  BY <1>3, <1>4, <1>5 DEF PCIInv
<1>6. \A d \in Classes : Found(d, drivers'[d]) => Found(d, drivers[d])'
  BY <1>1 DEF Found, Scanned
<1>7. (Fits => TableInv)'
  BY <1>2 DEF PCIInv
<1> QED
  BY <1>1, <1>2, <1>3, <1>5, <1>6, <1>7 DEF PCIInv

-----------------------------------------------------------------------------
(* What the invariant says of the properties. *)

(* The table is right once the scan is over. *)
LEMMA InvListed ==
    ASSUME PCIInv
    PROVE  DevicesListed
<1> SUFFICES ASSUME Fits
             PROVE  /\ scan # Overran /\ Len(pcidevs) <= MaxDevs
                    /\ scan = None =>
                          /\ Listed = Scanned
                          /\ \A j, k \in DOMAIN pcidevs : j < k => Before(pcidevs[j], pcidevs[k])
  BY DEF DevicesListed, Fits, Listed
<1>1. TableInv /\ pci \in Machines
  BY DEF PCIInv
<1>2. Listed \in SUBSET Scanned
  <2>1. \A k \in DOMAIN pcidevs : pcidevs[k] \in Scanned
    BY <1>1 DEF TableInv
  <2> QED
    BY <2>1 DEF Listed
<1>3. Cardinality(Listed) <= Cardinality(Scanned) /\ Cardinality(Scanned) \in Nat
  BY <1>1, <1>2, ScannedFinite, FS_Subset
<1>4. Len(pcidevs) <= MaxDevs
  <2>1. Len(pcidevs) \in Nat /\ Cardinality(Listed) = Len(pcidevs) /\ MaxDevs \in Nat
    BY <1>1, PCIAssumption DEF TableInv
  <2> QED
    BY <1>3, <2>1 DEF Fits
<1> QED
  BY <1>1, <1>4 DEF TableInv

(* Every search was right. *)
LEMMA InvFound ==
    ASSUME PCIInv
    PROVE  FirstOfClass
BY DEF PCIInv, FirstOfClass, Fits, Found

-----------------------------------------------------------------------------
(* The invariant of the walk over the SMBIOS tables. *)

(* The structures that were begun are the first ones, and ptr is at the    *)
(* next one, or at the one being parsed.                                   *)
PlaceInv ==
    /\ at \in {"detect", "absent", "header", "look", "fault", "done"}
    /\ i \in 0..Len(fw.starts)
    /\ at \in {"look", "fault"} => i < Len(fw.starts)
    /\ i < Len(fw.starts) => ptr = fw.starts[i + 1]
    /\ visited \in Seq(Nat)
    /\ Len(visited) = IF at \in {"look", "fault"} THEN i + 1 ELSE i
    /\ \A k \in DOMAIN visited : visited[k] = fw.starts[k]

(* What a look-up returns for number n. *)
StringOf(k, n) == IF n \in DOMAIN fw.strings[k] THEN fw.strings[k][n] ELSE NULL

(* The results so far, and the length of the strings measured so far. *)
ResultInv ==
    LET n == Len(Fields(HdrType))
    IN  /\ \A f \in DOMAIN strs : strs[f] = StringOf(i + 1, Wanted(f))
        /\ look.idx = Wanted(field)
        /\ field =< n => strlength = 0
        /\ field > n => /\ field - n =< Len(fw.strings[i + 1]) + 1
                        /\ strlength = BeginOf(fw, i + 1, field - n) - StringsAt

(* GetSMBiosString, with l, is inside string l.strIdx, which is not the    *)
(* one it looks for except at its beginning, and has passed those before.  *)
Scanning(l) ==
    IF fw.strings[i + 1] = <<>> THEN l.off = 0
    ELSE /\ l.strIdx \in 1..Len(fw.strings[i + 1])
         /\ StringsAt + l.off >= BeginOf(fw, i + 1, l.strIdx)
         /\ StringsAt + l.off + 2 =< BeginOf(fw, i + 1, l.strIdx + 1)
         /\ l.idx \notin 1..(l.strIdx - 1)
         /\ l.idx = l.strIdx => StringsAt + l.off = BeginOf(fw, i + 1, l.strIdx)

(* The end of the structure's strings can be told: another structure       *)
(* follows, or something that is not zero.                                 *)
EndSeen == Octet(fw, EndOf(fw, i + 1)) # 0

(* The states of GetSMBiosString. *)
Looks == [idx : Nat, strIdx : Nat, off : Nat]

(* The look-ups, exact as long as the end can be told. *)
LookInv ==
    /\ field \in Nat \ {0} /\ strs \in Seq(Int)
    /\ look \in Looks
    /\ at = "look" => Len(strs) = field - 1
    /\ at = "look" /\ EndSeen => ResultInv /\ Scanning(look)

Cause ==
    \/ OutOfReach
    \/ ptr + LastRead >= Length
    \/ Unnamed
    \/ \E f \in Untested(HdrType) \cap DOMAIN strs : strs[f] = NULL

(* A fault has a cause, if the end of the table can be told. *)
CauseInv == at = "fault" /\ fw.after # 0 => Cause

WalkInv == WellFormed => PlaceInv /\ LookInv /\ CauseInv

-----------------------------------------------------------------------------
(* Facts about tables. *)

(* What FirmwareAssumption and the layout say of a structure. *)
LEMMA StructureIs ==
    ASSUME fw \in Firmware, TablesLaid, NEW k \in 1..Len(fw.starts)
    PROVE  /\ fw.bytes \in Seq(0..255) /\ Length \in Nat
           /\ \A a \in Nat : Octet(fw, a) = Byte(a) /\ Byte(a) \in 0..255
           /\ fw.starts[k] \in Nat /\ TextOf(fw, k) \in Nat /\ EndOf(fw, k) \in Nat
           /\ fw.starts[k] + 4 =< TextOf(fw, k) /\ TextOf(fw, k) + 2 =< EndOf(fw, k)
           /\ EndOf(fw, k) =< Length
           /\ fw.strings[k] \in Seq(Nat) /\ Len(fw.strings) = Len(fw.starts)
<1>1. Laid(fw) /\ fw.bytes \in Seq(0..255) /\ fw.after \in 0..255
  BY FirmwareAssumption DEF TablesLaid
<1>2. Length = Len(fw.bytes) /\ Length \in Nat
  BY <1>1 DEF Length
<1>3. ASSUME NEW a \in Nat PROVE Octet(fw, a) = Byte(a) /\ Byte(a) \in 0..255
  <2>1. a < Length => a + 1 \in 1..Len(fw.bytes)
    BY <1>2
  <2>2. a < Length => fw.bytes[a + 1] \in 0..255
    <3> SUFFICES ASSUME a + 1 \in 1..Len(fw.bytes) PROVE fw.bytes[a + 1] \in 0..255
      BY <2>1
    <3> QED
      BY <1>1, ElementOfSeq
  <2> QED
    BY <1>1, <1>2, <2>2 DEF Octet, Byte
<1>4. fw.starts[k] \in Nat /\ fw.strings[k] \in Seq(Nat) /\ Len(fw.strings) = Len(fw.starts)
  <2>1. fw.starts \in Seq(Nat) /\ fw.strings \in Seq(Seq(Nat))
        /\ Len(fw.strings) = Len(fw.starts)
    BY <1>1 DEF Laid
  <2>2. fw.starts[k] \in Nat
    BY <2>1, ElementOfSeq
  <2>3. k \in 1..Len(fw.strings)
    BY <2>1
  <2>4. fw.strings[k] \in Seq(Nat)
    BY <2>1, <2>3, ElementOfSeq
  <2> QED
    BY <2>1, <2>2, <2>4
<1>5. TextOf(fw, k) \in Nat
  <2>1. fw.starts[k] \in Nat /\ fw.starts[k] + 1 \in Nat
    BY <1>4
  <2>2. Octet(fw, fw.starts[k] + 1) \in 0..255
    <3>1. \A a \in Nat : Octet(fw, a) \in 0..255
      BY <1>3
    <3> QED
      BY <2>1, <3>1
  <2>3. ASSUME NEW x \in Nat, NEW y \in 0..255 PROVE x + y \in Nat
    OBVIOUS
  <2> QED
    BY <2>1, <2>2, <2>3 DEF TextOf
<1>6. EndOf(fw, k) \in Nat
  <2>1. k < Len(fw.starts) => k + 1 \in 1..Len(fw.starts)
    BY <1>1 DEF Laid
  <2>2. k < Len(fw.starts) => fw.starts[k + 1] \in Nat
    <3>1. fw.starts \in Seq(Nat)
      BY <1>1 DEF Laid
    <3> SUFFICES ASSUME k + 1 \in 1..Len(fw.starts) PROVE fw.starts[k + 1] \in Nat
      BY <2>1
    <3> QED
      BY <3>1, ElementOfSeq
  <2> QED
    BY <1>2, <2>2 DEF EndOf
<1>7. fw.starts[k] + 4 =< TextOf(fw, k) /\ TextOf(fw, k) + 2 =< EndOf(fw, k)
      /\ EndOf(fw, k) =< Length
  BY <1>1, <1>2 DEF Laid
<1> QED
  BY <1>1, <1>2, <1>3, <1>4, <1>5, <1>6, <1>7

(* The end of a structure, with and without strings. *)
LEMMA StructureEnds ==
    ASSUME fw \in Firmware, TablesLaid, NEW k \in 1..Len(fw.starts)
    PROVE  /\ Byte(EndOf(fw, k) - 1) = 0 /\ BeginOf(fw, k, 1) = TextOf(fw, k)
           /\ fw.strings[k] = <<>> =>
                 EndOf(fw, k) = TextOf(fw, k) + 2 /\ Byte(TextOf(fw, k)) = 0
                 /\ Byte(TextOf(fw, k) + 1) = 0
<1>1. Laid(fw)
  BY DEF TablesLaid
<1>2. /\ \A a \in Nat : Octet(fw, a) = Byte(a)
      /\ TextOf(fw, k) \in Nat /\ EndOf(fw, k) \in Nat
      /\ TextOf(fw, k) + 2 =< EndOf(fw, k)
  BY StructureIs
<1>3. Octet(fw, EndOf(fw, k) - 1) = 0 /\ BeginOf(fw, k, 1) = TextOf(fw, k)
      /\ (fw.strings[k] = <<>> => EndOf(fw, k) = TextOf(fw, k) + 2 /\ Octet(fw, TextOf(fw, k)) = 0)
  BY <1>1 DEF Laid
<1>4. EndOf(fw, k) - 1 \in Nat
  BY <1>2
<1>5. Byte(EndOf(fw, k) - 1) = 0
  BY <1>2, <1>3, <1>4
<1>6. fw.strings[k] = <<>> => TextOf(fw, k) + 1 = EndOf(fw, k) - 1
  BY <1>2, <1>3
<1> QED
  BY <1>2, <1>3, <1>5, <1>6

(* A string: its bytes, and what follows it. *)
LEMMA StringIs ==
    ASSUME fw \in Firmware, TablesLaid, NEW k \in 1..Len(fw.starts),
           NEW n \in 1..Len(fw.strings[k])
    PROVE  LET s == BeginOf(fw, k, n)
               e == BeginOf(fw, k, n + 1)
           IN  /\ s \in Nat /\ e \in Nat /\ s + 2 =< e /\ e < EndOf(fw, k)
               /\ s = fw.strings[k][n]
               /\ Byte(e - 1) = 0 /\ (\A a \in s..(e - 2) : Byte(a) # 0)
               /\ n < Len(fw.strings[k]) => n + 1 \in 1..Len(fw.strings[k])
               /\ n = Len(fw.strings[k]) => e = EndOf(fw, k) - 1
               /\ fw.strings[k] # <<>>
<1> DEFINE s == BeginOf(fw, k, n)
           e == BeginOf(fw, k, n + 1)
<1>1. Laid(fw)
  BY DEF TablesLaid
<1>2. /\ \A a \in Nat : Octet(fw, a) = Byte(a)
      /\ EndOf(fw, k) \in Nat /\ TextOf(fw, k) + 2 =< EndOf(fw, k) /\ TextOf(fw, k) \in Nat
      /\ fw.strings[k] \in Seq(Nat)
  BY StructureIs
<1>3. fw.strings[k] # <<>> /\ DOMAIN fw.strings[k] = 1..Len(fw.strings[k])
      /\ Len(fw.strings[k]) \in Nat
  BY <1>2
<1>4. s = fw.strings[k][n] /\ s \in Nat
  <2>1. n \in DOMAIN fw.strings[k]
    BY <1>3
  <2>2. fw.strings[k][n] \in Nat
    BY <1>2, ElementOfSeq
  <2> QED
    BY <2>1, <2>2 DEF BeginOf
<1>5. n + 1 \notin DOMAIN fw.strings[k] => e = EndOf(fw, k) - 1
  BY <1>3 DEF BeginOf
<1>6. n + 1 \in DOMAIN fw.strings[k] => e \in Nat
  <2> SUFFICES ASSUME n + 1 \in DOMAIN fw.strings[k] PROVE e \in Nat
    OBVIOUS
  <2>1. n + 1 \in 1..Len(fw.strings[k])
    BY <1>3
  <2>2. fw.strings[k][n + 1] \in Nat
    BY <1>2, <2>1, ElementOfSeq
  <2> QED
    BY <2>2 DEF BeginOf
<1>7. e \in Nat
  BY <1>2, <1>5, <1>6
<1>8. /\ s + 2 =< e /\ e < EndOf(fw, k)
      /\ Octet(fw, e - 1) = 0 /\ \A a \in s..(e - 2) : Octet(fw, a) # 0
  BY <1>1 DEF Laid
<1> HIDE DEF s, e
<1>9. e - 1 \in Nat /\ s..(e - 2) \subseteq Nat
  <2>1. ASSUME NEW x \in Nat, NEW y \in Nat, x + 2 =< y
        PROVE  y - 1 \in Nat /\ x..(y - 2) \subseteq Nat
    BY <2>1
  <2> QED
    BY <1>4, <1>7, <1>8, <2>1
<1>10. Byte(e - 1) = 0 /\ \A a \in s..(e - 2) : Byte(a) # 0
  <2>1. Byte(e - 1) = 0
    BY <1>2, <1>8, <1>9
  <2>2. ASSUME NEW a \in s..(e - 2) PROVE Byte(a) # 0
    <3>1. a \in Nat
      BY <1>9
    <3> QED
      BY <1>2, <1>8, <3>1
  <2> QED
    BY <2>1, <2>2
<1>11. n < Len(fw.strings[k]) => n + 1 \in 1..Len(fw.strings[k])
  BY <1>3
<1>12. n = Len(fw.strings[k]) => n + 1 \notin DOMAIN fw.strings[k]
  BY <1>3
<1> QED
  BY <1>3, <1>4, <1>5, <1>7, <1>8, <1>10, <1>11, <1>12 DEF s, e

(* strlen of a string. *)
LEMMA StrlenIs ==
    ASSUME fw \in Firmware, TablesLaid, NEW k \in 1..Len(fw.starts),
           NEW n \in 1..Len(fw.strings[k])
    PROVE  Strlen(BeginOf(fw, k, n)) = BeginOf(fw, k, n + 1) - 1 - BeginOf(fw, k, n)
<1> DEFINE s == BeginOf(fw, k, n)
           e == BeginOf(fw, k, n + 1)
           m == e - 1 - s
           Is(l) == /\ Byte(s + l) = 0 \/ l > Length
                    /\ \A j \in 0..(l - 1) : Byte(s + j) # 0
<1>1. /\ s \in Nat /\ e \in Nat /\ s + 2 =< e /\ e < EndOf(fw, k)
      /\ Byte(e - 1) = 0 /\ (\A a \in s..(e - 2) : Byte(a) # 0)
  BY StringIs
<1>2. EndOf(fw, k) \in Nat /\ EndOf(fw, k) =< Length /\ Length \in Nat
  BY StructureIs
<1>3. Strlen(s) = CHOOSE l \in 0..(Length + 1) : Is(l)
  BY DEF Strlen
<1> HIDE DEF s, e
<1>4. m \in 0..(Length + 1) /\ m =< Length /\ s + m = e - 1
  BY <1>1, <1>2
<1>5. Is(m)
  <2>1. ASSUME NEW j \in 0..(m - 1) PROVE Byte(s + j) # 0
    <3>1. s + j \in s..(e - 2)
      BY <1>1, <1>4
    <3> QED
      BY <1>1, <3>1
  <2> QED
    BY <1>1, <1>4, <2>1
<1>6. ASSUME NEW l \in 0..(Length + 1), Is(l) PROVE l = m
  <2>1. CASE l < m
    <3>1. l \in 0..(m - 1) /\ ~(l > Length)
      BY <1>2, <1>4, <2>1
    <3> QED
      BY <1>5, <1>6, <3>1
  <2>2. CASE l > m
    <3>1. m \in 0..(l - 1)
      BY <1>4, <2>2
    <3> QED
      BY <1>1, <1>4, <1>6, <3>1
  <2> QED
    BY <1>2, <1>4, <2>1, <2>2
<1>7. (CHOOSE l \in 0..(Length + 1) : Is(l)) = m
  <2> HIDE DEF Is, m
  <2> QED
    BY <1>4, <1>5, <1>6
<1> QED
  BY <1>3, <1>7 DEF s, e

(* Strings are plain, and another structure can be told from a zero. *)
LEMMA WellFormedIs ==
    ASSUME fw \in Firmware, TablesLaid, WellFormed, NEW k \in 1..Len(fw.starts)
    PROVE  /\ \A n \in 1..Len(fw.strings[k]) :
                 \A a \in BeginOf(fw, k, n)..(BeginOf(fw, k, n + 1) - 2) : Byte(a) \in 32..126
           /\ k < Len(fw.starts) => Byte(EndOf(fw, k)) # 0
           /\ k = Len(fw.starts) => Byte(EndOf(fw, k)) = fw.after
<1>1. ASSUME NEW n \in 1..Len(fw.strings[k]),
             NEW a \in BeginOf(fw, k, n)..(BeginOf(fw, k, n + 1) - 2)
      PROVE  Byte(a) \in 32..126
  <2> DEFINE s == BeginOf(fw, k, n)
             e == BeginOf(fw, k, n + 1)
  <2>1. s = fw.strings[k][n] /\ Strlen(s) = e - 1 - s /\ s \in Nat /\ e \in Nat
    BY StringIs, StrlenIs
  <2>2. k \in DOMAIN fw.strings /\ n \in DOMAIN fw.strings[k]
    <3>1. fw.strings \in Seq(Seq(Nat)) /\ Len(fw.strings) = Len(fw.starts)
      BY DEF TablesLaid, Laid
    <3> QED
      BY <3>1
  <2>3. \A b \in fw.strings[k][n]..(fw.strings[k][n] + Strlen(fw.strings[k][n]) - 1) :
           Byte(b) \in 32..126
    BY <2>2 DEF WellFormed
  <2> HIDE DEF s, e
  <2>4. s + Strlen(s) - 1 = e - 2
    BY <2>1
  <2> QED
    BY <2>1, <2>3, <2>4 DEF s, e
<1>2. ASSUME k < Len(fw.starts) PROVE Byte(EndOf(fw, k)) # 0
  <2>0. Len(fw.starts) \in Nat
    BY DEF TablesLaid, Laid
  <2>1. k + 1 \in 2..Len(fw.starts) /\ k + 1 \in 1..Len(fw.starts)
    BY <1>2, <2>0
  <2>2. fw.bytes[fw.starts[k + 1] + 1] # 0
    BY <2>1 DEF WellFormed
  <2>3. EndOf(fw, k) = fw.starts[k + 1]
    BY <1>2 DEF EndOf
  <2>4. fw.starts[k + 1] < Length
    <3>1. /\ fw.starts[k + 1] \in Nat /\ TextOf(fw, k + 1) \in Nat /\ EndOf(fw, k + 1) \in Nat
          /\ fw.starts[k + 1] + 4 =< TextOf(fw, k + 1)
          /\ TextOf(fw, k + 1) + 2 =< EndOf(fw, k + 1)
          /\ EndOf(fw, k + 1) =< Length /\ Length \in Nat
      BY <2>1, StructureIs
    <3> QED
      BY <3>1
  <2> QED
    BY <2>2, <2>3, <2>4 DEF Byte
<1>3. ASSUME k = Len(fw.starts) PROVE Byte(EndOf(fw, k)) = fw.after
  <2>1. EndOf(fw, k) = Length /\ Length \in Nat
    BY <1>3, StructureIs DEF EndOf, Length
  <2> QED
    BY <2>1 DEF Byte
<1> QED
  BY <1>1, <1>2, <1>3

(* The pages of the table reach to the byte behind it. *)
LEMMA TableMapped ==
    ASSUME fw \in Firmware, NEW a \in Nat, a =< Length
    PROVE  Mapped(a) \/ OutOfReach
<1>1. PageSize \in Nat \ {0} /\ Length \in Nat /\ fw.addr \in Nat /\ RomStart \in Nat
  BY FirmwareAssumption DEF Length
<1>2. CASE fw.addr > RomStart
  <2> DEFINE q == Length \div PageSize
             b == fw.addr % PageSize
  <2>1. b \in 0..(PageSize - 1)
    BY <1>1, DivisionSplits
  <2>2. q \in Nat /\ Length % PageSize \in 0..(PageSize - 1)
        /\ Length = PageSize * q + (Length % PageSize)
    BY <1>1, DivisionSplits
  <2> HIDE DEF q, b
  <2>3. (q + 2) * PageSize = PageSize * q + PageSize + PageSize /\ PageSize * q \in Nat
    BY <1>1, <2>2
  <2>4. b + a < (q + 2) * PageSize
    BY <1>1, <2>1, <2>2, <2>3
  <2> QED
    BY <1>2, <2>4 DEF Mapped, q, b
<1>3. CASE ~(fw.addr > RomStart)
  <2>1. fw.addr =< RomStart
    BY <1>1, <1>3
  <2>2. CASE fw.addr < PageSize \/ fw.addr + Length >= RomStart
    BY <2>1, <2>2 DEF OutOfReach
  <2>3. CASE ~(fw.addr < PageSize \/ fw.addr + Length >= RomStart)
    <3>1. fw.addr >= PageSize /\ fw.addr + a < RomStart
      BY <1>1, <2>3
    <3> QED
      BY <1>3, <3>1 DEF Mapped, LowMapped
  <2> QED
    BY <2>2, <2>3
<1> QED
  BY <1>2, <1>3

(* The numbers of the fields the Parse functions look up. *)
LEMMA FieldsAre ==
    ASSUME NEW t
    PROVE  /\ Len(Fields(t)) \in Nat
           /\ \A j \in 1..Len(Fields(t)) : Fields(t)[j] \in Nat
           /\ \A j \in Untested(t) : j \in 1..Len(Fields(t))
<1>1. CASE t = 0
  BY <1>1 DEF Fields, Untested
<1>2. CASE t = 1
  BY <1>2 DEF Fields, Untested
<1>3. CASE t = 2
  BY <1>3 DEF Fields, Untested
<1>4. CASE t = 4
  BY <1>4 DEF Fields, Untested
<1>5. CASE t = 17
  BY <1>5 DEF Fields, Untested
<1>6. CASE t \notin {0, 1, 2, 4, 17}
  <2>1. Fields(t) = <<>> /\ Untested(t) = {}
    BY <1>6 DEF Fields, Untested
  <2> QED
    BY <2>1
<1> QED
  BY <1>1, <1>2, <1>3, <1>4, <1>5, <1>6

-----------------------------------------------------------------------------
(* The walk. *)

(* The structure ptr is at. *)
LEMMA PlaceIs ==
    ASSUME fw \in Firmware, TablesLaid, PlaceInv, i < Len(fw.starts)
    PROVE  /\ i \in Nat /\ Len(fw.starts) \in Nat /\ i + 1 \in 1..Len(fw.starts)
           /\ ptr \in Nat /\ ptr = fw.starts[i + 1]
           /\ HdrLength \in 0..255 /\ HdrType \in 0..255 /\ Length \in Nat
           /\ StringsAt = TextOf(fw, i + 1) /\ StringsAt \in Nat
           /\ ptr + 4 =< StringsAt /\ EndOf(fw, i + 1) \in Nat
           /\ StringsAt + 2 =< EndOf(fw, i + 1) /\ EndOf(fw, i + 1) =< Length
<1>1. Len(fw.starts) \in Nat
  BY DEF TablesLaid, Laid
<1>2. i \in Nat /\ i + 1 \in 1..Len(fw.starts) /\ ptr = fw.starts[i + 1]
  BY <1>1 DEF PlaceInv
<1>3. /\ Length \in Nat
      /\ \A a \in Nat : Octet(fw, a) = Byte(a) /\ Byte(a) \in 0..255
      /\ ptr \in Nat /\ TextOf(fw, i + 1) \in Nat /\ EndOf(fw, i + 1) \in Nat
      /\ ptr + 4 =< TextOf(fw, i + 1) /\ TextOf(fw, i + 1) + 2 =< EndOf(fw, i + 1)
      /\ EndOf(fw, i + 1) =< Length
  BY <1>2, StructureIs
<1>4. ptr + 1 \in Nat
  BY <1>3
<1>5. Octet(fw, ptr + 1) = HdrLength /\ HdrLength \in 0..255 /\ HdrType \in 0..255
  BY <1>3, <1>4 DEF HdrLength, HdrType
<1>6. StringsAt = TextOf(fw, i + 1)
  BY <1>2, <1>5 DEF StringsAt, TextOf
<1> QED
  BY <1>1, <1>2, <1>3, <1>5, <1>6

(* A look-up begins before the first string. *)
LEMMA ScanStarts ==
    ASSUME fw \in Firmware, TablesLaid, PlaceInv, i < Len(fw.starts), NEW w \in Nat
    PROVE  /\ Scanning([idx |-> w, strIdx |-> 1, off |-> 0])
           /\ [idx |-> w, strIdx |-> 1, off |-> 0] \in Looks
<1> DEFINE l == [idx |-> w, strIdx |-> 1, off |-> 0]
           S == fw.strings[i + 1]
<1>1. i + 1 \in 1..Len(fw.starts) /\ StringsAt = TextOf(fw, i + 1) /\ StringsAt \in Nat
  BY PlaceIs
<1>2. l.idx = w /\ l.strIdx = 1 /\ l.off = 0 /\ l \in Looks
  BY DEF Looks
<1>3. CASE S = <<>>
  BY <1>2, <1>3 DEF Scanning
<1>4. CASE S # <<>>
  <2>1. S \in Seq(Nat)
    BY <1>1, StructureIs
  <2>2. 1 \in 1..Len(S)
    BY <1>4, <2>1
  <2>3. /\ BeginOf(fw, i + 1, 1) \in Nat /\ BeginOf(fw, i + 1, 1 + 1) \in Nat
        /\ BeginOf(fw, i + 1, 1) + 2 =< BeginOf(fw, i + 1, 1 + 1)
    BY <1>1, <2>2, StringIs
  <2>4. BeginOf(fw, i + 1, 1) = StringsAt
    BY <1>1, StructureEnds
  <2>5. StringsAt + l.off = StringsAt
    BY <1>1, <1>2
  <2>6. l.idx \notin 1..(l.strIdx - 1)
    BY <1>2
  <2>7. l.strIdx \in 1..Len(S)
    BY <1>2, <2>2
  <2>8. StringsAt + l.off >= BeginOf(fw, i + 1, l.strIdx)
        /\ StringsAt + l.off = BeginOf(fw, i + 1, l.strIdx)
    BY <1>1, <1>2, <2>4, <2>5
  <2>9. StringsAt + l.off + 2 =< BeginOf(fw, i + 1, l.strIdx + 1)
    BY <1>1, <1>2, <2>3, <2>4, <2>5
  <2>10. Scanning(l)
    <3> HIDE DEF l
    <3> QED
      BY <1>4, <2>6, <2>7, <2>8, <2>9 DEF Scanning
  <2> QED
    BY <1>2, <2>10
<1> QED
  BY <1>2, <1>3, <1>4

(* The number a look-up asks for. *)
LEMMA WantedIs ==
    ASSUME fw \in Firmware, TablesLaid, PlaceInv, i < Len(fw.starts), NEW f \in Nat \ {0}
    PROVE  /\ Wanted(f) \in Nat
           /\ f > Len(Fields(HdrType)) => Wanted(f) = f - Len(Fields(HdrType))
<1> DEFINE n == Len(Fields(HdrType))
<1>1. n \in Nat /\ \A j \in 1..n : Fields(HdrType)[j] \in Nat
  BY FieldsAre
<1>2. ptr \in Nat /\ i + 1 \in 1..Len(fw.starts)
  BY PlaceIs
<1>3. \A a \in Nat : Byte(a) \in 0..255
  BY <1>2, StructureIs
<1>4. CASE f =< n
  <2>1. f \in 1..n
    BY <1>1, <1>4
  <2>2. ptr + Fields(HdrType)[f] \in Nat
    BY <1>1, <1>2, <2>1
  <2>3. Wanted(f) = Byte(ptr + Fields(HdrType)[f])
    BY <1>4 DEF Wanted
  <2>4. Wanted(f) \in 0..255
    BY <1>3, <2>2, <2>3
  <2>5. ~(f > n)
    BY <1>1, <1>4
  <2>6. 0..255 \subseteq Nat
    OBVIOUS
  <2> QED
    BY <2>4, <2>5, <2>6
<1>5. CASE f > n
  BY <1>1, <1>5 DEF Wanted
<1> QED
  BY <1>1, <1>4, <1>5

(* What is read of a structure lies before LastRead, and is mapped where   *)
(* the table is not too short for it.                                      *)
LEMMA FieldsRead ==
    ASSUME fw \in Firmware, TablesLaid, PlaceInv, i < Len(fw.starts)
    PROVE  /\ Mapped(ptr + LastRead) \/ OutOfReach \/ ptr + LastRead >= Length
           /\ \A f \in Nat \ {0} :
                 Mapped(ptr + Offset(f)) \/ OutOfReach \/ ptr + LastRead >= Length
<1>1. ptr \in Nat /\ Length \in Nat
  BY PlaceIs
<1>2. LastRead \in Nat /\ 3 =< LastRead
  BY DEF LastRead
<1>3. ASSUME NEW o \in Nat, o =< LastRead
      PROVE  Mapped(ptr + o) \/ OutOfReach \/ ptr + LastRead >= Length
  <2>1. CASE ptr + LastRead >= Length
    BY <2>1
  <2>2. CASE ~(ptr + LastRead >= Length)
    <3>1. ptr + o \in Nat /\ ptr + o =< Length
      BY <1>1, <1>2, <1>3, <2>2
    <3> QED
      BY <3>1, TableMapped
  <2> QED
    BY <2>1, <2>2
<1>4. ASSUME NEW f \in Nat \ {0}
      PROVE  Offset(f) \in Nat /\ Offset(f) =< LastRead
  <2>1. CASE HdrType = 0
    BY <2>1 DEF Offset, Fields, LastRead
  <2>2. CASE HdrType = 1
    BY <2>2 DEF Offset, Fields, LastRead
  <2>3. CASE HdrType = 2
    BY <2>3 DEF Offset, Fields, LastRead
  <2>4. CASE HdrType = 4
    BY <2>4 DEF Offset, Fields, LastRead
  <2>5. CASE HdrType = 17
    <3>1. LastRead \in Nat /\ 26 =< LastRead
      BY <2>5 DEF LastRead
    <3>2. Offset(f) \in Nat /\ Offset(f) =< 26
      BY <2>5 DEF Offset, Fields
    <3> QED
      BY <3>1, <3>2
  <2>6. CASE HdrType \notin {0, 1, 2, 4, 17}
    <3>1. Fields(HdrType) = <<>>
      BY <2>6 DEF Fields
    <3>2. Offset(f) = 3
      BY <3>1 DEF Offset
    <3> QED
      BY <1>2, <3>2
  <2> QED
    BY <2>1, <2>2, <2>3, <2>4, <2>5, <2>6
<1> QED
  BY <1>2, <1>3, <1>4

(* Every string a look-up can return ends in mapped memory. *)
LEMMA StringEnds ==
    ASSUME fw \in Firmware, TablesLaid, NEW k \in 1..Len(fw.starts), NEW w,
           StringOf(k, w) # NULL
    PROVE  Ends(StringOf(k, w)) \/ OutOfReach
<1>1. fw.strings[k] \in Seq(Nat) /\ w \in DOMAIN fw.strings[k]
      /\ StringOf(k, w) = fw.strings[k][w]
  BY StructureIs DEF StringOf
<1>2. w \in 1..Len(fw.strings[k])
  BY <1>1
<1> DEFINE b == BeginOf(fw, k, w)
           e == BeginOf(fw, k, w + 1)
<1>3. /\ b \in Nat /\ e \in Nat /\ b + 2 =< e /\ e < EndOf(fw, k)
      /\ b = fw.strings[k][w] /\ Byte(e - 1) = 0 /\ Strlen(b) = e - 1 - b
  BY <1>2, StringIs, StrlenIs
<1>4. EndOf(fw, k) \in Nat /\ EndOf(fw, k) =< Length /\ Length \in Nat
  BY StructureIs
<1> HIDE DEF b, e
<1>5. b + Strlen(b) = e - 1 /\ e - 1 \in Nat /\ e - 1 =< Length
  BY <1>3, <1>4
<1>6. Mapped(e - 1) \/ OutOfReach
  BY <1>5, TableMapped
<1> QED
  BY <1>1, <1>3, <1>5, <1>6 DEF Ends

(* The scan at the beginning of the next string. *)
LEMMA NextString ==
    ASSUME NEW l \in Looks
    PROVE  LET m == [l EXCEPT !.strIdx = @ + 1, !.off = @ + 2]
           IN  m \in Looks /\ m.idx = l.idx /\ m.strIdx = l.strIdx + 1 /\ m.off = l.off + 2
<1> SUFFICES ASSUME NEW m, m = [l EXCEPT !.strIdx = @ + 1, !.off = @ + 2]
             PROVE  m \in Looks /\ m.idx = l.idx /\ m.strIdx = l.strIdx + 1 /\ m.off = l.off + 2
  OBVIOUS
<1>1. /\ l = [idx |-> l.idx, strIdx |-> l.strIdx, off |-> l.off]
      /\ l.idx \in Nat /\ l.strIdx \in Nat /\ l.off \in Nat
  BY DEF Looks
<1>2. m = [idx |-> l.idx, strIdx |-> l.strIdx + 1, off |-> l.off + 2]
  BY <1>1
<1>3. m.idx = l.idx /\ m.strIdx = l.strIdx + 1 /\ m.off = l.off + 2
  BY <1>2
<1>4. l.strIdx + 1 \in Nat /\ l.off + 2 \in Nat
  BY <1>1
<1>5. m \in Looks
  BY <1>1, <1>2, <1>4 DEF Looks
<1> QED
  BY <1>3, <1>5

(* Where the scan is: inside its string, before the table's end. *)
LEMMA ScanIs ==
    ASSUME fw \in Firmware, TablesLaid, WellFormed, PlaceInv, i < Len(fw.starts),
           look \in Looks, Scanning(look), fw.strings[i + 1] # <<>>
    PROVE  LET A == StringsAt + look.off
               j == look.strIdx
               e == BeginOf(fw, i + 1, j + 1)
           IN  /\ j \in 1..Len(fw.strings[i + 1]) /\ A \in Nat /\ look.off \in Nat
               /\ e \in Nat /\ A + 2 =< e /\ e < EndOf(fw, i + 1)
               /\ Byte(A) # 0 /\ Byte(e - 1) = 0
               /\ A + 1 < e - 1 => Byte(A + 1) # 0 /\ Byte(A + 1) \in 32..126
               /\ HdrLength + look.off < Length
<1> DEFINE A == StringsAt + look.off
           j == look.strIdx
           s == BeginOf(fw, i + 1, j)
           e == BeginOf(fw, i + 1, j + 1)
<1>1. /\ i + 1 \in 1..Len(fw.starts) /\ StringsAt \in Nat /\ ptr \in Nat
      /\ HdrLength \in 0..255 /\ EndOf(fw, i + 1) \in Nat /\ Length \in Nat
      /\ EndOf(fw, i + 1) =< Length
  BY PlaceIs
<1>2. /\ j \in 1..Len(fw.strings[i + 1]) /\ A >= s /\ A + 2 =< e /\ look.off \in Nat
  BY DEF Scanning, Looks
<1>3. /\ s \in Nat /\ e \in Nat /\ s + 2 =< e /\ e < EndOf(fw, i + 1)
      /\ Byte(e - 1) = 0 /\ (\A a \in s..(e - 2) : Byte(a) # 0)
  BY <1>1, <1>2, StringIs
<1>4. \A a \in s..(e - 2) : Byte(a) \in 32..126
  BY <1>1, <1>2, WellFormedIs
<1>5. A \in Nat /\ HdrLength + look.off \in Nat /\ HdrLength + look.off =< A
  <2>1. ASSUME NEW p \in Nat, NEW h \in 0..255, NEW o \in Nat
        PROVE  p + h + o \in Nat /\ h + o \in Nat /\ h + o =< p + h + o
    OBVIOUS
  <2> QED
    BY <1>1, <1>2, <2>1 DEF StringsAt
<1> HIDE DEF s, e, A, j
<1>6. A \in s..(e - 2) /\ (A + 1 < e - 1 => A + 1 \in s..(e - 2))
  BY <1>2, <1>3, <1>5
<1>7. HdrLength + look.off < Length
  <2>1. ASSUME NEW x \in Nat, NEW b \in Nat, NEW c \in Nat, NEW d \in Nat, NEW l \in Nat,
               x =< b, b + 2 =< c, c < d, d =< l
        PROVE  x < l
    BY <2>1
  <2> QED
    BY <1>1, <1>2, <1>3, <1>5, <2>1
<1>8. Byte(A) # 0 /\ (A + 1 < e - 1 => Byte(A + 1) # 0 /\ Byte(A + 1) \in 32..126)
  BY <1>3, <1>4, <1>6
<1> QED
  BY <1>2, <1>3, <1>5, <1>7, <1>8 DEF s, e, A, j

(* One turn of GetSMBiosString's loop goes on in the string, goes on to    *)
(* the next one, or returns what the number stands for.  Every byte it     *)
(* compares is mapped, unless the table is where nothing is.               *)
LEMMA ScanStep ==
    ASSUME fw \in Firmware, TablesLaid, WellFormed, PlaceInv, i < Len(fw.starts),
           look \in Looks, Scanning(look), EndSeen, GetSMBiosString
    PROVE  \/ Return(StringOf(i + 1, look.idx))
           \/ /\ look' \in Looks /\ Scanning(look') /\ look'.idx = look.idx
              /\ UNCHANGED <<fw, at, para, i, ptr, field, strlength, strs, visited>>
           \/ Faults /\ OutOfReach
<1> SUFFICES ASSUME ~(Faults /\ OutOfReach)
             PROVE  \/ Return(StringOf(i + 1, look.idx))
                    \/ /\ look' \in Looks /\ Scanning(look') /\ look'.idx = look.idx
                       /\ UNCHANGED <<fw, at, para, i, ptr, field, strlength, strs, visited>>
  OBVIOUS
<1> DEFINE S == fw.strings[i + 1]
           A == StringsAt + look.off
           a == A + 1
           E == EndOf(fw, i + 1)
<1>1. /\ i + 1 \in 1..Len(fw.starts) /\ StringsAt \in Nat /\ StringsAt = TextOf(fw, i + 1)
      /\ E \in Nat /\ StringsAt + 2 =< E /\ E =< Length /\ Length \in Nat
  BY PlaceIs
<1>2. S \in Seq(Nat) /\ DOMAIN S = 1..Len(S) /\ Len(S) \in Nat
  BY <1>1, StructureIs
<1>3. look.off \in Nat /\ look.idx \in Nat /\ look.strIdx \in Nat
  BY DEF Looks
<1>4. /\ Byte(E - 1) = 0 /\ Byte(E) # 0
      /\ S = <<>> => /\ E = TextOf(fw, i + 1) + 2 /\ Byte(TextOf(fw, i + 1)) = 0
                     /\ Byte(TextOf(fw, i + 1) + 1) = 0
  BY <1>1, StructureEnds, StructureIs DEF EndSeen
<1>5. CASE S = <<>>
  <2>1. look.off = 0 /\ NoStrings
    BY <1>1, <1>4, <1>5 DEF Scanning, NoStrings
  <2>2. Reach(StringsAt) = StringsAt + 1 /\ StringsAt + 1 \in Nat /\ StringsAt + 1 =< Length
    BY <1>1, <1>4, <1>5 DEF Reach
  <2>3. Mapped(Reach(StringsAt)) \/ OutOfReach
    BY <2>2, TableMapped
  <2>4. Return(NULL)
    BY <2>1, <2>3 DEF GetSMBiosString
  <2>5. StringOf(i + 1, look.idx) = NULL
    BY <1>5 DEF StringOf
  <2> QED
    BY <2>4, <2>5
<1>6. CASE S # <<>>
  <2> DEFINE j == look.strIdx
             e == BeginOf(fw, i + 1, j + 1)
  <2>1. /\ j \in 1..Len(S) /\ A \in Nat
        /\ e \in Nat /\ A + 2 =< e /\ e < E
        /\ Byte(A) # 0 /\ Byte(e - 1) = 0
        /\ A + 1 < e - 1 => Byte(A + 1) # 0 /\ Byte(A + 1) \in 32..126
        /\ HdrLength + look.off < Length
    BY <1>6, ScanIs
  <2>2. /\ look.idx \notin 1..(j - 1) /\ A >= BeginOf(fw, i + 1, j)
        /\ look.idx = j => A = BeginOf(fw, i + 1, j)
    BY <1>6 DEF Scanning
  <2>3. look.off = 0 => StringsAt = A
    BY <1>1
  <2>4. ~NoStrings
    BY <2>1, <2>3 DEF NoStrings
  <2>5. look.off = 0 => Mapped(Reach(StringsAt)) \/ OutOfReach
    <3>1. look.off = 0 => Reach(StringsAt) = StringsAt
      BY <2>1, <2>3 DEF Reach
    <3>2. StringsAt =< Length
      BY <1>1
    <3> QED
      BY <1>1, <3>1, <3>2, TableMapped
  <2>6. ~(NoStrings \/ HdrLength + look.off >= Length)
    <3>1. HdrLength \in 0..255
      BY PlaceIs
    <3>2. ASSUME NEW h \in 0..255, NEW o \in Nat, NEW l \in Nat, h + o < l
          PROVE  ~(h + o >= l)
      BY <3>2
    <3> QED
      BY <1>1, <1>3, <2>1, <2>4, <3>1, <3>2
  <2>7. CASE look.idx = j
    <3>1. Return(A)
      BY <2>5, <2>6, <2>7 DEF GetSMBiosString
    <3>2. A = S[j] /\ look.idx \in DOMAIN S
      BY <1>1, <1>2, <2>1, <2>2, <2>7, StringIs
    <3> QED
      BY <2>7, <3>1, <3>2 DEF StringOf
  <2>8. CASE look.idx # j
    <3>1. Mapped(Reach(a)) \/ OutOfReach
      <4>0. ASSUME NEW x \in Nat, NEW y \in Nat, NEW z \in Nat, NEW n \in Nat,
                   x + 2 =< y, y < z, z =< n
            PROVE  /\ x + 1 \in Nat /\ x + 1 =< n /\ x + 1 + 1 =< n /\ x + 1 + 2 =< n
        BY <4>0
      <4>1. a \in Nat /\ a =< Length /\ a + 1 =< Length /\ a + 2 =< Length
        <5> HIDE DEF A, E, e
        <5> QED
          BY <1>1, <2>1, <4>0
      <4>2. Reach(a) \in {a, a + 1, a + 2}
        BY DEF Reach
      <4>3. ASSUME NEW x \in {a, a + 1, a + 2} PROVE x \in Nat /\ x =< Length
        BY <4>1
      <4> QED
        BY <4>2, <4>3, TableMapped
    <3>2. \/ (EndAt(a) \/ (Byte(a) # 0 /\ Byte(a) \notin 32..126)) /\ Return(NULL)
          \/ /\ ~EndAt(a)
             /\ look' = IF Byte(a) = 0 THEN [look EXCEPT !.strIdx = @ + 1, !.off = @ + 2]
                        ELSE [look EXCEPT !.off = @ + 1]
             /\ UNCHANGED <<fw, at, para, i, ptr, field, strlength, strs, visited>>
      BY <2>5, <2>6, <2>8, <3>1 DEF GetSMBiosString
    <3>3. CASE a < e - 1
      <4>1. Byte(a) # 0 /\ Byte(a) \in 32..126
        BY <2>1, <3>3
      <4>2. /\ look' = [look EXCEPT !.off = @ + 1]
            /\ UNCHANGED <<fw, at, para, i, ptr, field, strlength, strs, visited>>
        BY <3>2, <4>1 DEF EndAt
      <4>3. /\ look' \in Looks /\ look'.idx = look.idx /\ look'.strIdx = j
            /\ look'.off = look.off + 1
        BY <1>3, <4>2 DEF Looks
      <4>4. StringsAt + look'.off = A + 1
        BY <1>1, <1>3, <4>3
      <4>5. BeginOf(fw, i + 1, j) \in Nat
        BY <1>1, <2>1, StringIs
      <4>6. StringsAt + look'.off >= BeginOf(fw, i + 1, j) /\ StringsAt + look'.off + 2 =< e
        BY <2>1, <2>2, <3>3, <4>4, <4>5
      <4>7. Scanning(look')
        BY <1>6, <2>1, <2>2, <2>8, <4>3, <4>6 DEF Scanning
      <4> QED
        BY <4>2, <4>3, <4>7
    <3>4. CASE a = e - 1 /\ j < Len(S)
      <4>1. j + 1 \in 1..Len(S)
        <5>1. ASSUME NEW x \in Nat, NEW y \in 1..x, y < x PROVE y + 1 \in 1..x
          BY <5>1
        <5> HIDE DEF j, S
        <5> QED
          BY <1>2, <2>1, <3>4, <5>1
      <4>2. /\ e \in Nat /\ BeginOf(fw, i + 1, j + 1 + 1) \in Nat
            /\ e + 2 =< BeginOf(fw, i + 1, j + 1 + 1)
            /\ \A b \in e..(BeginOf(fw, i + 1, j + 1 + 1) - 2) : Byte(b) # 0
        BY <1>1, <4>1, StringIs
      <4>3. Byte(a) = 0 /\ a + 1 = e /\ e \in e..(BeginOf(fw, i + 1, j + 1 + 1) - 2)
        BY <2>1, <3>4, <4>2
      <4>4. Byte(a + 1) # 0
        BY <4>2, <4>3
      <4>5. /\ look' = [look EXCEPT !.strIdx = @ + 1, !.off = @ + 2]
            /\ UNCHANGED <<fw, at, para, i, ptr, field, strlength, strs, visited>>
        BY <3>2, <4>3, <4>4 DEF EndAt
      <4>6. /\ look' \in Looks /\ look'.idx = look.idx /\ look'.strIdx = j + 1
            /\ look'.off = look.off + 2
        BY <4>5, NextString
      <4>7. StringsAt + look'.off = e
        BY <1>1, <1>3, <2>1, <4>3, <4>6
      <4>8. look'.idx \notin 1..(look'.strIdx - 1)
        BY <1>3, <2>1, <2>2, <2>8, <4>6
      <4>9. StringsAt + look'.off >= e /\ StringsAt + look'.off + 2 =< BeginOf(fw, i + 1, j + 1 + 1)
        BY <4>2, <4>7
      <4>10. Scanning(look')
        BY <1>6, <4>1, <4>6, <4>7, <4>8, <4>9 DEF Scanning
      <4> QED
        BY <4>5, <4>6, <4>10
    <3>5. CASE a = e - 1 /\ j = Len(S)
      <4>1. e = E - 1
        BY <1>1, <2>1, <3>5, StringIs
      <4>2. Byte(a) = 0 /\ a + 1 = E - 1 /\ a + 2 = E
        BY <1>1, <2>1, <3>5, <4>1
      <4>3. EndAt(a)
        BY <1>4, <4>2 DEF EndAt
      <4>4. look.idx \notin DOMAIN S
        BY <1>2, <1>3, <2>1, <2>2, <2>8, <3>5
      <4> QED
        BY <3>2, <4>3, <4>4 DEF StringOf
    <3>6. (a < e - 1 \/ a = e - 1) /\ (j < Len(S) \/ j = Len(S))
      <4>1. ASSUME NEW x \in Nat, NEW y \in Nat, x + 2 =< y PROVE x + 1 < y - 1 \/ x + 1 = y - 1
        BY <4>1
      <4>2. ASSUME NEW x \in Nat, NEW y \in 1..x PROVE y < x \/ y = x
        OBVIOUS
      <4> HIDE DEF A, e, j
      <4> QED
        BY <1>2, <2>1, <4>1, <4>2
    <3> QED
      BY <3>3, <3>4, <3>5, <3>6
  <2> QED
    BY <2>7, <2>8
<1> QED
  BY <1>5, <1>6

(* What depends on the table and on ptr alone. *)
LEMMA SameTable ==
    ASSUME fw' = fw
    PROVE  WellFormed' <=> WellFormed
BY DEF WellFormed, Strlen, Byte, Length

LEMMA SamePlace ==
    ASSUME UNCHANGED <<fw, i, ptr>>
    PROVE  /\ HdrType' = HdrType /\ StringsAt' = StringsAt /\ Unnamed' = Unnamed
           /\ EndSeen' = EndSeen /\ OutOfReach' = OutOfReach
           /\ (ptr + LastRead >= Length)' = (ptr + LastRead >= Length)
           /\ Scanning(look)' = Scanning(look')
<1>1. HdrType' = HdrType /\ StringsAt' = StringsAt /\ Unnamed' = Unnamed
  BY DEF HdrType, StringsAt, HdrLength, Byte, Length, Unnamed
<1>2. EndSeen' = EndSeen /\ OutOfReach' = OutOfReach
  BY DEF EndSeen, OutOfReach, Length
<1>3. Scanning(look)' = Scanning(look')
  BY <1>1 DEF Scanning
<1>4. (ptr + LastRead >= Length)' = (ptr + LastRead >= Length)
  BY <1>1 DEF LastRead, Byte, Length
<1> QED
  BY <1>1, <1>2, <1>3, <1>4

LEMMA SameWanted ==
    ASSUME UNCHANGED <<fw, i, ptr>>, NEW f
    PROVE  (Wanted(f))' = Wanted(f)
BY DEF Wanted, HdrType, Byte, Length

(* Where no end is seen, a turn of the loop returns something, faults, or  *)
(* goes on.                                                                *)
LEMMA LooseStep ==
    ASSUME StringsAt \in Nat, look \in Looks, GetSMBiosString
    PROVE  \/ \E r \in Int : Return(r)
           \/ Faults
           \/ /\ look' \in Looks
              /\ UNCHANGED <<fw, at, para, i, ptr, field, strlength, strs, visited>>
<1> DEFINE a == StringsAt + look.off + 1
<1>1. look.off \in Nat /\ look.strIdx \in Nat /\ look.idx \in Nat
  BY DEF Looks
<1>2. StringsAt + look.off \in Int /\ NULL \in Int
  BY <1>1 DEF NULL
<1>3. \/ Faults \/ Return(NULL) \/ Return(StringsAt + look.off)
      \/ /\ look' = IF Byte(a) = 0 THEN [look EXCEPT !.strIdx = @ + 1, !.off = @ + 2]
                    ELSE [look EXCEPT !.off = @ + 1]
         /\ UNCHANGED <<fw, at, para, i, ptr, field, strlength, strs, visited>>
  BY DEF GetSMBiosString
<1>4. [look EXCEPT !.strIdx = @ + 1, !.off = @ + 2] \in Looks
  BY NextString
<1>5. [look EXCEPT !.off = @ + 1] \in Looks
  BY <1>1 DEF Looks
<1> QED
  BY <1>2, <1>3, <1>4, <1>5

(* Where the end cannot be told, the structure is the last one and a zero  *)
(* follows the table.                                                      *)
LEMMA EndUnseen ==
    ASSUME fw \in Firmware, TablesLaid, WellFormed, PlaceInv, i < Len(fw.starts), ~EndSeen
    PROVE  i + 1 = Len(fw.starts) /\ fw.after = 0
<1>1. i + 1 \in 1..Len(fw.starts) /\ i \in Nat /\ Len(fw.starts) \in Nat
      /\ EndOf(fw, i + 1) \in Nat
  BY PlaceIs
<1>2. Byte(EndOf(fw, i + 1)) = 0
  BY <1>1, StructureIs DEF EndSeen
<1>3. ~(i + 1 < Len(fw.starts))
  BY <1>1, <1>2, WellFormedIs
<1>4. i + 1 = Len(fw.starts)
  BY <1>1, <1>3
<1> QED
  BY <1>1, <1>2, <1>4, WellFormedIs

(* The bytes of the strings measured when a look-up has returned: up to    *)
(* the beginning of the next string, or of the zero behind the last.       *)
LEMMA Measured ==
    ASSUME fw \in Firmware, TablesLaid, PlaceInv, i < Len(fw.starts), ResultInv,
           field \in Nat \ {0}, NEW r, r = StringOf(i + 1, look.idx),
           field > Len(Fields(HdrType))
    PROVE  LET n == Len(Fields(HdrType))
               m == field - n
               bytes == strlength + (IF r # NULL THEN Strlen(r) + 1 ELSE 0)
           IN  /\ m \in 1..(Len(fw.strings[i + 1]) + 1)
               /\ r # NULL => /\ m \in 1..Len(fw.strings[i + 1])
                              /\ bytes = BeginOf(fw, i + 1, m + 1) - StringsAt
               /\ r = NULL => /\ m = Len(fw.strings[i + 1]) + 1
                              /\ StringsAt + Skip(bytes) = EndOf(fw, i + 1)
<1> DEFINE n == Len(Fields(HdrType))
           m == field - n
           S == fw.strings[i + 1]
           bytes == strlength + (IF r # NULL THEN Strlen(r) + 1 ELSE 0)
<1>1. n \in Nat
  BY FieldsAre
<1>2. /\ i + 1 \in 1..Len(fw.starts) /\ StringsAt \in Nat /\ StringsAt = TextOf(fw, i + 1)
      /\ EndOf(fw, i + 1) \in Nat /\ StringsAt + 2 =< EndOf(fw, i + 1)
  BY PlaceIs
<1>3. S \in Seq(Nat) /\ DOMAIN S = 1..Len(S) /\ Len(S) \in Nat
  BY <1>2, StructureIs
<1>4. m =< Len(S) + 1 /\ strlength = BeginOf(fw, i + 1, m) - StringsAt /\ look.idx = Wanted(field)
  BY DEF ResultInv
<1>5. look.idx = m
  BY <1>4, WantedIs
<1>6. m \in 1..(Len(S) + 1) /\ m \in Nat
  BY <1>1, <1>3, <1>4
<1> HIDE DEF n, m, S
<1>7. ASSUME m \in 1..Len(S)
      PROVE  r # NULL /\ bytes = BeginOf(fw, i + 1, m + 1) - StringsAt
  <2>1. m \in 1..Len(fw.strings[i + 1])
    BY <1>7 DEF S
  <2>2. /\ BeginOf(fw, i + 1, m) \in Nat /\ BeginOf(fw, i + 1, m + 1) \in Nat
        /\ BeginOf(fw, i + 1, m) = S[m]
    BY <1>2, <2>1, StringIs DEF S
  <2>3. Strlen(BeginOf(fw, i + 1, m)) = BeginOf(fw, i + 1, m + 1) - 1 - BeginOf(fw, i + 1, m)
    BY <1>2, <2>1, StrlenIs
  <2>4. r = BeginOf(fw, i + 1, m)
    BY <1>3, <1>5, <1>7, <2>2 DEF StringOf, S
  <2>5. r # NULL
    BY <2>2, <2>4 DEF NULL
  <2>6. bytes = (BeginOf(fw, i + 1, m) - StringsAt)
                + (BeginOf(fw, i + 1, m + 1) - 1 - BeginOf(fw, i + 1, m) + 1)
    BY <1>4, <2>3, <2>4, <2>5
  <2>7. ASSUME NEW a \in Nat, NEW s \in Nat, NEW e \in Nat
        PROVE  (s - a) + (e - 1 - s + 1) = e - a
    OBVIOUS
  <2> QED
    BY <1>2, <2>2, <2>5, <2>6, <2>7
<1>8. ASSUME m \notin 1..Len(S)
      PROVE  r = NULL /\ m = Len(S) + 1 /\ StringsAt + Skip(bytes) = EndOf(fw, i + 1)
  <2>1. m = Len(S) + 1
    BY <1>3, <1>6, <1>8
  <2>2. r = NULL
    BY <1>3, <1>5, <1>8 DEF StringOf, S
  <2>3. bytes = strlength + 0
    BY <2>2
  <2>4. CASE S = <<>>
    <3>1. m = 1 /\ BeginOf(fw, i + 1, 1) = StringsAt /\ EndOf(fw, i + 1) = StringsAt + 2
      BY <1>2, <2>1, <2>4, StructureEnds DEF S
    <3>2. bytes = 0
      BY <1>2, <1>4, <2>3, <3>1
    <3> QED
      BY <2>1, <2>2, <3>1, <3>2 DEF Skip
  <2>5. CASE S # <<>>
    <3>1. BeginOf(fw, i + 1, m) = EndOf(fw, i + 1) - 1
      BY <1>3, <1>8, <2>5 DEF BeginOf, S
    <3>2. bytes = EndOf(fw, i + 1) - 1 - StringsAt /\ bytes > 0
      BY <1>2, <1>4, <2>3, <3>1
    <3>3. Skip(bytes) = bytes + 1
      BY <3>2 DEF Skip
    <3> QED
      BY <1>2, <2>1, <2>2, <3>2, <3>3
  <2> QED
    BY <2>4, <2>5
<1> QED
  BY <1>6, <1>7, <1>8 DEF m, n, S

(* A look-up that has returned r: the walk faults for a cause, goes on to  *)
(* the next structure, or makes the next look-up of this one.              *)
LEMMA ReturnKeeps ==
    ASSUME fw \in Firmware, TablesLaid, WellFormed, PlaceInv, LookInv, at = "look",
           NEW r \in Int, EndSeen => r = StringOf(i + 1, look.idx), Return(r)
    PROVE  PlaceInv' /\ LookInv' /\ CauseInv'
<1> DEFINE n == Len(Fields(HdrType))
           bytes == strlength + (IF field > n /\ r # NULL THEN Strlen(r) + 1 ELSE 0)
           faults == \/ field = n /\ LogFaults(Append(strs, r))
                     \/ field > n /\ r # NULL /\ ~Ends(r)
<1>1. i < Len(fw.starts) /\ i \in Nat
  BY DEF PlaceInv
<1>2. /\ i + 1 \in 1..Len(fw.starts) /\ Len(fw.starts) \in Nat /\ ptr \in Nat
      /\ StringsAt = TextOf(fw, i + 1) /\ StringsAt \in Nat
  BY <1>1, PlaceIs
<1>3. n \in Nat /\ \A f \in Untested(HdrType) : f \in 1..n
  BY FieldsAre
<1>4. /\ field \in Nat \ {0} /\ strs \in Seq(Int) /\ look \in Looks /\ Len(strs) = field - 1
      /\ EndSeen => ResultInv /\ Scanning(look)
  BY DEF LookInv
<1>5. strs' = Append(strs, r) /\ strlength' = bytes /\ UNCHANGED <<fw, para, visited>>
  BY DEF Return
<1>6. /\ strs' \in Seq(Int) /\ Len(strs') = field /\ DOMAIN strs' = 1..field
      /\ strs'[field] = r /\ \A f \in 1..(field - 1) : strs'[f] = strs[f]
  <2>1. /\ strs' \in Seq(Int) /\ Len(strs') = Len(strs) + 1
        /\ strs'[Len(strs) + 1] = r /\ \A f \in 1..Len(strs) : strs'[f] = strs[f]
    BY <1>4, <1>5, AppendProperties
  <2>2. Len(strs) + 1 = field
    BY <1>4
  <2> QED
    BY <1>4, <2>1, <2>2
<1> HIDE DEF n
<1>7. ASSUME EndSeen, NEW f \in DOMAIN strs'
       PROVE  strs'[f] = StringOf(i + 1, Wanted(f))
  <2>1. CASE f = field
    BY <1>4, <1>6, <1>7, <2>1 DEF ResultInv
  <2>2. CASE f \in 1..(field - 1)
    <3>1. f \in DOMAIN strs
      BY <1>4, <2>2
    <3> QED
      BY <1>4, <1>6, <1>7, <2>2, <3>1 DEF ResultInv
  <2>3. f = field \/ f \in 1..(field - 1)
    BY <1>4, <1>6, <1>7
  <2> QED
    BY <2>1, <2>2, <2>3
<1>8. CASE /\ faults \/ (field = n /\ Unnamed)
           /\ at' = "fault" /\ UNCHANGED <<field, look, i, ptr>>
  <2>1. PlaceInv'
    BY <1>1, <1>5, <1>8 DEF PlaceInv
  <2>2. LookInv'
    BY <1>4, <1>6, <1>8 DEF LookInv
  <2>3. /\ HdrType' = HdrType /\ Unnamed' = Unnamed /\ OutOfReach' = OutOfReach
        /\ (ptr + LastRead >= Length)' = (ptr + LastRead >= Length)
    BY <1>5, <1>8, SamePlace
  <2>4. Untested(HdrType)' = Untested(HdrType)
    BY <2>3 DEF Untested
  <2>5. ASSUME fw.after # 0 PROVE Cause'
    <3>1. EndSeen
      BY <1>1, <2>5, EndUnseen
    <3>2. CASE field = n /\ Unnamed
      BY <2>3, <3>2 DEF Cause
    <3>3. CASE ~Mapped(ptr + LastRead)
      BY <1>1, <2>3, <3>3, FieldsRead DEF Cause
    <3>4. CASE field = n /\ \E f \in Untested(HdrType) : strs'[f] = NULL
      <4>1. Untested(HdrType) \subseteq DOMAIN strs'
        BY <1>3, <1>6, <3>4 DEF n
      <4> QED
        BY <2>4, <3>4, <4>1 DEF Cause
    <3>5. ASSUME NEW f \in DOMAIN strs', strs'[f] # NULL, ~Ends(strs'[f])
          PROVE  OutOfReach
      BY <1>2, <1>7, <3>1, <3>5, StringEnds
    <3>6. field \in DOMAIN strs' /\ strs'[field] = r
      BY <1>4, <1>6
    <3>7. CASE field > n /\ r # NULL /\ ~Ends(r)
      BY <2>3, <3>5, <3>6, <3>7 DEF Cause
    <3>8. CASE field = n /\ LogFaults(strs')
      BY <2>3, <3>3, <3>4, <3>5, <3>8 DEF Cause, LogFaults
    <3> QED
      BY <1>5, <1>8, <3>2, <3>7, <3>8
  <2>6. CauseInv'
    BY <1>5, <2>5 DEF CauseInv
  <2> QED
    BY <2>1, <2>2, <2>6
<1>9. CASE /\ field > n /\ r = NULL
           /\ at' = "header" /\ i' = i + 1 /\ ptr' = ptr + HdrLength + Skip(bytes)
           /\ UNCHANGED <<field, look>>
  <2>1. ASSUME i + 1 < Len(fw.starts) PROVE ptr' = fw.starts[i + 1 + 1]
    <3>1. EndSeen
      BY <1>1, <1>2, <2>1, EndUnseen
    <3>2. bytes = strlength + (IF r # NULL THEN Strlen(r) + 1 ELSE 0)
      BY <1>9
    <3>3. StringsAt + Skip(bytes) = EndOf(fw, i + 1)
      BY <1>1, <1>4, <1>9, <3>1, <3>2, Measured DEF n
    <3> QED
      BY <1>9, <2>1, <3>3 DEF EndOf, StringsAt
  <2>2. PlaceInv'
    <3>1. i' \in 0..Len(fw.starts) /\ i' = i + 1
      BY <1>2, <1>1, <1>9
    <3> QED
      BY <1>5, <1>9, <2>1, <3>1 DEF PlaceInv
  <2>3. LookInv' /\ CauseInv'
    BY <1>4, <1>6, <1>9 DEF LookInv, CauseInv
  <2> QED
    BY <2>2, <2>3
<1>10. CASE /\ ~(field > n /\ r = NULL)
           /\ Call(field + 1) /\ UNCHANGED <<i, ptr>>
  <2>1. PlaceInv'
    BY <1>1, <1>5, <1>10 DEF PlaceInv, Call
  <2>2. field + 1 \in Nat \ {0} /\ (field + 1) - 1 = field
    BY <1>4
  <2>3. Wanted(field + 1) \in Nat
        /\ (field + 1 > n => Wanted(field + 1) = (field + 1) - n)
    BY <1>1, <2>2, WantedIs DEF n
  <2>4. field' = field + 1 /\ look' = [idx |-> Wanted(field + 1), strIdx |-> 1, off |-> 0]
    BY <1>10 DEF Call
  <2>5. look' \in Looks /\ Scanning(look')
    BY <1>1, <2>3, <2>4, ScanStarts
  <2>6. /\ HdrType' = HdrType /\ StringsAt' = StringsAt /\ EndSeen' = EndSeen
        /\ Scanning(look)' = Scanning(look')
    BY <1>5, <1>10, SamePlace
  <2>7. ASSUME EndSeen PROVE ResultInv'
    <3>1. n' = n
      BY <2>6 DEF n, Fields
    <3>2. \A f \in DOMAIN strs' : strs'[f] = StringOf(i + 1, Wanted(f))
      BY <1>7, <2>7
    <3>3. look'.idx = Wanted(field')
      BY <2>4
    <3>4. field' =< n => strlength' = 0
      <4> SUFFICES ASSUME field' =< n PROVE bytes = 0
        BY <1>5
      <4>1. field =< n /\ ~(field > n)
        BY <1>3, <1>4, <2>4 DEF n
      <4>2. strlength = 0
        BY <1>4, <2>7, <4>1 DEF ResultInv, n
      <4> QED
        BY <4>1, <4>2
    <3>5. field' > n => /\ field' - n =< Len(fw.strings[i + 1]) + 1
                        /\ strlength' = BeginOf(fw, i + 1, field' - n) - StringsAt
      <4> SUFFICES ASSUME field' > n
                   PROVE  /\ field' - n =< Len(fw.strings[i + 1]) + 1
                          /\ strlength' = BeginOf(fw, i + 1, field' - n) - StringsAt
        OBVIOUS
      <4>1. CASE field = n
        <5>1. strlength = 0 /\ ~(field > n) /\ field =< n
          BY <1>4, <2>7, <4>1 DEF ResultInv, n
        <5>2. field' - n = 1 /\ strlength' = 0
          BY <1>4, <1>5, <2>4, <4>1, <5>1
        <5>3. BeginOf(fw, i + 1, 1) = StringsAt
          BY <1>2, StructureEnds
        <5>4. Len(fw.strings[i + 1]) \in Nat
          BY <1>2, StructureIs
        <5> QED
          BY <1>2, <5>2, <5>3, <5>4
      <4>2. CASE field > n
        <5>1. r # NULL
          BY <1>10, <4>2
        <5>2. bytes = strlength + (IF r # NULL THEN Strlen(r) + 1 ELSE 0)
          BY <4>2, <5>1
        <5>3. /\ field - n \in 1..Len(fw.strings[i + 1])
              /\ bytes = BeginOf(fw, i + 1, field - n + 1) - StringsAt
          BY <1>1, <1>4, <2>7, <4>2, <5>1, <5>2, Measured DEF n
        <5>4. field' - n = field - n + 1 /\ n \in Nat
          BY <1>3, <1>4, <2>4 DEF n
        <5>5. Len(fw.strings[i + 1]) \in Nat
          BY <1>2, StructureIs
        <5> QED
          BY <1>4, <1>5, <5>3, <5>4, <5>5
      <4>3. field = n \/ field > n
        <5>1. n \in Nat
          BY <1>3 DEF n
        <5> QED
          BY <1>4, <2>4, <5>1
      <4> QED
        BY <4>1, <4>2, <4>3
    <3>6. \A f : (Wanted(f))' = Wanted(f)
      BY <1>5, <1>10, SameWanted
    <3> QED
      BY <1>5, <1>10, <2>6, <3>1, <3>2, <3>3, <3>4, <3>5, <3>6 DEF ResultInv, StringOf, n
  <2>8. LookInv'
    BY <1>6, <2>2, <2>4, <2>5, <2>6, <2>7 DEF LookInv
  <2>9. CauseInv'
    <3>1. at' = "fault" => OutOfReach \/ ptr + LastRead >= Length
      BY <1>1, <1>10, <2>2, FieldsRead DEF Call
    <3>2. OutOfReach' = OutOfReach /\ (ptr + LastRead >= Length)' = (ptr + LastRead >= Length)
      BY <1>5, <1>10, SamePlace
    <3> QED
      BY <3>1, <3>2 DEF CauseInv, Cause
  <2> QED
    BY <2>1, <2>8, <2>9
<1> QED
  BY <1>8, <1>9, <1>10 DEF Return, n

(* A turn of Initialize's loop begins. *)
LEMMA HeaderKeeps ==
    ASSUME fw \in Firmware, TablesLaid, PlaceInv, LookInv, Header
    PROVE  PlaceInv' /\ LookInv' /\ CauseInv'
<1>1. i \in Nat /\ Len(fw.starts) \in Nat /\ i =< Len(fw.starts) /\ Len(visited) = i
      /\ visited \in Seq(Nat) /\ at = "header"
  <2>1. Len(fw.starts) \in Nat
    BY DEF TablesLaid, Laid
  <2> QED
    BY <2>1 DEF PlaceInv, Header
<1>2. CASE i < Len(fw.starts)
  <2>1. /\ i + 1 \in 1..Len(fw.starts) /\ ptr \in Nat /\ ptr = fw.starts[i + 1]
        /\ StringsAt \in Nat /\ ptr + 4 =< StringsAt /\ Length \in Nat
        /\ StringsAt + 2 =< EndOf(fw, i + 1) /\ EndOf(fw, i + 1) =< Length
        /\ EndOf(fw, i + 1) \in Nat /\ StringsAt = TextOf(fw, i + 1)
    BY <1>2, PlaceIs
  <2>3. /\ visited' = Append(visited, ptr) /\ Call(1) /\ at' \in {"look", "fault"}
        /\ strs' = <<>> /\ strlength' = 0 /\ UNCHANGED <<fw, para, i, ptr>>
    BY <1>2 DEF Header, Call
  <2>4. PlaceInv'
    <3>1. /\ visited' \in Seq(Nat) /\ Len(visited') = i + 1
          /\ visited'[i + 1] = ptr /\ \A k \in 1..i : visited'[k] = visited[k]
      BY <1>1, <2>1, <2>3, AppendProperties
    <3>2. DOMAIN visited' = 1..(i + 1) /\ DOMAIN visited = 1..i
      BY <1>1, <3>1
    <3>3. \A k \in DOMAIN visited' : visited'[k] = fw.starts[k]
      <4> TAKE k \in DOMAIN visited'
      <4>1. k = i + 1 \/ k \in 1..i
        BY <1>1, <3>2
      <4> QED
        BY <2>1, <3>1, <3>2, <4>1 DEF PlaceInv
    <3> QED
      BY <1>1, <1>2, <2>1, <2>3, <3>1, <3>3 DEF PlaceInv
  <2>5. LookInv'
    <3>0. 1 \in Nat \ {0}
      OBVIOUS
    <3>1. Wanted(1) \in Nat
      BY <1>2, <3>0, WantedIs
    <3>2. field' = 1 /\ look' = [idx |-> Wanted(1), strIdx |-> 1, off |-> 0]
      BY <2>3 DEF Call
    <3>3. look' \in Looks /\ Scanning(look')
      BY <1>2, <3>1, <3>2, ScanStarts
    <3>4. /\ HdrType' = HdrType /\ StringsAt' = StringsAt
          /\ Scanning(look)' = Scanning(look')
      BY <2>3, SamePlace
    <3>5. (Wanted(1))' = Wanted(1)
      BY <2>3, SameWanted
    <3>6. strs' \in Seq(Int) /\ Len(strs') = 0 /\ DOMAIN strs' = {}
      BY <2>3
    <3>7. ResultInv'
      <4>1. Fields(HdrType)' = Fields(HdrType)
        BY <3>4 DEF Fields
      <4>2. look'.idx = (Wanted(field))'
        BY <3>2, <3>5 DEF Wanted
      <4>3. Len(Fields(HdrType)) \in Nat
        BY FieldsAre
      <4>4. field' > Len(Fields(HdrType)) => Len(Fields(HdrType)) = 0 /\ field' - 0 = 1
        BY <3>2, <4>3
      <4>5. BeginOf(fw, i + 1, 1) = StringsAt /\ Len(fw.strings[i + 1]) \in Nat
        <5>1. BeginOf(fw, i + 1, 1) = StringsAt
          BY <2>1, StructureEnds
        <5>2. fw.strings[i + 1] \in Seq(Nat)
          BY <2>1, StructureIs
        <5> QED
          BY <5>1, <5>2
      <4>6. field' > Len(Fields(HdrType)) =>
               /\ field' - Len(Fields(HdrType)) =< Len(fw.strings[i + 1]) + 1
               /\ strlength' = BeginOf(fw, i + 1, field' - Len(Fields(HdrType))) - StringsAt
        <5> SUFFICES ASSUME field' > Len(Fields(HdrType))
                     PROVE  /\ 1 =< Len(fw.strings[i + 1]) + 1
                            /\ strlength' = BeginOf(fw, i + 1, 1) - StringsAt
          BY <4>4
        <5>1. 1 =< Len(fw.strings[i + 1]) + 1
          BY <4>5
        <5>2. StringsAt - StringsAt = 0
          BY <2>1
        <5> QED
          BY <2>3, <4>5, <5>1, <5>2
      <4> QED
        BY <2>3, <3>4, <3>6, <4>1, <4>2, <4>6 DEF ResultInv
    <3> QED
      BY <2>3, <3>2, <3>3, <3>4, <3>6, <3>7 DEF LookInv
  <2>6. CauseInv'
    <3>0. 1 \in Nat \ {0}
      OBVIOUS
    <3>1. at' = "fault" => OutOfReach \/ ptr + LastRead >= Length
      BY <1>2, <2>3, <3>0, FieldsRead DEF Call
    <3>2. OutOfReach' = OutOfReach /\ (ptr + LastRead >= Length)' = (ptr + LastRead >= Length)
      BY <2>3, SamePlace
    <3> QED
      BY <3>1, <3>2 DEF CauseInv, Cause
  <2> QED
    BY <2>4, <2>5, <2>6
<1>3. CASE ~(i < Len(fw.starts))
  <2>1. at' = "done" /\ strs' = <<>> /\ UNCHANGED <<fw, i, ptr, visited, field, look>>
    BY <1>3 DEF Header
  <2>2. PlaceInv'
    BY <1>1, <1>3, <2>1 DEF PlaceInv
  <2>3. LookInv' /\ CauseInv'
    BY <2>1 DEF LookInv, CauseInv
  <2> QED
    BY <2>2, <2>3
<1> QED
  BY <1>2, <1>3

(* A turn of GetSMBiosString's loop. *)
LEMMA StringKeeps ==
    ASSUME fw \in Firmware, TablesLaid, WellFormed, PlaceInv, LookInv, GetSMBiosString
    PROVE  PlaceInv' /\ LookInv' /\ CauseInv'
<1>1. at = "look" /\ i < Len(fw.starts) /\ i \in Nat
  BY DEF GetSMBiosString, PlaceInv
<1>2. /\ field \in Nat \ {0} /\ strs \in Seq(Int) /\ look \in Looks /\ Len(strs) = field - 1
      /\ EndSeen => ResultInv /\ Scanning(look)
  BY <1>1 DEF LookInv
<1>3. StringsAt \in Nat /\ i + 1 \in 1..Len(fw.starts)
  BY <1>1, PlaceIs
<1>4. ASSUME look' \in Looks, EndSeen => Scanning(look') /\ look'.idx = look.idx,
             UNCHANGED <<fw, at, para, i, ptr, field, strlength, strs, visited>>
      PROVE  PlaceInv' /\ LookInv' /\ CauseInv'
  <2>1. PlaceInv' /\ CauseInv'
    BY <1>1, <1>4 DEF PlaceInv, CauseInv
  <2>2. /\ HdrType' = HdrType /\ StringsAt' = StringsAt /\ EndSeen' = EndSeen
        /\ Scanning(look)' = Scanning(look')
    BY <1>4, SamePlace
  <2>3. ASSUME EndSeen PROVE ResultInv'
    <3>1. ResultInv /\ look'.idx = look.idx
      BY <1>2, <1>4, <2>3
    <3>2. \A f : (Wanted(f))' = Wanted(f)
      BY <1>4, SameWanted
    <3>3. Fields(HdrType)' = Fields(HdrType)
      BY <2>2 DEF Fields
    <3>4. (Wanted(field))' = Wanted(field)
      BY <1>4, <3>2, <3>3 DEF Wanted
    <3> QED
      BY <1>4, <2>2, <3>1, <3>2, <3>3, <3>4 DEF ResultInv, StringOf
  <2> QED
    BY <1>2, <1>4, <2>1, <2>2, <2>3 DEF LookInv
<1>5. CASE EndSeen
  <2>1. StringOf(i + 1, look.idx) \in Int
    <3>1. fw.strings[i + 1] \in Seq(Nat)
      BY <1>3, StructureIs
    <3>2. NULL \in Int
      BY DEF NULL
    <3> QED
      BY <3>1, <3>2 DEF StringOf
  <2>2. CASE Faults /\ OutOfReach
    <3>1. at' = "fault" /\ UNCHANGED <<fw, i, ptr, field, look, strs, visited>>
      BY <2>2 DEF Faults
    <3>2. OutOfReach'
      BY <2>2, <3>1, SamePlace
    <3> QED
      BY <1>1, <1>2, <3>1, <3>2 DEF PlaceInv, LookInv, CauseInv, Cause
  <2> QED
    BY <1>1, <1>2, <1>4, <1>5, <2>1, <2>2, ScanStep, ReturnKeeps
<1>6. CASE ~EndSeen
  <2>1. fw.after = 0
    BY <1>1, <1>6, EndUnseen
  <2>2. CASE Faults
    <3>1. at' = "fault" /\ UNCHANGED <<fw, i, ptr, field, look, strs, visited>>
      BY <2>2 DEF Faults
    <3> QED
      BY <1>1, <1>2, <2>1, <3>1 DEF PlaceInv, LookInv, CauseInv
  <2> QED
    BY <1>1, <1>2, <1>3, <1>4, <1>6, <2>2, LooseStep, ReturnKeeps
<1> QED
  BY <1>5, <1>6

(* The walk keeps its invariant in every step of the driver. *)
LEMMA WalkKeeps ==
    ASSUME fw \in Firmware, TablesLaid, WalkInv, SMBIOSNext
    PROVE  WalkInv'
<1> SUFFICES ASSUME WellFormed' PROVE PlaceInv' /\ LookInv' /\ CauseInv'
  BY DEF WalkInv
<1>1. fw' = fw
  BY DEF SMBIOSNext, Detect, Header, GetSMBiosString, Return, Faults
<1>2. WellFormed /\ PlaceInv /\ LookInv /\ CauseInv
  BY <1>1, SameTable DEF WalkInv
<1>3. CASE Detect
  <2>1. /\ at = "detect" /\ at' \in {"detect", "absent", "header"}
        /\ UNCHANGED <<fw, i, ptr, field, look, strlength, strs, visited>>
    BY <1>3 DEF Detect
  <2> QED
    BY <1>2, <2>1 DEF PlaceInv, LookInv, CauseInv
<1> QED
  BY <1>2, <1>3, HeaderKeeps, StringKeeps DEF SMBIOSNext

(* What the invariant says of the results. *)
LEMMA WalkShows ==
    ASSUME fw \in Firmware, TablesLaid, WalkInv
    PROVE  WalkAligned /\ StringsFound
<1>1. WalkAligned
  BY DEF WalkAligned, WalkInv, PlaceInv
<1>2. ASSUME WellFormed, at = "look", i + 1 < Len(fw.starts) \/ fw.after # 0,
             NEW f \in DOMAIN strs
      PROVE  strs[f] = StringOf(i + 1, Wanted(f))
  <2>1. PlaceInv /\ LookInv /\ i < Len(fw.starts)
    BY <1>2 DEF WalkInv, PlaceInv
  <2>2. i \in Nat /\ Len(fw.starts) \in Nat
    BY <2>1, PlaceIs
  <2>3. EndSeen
    BY <1>2, <2>1, <2>2, EndUnseen
  <2> QED
    BY <1>2, <2>1, <2>3 DEF LookInv, ResultInv
<1> QED
  BY <1>1, <1>2 DEF StringsFound, StringOf

(* The walk starts at the table's beginning. *)
LEMMA WalkStart ==
    ASSUME TablesLaid, SMBIOSInit
    PROVE  WalkInv
<1>1. Laid(fw) /\ fw \in Firmware
  BY DEF TablesLaid, SMBIOSInit
<1>2. Len(fw.starts) \in Nat /\ (Len(fw.starts) > 0 => fw.starts[1] = 0)
  BY <1>1 DEF Laid
<1>3. i = 0 /\ ptr = 0 /\ visited = <<>> /\ at = "detect" /\ strs = <<>> /\ field = 1
      /\ look = [idx |-> 0, strIdx |-> 1, off |-> 0]
  BY DEF SMBIOSInit
<1>4. PlaceInv
  BY <1>2, <1>3 DEF PlaceInv
<1>5. LookInv /\ CauseInv
  BY <1>3 DEF LookInv, CauseInv, Looks
<1> QED
  BY <1>4, <1>5 DEF WalkInv

=============================================================================
