------------------------------- MODULE SMBIOS -------------------------------
(***************************************************************************)
(* The SMBIOS tables (SMBIOS.cpp): the search for the entry point, the     *)
(* walk over the structures of the table and the look-up of the strings    *)
(* behind each of them.                                                    *)
(*                                                                         *)
(* The table is modelled byte by byte, because the code finds the end of a *)
(* structure by its bytes alone.  Addresses count from the table's start.  *)
(***************************************************************************)
EXTENDS Integers, Sequences

CONSTANTS
    PageSize,   \* VMM_PAGE_SIZE: 4096
    RomStart,   \* 0xf0000
    Firmware    \* bound: the firmware the machine may have, see below

(* rom: what each 16-byte paragraph from RomStart on holds: "sm" is the    *)
(* anchor alone, "sum" both anchors and a wrong checksum, "entry" an entry *)
(* point.  bytes, after: the table and the byte that follows it.           *)
(* starts, strings: where each structure, and each of its strings, begins. *)
(* addr: the physical address of the table.                                *)
ASSUME FirmwareAssumption ==
    /\ PageSize \in Nat \ {0} /\ RomStart \in Nat
    /\ \A f \in Firmware :
          /\ f.rom \in Seq({"none", "sm", "sum", "entry"})
          /\ f.bytes \in Seq(0..255) /\ f.after \in 0..255
          /\ DOMAIN f.starts = DOMAIN f.strings
          /\ f.addr \in Nat

VARIABLES
    fw,         \* the firmware
    at,         \* what the driver does: "detect", "header", "look", "done",
                \* "absent", or "fault" after a read of an unmapped address
    para,       \* Detect's paragraph
    i,          \* structures done
    ptr,        \* smbios_ptr
    field,      \* index in Fields of the string looked up, then max_idx
    look,       \* GetSMBiosString: [idx, strIdx, off]
    strlength,
    strs,       \* the results of the look-ups for the present structure
    visited     \* ghost: the values of ptr

smbiosVars == <<fw, at, para, i, ptr, field, look, strlength, strs, visited>>

NULL == -1    \* no string
Length == Len(fw.bytes)
Byte(a) == IF a < Length THEN fw.bytes[a + 1] ELSE fw.after

(* The memory below RomStart is mapped where it is, without the first page;*)
(* from RomStart on VMM::Init has unmapped it.                             *)
LowMapped(a) == fw.addr >= PageSize /\ fw.addr + a < RomStart

(* Mutant: one page less. *)
MappedLess(a) ==
    IF fw.addr > RomStart
    THEN (fw.addr % PageSize) + a < (Length \div PageSize + 1) * PageSize
    ELSE LowMapped(a)

(* For a table above RomStart MapPhysicalAddress maps whole pages from the *)
(* one it begins in.                                                       *)
Mapped(a) ==
    IF fw.addr > RomStart
    THEN (fw.addr % PageSize) + a < (Length \div PageSize + 2) * PageSize
    ELSE LowMapped(a)

HdrType   == Byte(ptr)
HdrLength == Byte(ptr + 1)
StringsAt == ptr + HdrLength

(* The offsets of the string numbers each Parse function looks up, in its  *)
(* order (for type 1 the serial number three times).                       *)
Fields(type) ==
    CASE type = 0  -> <<4, 5, 8>>
      [] type = 1  -> <<4, 5, 6, 7, 7, 7>>
      [] type = 2  -> <<4, 5, 6, 7>>
      [] type = 4  -> <<4, 7, 16>>
      [] type = 17 -> <<23, 24, 25, 26, 16, 17>>
      [] OTHER     -> <<>>

(* The last byte of a structure that is read. *)
LastRead ==
    CASE HdrType = 0  -> 9
      [] HdrType = 1  -> 24
      [] HdrType = 2  -> 13
      [] HdrType = 4  -> 23
      [] HdrType = 17 -> IF Byte(ptr + 12) = 255 /\ Byte(ptr + 13) = 127 THEN 31 ELSE 26
      [] OTHER        -> 3

(* The strings that are logged without a test for NULL. *)
Untested(type) == IF type = 2 THEN {1, 2, 3} ELSE IF type = 4 THEN {1} ELSE {}

(* The number a Parse function looks up a name for in an array, and how    *)
(* many names that has; it is not tested.                                  *)
Named(type) ==
    CASE type = 1 -> [off |-> 24, names |-> 9]
      [] type = 2 -> [off |-> 13, names |-> 14]
      [] type = 4 -> [off |-> 5, names |-> 7]
      [] OTHER    -> [off |-> 0, names |-> 256]

Unnamed == Byte(ptr + Named(HdrType).off) >= Named(HdrType).names

-----------------------------------------------------------------------------
SMBIOSInit ==
    /\ fw \in Firmware
    /\ at = "detect" /\ para = 1
    /\ i = 0 /\ ptr = 0 /\ field = 1 /\ strlength = 0
    /\ look = [idx |-> 0, strIdx |-> 1, off |-> 0]
    /\ strs = <<>> /\ visited = <<>>

(* Mutant: a wrong checksum ends the search. *)
DetectStopsAtBadSum ==
    /\ at = "detect"
    /\ at' = CASE para > Len(fw.rom) \/ fw.rom[para] = "sum" -> "absent"
               [] para <= Len(fw.rom) /\ fw.rom[para] = "entry" -> "header"
               [] OTHER -> at
    /\ para' = IF at' = at THEN para + 1 ELSE para
    /\ UNCHANGED <<fw, i, ptr, field, look, strlength, strs, visited>>

(* Mutant: a wrong checksum is looked at again and again. *)
DetectStaysAtBadSum ==
    /\ at = "detect"
    /\ at' = CASE para > Len(fw.rom) -> "absent"
               [] para <= Len(fw.rom) /\ fw.rom[para] = "entry" -> "header"
               [] OTHER -> at
    /\ para' = IF at' = at /\ fw.rom[para] # "sum" THEN para + 1 ELSE para
    /\ UNCHANGED <<fw, i, ptr, field, look, strlength, strs, visited>>

Detect ==
    /\ at = "detect"
    /\ at' = CASE para > Len(fw.rom) -> "absent"
               [] para <= Len(fw.rom) /\ fw.rom[para] = "entry" -> "header"
               [] OTHER -> at
    /\ para' = IF at' = at THEN para + 1 ELSE para
    /\ UNCHANGED <<fw, i, ptr, field, look, strlength, strs, visited>>

(* The string number that field f asks for. *)
Wanted(f) ==
    IF f <= Len(Fields(HdrType)) THEN Byte(ptr + Fields(HdrType)[f])
    ELSE f - Len(Fields(HdrType))

(* What has to be read for it: its byte in the structure, or the header. *)
Offset(f) == IF f <= Len(Fields(HdrType)) THEN Fields(HdrType)[f] ELSE 3

Call(f) ==
    /\ at' = IF Mapped(ptr + Offset(f)) THEN "look" ELSE "fault"
    /\ field' = f
    /\ look' = [idx |-> Wanted(f), strIdx |-> 1, off |-> 0]

(* One turn of Initialize's loop begins. *)
Header ==
    /\ at = "header"
    /\ IF i < Len(fw.starts)
       THEN visited' = Append(visited, ptr) /\ Call(1)
       ELSE at' = "done" /\ UNCHANGED <<visited, field, look>>
    /\ strs' = <<>> /\ strlength' = 0
    /\ UNCHANGED <<fw, para, i, ptr>>

Strlen(a) == CHOOSE n \in 0..(Length + 1) :
                /\ Byte(a + n) = 0 \/ n > Length
                /\ \A k \in 0..(n - 1) : Byte(a + k) # 0

(* The string at a ends, and no page that is not mapped comes before. *)
Ends(a) == Byte(a + Strlen(a)) = 0 /\ Mapped(a + Strlen(a))

(* Logging the results s reads the structure and the strings to their ends.*)
LogFaults(s) ==
    \/ ~Mapped(ptr + LastRead)
    \/ \E f \in Untested(HdrType) : s[f] = NULL
    \/ \E f \in DOMAIN s : s[f] # NULL /\ ~Ends(s[f])

(* Mutant: a structure without strings ends in one zero. *)
SkipOne(bytes) == bytes + 1

(* The zero after the strings, or two if there are none. *)
Skip(bytes) == IF bytes > 0 THEN bytes + 1 ELSE 2

(* GetSMBiosString returns r.  The Parse functions log their strings when  *)
(* they have looked up the last, and a name behind the array may be any    *)
(* pointer; then the strings are measured until there is none.             *)
Return(r) ==
    LET n == Len(Fields(HdrType))
        bytes == strlength + (IF field > n /\ r # NULL THEN Strlen(r) + 1 ELSE 0)
        faults == \/ field = n /\ LogFaults(Append(strs, r))
                  \/ field > n /\ r # NULL /\ ~Ends(r)
    IN  /\ strs' = Append(strs, r)
        /\ strlength' = bytes
        /\ \/ /\ faults \/ (field = n /\ Unnamed)
              /\ at' = "fault" /\ UNCHANGED <<field, look, i, ptr>>
           \/ /\ ~faults
              /\ IF field > n /\ r = NULL
                 THEN /\ at' = "header" /\ i' = i + 1
                      /\ ptr' = ptr + HdrLength + Skip(bytes)
                      /\ UNCHANGED <<field, look>>
                 ELSE Call(field + 1) /\ UNCHANGED <<i, ptr>>
        /\ UNCHANGED <<fw, para, visited>>

Faults ==
    /\ at' = "fault"
    /\ UNCHANGED <<fw, para, i, ptr, field, look, strlength, strs, visited>>

(* Two zeros at once: the structure has no strings. *)
NoStrings == look.off = 0 /\ Byte(StringsAt) = 0 /\ Byte(StringsAt + 1) = 0

(* Mutant: the byte after the second zero is not looked at. *)
EndAtOneZero(a) == Byte(a) = 0

(* A zero that ends the last string: a second one follows and then the     *)
(* first byte of another structure.                                        *)
EndAt(a) == Byte(a) = 0 /\ Byte(a + 1) = 0 /\ Byte(a + 2) # 0

(* The last address the comparisons at a read. *)
Reach(a) ==
    IF Byte(a) # 0 THEN a ELSE IF Byte(a + 1) # 0 \/ a = StringsAt THEN a + 1 ELSE a + 2

(* One turn of its loop, the first test included. *)
GetSMBiosString ==
    /\ at = "look"
    /\ LET a == StringsAt + look.off + 1
       IN  IF look.off = 0 /\ ~Mapped(Reach(StringsAt)) THEN Faults
           ELSE IF NoStrings \/ HdrLength + look.off >= Length THEN Return(NULL)
           ELSE IF look.idx = look.strIdx THEN Return(StringsAt + look.off)
           ELSE IF ~Mapped(Reach(a)) THEN Faults
           ELSE IF EndAt(a) \/ (Byte(a) # 0 /\ Byte(a) \notin 32..126) THEN Return(NULL)
           ELSE /\ look' = IF Byte(a) = 0
                           THEN [look EXCEPT !.strIdx = @ + 1, !.off = @ + 2]
                           ELSE [look EXCEPT !.off = @ + 1]
                /\ UNCHANGED <<fw, at, para, i, ptr, field, strlength, strs, visited>>

SMBIOSNext == Detect \/ Header \/ GetSMBiosString

-----------------------------------------------------------------------------
(* Properties. *)

(* What the firmware standard asks for and the code relies on: structures  *)
(* of type 0 only in the first place, strings of plain characters.         *)
WellFormed ==
    /\ \A k \in 2..Len(fw.starts) : fw.bytes[fw.starts[k] + 1] # 0
    /\ \A k \in DOMAIN fw.strings : \A n \in DOMAIN fw.strings[k] :
          \A a \in fw.strings[k][n] .. (fw.strings[k][n] + Strlen(fw.strings[k][n]) - 1) :
             Byte(a) \in 32..126

(* The table begins in the first page, or it reaches RomStart from below:  *)
(* VMM::Init has unmapped both, and SMBios::Initialize maps neither again. *)
OutOfReach ==
    fw.addr =< RomStart /\ (fw.addr < PageSize \/ fw.addr + Length >= RomStart)

(* A byte of the table of f, or the one behind it. *)
Octet(f, a) == IF a < Len(f.bytes) THEN f.bytes[a + 1] ELSE f.after

(* Where structure k ends, and where its strings begin. *)
EndOf(f, k) == IF k < Len(f.starts) THEN f.starts[k + 1] ELSE Len(f.bytes)
TextOf(f, k) == f.starts[k] + Octet(f, f.starts[k] + 1)

(* Where the n-th string of structure k begins, or the zero behind the     *)
(* strings, which is one byte later if there are none.                     *)
BeginOf(f, k, n) ==
    IF n \in DOMAIN f.strings[k] THEN f.strings[k][n]
    ELSE IF f.strings[k] = <<>> THEN TextOf(f, k) ELSE EndOf(f, k) - 1

(* The structures follow each other from the table's start to its end, and *)
(* each has a header of four bytes, its strings, and a zero.  starts and   *)
(* strings say where.                                                      *)
Laid(f) ==
    /\ f.starts \in Seq(Nat) /\ f.strings \in Seq(Seq(Nat))
    /\ Len(f.starts) = Len(f.strings)
    /\ Len(f.starts) > 0 => f.starts[1] = 0
    /\ \A k \in 1..Len(f.starts) :
          /\ f.starts[k] + 4 =< TextOf(f, k)
          /\ TextOf(f, k) + 2 =< EndOf(f, k) /\ EndOf(f, k) =< Len(f.bytes)
          /\ Octet(f, EndOf(f, k) - 1) = 0
          /\ f.strings[k] = <<>> => EndOf(f, k) = TextOf(f, k) + 2 /\ Octet(f, TextOf(f, k)) = 0
          /\ BeginOf(f, k, 1) = TextOf(f, k)
          /\ \A n \in 1..Len(f.strings[k]) :
                LET s == BeginOf(f, k, n)
                    e == BeginOf(f, k, n + 1)
                IN  /\ s + 2 =< e /\ e < EndOf(f, k)
                    /\ Octet(f, e - 1) = 0 /\ \A a \in s..(e - 2) : Octet(f, a) # 0

(* Every firmware's fields describe its table. *)
TablesLaid == \A f \in Firmware : Laid(f)

(* Each turn of Initialize's loop works on the true beginning of the next  *)
(* structure, whatever the number and the lengths of the strings between.  *)
WalkAligned ==
    WellFormed => \A k \in DOMAIN visited : visited[k] = fw.starts[k]

(* The string a structure refers to by number is found, and for a number   *)
(* without a string none is (in the last structure only if no zero follows *)
(* the table).                                                             *)
StringsFound ==
    WellFormed /\ at = "look" /\ (i + 1 < Len(fw.starts) \/ fw.after # 0) =>
        \A f \in DOMAIN strs :
            LET n == Wanted(f)
            IN  strs[f] = IF n \in DOMAIN fw.strings[i + 1]
                          THEN fw.strings[i + 1][n] ELSE NULL

(* The entry point used is the first whose checksum is right, and the      *)
(* table is given up only if there is none.                                *)
EntryFound ==
    /\ at = "absent" => \A k \in DOMAIN fw.rom : fw.rom[k] # "entry"
    /\ at \notin {"detect", "absent"} =>
          fw.rom[para] = "entry" /\ \A k \in 1..(para - 1) : fw.rom[k] # "entry"
=============================================================================
