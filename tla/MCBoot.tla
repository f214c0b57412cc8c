------------------------------- MODULE MCBoot -------------------------------
(***************************************************************************)
(* Small firmware tables and PCI buses.  Pages have 16 bytes, so that the  *)
(* tables cross several, and what VMM::Init unmaps begins at the tenth;    *)
(* the table of PCI devices has room for four.                             *)
(***************************************************************************)
EXTENDS Boot, Functions

(* A structure: nums[o] is the byte at offset o, 3 elsewhere. *)
Struct(type, length, nums, strings) ==
    [k \in 1..length |-> IF k = 1 THEN type ELSE IF k = 2 THEN length
                         ELSE IF k - 1 \in DOMAIN nums THEN nums[k - 1] ELSE 3]
    \o FlattenSeq([n \in DOMAIN strings |-> Append(strings[n], 0)])
    \o (IF strings = <<>> THEN <<0, 0>> ELSE <<0>>)

(* Where the parts of a sequence of sequences begin, counted from zero. *)
Begins(parts, from) ==
    [k \in DOMAIN parts |->
        from + FoldFunctionOnSet(+, 0, [j \in DOMAIN parts |-> Len(parts[j])], 1..(k - 1))]

S(type, length, nums, strings) ==
    [bytes |-> Struct(type, length, nums, strings), length |-> length,
     strings |-> [n \in DOMAIN strings |-> Append(strings[n], 0)]]

A == <<65>>
BB == <<66, 66>>
Bad == <<67, 7, 67>>

Bios  == {S(0, 9, [o \in {4, 5, 8} |-> IF o = 8 THEN 1 ELSE o - 3], strings)
             : strings \in {<<>>, <<A>>, <<BB, A>>}}
Board == {S(2, 8, [o \in 4..7 |-> 1], <<BB>>), S(2, 15, [o \in 4..7 |-> 1], <<BB>>),
          S(2, 15, [o \in 4..7 |-> o - 3], <<A, A>>),
          S(2, 15, [o \in {4, 5, 6, 7, 13} |-> IF o = 13 THEN 14 ELSE 1], <<A>>)}
Memory == S(17, 27, [o \in {16, 17, 23, 24, 25, 26} |-> o % 3], <<A, BB>>)
Cpu   == S(4, 24, [o \in {4, 7, 16} |-> IF o = 4 THEN 1 ELSE 0], <<A>>)
Old   == S(1, 8, [o \in 4..7 |-> 0], <<>>)    \* the driver reads 25 bytes
Size  == S(17, 27, [o \in {12, 13, 16, 17, 23, 24, 25, 26} |->
                       IF o = 12 THEN 255 ELSE IF o = 13 THEN 127 ELSE 0], <<>>)
End   == S(127, 4, <<>>, <<>>)

Tables ==
    {<<b, m, End>> : b \in Bios, m \in Board \cup {Memory, Cpu}}
    \cup {<<b, m>> : b \in Bios, m \in Board \cup {Old, Size}}
    \cup {<<Cpu, b>> : b \in Bios}                     \* type 0 not first
    \cup {<<S(1, 27, [o \in 4..7 |-> 2], <<strings, A>>), End>> : strings \in {Bad, BB}}

MakeFirmware(table, after, addr, rom) ==
    [rom |-> rom, after |-> after, addr |-> addr,
     bytes |-> FlattenSeq([k \in DOMAIN table |-> table[k].bytes]),
     starts |-> Begins([k \in DOMAIN table |-> table[k].bytes], 0),
     strings |-> [k \in DOMAIN table |->
        Begins(table[k].strings,
               Begins([j \in DOMAIN table |-> table[j].bytes], 0)[k] + table[k].length)]]

Roms == {<<"none", "entry">>, <<"sm", "sum", "entry", "entry">>, <<"none", "sum">>}

(* Above RomStart, at the beginning and at the end of a page; from the     *)
(* first page on, from the second, up to RomStart and beyond, and from it. *)
SmallFirmware ==
    {MakeFirmware(t, after, addr, <<"entry">>)
        : t \in Tables, after \in {0, 5}, addr \in {RomStart + 15, RomStart + 16}}
    \cup {MakeFirmware(<<b, End>>, 5, addr, <<"entry">>)
        : b \in Bios, addr \in {3, PageSize, RomStart - 20, RomStart}}
    \cup {MakeFirmware(<<End>>, 5, PageSize + 3, rom) : rom \in Roms}

(* The tables are laid out as the standard says, as the proofs assume. *)
ASSUME SmallTablesLaid == TablesLaid

F(class, multi) == [class |-> class, multi |-> multi]

(* A bridge and a disk controller; a device with two functions and one     *)
(* without the first; five functions, one too many; a bus never scanned.   *)
SmallMachines ==
    {[funs |-> f, alias |-> alias] : alias \in BOOLEAN, f \in {
        <<0, 0, 0>> :> F("net", FALSE),
        <<0, 0, 0>> :> F("other", FALSE) @@ <<0, 1, 0>> :> F("ide", FALSE),
        <<0, 0, 0>> :> F("net", TRUE) @@ <<0, 0, 2>> :> F("ide", FALSE)
            @@ <<1, 1, 1>> :> F("ide", TRUE) @@ <<2, 0, 0>> :> F("net", FALSE),
        <<0, 0, 0>> :> F("net", TRUE) @@ <<0, 0, 1>> :> F("net", TRUE)
            @@ <<0, 0, 2>> :> F("net", TRUE) @@ <<0, 1, 0>> :> F("ide", TRUE)
            @@ <<1, 0, 0>> :> F("net", FALSE)}}

(* Any table with the plainest bus, any bus with the plainest table. *)
Plainest == MakeFirmware(<<End>>, 5, PageSize + 3, <<"none", "entry">>)

SmallComputers ==
    {<<f, m, n>> \in SmallFirmware \X SmallMachines \X (1..6) :
        /\ f # Plainest => m.funs = <<0, 0, 0>> :> F("net", FALSE) /\ ~m.alias
        /\ f # Plainest \/ m.alias => n = 6}
=============================================================================
