----------------------------- MODULE BootInfo ------------------------------
(***************************************************************************)
(* What the boot loader tells the kernel (boot/multiboot.c) and which      *)
(* pages pmm_init gives to the stack of free frames (mem/pmm.c).           *)
(*                                                                         *)
(* A loader is a record: its version of multiboot and, for version 1, its  *)
(* flags and how many modules it has, for version 2 its tags in order; the *)
(* areas of its memory map; and the ranges of addresses in which the       *)
(* kernel, the first module (the init program), the loader's structure and *)
(* its memory map lie.  All of memory is in the part that boot.S has       *)
(* mapped, in huge pages.  Without a multiboot loader the kernel stops at  *)
(* once; that is not modelled.                                             *)
(***************************************************************************)
EXTENDS Integers, Sequences

CONSTANTS
    PAGE,        \* PAGE_SIZE
    Region,      \* page frames of a huge page
    Pointer,     \* sizeof(data), of a pointer to the structure
    EntrySize,   \* sizeof(mboot1_mmap_entry)
    Loaders      \* the loaders that may boot the kernel

CmdlineFlag == 2
ModsFlag    == 3
MmapFlag    == 6
LoaderFlag  == 9

(* There is a map, its free areas begin with a page, areas do not overlap,   *)
(* and a structure of version 2 has the map in it                            *)
ASSUME BootInfoAssumption ==
    /\ PAGE \in Nat \ {0} /\ Region \in Nat \ {0}
    /\ Pointer \in Nat \ {0} /\ EntrySize \in Nat \ {0}
    /\ \A b \in Loaders :
        /\ \A r \in {b.kernel, b.module, b.info, b.map} :
            r.start \in Nat /\ r.end \in Nat /\ r.start < r.end
        /\ b.version \in {1, 2}
        /\ b.version = 1 => MmapFlag \in b.flags
        /\ b.version = 2 => \E i \in DOMAIN b.tags : b.tags[i] = "mmap"
        /\ b.version = 2 => b.info.start <= b.map.start /\ b.map.end <= b.info.end
        /\ b.kernel.start % PAGE = 0 /\ b.kernel.end % PAGE = 0
        /\ b.areas \in Seq([start : Nat, end : Nat, free : BOOLEAN])
        /\ \A i \in DOMAIN b.areas :
            /\ b.areas[i].start <= b.areas[i].end
            /\ b.areas[i].free => b.areas[i].start % PAGE = 0
            /\ \A j \in DOMAIN b.areas : i < j => b.areas[i].end <= b.areas[j].start

-----------------------------------------------------------------------------
(* multiboot_init *)

parse_multiboot1(b) ==
    [commandline |-> CmdlineFlag \in b.flags, bootloader |-> LoaderFlag \in b.flags,
     mmap_size |-> IF MmapFlag \in b.flags THEN Len(b.areas) ELSE 0,
     init |-> ModsFlag \in b.flags /\ b.mods > 0, rsdp |-> FALSE]

(* Tags of other types are skipped; a module's is one of them *)
parse_multiboot2(b) ==
    LET has(tag) == \E i \in DOMAIN b.tags : b.tags[i] = tag IN
    [commandline |-> has("cmdline"), bootloader |-> has("loader"),
     mmap_size |-> IF has("mmap") THEN Len(b.areas) ELSE 0,
     init |-> FALSE, rsdp |-> has("acpi")]

mboot_data(b) == IF b.version = 1 THEN parse_multiboot1(b) ELSE parse_multiboot2(b)

-----------------------------------------------------------------------------
(* pmm_init *)

overlap(start1, end1, start2, end2) == ~(start1 >= end2 \/ end1 <= start2)

(* Mutant: only a page that begins in the module is in use *)
multiboot_page_used_Start(b, addr) ==
    mboot_data(b).init /\ b.module.start <= addr /\ addr < b.module.end

(* Of the structure of version 1 the size of a pointer is kept, of the map   *)
(* its length in bytes times the size of an entry                            *)
multiboot_page_used(b, addr) ==
    LET meets(start, size) == overlap(addr, addr + PAGE, start, start + size) IN
    \/ mboot_data(b).init /\ meets(b.module.start, b.module.end - b.module.start)
    \/ b.version = 1 /\ meets(b.info.start, Pointer)
    \/ b.version = 1 /\ meets(b.map.start, (b.map.end - b.map.start) * EntrySize)
    \/ b.version = 2 /\ meets(b.info.start, b.info.end - b.info.start)

InKernel(b, p) == p >= b.kernel.start /\ p < b.kernel.end

(* Whether the page at p, which lies in area a, is given to pmm_free *)
Freed(b, a, p) == ~InKernel(b, p) /\ ~multiboot_page_used(b, p) /\ a.free

Touches(f, r) == overlap(f * PAGE, (f + 1) * PAGE, r.start, r.end)

(***************************************************************************)
(* pmm_init enters each page in the boot tables, in which a huge page has  *)
(* its entry where that of a table would be: vmm_find_page takes the first *)
(* frame of the huge page for the table, and the entry is written there.   *)
(***************************************************************************)
TableOf(f) == (f \div Region) * Region

(* Frame f has been entered, as a page of an area but its last *)
Listed(b, f) ==
    \E k \in 1..mboot_data(b).mmap_size :
        /\ b.areas[k].start \div PAGE <= f
        /\ (f + 1) * PAGE + (b.areas[k].start % PAGE) < b.areas[k].end

(* A frame with a byte of the kernel, the init program, the loader's structure or the map *)
Needed(b, f) ==
    \/ Touches(f, b.kernel)
    \/ mboot_data(b).init /\ Touches(f, b.module)
    \/ Touches(f, b.info)
    \/ Touches(f, b.map)

-----------------------------------------------------------------------------
(* What the frames should be *)

(* A frame of which any byte is not free memory, or is needed after pmm_init *)
(* has begun: the kernel, the init program, the loader's structure, the map. *)
(* Of a structure of version 1 only the page in which it begins is counted:  *)
(* the code keeps no more of it.                                             *)
Taken(b, f) ==
    \/ ~\E i \in DOMAIN b.areas :
         b.areas[i].free /\ b.areas[i].start <= f * PAGE /\ (f + 1) * PAGE <= b.areas[i].end
    \/ Touches(f, b.kernel)
    \/ mboot_data(b).init /\ Touches(f, b.module)
    \/ Touches(f, b.info) /\ (b.version = 1 => f = b.info.start \div PAGE)
    \/ Touches(f, b.map)

(* A frame that nothing speaks against: the last page of an area is given    *)
(* up, and what multiboot_page_used keeps                                    *)
Spare(b, f) ==
    /\ ~Taken(b, f)
    /\ ~multiboot_page_used(b, f * PAGE)
    /\ \A i \in DOMAIN b.areas : b.areas[i].end # (f + 1) * PAGE
=============================================================================
