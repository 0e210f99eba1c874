---------------------------- MODULE EarlyMemory -----------------------------
(***************************************************************************)
(* The mapping of the kernel at boot (kernel/boot/early_mm.c), on the      *)
(* layouts that the linker script gives (kernel/build/kernel.lds): the     *)
(* sections start on a page, but _end is where the contents of .bss end,   *)
(* in the middle of a page.  A size or an address is in units of which     *)
(* PAGE make a page.                                                       *)
(***************************************************************************)
EXTENDS Integers, Sequences

CONSTANTS
  MAPPED_PAGE,     \* the size of a page: 4096
  START,           \* _start: 1 MB
  MEM_END,         \* mem_end: 256 MB
  ENTRIES,         \* the entries of a page table, or of the directory: 1024
  TABLES,          \* the page tables that there are: 64
  SectionSizes     \* the sizes that a section may have

\* start and mem_end are constants of the script, and the tables reach mem_end.
ASSUME EarlyMemoryAssumption ==
  /\ {MAPPED_PAGE, ENTRIES} \subseteq Nat \ {0} /\ SectionSizes \subseteq Nat
  /\ {START, MEM_END, TABLES} \subseteq Nat /\ TABLES <= ENTRIES
  /\ START % MAPPED_PAGE = 0 /\ MAPPED_PAGE <= START
  /\ MEM_END = TABLES * ENTRIES * MAPPED_PAGE

VARIABLES
  symbols,         \* the addresses that the linker has chosen
  boot,            \* "link", "check", "clear", "map", "done" or "halted"
  zone,            \* the zone of early_mm_map_kernel that is mapped next
  pgdir,           \* directory entry -> first entry of its table, or -1
  pgtab            \* the entries of the page tables, one after the other

earlyVars == <<symbols, boot, zone, pgdir, pgtab>>

NONE == [frame |-> 0, flags |-> "none"]

Sections == <<"crt0", "text", "multiboot", "bootstrap_stack", "rodata", "data",
              "bss">>

ALIGN(a) == ((a + MAPPED_PAGE - 1) \div MAPPED_PAGE) * MAPPED_PAGE

\* What the script defines for sections of these sizes.
Layout(size) ==
  LET at[i \in 1 .. Len(Sections)] ==
        IF i = 1 THEN START ELSE ALIGN(at[i-1] + size[Sections[i-1]])
      StartOf(name) == at[CHOOSE i \in 1 .. Len(Sections) : Sections[i] = name]
      EndOf(name) == StartOf(name) + size[name]
  IN  [start |-> [name \in DOMAIN size |-> StartOf(name)],
       end   |-> [name \in DOMAIN size |-> ALIGN(EndOf(name))],
       image |-> EndOf("bss")]                                     \* _end

Aligned(a) == a % MAPPED_PAGE = 0
Consistent(start, end) == end - start >= MAPPED_PAGE

\* The lines that are meant for .bss repeat those for .data.
early_mm_check ==
  /\ Aligned(START)
  /\ \A name \in {"text", "multiboot", "bootstrap_stack", "rodata", "data"} :
       /\ Aligned(symbols.start[name]) /\ Aligned(symbols.end[name])
       /\ Consistent(symbols.start[name], symbols.end[name])
  /\ Consistent(START, symbols.image)

Region(start, end, flags) == [start |-> start, end |-> end, flags |-> flags]

SectionRegion(name, flags) == Region(symbols.start[name], symbols.end[name], flags)

\* The zones of early_mm_map_kernel, in their order.
Zones ==
  << Region(MAPPED_PAGE, START, "rw"),
     Region(START, symbols.start["text"], "rw"),
     SectionRegion("text", "ro"),
     SectionRegion("multiboot", "ro"),
     SectionRegion("rodata", "ro"),
     SectionRegion("bootstrap_stack", "rw"),
     SectionRegion("data", "rw"),
     SectionRegion("bss", "rw"),
     Region(symbols.image, MEM_END, "rw") >>

\* The pages of the addresses that the loop of early_mm_map_region meets: it
\* goes from the start, aligned or not, in steps of a page.
PagesOf(region) ==
  {(region.start + n * MAPPED_PAGE) \div MAPPED_PAGE :
     n \in {i \in 0 .. ENTRIES * TABLES :
              region.start + i * MAPPED_PAGE < region.end}}

EntryOf(page) == pgdir[page \div ENTRIES] + (page % ENTRIES)

early_mm_map_region(region) ==
  pgtab' = [e \in DOMAIN pgtab |->
              IF \E page \in PagesOf(region) : EntryOf(page) = e
              THEN [frame |-> CHOOSE page \in PagesOf(region) : EntryOf(page) = e,
                    flags |-> region.flags]
              ELSE pgtab[e]]

early_mm_fill_pgdir(count) ==
  pgdir' = [d \in DOMAIN pgdir |-> IF d < count THEN d * ENTRIES ELSE -1]

-----------------------------------------------------------------------------

EarlyInit ==
  /\ symbols = Layout([name \in {Sections[i] : i \in DOMAIN Sections} |-> 0])
  /\ boot = "link" /\ zone = 1
  /\ pgdir = [d \in 0 .. ENTRIES - 1 |-> -1]
  /\ pgtab = [e \in 0 .. ENTRIES * TABLES - 1 |-> NONE]

\* The sections get the sizes of their contents, and the tables hold what was
\* in memory.
Load ==
  /\ boot = "link" /\ boot' = "check"
  /\ \E size \in [{Sections[i] : i \in DOMAIN Sections} -> SectionSizes] :
       symbols' = Layout(size)
  /\ symbols'.image <= MEM_END
  /\ \E f \in {"none", "rw"} :
       pgtab' = [e \in DOMAIN pgtab |-> [frame |-> 0, flags |-> f]]
  /\ UNCHANGED <<zone, pgdir>>

EarlyCheck ==
  /\ boot = "check"
  /\ boot' = IF early_mm_check THEN "clear" ELSE "halted"
  /\ UNCHANGED <<symbols, zone, pgdir, pgtab>>

ClearTables ==
  /\ boot = "clear" /\ boot' = "map"
  /\ pgtab' = [e \in DOMAIN pgtab |-> NONE]
  /\ early_mm_fill_pgdir(TABLES)
  /\ UNCHANGED <<symbols, zone>>

\* Mutant: the bootstrap stack is taken for one of the sections before it.
MapZoneButStack ==
  /\ boot = "map"
  /\ early_mm_map_region(IF zone = 6 THEN Zones[5] ELSE Zones[zone])
  /\ IF zone < Len(Zones)
     THEN zone' = zone + 1 /\ UNCHANGED boot
     ELSE boot' = "done" /\ UNCHANGED zone
  /\ UNCHANGED <<symbols, pgdir>>

MapZone ==
  /\ boot = "map"
  /\ early_mm_map_region(Zones[zone])
  /\ IF zone < Len(Zones)
     THEN zone' = zone + 1 /\ UNCHANGED boot
     ELSE boot' = "done" /\ UNCHANGED zone
  /\ UNCHANGED <<symbols, pgdir>>

EarlyNext == Load \/ EarlyCheck \/ ClearTables \/ MapZone

EarlySpec == EarlyInit /\ [][EarlyNext]_earlyVars

-----------------------------------------------------------------------------
(* Properties                                                              *)

Holding(page) == page * MAPPED_PAGE
Within(page, name) == symbols.start[name] <= Holding(page) /\ Holding(page) < symbols.end[name]
ReadOnly(page) == \E name \in {"text", "multiboot", "rodata"} : Within(page, name)

\* However the sections are sized, a kernel that is mapped has every page of the
\* memory below mem_end at its own address, the first excepted, and writes to
\* all but its code and constants: no zone covers another, though that of the
\* free memory starts inside the last page of .bss (early_mm.c:206-222).
KernelIsProtected ==
  boot = "done" =>
    \A page \in 0 .. MEM_END \div MAPPED_PAGE - 1 :
      pgtab[EntryOf(page)] =
        IF page = 0 THEN NONE
        ELSE [frame |-> page, flags |-> IF ReadOnly(page) THEN "ro" ELSE "rw"]

=============================================================================
