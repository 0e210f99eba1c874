--------------------------- MODULE LibraryProofs ----------------------------
(***************************************************************************)
(* What is proved of the mapping of the kernel at boot, for pages, tables  *)
(* and sections of any size: nothing is written but the code and the       *)
(* constants of the kernel are read-only, wherever the linker puts them.   *)
(* And of shared/div64.c: the division is exact for words of any size.     *)
(***************************************************************************)
EXTENDS EarlyMemory, Division, TLAPS

-----------------------------------------------------------------------------
(* Addresses and pages.  The products of the model are kept behind names.  *)

(* A quotient and its remainder.                                           *)
LEMMA Split ==
  ASSUME NEW u \in Nat, NEW n \in Nat, n # 0
  PROVE  /\ u \div n \in Nat /\ u % n \in Nat /\ u % n < n
         /\ u = (u \div n) * n + (u % n)
BY SMT

(* The order of multiples.                                                 *)
LEMMA MultiplesOrder ==
  ASSUME NEW a \in Nat, NEW b \in Nat, NEW n \in Nat, NEW r \in Nat, r < n
  PROVE  /\ a * n \in Nat /\ b * n \in Nat
         /\ a * n + r < b * n <=> a < b
<1>1. a * n \in Nat /\ b * n \in Nat
  BY SMT
<1>2. ASSUME a < b PROVE a * n + r < b * n
  <2>1. (a + 1) * n <= b * n
    BY <1>2, SMT
  <2>2. (a + 1) * n = a * n + n
    BY SMT
  <2>. QED
    BY <1>1, <2>1, <2>2
<1>3. ASSUME ~ (a < b) PROVE ~ (a * n + r < b * n)
  <2>1. b * n <= a * n
    BY <1>3, SMT
  <2>. QED
    BY <1>1, <2>1
<1>. QED
  BY <1>1, <1>2, <1>3

(* The quotient of a multiple and less than n more.                        *)
LEMMA QuotientOf ==
  ASSUME NEW a \in Nat, NEW n \in Nat, NEW r \in Nat, r < n
  PROVE  (a * n + r) \div n = a /\ (a * n + r) % n = r
<1> DEFINE u == a * n + r
           q == u \div n
           s == u % n
<1>1. u \in Nat /\ n # 0 /\ a * n \in Nat
  BY SMT
<1>2. q \in Nat /\ s \in Nat /\ s < n /\ u = q * n + s
  <2> HIDE DEF u
  <2>. QED
    BY <1>1, Split
<1> HIDE DEF q, s
<1>3. ~ (a < q)
  <2> SUFFICES ASSUME a < q PROVE FALSE
    OBVIOUS
  <2>1. a * n + r < q * n /\ q * n \in Nat
    BY <1>2, MultiplesOrder
  <2>. QED
    BY <1>1, <1>2, <2>1
<1>4. ~ (q < a)
  <2> SUFFICES ASSUME q < a PROVE FALSE
    OBVIOUS
  <2>1. q * n + s < a * n /\ q * n \in Nat
    BY <1>2, MultiplesOrder
  <2>. QED
    BY <1>1, <1>2, <2>1
<1>5. q = a
  BY <1>2, <1>3, <1>4
<1>6. s = r
  BY <1>1, <1>2, <1>5
<1>. QED
  BY <1>5, <1>6 DEF q, s

PAGES == TABLES * ENTRIES

(* What the assumption says of the constants, by pages.                    *)
LEMMA PageFacts ==
  /\ MAPPED_PAGE \in Nat /\ MAPPED_PAGE # 0 /\ ENTRIES \in Nat /\ ENTRIES # 0
  /\ TABLES \in Nat /\ TABLES <= ENTRIES
  /\ PAGES \in Nat /\ ENTRIES * TABLES = PAGES
  /\ MEM_END \in Nat /\ MEM_END = Holding(PAGES)
  /\ START \in Nat /\ Aligned(START) /\ MAPPED_PAGE <= START
  /\ MEM_END \div MAPPED_PAGE = PAGES
<1>1. /\ MAPPED_PAGE \in Nat /\ MAPPED_PAGE # 0 /\ ENTRIES \in Nat /\ ENTRIES # 0
      /\ TABLES \in Nat /\ TABLES <= ENTRIES /\ MEM_END \in Nat
      /\ MEM_END = TABLES * ENTRIES * MAPPED_PAGE
      /\ START \in Nat /\ START % MAPPED_PAGE = 0 /\ MAPPED_PAGE <= START
  BY EarlyMemoryAssumption
<1>2. PAGES \in Nat /\ ENTRIES * TABLES = PAGES
  BY <1>1, SMT DEF PAGES
<1>3. MEM_END = PAGES * MAPPED_PAGE
  BY <1>1 DEF PAGES
<1>4. (PAGES * MAPPED_PAGE + 0) \div MAPPED_PAGE = PAGES
  BY <1>1, <1>2, QuotientOf
<1>5. PAGES * MAPPED_PAGE + 0 = PAGES * MAPPED_PAGE
  BY <1>1, <1>2
<1>. QED
  BY <1>1, <1>2, <1>3, <1>4, <1>5 DEF Holding, Aligned

(* An address is in a page, at an offset.                                  *)
LEMMA AddressOf ==
  ASSUME NEW u \in Nat
  PROVE  /\ u \div MAPPED_PAGE \in Nat /\ u % MAPPED_PAGE \in Nat
         /\ u % MAPPED_PAGE < MAPPED_PAGE
         /\ u = Holding(u \div MAPPED_PAGE) + (u % MAPPED_PAGE)
BY PageFacts, Split DEF Holding

(* Pages are in the order of their addresses.                              *)
LEMMA PageOrder ==
  ASSUME NEW a \in Nat, NEW b \in Nat, NEW r \in Nat, r < MAPPED_PAGE
  PROVE  /\ Holding(a) \in Nat
         /\ Holding(a) + r < Holding(b) <=> a < b
         /\ (Holding(a) + r) \div MAPPED_PAGE = a
         /\ (Holding(a) + r) % MAPPED_PAGE = r
BY PageFacts, MultiplesOrder, QuotientOf DEF Holding

(* The addresses of a zone whose end is aligned are those of whole pages,  *)
(* even if its start is not (early_mm.c:128-160).                          *)
LEMMA PagesOfZone ==
  ASSUME NEW a \in Nat, NEW b \in Nat, NEW r \in Nat, r < MAPPED_PAGE,
         NEW region, region.start = Holding(a) + r, region.end = Holding(b),
         b <= PAGES
  PROVE  PagesOf(region) = {page \in Nat : a <= page /\ page < b}
<1>1. \A n \in Nat : /\ region.start + n * MAPPED_PAGE = Holding(a + n) + r
                     /\ (region.start + n * MAPPED_PAGE) \div MAPPED_PAGE = a + n
                     /\ region.start + n * MAPPED_PAGE < region.end <=> a + n < b
  <2> TAKE n \in Nat
  <2>1. a + n \in Nat /\ (a + n) * MAPPED_PAGE = a * MAPPED_PAGE + n * MAPPED_PAGE
    BY PageFacts, SMT
  <2>2. /\ a * MAPPED_PAGE \in Nat /\ n * MAPPED_PAGE \in Nat
    BY PageFacts, SMT
  <2>3. region.start + n * MAPPED_PAGE = Holding(a + n) + r
    BY <2>1, <2>2 DEF Holding
  <2>. QED
    BY <2>1, <2>3, PageOrder
<1>2. PagesOf(region) = {(region.start + n * MAPPED_PAGE) \div MAPPED_PAGE :
                           n \in {i \in 0 .. PAGES :
                                    region.start + i * MAPPED_PAGE < region.end}}
  BY PageFacts DEF PagesOf
<1>3. PAGES \in Nat /\ 0 .. PAGES \subseteq Nat
  BY PageFacts
<1>4. ASSUME NEW page \in PagesOf(region)
      PROVE  page \in Nat /\ a <= page /\ page < b
  <2>1. PICK n \in 0 .. PAGES :
          /\ region.start + n * MAPPED_PAGE < region.end
          /\ page = (region.start + n * MAPPED_PAGE) \div MAPPED_PAGE
    BY <1>2
  <2>2. n \in Nat
    BY <1>3, <2>1
  <2>3. page = a + n /\ a + n < b
    BY <1>1, <2>1, <2>2
  <2>. QED
    BY <2>2, <2>3
<1>5. ASSUME NEW page \in Nat, a <= page, page < b
      PROVE  page \in PagesOf(region)
  <2> DEFINE n == page - a
  <2>1. n \in Nat /\ n \in 0 .. PAGES /\ a + n = page
    BY <1>3, <1>5
  <2> HIDE DEF n
  <2>2. /\ region.start + n * MAPPED_PAGE < region.end
        /\ page = (region.start + n * MAPPED_PAGE) \div MAPPED_PAGE
    BY <1>1, <1>5, <2>1
  <2>. QED
    BY <1>2, <2>1, <2>2
<1>. QED
  BY <1>4, <1>5

(* The first page boundary from an address on.                             *)
LEMMA AlignFacts ==
  ASSUME NEW u \in Nat
  PROVE  /\ ALIGN(u) \in Nat /\ Aligned(ALIGN(u))
         /\ u <= ALIGN(u) /\ ALIGN(u) < u + MAPPED_PAGE
<1> DEFINE v == u + MAPPED_PAGE - 1
           q == v \div MAPPED_PAGE
           r == v % MAPPED_PAGE
<1>1. v \in Nat /\ v = u + MAPPED_PAGE - 1
  BY PageFacts
<1> HIDE DEF v
<1>2. q \in Nat /\ r \in Nat /\ r < MAPPED_PAGE /\ v = Holding(q) + r
  BY <1>1, AddressOf
<1> HIDE DEF q, r
<1>3. ALIGN(u) = Holding(q)
  BY DEF ALIGN, Holding, q, v
<1>4. Holding(q) \in Nat /\ (Holding(q) + 0) % MAPPED_PAGE = 0 /\ Holding(q) + 0 = Holding(q)
  BY <1>2, PageFacts, PageOrder
<1>5. Aligned(ALIGN(u))
  <2>1. Holding(q) % MAPPED_PAGE = 0
    BY <1>4
  <2>. QED
    BY <1>3, <2>1 DEF Aligned
<1>6. Holding(q) \in Nat /\ MAPPED_PAGE \in Nat
  BY <1>4, PageFacts
<1>7. u <= Holding(q) /\ Holding(q) < u + MAPPED_PAGE
  BY <1>1, <1>2, <1>6
<1>. QED
  BY <1>3, <1>5, <1>6, <1>7

(* An aligned address is where its page starts.                            *)
LEMMA AlignedIsPage ==
  ASSUME NEW u \in Nat, Aligned(u)
  PROVE  u = Holding(u \div MAPPED_PAGE) /\ u \div MAPPED_PAGE \in Nat
<1>1. /\ u \div MAPPED_PAGE \in Nat /\ u % MAPPED_PAGE = 0
      /\ u = Holding(u \div MAPPED_PAGE) + (u % MAPPED_PAGE)
  BY AddressOf DEF Aligned
<1>2. Holding(u \div MAPPED_PAGE) \in Nat
  <2>1. 0 < MAPPED_PAGE
    BY PageFacts
  <2>. QED
    BY <1>1, <2>1, PageOrder
<1> DEFINE h == Holding(u \div MAPPED_PAGE)
<1>3. h \in Nat /\ u = h + 0
  BY <1>1, <1>2
<1> HIDE DEF h
<1>4. u = h
  BY <1>3
<1>. QED
  BY <1>1, <1>4 DEF h

-----------------------------------------------------------------------------
(* The layout.                                                             *)

Names == {"text", "multiboot", "bootstrap_stack", "rodata", "data", "bss"}

\* The sections follow each other, on whole pages but for the end of .bss.
LayoutSound(s) ==
  /\ \A name \in Names : /\ s.start[name] \in Nat /\ Aligned(s.start[name])
                         /\ s.end[name] \in Nat /\ Aligned(s.end[name])
                         /\ s.start[name] <= s.end[name]
  /\ START <= s.start["text"]
  /\ s.start["multiboot"] = s.end["text"]
  /\ s.start["bootstrap_stack"] = s.end["multiboot"]
  /\ s.start["rodata"] = s.end["bootstrap_stack"]
  /\ s.start["data"] = s.end["rodata"]
  /\ s.start["bss"] = s.end["data"]
  /\ s.image \in Nat /\ s.start["bss"] <= s.image
  /\ s.end["bss"] = ALIGN(s.image)

SectionNames == {Sections[i] : i \in DOMAIN Sections}

(* The script lays out sections of any sizes so (kernel.lds).              *)
LEMMA LayoutIsSound ==
  ASSUME NEW size \in [SectionNames -> SectionSizes]
  PROVE  LayoutSound(Layout(size))
<1> DEFINE Step(f) == [i \in 1 .. Len(Sections) |->
                         IF i = 1 THEN START ELSE ALIGN(f[i-1] + size[Sections[i-1]])]
           g == CHOOSE f : f = Step(f)
           StartOf(name) == g[CHOOSE i \in 1 .. Len(Sections) : Sections[i] = name]
           EndOf(name) == StartOf(name) + size[name]
           L == [start |-> [name \in DOMAIN size |-> StartOf(name)],
                 end   |-> [name \in DOMAIN size |-> ALIGN(EndOf(name))],
                 image |-> EndOf("bss")]
<1>1. Layout(size) = L
  BY DEF Layout
<1>2. /\ Len(Sections) = 7 /\ Sections[1] = "crt0" /\ Sections[2] = "text"
      /\ Sections[3] = "multiboot" /\ Sections[4] = "bootstrap_stack"
      /\ Sections[5] = "rodata" /\ Sections[6] = "data" /\ Sections[7] = "bss"
  BY DEF Sections
<1>3. SectionNames = Names \cup {"crt0"} /\ DOMAIN size = SectionNames
  <2>1. DOMAIN Sections = 1 .. 7
    BY DEF Sections
  <2>2. 1 .. 7 = {1, 2, 3, 4, 5, 6, 7}
    OBVIOUS
  <2>. QED
    BY <1>2, <2>1, <2>2 DEF SectionNames, Names
<1>4. \A name \in SectionNames : size[name] \in Nat
  BY EarlyMemoryAssumption
<1>5. g = Step(g)
  <2> DEFINE v1 == START
             v2 == ALIGN(v1 + size["crt0"])
             v3 == ALIGN(v2 + size["text"])
             v4 == ALIGN(v3 + size["multiboot"])
             v5 == ALIGN(v4 + size["bootstrap_stack"])
             v6 == ALIGN(v5 + size["rodata"])
             v7 == ALIGN(v6 + size["data"])
             w == [i \in 1 .. 7 |-> IF i = 1 THEN v1 ELSE IF i = 2 THEN v2
                     ELSE IF i = 3 THEN v3 ELSE IF i = 4 THEN v4
                     ELSE IF i = 5 THEN v5 ELSE IF i = 6 THEN v6 ELSE v7]
  <2>1. /\ v2 = ALIGN(v1 + size["crt0"]) /\ v3 = ALIGN(v2 + size["text"])
        /\ v4 = ALIGN(v3 + size["multiboot"])
        /\ v5 = ALIGN(v4 + size["bootstrap_stack"])
        /\ v6 = ALIGN(v5 + size["rodata"]) /\ v7 = ALIGN(v6 + size["data"])
        /\ v1 = START
    OBVIOUS
  <2> HIDE DEF v1, v2, v3, v4, v5, v6, v7
  <2>2. ASSUME NEW i \in 1 .. 7
        PROVE  w[i] = IF i = 1 THEN START ELSE ALIGN(w[i-1] + size[Sections[i-1]])
    <3>1. i \in {1, 2, 3, 4, 5, 6, 7}
      OBVIOUS
    <3>2. /\ w[1] = v1 /\ w[2] = v2 /\ w[3] = v3 /\ w[4] = v4
          /\ w[5] = v5 /\ w[6] = v6 /\ w[7] = v7
      OBVIOUS
    <3> HIDE DEF w
    <3>. QED
      BY <1>2, <2>1, <3>1, <3>2
  <2>3. w = Step(w)
    <3>1. w = [i \in 1 .. 7 |-> w[i]]
      OBVIOUS
    <3> HIDE DEF w
    <3>. QED
      BY <1>2, <2>2, <3>1
  <2> HIDE DEF w, Step
  <2>. QED
    BY <2>3
<1>6. /\ g[1] = START /\ g[2] = ALIGN(g[1] + size["crt0"])
      /\ g[3] = ALIGN(g[2] + size["text"]) /\ g[4] = ALIGN(g[3] + size["multiboot"])
      /\ g[5] = ALIGN(g[4] + size["bootstrap_stack"])
      /\ g[6] = ALIGN(g[5] + size["rodata"]) /\ g[7] = ALIGN(g[6] + size["data"])
  <2> HIDE DEF g
  <2>1. \A i \in 1 .. 7 : g[i] = IF i = 1 THEN START
                                 ELSE ALIGN(g[i-1] + size[Sections[i-1]])
    BY <1>2, <1>5
  <2>2. {1, 2, 3, 4, 5, 6, 7} \subseteq 1 .. 7
    OBVIOUS
  <2>. QED
    BY <1>2, <2>1, <2>2
<1> HIDE DEF g
<1>7. /\ StartOf("text") = g[2] /\ StartOf("multiboot") = g[3]
      /\ StartOf("bootstrap_stack") = g[4] /\ StartOf("rodata") = g[5]
      /\ StartOf("data") = g[6] /\ StartOf("bss") = g[7]
  <2>1. 1 .. Len(Sections) = {1, 2, 3, 4, 5, 6, 7}
    BY <1>2
  <2>2. ASSUME NEW k \in {1, 2, 3, 4, 5, 6, 7}
        PROVE  (CHOOSE i \in 1 .. Len(Sections) : Sections[i] = Sections[k]) = k
    <3>1. \A i \in 1 .. Len(Sections) : Sections[i] = Sections[k] <=> i = k
      BY <1>2, <2>1, <2>2
    <3>. QED
      BY <2>1, <3>1
  <2>. QED
    BY <1>2, <2>2
<1> HIDE DEF StartOf
<1>8. /\ g[1] \in Nat /\ Aligned(g[1])
      /\ g[2] \in Nat /\ Aligned(g[2]) /\ g[1] <= g[2]
      /\ g[3] \in Nat /\ Aligned(g[3]) /\ g[2] <= g[3]
      /\ g[4] \in Nat /\ Aligned(g[4]) /\ g[3] <= g[4]
      /\ g[5] \in Nat /\ Aligned(g[5]) /\ g[4] <= g[5]
      /\ g[6] \in Nat /\ Aligned(g[6]) /\ g[5] <= g[6]
      /\ g[7] \in Nat /\ Aligned(g[7]) /\ g[6] <= g[7]
  <2>1. ASSUME NEW a \in Nat, NEW name \in SectionNames
        PROVE  /\ ALIGN(a + size[name]) \in Nat /\ Aligned(ALIGN(a + size[name]))
               /\ a <= ALIGN(a + size[name])
    <3>1. size[name] \in Nat /\ a + size[name] \in Nat /\ a <= a + size[name]
      BY <1>4
    <3> DEFINE u == a + size[name]
    <3> HIDE DEF u
    <3>2. ALIGN(u) \in Nat /\ Aligned(ALIGN(u)) /\ u <= ALIGN(u)
      BY <3>1, AlignFacts DEF u
    <3>3. a <= ALIGN(u)
      BY <3>1, <3>2 DEF u
    <3>. QED
      BY <3>2, <3>3 DEF u
  <2>2. {"crt0", "text", "multiboot", "bootstrap_stack", "rodata", "data"} \subseteq SectionNames
    BY <1>3 DEF Names
  <2>3. g[1] \in Nat /\ Aligned(g[1])
    BY <1>6, PageFacts
  <2>4. g[2] \in Nat /\ Aligned(g[2]) /\ g[1] <= g[2]
    BY <1>6, <2>1, <2>2, <2>3
  <2>5. g[3] \in Nat /\ Aligned(g[3]) /\ g[2] <= g[3]
    BY <1>6, <2>1, <2>2, <2>4
  <2>6. g[4] \in Nat /\ Aligned(g[4]) /\ g[3] <= g[4]
    BY <1>6, <2>1, <2>2, <2>5
  <2>7. g[5] \in Nat /\ Aligned(g[5]) /\ g[4] <= g[5]
    BY <1>6, <2>1, <2>2, <2>6
  <2>8. g[6] \in Nat /\ Aligned(g[6]) /\ g[5] <= g[6]
    BY <1>6, <2>1, <2>2, <2>7
  <2>9. g[7] \in Nat /\ Aligned(g[7]) /\ g[6] <= g[7]
    BY <1>6, <2>1, <2>2, <2>8
  <2>. QED
    BY <2>3, <2>4, <2>5, <2>6, <2>7, <2>8, <2>9
<1>9. /\ L.start["text"] = g[2] /\ L.end["text"] = g[3]
      /\ L.start["multiboot"] = g[3] /\ L.end["multiboot"] = g[4]
      /\ L.start["bootstrap_stack"] = g[4] /\ L.end["bootstrap_stack"] = g[5]
      /\ L.start["rodata"] = g[5] /\ L.end["rodata"] = g[6]
      /\ L.start["data"] = g[6] /\ L.end["data"] = g[7]
      /\ L.start["bss"] = g[7] /\ L.image = g[7] + size["bss"]
      /\ L.end["bss"] = ALIGN(g[7] + size["bss"])
  <2>1. Names \subseteq DOMAIN size
    BY <1>3
  <2>2. \A name \in Names : L.start[name] = StartOf(name) /\ L.end[name] = ALIGN(StartOf(name) + size[name])
    BY <2>1
  <2>3. L.image = StartOf("bss") + size["bss"]
    OBVIOUS
  <2> HIDE DEF L
  <2>. QED
    BY <1>6, <1>7, <2>2, <2>3 DEF Names
<1> HIDE DEF L
<1>10. /\ L.image \in Nat /\ g[7] <= L.image /\ ALIGN(L.image) \in Nat
       /\ Aligned(ALIGN(L.image)) /\ g[7] <= ALIGN(L.image)
  <2>1. size["bss"] \in Nat
    BY <1>3, <1>4 DEF Names
  <2>2. L.image \in Nat /\ g[7] <= L.image
    BY <1>8, <1>9, <2>1
  <2>3. ALIGN(L.image) \in Nat /\ Aligned(ALIGN(L.image)) /\ L.image <= ALIGN(L.image)
    BY <2>2, AlignFacts
  <2>4. g[7] <= ALIGN(L.image)
    BY <1>8, <2>2, <2>3
  <2>. QED
    BY <2>2, <2>3, <2>4
<1>11. START <= L.start["text"]
  BY <1>6, <1>8, <1>9
<1>. QED
  BY <1>1, <1>8, <1>9, <1>10, <1>11 DEF LayoutSound, Names

-----------------------------------------------------------------------------
(* The zones of early_mm_map_kernel by their pages.                        *)

Page(u) == u \div MAPPED_PAGE

(* Higher addresses are in the same page or in a higher one.               *)
LEMMA PageMonotone ==
  ASSUME NEW u \in Nat, NEW v \in Nat, u <= v
  PROVE  Page(u) \in Nat /\ Page(v) \in Nat /\ Page(u) <= Page(v)
<1> DEFINE a == Page(u)
           b == Page(v)
           r == u % MAPPED_PAGE
           s == v % MAPPED_PAGE
<1>1. a \in Nat /\ r \in Nat /\ u = Holding(a) + r
  BY AddressOf DEF Page
<1>2. b \in Nat /\ s \in Nat /\ s < MAPPED_PAGE /\ v = Holding(b) + s
  BY AddressOf DEF Page
<1> HIDE DEF a, b, r, s
<1>3. Holding(a) \in Nat /\ Holding(b) \in Nat
  BY <1>1, <1>2, PageOrder
<1>4. ~ (b < a)
  <2> SUFFICES ASSUME b < a PROVE FALSE
    OBVIOUS
  <2>1. Holding(b) + s < Holding(a)
    BY <1>1, <1>2, PageOrder
  <2>. QED
    BY <1>1, <1>2, <1>3, <2>1
<1>5. a <= b
  BY <1>1, <1>2, <1>4
<1>. QED
  BY <1>1, <1>2, <1>5 DEF a, b

First ==
  << 1, Page(START), Page(symbols.start["text"]), Page(symbols.start["multiboot"]),
     Page(symbols.start["rodata"]), Page(symbols.start["bootstrap_stack"]),
     Page(symbols.start["data"]), Page(symbols.start["bss"]), Page(symbols.image) >>

After ==
  << Page(START), Page(symbols.start["text"]), Page(symbols.end["text"]),
     Page(symbols.end["multiboot"]), Page(symbols.end["rodata"]),
     Page(symbols.end["bootstrap_stack"]), Page(symbols.end["data"]),
     Page(symbols.end["bss"]), PAGES >>

Protected == {3, 4, 5}

\* The boundaries of the zones follow each other; the last two may overlap.
Ordered ==
  /\ \A j \in 1 .. 9 : First[j] \in Nat /\ After[j] \in Nat /\ After[j] <= PAGES
  /\ First[1] = 1 /\ 1 <= First[2] /\ First[2] = After[1]
  /\ First[2] <= First[3] /\ First[3] = After[2]
  /\ First[3] <= First[4] /\ First[4] = After[3]
  /\ First[4] <= First[6] /\ First[6] = After[4]
  /\ First[6] <= First[5] /\ First[5] = After[6]
  /\ First[5] <= First[7] /\ First[7] = After[5]
  /\ First[7] <= First[8] /\ First[8] = After[7]
  /\ First[8] <= First[9] /\ First[9] <= After[8] /\ After[9] = PAGES

KernelFits == LayoutSound(symbols) /\ symbols.image <= MEM_END

LEMMA ZonesInOrder == ASSUME KernelFits PROVE Ordered
<1> DEFINE s == symbols.start
           e == symbols.end
<1>1. /\ s["text"] \in Nat /\ e["text"] \in Nat /\ s["text"] <= e["text"]
      /\ s["multiboot"] = e["text"] /\ e["multiboot"] \in Nat /\ s["multiboot"] <= e["multiboot"]
      /\ s["bootstrap_stack"] = e["multiboot"] /\ e["bootstrap_stack"] \in Nat
      /\ s["bootstrap_stack"] <= e["bootstrap_stack"]
      /\ s["rodata"] = e["bootstrap_stack"] /\ e["rodata"] \in Nat /\ s["rodata"] <= e["rodata"]
      /\ s["data"] = e["rodata"] /\ e["data"] \in Nat /\ s["data"] <= e["data"]
      /\ s["bss"] = e["data"] /\ symbols.image \in Nat /\ s["bss"] <= symbols.image
      /\ e["bss"] = ALIGN(symbols.image) /\ symbols.image <= MEM_END
      /\ START <= s["text"]
  BY DEF KernelFits, LayoutSound, Names
<1> HIDE DEF s, e
<1>2. /\ MEM_END \in Nat /\ MAPPED_PAGE \in Nat /\ MAPPED_PAGE # 0 /\ START \in Nat
      /\ MEM_END = Holding(PAGES) /\ PAGES \in Nat /\ MAPPED_PAGE <= START
  BY PageFacts
<1>3. e["bss"] \in Nat /\ symbols.image <= e["bss"] /\ e["bss"] < symbols.image + MAPPED_PAGE
  BY <1>1, AlignFacts
<1>4. /\ Page(START) \in Nat /\ Page(s["text"]) \in Nat /\ Page(START) <= Page(s["text"])
  BY <1>1, <1>2, PageMonotone
<1>5. Page(e["text"]) \in Nat /\ Page(s["text"]) <= Page(e["text"])
  BY <1>1, PageMonotone
<1>6. Page(e["multiboot"]) \in Nat /\ Page(s["multiboot"]) <= Page(e["multiboot"])
  BY <1>1, PageMonotone
<1>7. Page(e["bootstrap_stack"]) \in Nat /\ Page(s["bootstrap_stack"]) <= Page(e["bootstrap_stack"])
  BY <1>1, PageMonotone
<1>8. Page(e["rodata"]) \in Nat /\ Page(s["rodata"]) <= Page(e["rodata"])
  BY <1>1, PageMonotone
<1>9. Page(e["data"]) \in Nat /\ Page(s["data"]) <= Page(e["data"])
  BY <1>1, PageMonotone
<1>10. Page(symbols.image) \in Nat /\ Page(s["bss"]) <= Page(symbols.image)
  BY <1>1, PageMonotone
<1>11. Page(e["bss"]) \in Nat /\ Page(symbols.image) <= Page(e["bss"])
  BY <1>1, <1>3, PageMonotone
<1>12. 1 <= Page(START)
  <2>1. (1 * MAPPED_PAGE + 0) \div MAPPED_PAGE = 1 /\ 1 * MAPPED_PAGE + 0 = MAPPED_PAGE
    BY <1>2, QuotientOf
  <2>2. Page(MAPPED_PAGE) = 1
    BY <2>1 DEF Page
  <2>. QED
    BY <1>2, <2>2, PageMonotone
<1>13. Page(e["bss"]) <= PAGES
  <2> DEFINE b == Page(e["bss"])
             r == e["bss"] % MAPPED_PAGE
  <2>1. b \in Nat /\ r \in Nat /\ e["bss"] = Holding(b) + r
    BY <1>3, AddressOf DEF Page
  <2> HIDE DEF b, r
  <2>2. Holding(PAGES) \in Nat /\ Holding(b) \in Nat
    BY <1>2, <2>1, PageOrder
  <2>3. Holding(PAGES + 1) = Holding(PAGES) + MAPPED_PAGE
    BY <1>2, SMT DEF Holding
  <2>4. ~ (PAGES + 1 <= b)
    <3> SUFFICES ASSUME PAGES + 1 <= b PROVE FALSE
      OBVIOUS
    <3>1. PAGES + 1 \in Nat /\ ~ (b < PAGES + 1)
      BY <1>2, <2>1
    <3>2. ~ (Holding(b) + 0 < Holding(PAGES + 1))
      BY <1>2, <2>1, <3>1, PageOrder
    <3>. QED
      BY <1>1, <1>2, <1>3, <2>1, <2>2, <2>3, <3>2
  <2>5. b <= PAGES
    BY <1>2, <2>1, <2>4
  <2>. QED
    BY <2>5 DEF b
<1>14. /\ First = << 1, Page(START), Page(s["text"]), Page(s["multiboot"]), Page(s["rodata"]),
                     Page(s["bootstrap_stack"]), Page(s["data"]), Page(s["bss"]),
                     Page(symbols.image) >>
       /\ After = << Page(START), Page(s["text"]), Page(e["text"]), Page(e["multiboot"]),
                     Page(e["rodata"]), Page(e["bootstrap_stack"]), Page(e["data"]),
                     Page(e["bss"]), PAGES >>
  BY DEF First, After, s, e
<1> HIDE DEF Page
<1>15. 1 .. 9 = {1, 2, 3, 4, 5, 6, 7, 8, 9}
  OBVIOUS
<1>16. /\ s["multiboot"] = e["text"] /\ s["bootstrap_stack"] = e["multiboot"]
       /\ s["rodata"] = e["bootstrap_stack"] /\ s["data"] = e["rodata"]
       /\ s["bss"] = e["data"]
  BY <1>1
<1>17. \A j \in 1 .. 9 : First[j] \in Nat /\ After[j] \in Nat /\ After[j] <= PAGES
  BY <1>2, <1>4, <1>5, <1>6, <1>7, <1>8, <1>9, <1>10, <1>11, <1>13, <1>14, <1>15, <1>16
<1>. QED
  BY <1>4, <1>5, <1>6, <1>7, <1>8, <1>9, <1>10, <1>11, <1>12, <1>14, <1>16, <1>17 DEF Ordered

(* Each zone has the pages between its boundaries, and its flags.          *)
LEMMA ZonePages ==
  ASSUME KernelFits, NEW j \in 1 .. 9
  PROVE  /\ PagesOf(Zones[j]) = {page \in Nat : First[j] <= page /\ page < After[j]}
         /\ Zones[j].flags = IF j \in Protected THEN "ro" ELSE "rw"
<1> DEFINE s == symbols.start
           e == symbols.end
<1>1. \A i \in 1 .. 9 : First[i] \in Nat /\ After[i] \in Nat /\ After[i] <= PAGES
  BY ZonesInOrder DEF Ordered
<1>2. 1 .. 9 = {1, 2, 3, 4, 5, 6, 7, 8, 9}
  OBVIOUS
<1>3. \A name \in Names :
        /\ s[name] = Holding(Page(s[name])) /\ e[name] = Holding(Page(e[name]))
  BY AlignedIsPage DEF KernelFits, LayoutSound, Page
<1>4. /\ START = Holding(Page(START)) /\ MEM_END = Holding(PAGES)
      /\ MAPPED_PAGE = Holding(1) /\ Holding(1) \in Nat /\ MAPPED_PAGE \in Nat /\ 0 < MAPPED_PAGE
  <2>1. MAPPED_PAGE = 1 * MAPPED_PAGE
    BY PageFacts
  <2>. QED
    BY <2>1, PageFacts, AlignedIsPage DEF Page, Holding
<1>5. /\ symbols.image % MAPPED_PAGE \in Nat /\ symbols.image % MAPPED_PAGE < MAPPED_PAGE
      /\ symbols.image = Holding(Page(symbols.image)) + (symbols.image % MAPPED_PAGE)
  BY AddressOf DEF KernelFits, LayoutSound, Page
<1>6. CASE j # 9
  <2>1. /\ Zones[j].start = Holding(First[j]) /\ Zones[j].end = Holding(After[j])
        /\ Zones[j].flags = IF j \in Protected THEN "ro" ELSE "rw"
    BY <1>2, <1>3, <1>4, <1>6
       DEF Zones, Region, SectionRegion, First, After, Names, Protected
  <2>2. Holding(First[j]) \in Nat /\ Holding(First[j]) + 0 = Holding(First[j])
    <3> DEFINE a == First[j]
    <3>1. a \in Nat
      BY <1>1
    <3> HIDE DEF a
    <3>2. Holding(a) \in Nat
      BY <3>1, <1>4, SMT DEF Holding
    <3>. QED
      BY <3>2 DEF a
  <2>3. First[j] \in Nat /\ After[j] \in Nat /\ After[j] <= PAGES
    BY <1>1
  <2> DEFINE a == First[j]
             b == After[j]
             z == Zones[j]
  <2>4. a \in Nat /\ b \in Nat /\ b <= PAGES /\ z.start = Holding(a) + 0 /\ z.end = Holding(b)
    BY <2>1, <2>2, <2>3
  <2> HIDE DEF a, b, z
  <2>5. PagesOf(z) = {page \in Nat : a <= page /\ page < b}
    BY <1>4, <2>4, PagesOfZone
  <2>. QED
    BY <2>1, <2>5 DEF a, b, z
<1>7. CASE j = 9
  <2> DEFINE a == First[9]
             b == After[9]
             r == symbols.image % MAPPED_PAGE
             z == Zones[9]
  <2>1. /\ z.start = Holding(a) + r /\ z.end = Holding(b) /\ z.flags = "rw"
    BY <1>4, <1>5 DEF Zones, Region, First, After
  <2>2. a \in Nat /\ b \in Nat /\ b <= PAGES /\ r \in Nat /\ r < MAPPED_PAGE
    BY <1>1, <1>5
  <2> HIDE DEF a, b, r, z
  <2>3. PagesOf(z) = {page \in Nat : a <= page /\ page < b}
    BY <2>1, <2>2, PagesOfZone
  <2>. QED
    BY <1>7, <2>1, <2>3 DEF a, b, z, Protected
<1>. QED
  BY <1>6, <1>7

-----------------------------------------------------------------------------
(* The mapping.                                                            *)

\* What the tables hold when the first n zones have been mapped.
ByZone(n, page) == {j \in 1 .. n : First[j] <= page /\ page < After[j]}

Mapped(n) ==
  \A page \in 0 .. PAGES - 1 :
    pgtab[page] =
      IF ByZone(n, page) = {} THEN NONE
      ELSE [frame |-> page,
            flags |-> IF ByZone(n, page) \cap Protected # {} THEN "ro" ELSE "rw"]

\* The directory leads to all the tables, which lie one behind the other.
DirectoryFilled == pgdir = [d \in 0 .. ENTRIES - 1 |-> IF d < TABLES THEN d * ENTRIES ELSE -1]

EarlyInv ==
  /\ boot \in {"link", "check", "clear", "map", "done", "halted"}
  /\ boot # "link" => KernelFits
  /\ zone \in 1 .. 9 /\ DOMAIN pgdir = 0 .. ENTRIES - 1
  /\ DOMAIN pgtab = 0 .. ENTRIES * TABLES - 1
  /\ boot \in {"link", "check", "clear"} => zone = 1
  /\ boot \in {"map", "done"} => DirectoryFilled
  /\ boot = "map" => Mapped(zone - 1)
  /\ boot = "done" => Mapped(9)

(* The entry of a page is the one of its number.                           *)
LEMMA EntryOfPage ==
  ASSUME DirectoryFilled, NEW page \in 0 .. PAGES - 1
  PROVE  EntryOf(page) = page
<1> DEFINE d == page \div ENTRIES
           r == page % ENTRIES
<1>1. page \in Nat /\ page < PAGES /\ PAGES \in Nat
  BY PageFacts
<1>2. d \in Nat /\ r \in Nat /\ r < ENTRIES /\ page = d * ENTRIES + r
  BY <1>1, PageFacts, Split
<1>3. EntryOf(page) = pgdir[d] + r
  BY DEF EntryOf
<1> HIDE DEF d, r
<1>4. d < TABLES
  <2>1. d * ENTRIES + r < TABLES * ENTRIES
    BY <1>1, <1>2 DEF PAGES
  <2>. QED
    BY <1>2, <2>1, PageFacts, MultiplesOrder
<1>5. pgdir[d] = d * ENTRIES
  <2>1. d \in 0 .. ENTRIES - 1
    BY <1>2, <1>4, PageFacts
  <2>. QED
    BY <1>4, <2>1 DEF DirectoryFilled
<1>. QED
  BY <1>2, <1>3, <1>5

(* No zone that may be written has a page of one that may not.             *)
LEMMA ZonesApart ==
  ASSUME Ordered, NEW j \in Protected, NEW i \in 1 .. 9, i \notin Protected,
         NEW page \in Nat
  PROVE  ~ (page \in First[j] .. After[j] - 1 /\ page \in First[i] .. After[i] - 1)
<1>1. j \in {3, 4, 5} /\ i \in {1, 2, 6, 7, 8, 9}
  <2>1. 1 .. 9 = {1, 2, 3, 4, 5, 6, 7, 8, 9}
    OBVIOUS
  <2>. QED
    BY <2>1 DEF Protected
<1>2. /\ \A k \in {1, 2, 3, 4, 5, 6, 7, 8, 9} : First[k] \in Nat /\ After[k] \in Nat
      /\ First[2] = After[1] /\ First[3] = After[2] /\ First[4] = After[3]
      /\ First[6] = After[4] /\ First[5] = After[6] /\ First[7] = After[5]
      /\ First[8] = After[7] /\ First[1] = 1 /\ 1 <= First[2]
      /\ First[2] <= First[3] /\ First[3] <= First[4] /\ First[4] <= First[6]
      /\ First[6] <= First[5] /\ First[5] <= First[7] /\ First[7] <= First[8]
      /\ First[8] <= First[9] /\ First[9] <= After[8]
  BY DEF Ordered
<1> HIDE DEF First, After
<1>. QED
  BY <1>1, <1>2

(* One more zone is mapped, each of its pages at its own address.          *)
LEMMA OneMoreZone ==
  ASSUME KernelFits, DirectoryFilled, NEW n \in 1 .. 9, Mapped(n - 1),
         DOMAIN pgtab = 0 .. ENTRIES * TABLES - 1,
         early_mm_map_region(Zones[n]), UNCHANGED symbols
  PROVE  Mapped(n)' /\ DOMAIN pgtab' = DOMAIN pgtab
<1> DEFINE z == Zones[n]
           P == PagesOf(z)
           D == 0 .. PAGES - 1
<1>1. Ordered /\ P = {page \in Nat : First[n] <= page /\ page < After[n]}
      /\ z.flags = IF n \in Protected THEN "ro" ELSE "rw"
  BY ZonesInOrder, ZonePages
<1>2. DOMAIN pgtab = D
  BY PageFacts
<1>3. /\ n \in Nat /\ First[n] \in Nat /\ After[n] \in Nat /\ After[n] <= PAGES /\ PAGES \in Nat
  <2>1. \A j \in 1 .. 9 : First[j] \in Nat /\ After[j] \in Nat /\ After[j] <= PAGES
    BY <1>1 DEF Ordered
  <2>2. First[n] \in Nat /\ After[n] \in Nat /\ After[n] <= PAGES
    BY <2>1
  <2>. QED
    BY <2>2, PageFacts
<1>4. P \subseteq D
  BY <1>1, <1>3
<1>5. \A page \in P : EntryOf(page) = page
  BY <1>4, EntryOfPage
<1>6. pgtab' = [u \in D |-> IF \E page \in P : EntryOf(page) = u
                            THEN [frame |-> CHOOSE page \in P : EntryOf(page) = u,
                                  flags |-> z.flags]
                            ELSE pgtab[u]]
  BY <1>2 DEF early_mm_map_region
<1> HIDE DEF z, P
<1>7. ASSUME NEW u \in D
      PROVE  pgtab'[u] = IF u \in P THEN [frame |-> u, flags |-> z.flags] ELSE pgtab[u]
  <2>1. CASE u \in P
    <3>1. \A page \in P : EntryOf(page) = u <=> page = u
      BY <1>5
    <3>2. (CHOOSE page \in P : EntryOf(page) = u) = u
      BY <2>1, <3>1
    <3>. QED
      BY <1>6, <2>1, <3>1, <3>2
  <2>2. CASE u \notin P
    <3>1. ~ \E page \in P : EntryOf(page) = u
      BY <1>5, <2>2
    <3>. QED
      BY <1>6, <2>2, <3>1
  <2>. QED
    BY <2>1, <2>2
<1>8. ASSUME NEW u \in D
      PROVE  /\ ByZone(n, u) = IF u \in P THEN ByZone(n - 1, u) \cup {n} ELSE ByZone(n - 1, u)
             /\ ByZone(n, u)' = ByZone(n, u)
  <2>1. u \in P <=> First[n] <= u /\ u < After[n]
    BY <1>1
  <2>2. 1 .. n = (1 .. n - 1) \cup {n}
    BY <1>3
  <2>3. ByZone(n, u) = IF u \in P THEN ByZone(n - 1, u) \cup {n} ELSE ByZone(n - 1, u)
    BY <2>1, <2>2 DEF ByZone
  <2>4. First' = First /\ After' = After
    BY DEF First, After
  <2>. QED
    BY <2>3, <2>4 DEF ByZone
<1>9. ASSUME NEW u \in D
      PROVE  pgtab'[u] = IF ByZone(n, u) = {} THEN NONE
                         ELSE [frame |-> u,
                               flags |-> IF ByZone(n, u) \cap Protected # {} THEN "ro" ELSE "rw"]
  <2> DEFINE B == ByZone(n - 1, u)
  <2>1. pgtab[u] = IF B = {} THEN NONE
                   ELSE [frame |-> u, flags |-> IF B \cap Protected # {} THEN "ro" ELSE "rw"]
    BY DEF Mapped
  <2>2. ByZone(n, u) = IF u \in P THEN B \cup {n} ELSE B
    BY <1>8
  <2>3. u \in P /\ n \notin Protected => B \cap Protected = {}
    <3> SUFFICES ASSUME u \in P, n \notin Protected, NEW j \in B, j \in Protected PROVE FALSE
      OBVIOUS
    <3>1. /\ First[j] <= u /\ u < After[j] /\ First[n] <= u /\ u < After[n]
          /\ j \in 1 .. 9 /\ u \in Nat
      BY <1>1, <1>3 DEF ByZone
    <3>2. First[j] \in Nat /\ After[j] \in Nat
      BY <1>1, <3>1 DEF Ordered
    <3>3. u \in First[j] .. After[j] - 1 /\ u \in First[n] .. After[n] - 1
      BY <1>3, <3>1, <3>2
    <3>. QED
      BY <1>1, <3>1, <3>3, ZonesApart
  <2> HIDE DEF B
  <2>4. CASE u \in P
    BY <1>1, <1>7, <2>2, <2>3, <2>4
  <2>5. CASE u \notin P
    BY <1>7, <2>1, <2>2, <2>5
  <2>. QED
    BY <2>4, <2>5
<1>. QED
  BY <1>2, <1>6, <1>8, <1>9 DEF Mapped

(* Every step of the boot.                                                 *)
LEMMA EarlyStart == EarlyInit => EarlyInv
BY PageFacts DEF EarlyInit, EarlyInv

LEMMA EarlyNextInv == EarlyInv /\ [EarlyNext]_earlyVars => EarlyInv'
<1> SUFFICES ASSUME EarlyInv, [EarlyNext]_earlyVars PROVE EarlyInv'
  OBVIOUS
<1>1. CASE Load
  <2>1. PICK size \in [SectionNames -> SectionSizes] : symbols' = Layout(size)
    BY <1>1 DEF Load, SectionNames
  <2>2. LayoutSound(symbols')
    BY <2>1, LayoutIsSound
  <2>3. KernelFits'
    BY <1>1, <2>2 DEF Load, KernelFits
  <2>4. /\ boot' = "check" /\ zone' = zone /\ pgdir' = pgdir /\ DOMAIN pgtab' = DOMAIN pgtab
        /\ boot = "link"
    BY <1>1 DEF Load
  <2>. QED
    BY <2>3, <2>4 DEF EarlyInv
<1>2. CASE EarlyCheck
  BY <1>2 DEF EarlyCheck, EarlyInv, KernelFits
<1>3. CASE ClearTables
  <2>1. /\ boot = "clear" /\ boot' = "map" /\ zone' = zone /\ symbols' = symbols
        /\ pgtab' = [e \in DOMAIN pgtab |-> NONE]
        /\ pgdir' = [d \in 0 .. ENTRIES - 1 |-> IF d < TABLES THEN d * ENTRIES ELSE -1]
    BY <1>3 DEF ClearTables, early_mm_fill_pgdir, EarlyInv
  <2>2. zone = 1 /\ KernelFits' /\ DOMAIN pgtab = 0 .. PAGES - 1
    BY <2>1, PageFacts DEF EarlyInv, KernelFits
  <2>3. Mapped(0)'
    BY <2>1, <2>2 DEF Mapped, ByZone
  <2>4. DOMAIN pgtab' = DOMAIN pgtab /\ DOMAIN pgdir' = 0 .. ENTRIES - 1 /\ DirectoryFilled'
    BY <2>1 DEF DirectoryFilled
  <2>5. Mapped(zone - 1)'
    BY <2>1, <2>2, <2>3
  <2>. QED
    BY <2>1, <2>2, <2>4, <2>5 DEF EarlyInv
<1>4. CASE MapZone
  <2>1. /\ boot = "map" /\ early_mm_map_region(Zones[zone]) /\ UNCHANGED <<symbols, pgdir>>
        /\ IF zone < 9 THEN zone' = zone + 1 /\ boot' = boot
           ELSE boot' = "done" /\ zone' = zone
    <3>1. Len(Zones) = 9
      BY DEF Zones
    <3>. QED
      BY <1>4, <3>1 DEF MapZone
  <2>2. KernelFits /\ DirectoryFilled /\ zone \in 1 .. 9 /\ Mapped(zone - 1)
        /\ DOMAIN pgtab = 0 .. ENTRIES * TABLES - 1
    BY <2>1 DEF EarlyInv
  <2>3. \A n \in 1 .. 9 : zone = n => Mapped(n)' /\ DOMAIN pgtab' = DOMAIN pgtab
    BY <2>1, <2>2, OneMoreZone
  <2>4. DOMAIN pgtab' = DOMAIN pgtab /\ KernelFits' /\ DirectoryFilled'
    BY <2>1, <2>2, <2>3 DEF KernelFits, DirectoryFilled
  <2>5. CASE zone < 9
    <3>1. zone' = zone + 1 /\ zone' - 1 = zone /\ zone' \in 1 .. 9 /\ boot' = "map"
      BY <2>1, <2>2, <2>5
    <3>2. Mapped(zone - 1)'
      BY <2>2, <2>3, <3>1
    <3>. QED
      BY <2>1, <2>4, <3>1, <3>2 DEF EarlyInv
  <2>6. CASE ~ (zone < 9)
    <3>1. zone = 9 /\ zone' = 9 /\ boot' = "done"
      BY <2>1, <2>2, <2>6
    <3>2. Mapped(9)'
      BY <2>2, <2>3, <3>1
    <3>. QED
      BY <2>1, <2>4, <3>1, <3>2 DEF EarlyInv
  <2>. QED
    BY <2>5, <2>6
<1>5. CASE UNCHANGED earlyVars
  BY <1>5, ZenonT(40) DEF earlyVars, EarlyInv, KernelFits, DirectoryFilled, Mapped, ByZone,
              First, After
<1>. QED
  BY <1>1, <1>2, <1>3, <1>4, <1>5 DEF EarlyNext

(* When the last zone is mapped, every page has been, the code and the     *)
(* constants read-only.                                                    *)
LEMMA AllZones == ASSUME EarlyInv PROVE KernelIsProtected
<1> SUFFICES ASSUME boot = "done", NEW page \in 0 .. MEM_END \div MAPPED_PAGE - 1
             PROVE  pgtab[EntryOf(page)] =
                      IF page = 0 THEN NONE
                      ELSE [frame |-> page, flags |-> IF ReadOnly(page) THEN "ro" ELSE "rw"]
  BY DEF KernelIsProtected
<1>1. /\ page \in 0 .. PAGES - 1 /\ page \in Nat /\ page < PAGES /\ PAGES \in Nat
  BY PageFacts
<1>2. KernelFits /\ DirectoryFilled /\ Mapped(9) /\ Ordered
  BY ZonesInOrder DEF EarlyInv
<1>3. pgtab[EntryOf(page)] =
        IF ByZone(9, page) = {} THEN NONE
        ELSE [frame |-> page,
              flags |-> IF ByZone(9, page) \cap Protected # {} THEN "ro" ELSE "rw"]
  BY <1>1, <1>2, EntryOfPage DEF Mapped
<1>4. \A j \in {1, 2, 3, 4, 5, 6, 7, 8, 9} :
        j \in ByZone(9, page) <=> First[j] <= page /\ page < After[j]
  BY DEF ByZone
<1>5. ByZone(9, page) = {} <=> page = 0
  <2>1. /\ \A k \in {1, 2, 3, 4, 5, 6, 7, 8, 9} : First[k] \in Nat /\ After[k] \in Nat
        /\ First[2] = After[1] /\ First[3] = After[2] /\ First[4] = After[3]
        /\ First[6] = After[4] /\ First[5] = After[6] /\ First[7] = After[5]
        /\ First[8] = After[7] /\ First[1] = 1 /\ 1 <= First[2]
        /\ First[2] <= First[3] /\ First[3] <= First[4] /\ First[4] <= First[6]
        /\ First[6] <= First[5] /\ First[5] <= First[7] /\ First[7] <= First[8]
        /\ First[8] <= First[9] /\ First[9] <= After[8] /\ After[9] = PAGES
    BY <1>2 DEF Ordered
  <2>2. ASSUME page # 0 PROVE ByZone(9, page) # {}
    <3>1. \E j \in {1, 2, 3, 4, 5, 6, 7, 8, 9} : First[j] <= page /\ page < After[j]
      BY <1>1, <2>1, <2>2
    <3>. QED
      BY <1>4, <3>1
  <2>3. ASSUME page = 0, NEW j \in ByZone(9, page) PROVE FALSE
    <3>1. j \in {1, 2, 3, 4, 5, 6, 7, 8, 9}
      BY DEF ByZone
    <3>2. First[j] <= 0
      BY <1>4, <2>3, <3>1
    <3>. QED
      BY <2>1, <3>1, <3>2
  <2>. QED
    BY <2>2, <2>3
<1>6. ByZone(9, page) \cap Protected # {} <=> ReadOnly(page)
  <2> DEFINE s == symbols.start
             e == symbols.end
  <2>1. ASSUME NEW name \in Names
        PROVE  Within(page, name) <=> Page(s[name]) <= page /\ page < Page(e[name])
    <3> DEFINE a == Page(s[name])
               b == Page(e[name])
    <3>1. s[name] = Holding(a) /\ e[name] = Holding(b) /\ a \in Nat /\ b \in Nat
      BY <1>2, AlignedIsPage DEF KernelFits, LayoutSound, Page
    <3> HIDE DEF a, b
    <3>2. Holding(a) \in Nat /\ Holding(b) \in Nat /\ Holding(page) \in Nat
      BY <1>1, <3>1, PageFacts, SMT DEF Holding
    <3>3. /\ Holding(page) + 0 < Holding(b) <=> page < b
          /\ Holding(page) + 0 < Holding(a) <=> page < a
      <4>1. 0 \in Nat /\ 0 < MAPPED_PAGE
        BY PageFacts
      <4>. QED
        BY <1>1, <3>1, <4>1, PageOrder
    <3>4. Holding(a) <= Holding(page) <=> a <= page
      BY <1>1, <3>1, <3>2, <3>3
    <3>5. Within(page, name) <=> Holding(a) <= Holding(page) /\ Holding(page) < Holding(b)
      BY <3>1 DEF Within
    <3>. QED
      BY <3>2, <3>3, <3>4, <3>5 DEF a, b
  <2>2. /\ First[3] = Page(s["text"]) /\ After[3] = Page(e["text"])
        /\ First[4] = Page(s["multiboot"]) /\ After[4] = Page(e["multiboot"])
        /\ First[5] = Page(s["rodata"]) /\ After[5] = Page(e["rodata"])
    BY DEF First, After
  <2>3. {"text", "multiboot", "rodata"} \subseteq Names
    BY DEF Names
  <2>4. ReadOnly(page) <=> \E j \in {3, 4, 5} : First[j] <= page /\ page < After[j]
    BY <2>1, <2>2, <2>3 DEF ReadOnly
  <2>. QED
    BY <1>4, <2>4 DEF Protected
<1>. QED
  BY <1>3, <1>5, <1>6

(* However large the pages, the tables and the sections of the kernel are, *)
(* the boot that goes on maps every page but the first, writable but for   *)
(* those of the code and the constants: the zones of early_mm_map_kernel   *)
(* (early_mm.c:206-222) leave no gap, and what they map twice is .bss.     *)
THEOREM KernelStaysProtected == EarlySpec => []KernelIsProtected
<1>. QED
  BY EarlyStart, EarlyNextInv, AllZones, PTL DEF EarlySpec

-----------------------------------------------------------------------------
(* The arithmetic of the division.                                         *)

LEMMA DivMod ==
  ASSUME NEW a \in Nat, NEW b \in Nat, b # 0
  PROVE  /\ a \div b \in Nat /\ a % b \in Nat /\ a % b < b
         /\ a = b * (a \div b) + (a % b)
BY SMT

LEMMA DivUnique ==
  ASSUME NEW a \in Nat, NEW b \in Nat, NEW q \in Nat, NEW r \in Nat,
         a = b * q + r, r < b
  PROVE  q = a \div b /\ r = a % b
BY DivMod, SMT

LEMMA TimesMonotone ==
  ASSUME NEW a \in Nat, NEW b \in Nat, NEW c \in Nat, a <= b
  PROVE  c * a \in Nat /\ c * b \in Nat /\ c * a <= c * b
BY SMT

LEMMA TimesTyped ==
  ASSUME NEW a \in Nat, NEW b \in Nat
  PROVE  a * b \in Nat /\ a * b = b * a
BY SMT

LEMMA PartIsLess ==
  ASSUME NEW a \in Nat, NEW b \in Nat, NEW c \in Nat, NEW d \in Nat, a = b * c + d
  PROVE  b * c <= a
<1> DEFINE m == b * c
<1>1. m \in Nat /\ a = m + d
  BY TimesTyped
<1> HIDE DEF m
<1>2. m <= a
  BY <1>1
<1>. QED
  BY <1>2 DEF m

LEMMA AtMostBelow ==
  ASSUME NEW a \in Nat, NEW b \in Nat, NEW c \in Nat, NEW d \in Nat,
         a <= b, b <= c, c < d
  PROVE  a < d
BY SMT

LEMMA TimesReflects ==
  ASSUME NEW a \in Nat, NEW b \in Nat, NEW c \in Nat, c * a < c * b
  PROVE  a < b
<1> SUFFICES ASSUME b <= a PROVE FALSE
  OBVIOUS
<1>. QED
  BY TimesMonotone

LEMMA WordTyped == WORD \in Nat /\ WORD > 0 /\ DWORD \in Nat /\ DWORD = WORD * WORD
BY WordAssumption DEF DWORD

LEMMA HighAndLow ==
  ASSUME NEW n \in Nat
  PROVE  /\ High(n) \in Nat /\ Low(n) \in Nat /\ Low(n) < WORD
         /\ n = WORD * High(n) + Low(n)
         /\ n < DWORD => High(n) < WORD
<1>1. /\ High(n) \in Nat /\ Low(n) \in Nat /\ Low(n) < WORD
      /\ n = WORD * High(n) + Low(n)
  BY DivMod, WordTyped DEF High, Low
<1>2. ASSUME n < DWORD PROVE High(n) < WORD
  <2>1. WORD * High(n) < WORD * WORD
    BY <1>1, <1>2, WordTyped
  <2>. QED
    BY <1>1, <2>1, TimesReflects, WordTyped
<1>. QED
  BY <1>1, <1>2

\* What bsr finds: the divisor of two words is shifted to one whose highest bit
\* is set.
LEMMA HighestBit ==
  ASSUME NEW n \in Nat, 0 < n, n < WORD
  PROVE  /\ AboveHighestBit(n) \in Nat /\ AboveHighestBit(n) <= 2 * n
         /\ n < AboveHighestBit(n) /\ AboveHighestBit(n) >= 2
<1>1. \E p \in Powers : p <= 2 * n /\ n < p
  BY WordAssumption
<1>2. /\ AboveHighestBit(n) \in Powers /\ AboveHighestBit(n) <= 2 * n
      /\ n < AboveHighestBit(n)
  BY <1>1 DEF AboveHighestBit
<1>3. AboveHighestBit(n) \in Nat
  BY <1>2, WordAssumption
<1>. QED
  BY <1>2, <1>3

-----------------------------------------------------------------------------
(* The two divl of a divisor of one word                                   *)

LEMMA TwoSteps ==
  ASSUME NEW a \in Nat, NEW b \in Nat, b # 0, a < DWORD
  PROVE  LET x2 == High(a) % b
             low == x2 * WORD + Low(a)
         IN  /\ ~ Faults(High(a), b) /\ ~ Faults(low, b)
             /\ (High(a) \div b) * WORD + (low \div b) \in Nat /\ low % b \in Nat
             /\ (High(a) \div b) * WORD + (low \div b) = a \div b
             /\ low % b = a % b
<1> DEFINE h == High(a)
           l == Low(a)
           q1 == h \div b
           x2 == h % b
           low == x2 * WORD + l
           q0 == low \div b
           r == low % b
<1>1. /\ h \in Nat /\ l \in Nat /\ l < WORD /\ h < WORD /\ a = WORD * h + l
  BY HighAndLow
<1>2. /\ q1 \in Nat /\ x2 \in Nat /\ x2 < b /\ h = b * q1 + x2
  BY <1>1, DivMod
<1>3. /\ low \in Nat /\ low = WORD * x2 + l
  <2>1. WORD * x2 \in Nat /\ x2 * WORD = WORD * x2
    BY <1>2, TimesTyped, WordTyped
  <2>. HIDE DEF x2, l
  <2>. QED
    BY <1>1, <2>1
<1>4. /\ q0 \in Nat /\ r \in Nat /\ r < b /\ low = b * q0 + r
  BY <1>3, DivMod
<1>5. High(h) = 0
  <2>1. h = WORD * 0 + h
    BY <1>1, WordTyped
  <2>. QED
    BY <1>1, <2>1, DivUnique, WordTyped DEF High
<1>6. High(low) = x2
  BY <1>1, <1>2, <1>3, DivUnique, WordTyped DEF High
<1>7. ~ Faults(h, b) /\ ~ Faults(low, b)
  BY <1>2, <1>5, <1>6 DEF Faults
<1>8. q1 * WORD + q0 \in Nat
  BY <1>2, <1>4, WordTyped
<1>9. a = b * (q1 * WORD + q0) + r
  <2>1. a = WORD * (b * q1 + x2) + l
    BY <1>1, <1>2
  <2>2. WORD * (b * q1 + x2) = b * (q1 * WORD) + WORD * x2
    BY <1>1, <1>2, WordTyped
  <2>3. b * (q1 * WORD + q0) = b * (q1 * WORD) + b * q0
    BY <1>2, <1>4, WordTyped
  <2>4. {b * (q1 * WORD), b * q0, WORD * x2} \subseteq Nat
    BY <1>2, <1>4, WordTyped
  <2>. HIDE DEF h, l, q1, x2, low, q0, r
  <2>. QED
    BY <1>1, <1>3, <1>4, <2>1, <2>2, <2>3, <2>4
<1>10. q1 * WORD + q0 = a \div b /\ r = a % b
  <2>. HIDE DEF q1, q0, r
  <2>. QED
    BY <1>4, <1>8, <1>9, DivUnique
<1>. QED
  BY <1>4, <1>7, <1>8, <1>10

-----------------------------------------------------------------------------
(* The estimate of a divisor of two words                                  *)

LEMMA ShiftedDivisor ==
  ASSUME NEW b \in Nat, b < DWORD, High(b) # 0,
         NEW p \in Nat, p = AboveHighestBit(High(b))
  PROVE  /\ p >= 2 /\ b \div p \in Nat /\ b \div p < WORD
         /\ b < p * ((b \div p) + 1)
         /\ WORD < 2 * ((b \div p) + 1)
<1> DEFINE h == High(b)
           bs == b \div p
<1>1. /\ h \in Nat /\ 0 < h /\ h < WORD /\ Low(b) \in Nat /\ Low(b) < WORD
      /\ b = WORD * h + Low(b)
  BY HighAndLow
<1>2. p <= 2 * h /\ h < p /\ p >= 2
  BY <1>1, HighestBit
<1>3. bs \in Nat /\ b % p \in Nat /\ b % p < p /\ b = p * bs + (b % p)
  <2>1. p # 0
    BY <1>2
  <2>. QED
    BY <2>1, DivMod
<1> HIDE DEF h, bs
<1>4. b < p * (bs + 1)
  <2>1. p * (bs + 1) = p * bs + p
    BY <1>3
  <2>2. p * bs \in Nat
    BY <1>3
  <2>. QED
    BY <1>3, <2>1, <2>2
<1>5. bs < WORD
  <2>1. WORD * (h + 1) = WORD * h + WORD /\ WORD * h \in Nat
    BY <1>1, WordTyped
  <2>2. b < WORD * (h + 1)
    BY <1>1, <2>1, WordTyped
  <2>3. WORD * (h + 1) <= WORD * p
    BY <1>1, <1>2, WordTyped, TimesMonotone
  <2>4. p * bs \in Nat /\ p * bs <= b
    BY <1>3
  <2>5. WORD * p = p * WORD /\ WORD * p \in Nat
    BY WordTyped
  <2>6. p * bs < p * WORD
    BY <2>1, <2>2, <2>3, <2>4, <2>5, <1>1, WordTyped
  <2>. QED
    BY <1>3, <2>6, TimesReflects, WordTyped
<1>6. WORD < 2 * (bs + 1)
  <2>1. WORD * p <= WORD * (2 * h)
    BY <1>1, <1>2, WordTyped, TimesMonotone
  <2>2. WORD * (2 * h) = 2 * (WORD * h) /\ WORD * h \in Nat
    BY <1>1, WordTyped
  <2>3. 2 * (WORD * h) <= 2 * b
    BY <1>1, <2>2
  <2>4. 2 * (p * (bs + 1)) = p * (2 * (bs + 1)) /\ p * (bs + 1) \in Nat
    BY <1>3
  <2>5. p * WORD = WORD * p /\ WORD * p \in Nat
    BY WordTyped
  <2>6. p * WORD < p * (2 * (bs + 1))
    BY <1>4, <2>1, <2>2, <2>3, <2>4, <2>5
  <2>. QED
    BY <1>3, <2>6, TimesReflects, WordTyped
<1>. QED
  BY <1>2, <1>3, <1>4, <1>5, <1>6 DEF bs

\* The only fault is that of the divisor that wraps: the high word of the
\* shifted dividend is below half a word, the shifted divisor is not.
LEMMA EstimateFits ==
  ASSUME NEW a \in Nat, a < DWORD, NEW p \in Nat, p >= 2,
         NEW d \in Nat, WORD < 2 * d
  PROVE  a \div p \in Nat /\ ~ Faults(a \div p, d)
<1> DEFINE as == a \div p
           k == High(as)
<1>1. as \in Nat /\ a % p \in Nat /\ a = p * as + (a % p)
  BY DivMod
<1>2. k \in Nat /\ Low(as) \in Nat /\ as = WORD * k + Low(as)
  BY <1>1, HighAndLow
<1> HIDE DEF as, k
<1>3. 2 * k < WORD
  <2>1. WORD * k \in Nat /\ WORD * k <= as
    <3>1. WORD * k \in Nat
      BY <1>2, TimesTyped, WordTyped
    <3>. QED
      BY <1>1, <1>2, <3>1, PartIsLess, WordTyped
  <2>2. p * (WORD * k) \in Nat /\ p * (WORD * k) <= p * as
    BY <1>1, <2>1, TimesMonotone
  <2>3. p * as \in Nat /\ p * as < WORD * WORD
    <3>1. p * as \in Nat
      BY <1>1, TimesTyped
    <3>2. p * as <= a
      BY <1>1, PartIsLess
    <3> DEFINE m == p * as
    <3>3. m \in Nat /\ m <= a
      BY <3>1, <3>2
    <3> HIDE DEF m
    <3>4. m < DWORD
      BY <3>3, WordTyped
    <3>. QED
      BY <3>1, <3>4, WordTyped DEF m
  <2>4. 2 * (WORD * k) <= p * (WORD * k)
    <3>1. (WORD * k) * 2 <= (WORD * k) * p
      BY <2>1, TimesMonotone
    <3>. QED
      BY <2>1, <3>1
  <2>5. 2 * (WORD * k) = WORD * (2 * k)
    BY <1>2, WordTyped
  <2>6. WORD * (2 * k) < WORD * WORD
    <3>1. 2 * (WORD * k) \in Nat
      BY <2>1
    <3>2. WORD * WORD \in Nat
      BY TimesTyped, WordTyped
    <3>3. 2 * (WORD * k) < WORD * WORD
      BY <2>2, <2>3, <2>4, <3>1, <3>2, AtMostBelow
    <3>. QED
      BY <2>5, <3>3
  <2>. QED
    BY <1>2, <2>6, TimesReflects, WordTyped
<1>. QED
  BY <1>1, <1>2, <1>3, WordTyped DEF Faults, as, k

\* The rounded divisor is not below the divisor, so that the estimate is not
\* above the quotient.
LEMMA EstimateIsLow ==
  ASSUME NEW a \in Nat, NEW b \in Nat, NEW p \in Nat, p # 0,
         NEW d \in Nat, d # 0, b <= p * d
  PROVE  LET e == (a \div p) \div d IN e \in Nat /\ b * e \in Nat /\ b * e <= a
<1> DEFINE as == a \div p
           e == as \div d
<1>1. as \in Nat /\ a % p \in Nat /\ a = p * as + (a % p)
  BY DivMod
<1>2. e \in Nat /\ as % d \in Nat /\ as = d * e + (as % d)
  BY <1>1, DivMod
<1> HIDE DEF as, e
<1>3. d * e \in Nat /\ d * e <= as
  <2>1. d * e \in Nat
    BY <1>2, TimesTyped
  <2>. QED
    BY <1>1, <1>2, <2>1, PartIsLess
<1>4. p * (d * e) \in Nat /\ p * (d * e) <= p * as
  BY <1>1, <1>3, TimesMonotone
<1>5. b * e \in Nat /\ b * e <= (p * d) * e
  <2>1. p * d \in Nat
    OBVIOUS
  <2>2. e * b \in Nat /\ e * b <= e * (p * d)
    BY <1>2, <2>1, TimesMonotone
  <2>3. e * b = b * e /\ e * (p * d) = (p * d) * e
    BY <1>2, <2>1
  <2>. QED
    BY <2>2, <2>3
<1>6. (p * d) * e = p * (d * e)
  BY <1>2
<1>7. p * as <= a /\ p * as \in Nat
  <2>1. p * as \in Nat
    BY <1>1, TimesTyped
  <2>. QED
    BY <1>1, <2>1, PartIsLess
<1>8. b * e <= a
  <2>1. b * e <= p * (d * e)
    BY <1>5, <1>6
  <2> DEFINE m == b * e
             n == p * (d * e)
             o == p * as
  <2>2. m \in Nat /\ n \in Nat /\ o \in Nat /\ m <= n /\ n <= o /\ o <= a
    BY <1>4, <1>5, <1>7, <2>1
  <2> HIDE DEF m, n, o
  <2>3. m <= a
    BY <2>2
  <2>. QED
    BY <2>3 DEF m
<1>. QED
  BY <1>2, <1>5, <1>8 DEF e, as

-----------------------------------------------------------------------------
(* The steps                                                               *)

\* While it is corrected the quotient is too small by what the remainder holds,
\* and never so large that x0++ could wrap.
DivInv ==
  /\ x \in Nat /\ x < DWORD /\ y \in Nat /\ y < DWORD
  /\ quotient \in Nat /\ rem \in Nat
  /\ stage = "done" /\ y # 0 => quotient = x \div y /\ rem = x % y
  /\ stage = "fault" => DivisorWraps
  /\ stage = "correct" => High(y) # 0 /\ x = y * quotient + rem

LEMMA InitDivides == DivInit => DivInv
<1>1. 0 < DWORD
  BY WordTyped
<1>. QED
  BY <1>1 DEF DivInit, DivInv

LEMMA CallDivides == DivInv /\ DivCall => DivInv'
BY WordTyped DEF DivCall, DivInv

LEMMA ByWordDivides == DivInv /\ DivByWord => DivInv'
<1> SUFFICES ASSUME DivInv, DivByWord PROVE DivInv'
  OBVIOUS
<1>1. x \in Nat /\ y \in Nat /\ High(x) \in Nat /\ Low(y) \in Nat
  BY HighAndLow DEF DivInv
<1>2. y # 0
  <2>1. SUFFICES ASSUME y = 0 PROVE FALSE
    OBVIOUS
  <2>2. y = WORD * High(y) + Low(y) /\ High(y) = 0
    BY <1>1, HighAndLow DEF DivByWord
  <2>3. Low(y) = 0
    BY <1>1, <2>1, <2>2, WordTyped
  <2>. QED
    BY <1>1, <2>3 DEF DivByWord
<1>3. x \div y \in Nat /\ x % y \in Nat
  BY <1>1, <1>2, DivMod
<1>. QED
  BY <1>3 DEF DivByWord, DivDone, DivInv

LEMMA InTwoDivides == DivInv /\ DivInTwo => DivInv'
<1> SUFFICES ASSUME DivInv, DivInTwo PROVE DivInv'
  OBVIOUS
<1>1. CASE y = 0
  BY <1>1 DEF DivInTwo, DivDone, DivInv
<1>2. CASE y # 0
  <2> DEFINE low == (High(x) % y) * WORD + Low(x)
             q == (High(x) \div y) * WORD + (low \div y)
  <2>1. x \in Nat /\ y \in Nat /\ x < DWORD
    BY DEF DivInv
  <2>2. /\ ~ Faults(High(x), y) /\ ~ Faults(low, y)
        /\ q \in Nat /\ low % y \in Nat /\ q = x \div y /\ low % y = x % y
    BY <1>2, <2>1, TwoSteps
  <2>3. stage' = "done" /\ quotient' = q /\ rem' = low % y /\ UNCHANGED <<x, y>>
    BY <1>2, <2>2 DEF DivInTwo, DivDone
  <2>. HIDE DEF q, low
  <2>. QED
    BY <2>1, <2>2, <2>3 DEF DivInv
<1>. QED
  BY <1>1, <1>2

LEMMA EstimateDivides == DivInv /\ DivEstimate => DivInv'
<1> SUFFICES ASSUME DivInv, DivEstimate PROVE DivInv'
  OBVIOUS
<1> DEFINE p == AboveHighestBit(High(y))
           ys == y \div p
           xs == x \div p
<1>1. x \in Nat /\ x < DWORD /\ y \in Nat /\ y < DWORD /\ High(y) # 0
  BY DEF DivInv, DivEstimate
<1>2. p \in Nat
  BY <1>1, HighAndLow, HighestBit
<1>3. /\ p >= 2 /\ ys \in Nat /\ ys < WORD
      /\ y < p * (ys + 1) /\ WORD < 2 * (ys + 1)
  BY <1>1, <1>2, ShiftedDivisor
<1>4. Shifted(x) = xs /\ Shifted(y) = ys
  BY DEF Shifted
<1>5. UNCHANGED <<x, y>>
  BY DEF DivEstimate
<1> HIDE DEF p, ys, xs
<1>6. CASE ys = WORD - 1
  <2>1. RoundedDivisor = 0
    <3>1. WORD = WORD * 1 + 0
      BY WordTyped
    <3>2. WORD % WORD = 0
      BY <3>1, WordTyped, DivUnique
    <3>. QED
      BY <1>4, <1>6, <3>2, WordTyped DEF RoundedDivisor
  <2>2. stage' = "fault" /\ UNCHANGED <<quotient, rem>>
    BY <2>1 DEF DivEstimate, Faults
  <2>3. DivisorWraps'
    BY <1>1, <1>4, <1>5, <1>6 DEF DivisorWraps, Shifted, High
  <2>. QED
    BY <1>5, <2>2, <2>3 DEF DivInv
<1>7. CASE ys # WORD - 1
  <2> DEFINE d == ys + 1
             e == xs \div d
  <2>1. d \in Nat /\ d # 0 /\ d < WORD /\ WORD < 2 * d /\ y <= p * d
    <3>1. p * (ys + 1) \in Nat
      BY <1>2, <1>3
    <3>. QED
      BY <1>1, <1>3, <1>7, <3>1, WordTyped
  <2>2. RoundedDivisor = d
    <3>1. d = WORD * 0 + d
      BY <2>1, WordTyped
    <3>2. d % WORD = d
      BY <2>1, <3>1, WordTyped, DivUnique
    <3>. QED
      BY <1>4, <3>2 DEF RoundedDivisor
  <2> HIDE DEF d
  <2>3. ~ Faults(xs, d)
    BY <1>1, <1>2, <1>3, <2>1, EstimateFits DEF xs
  <2>4. e \in Nat /\ y * e \in Nat /\ y * e <= x
    BY <1>1, <1>2, <1>3, <2>1, EstimateIsLow DEF xs
  <2> DEFINE r == x - y * e
  <2>5. r \in Nat /\ r < DWORD /\ x = y * e + r
    <3> DEFINE m == y * e
    <3>1. m \in Nat /\ m <= x /\ r = x - m
      BY <2>4
    <3> HIDE DEF m, r
    <3>2. r \in Nat /\ r < DWORD /\ x = m + r
      BY <1>1, <3>1, WordTyped
    <3>. QED
      BY <3>2 DEF m
  <2>6. (x - y * e) % DWORD = r
    <3>1. r = DWORD * 0 + r
      BY <2>5, WordTyped
    <3>. QED
      BY <2>5, <3>1, WordTyped, DivUnique
  <2>7. stage' = "correct" /\ quotient' = e /\ rem' = r
    BY <1>4, <2>2, <2>3, <2>6 DEF DivEstimate
  <2> HIDE DEF e, r
  <2>8. High(y)' # 0
    BY <1>1, <1>5 DEF High
  <2>. QED
    BY <1>1, <1>5, <2>4, <2>5, <2>7, <2>8 DEF DivInv
<1>. QED
  BY <1>6, <1>7

LEMMA CorrectDivides == DivInv /\ DivCorrect => DivInv'
<1> SUFFICES ASSUME DivInv, DivCorrect PROVE DivInv'
  OBVIOUS
<1>1. /\ x \in Nat /\ x < DWORD /\ y \in Nat /\ y < DWORD
      /\ quotient \in Nat /\ rem \in Nat /\ High(y) # 0 /\ x = y * quotient + rem
  BY DEF DivInv, DivCorrect
<1>2. UNCHANGED <<x, y>>
  BY DEF DivCorrect
<1>3. High(y)' # 0
  BY <1>1, <1>2 DEF High
<1>4. WORD <= y
  <2>1. High(y) \in Nat /\ High(y) >= 1 /\ Low(y) \in Nat /\ y = WORD * High(y) + Low(y)
    BY <1>1, HighAndLow
  <2>2. WORD * 1 <= WORD * High(y) /\ WORD * High(y) \in Nat
    BY <2>1, WordTyped, TimesMonotone
  <2>. QED
    BY <2>1, <2>2, WordTyped
<1>5. CASE rem >= y
  <2>1. y * (quotient + 1) = y * quotient + y /\ y * quotient \in Nat
    BY <1>1
  <2>2. y * (quotient + 1) <= x
    BY <1>1, <1>5, <2>1
  <2>3. (quotient + 1) * WORD <= (quotient + 1) * y
    BY <1>1, <1>4, WordTyped, TimesMonotone
  <2>4. (quotient + 1) * y = y * (quotient + 1) /\ (quotient + 1) * WORD = WORD * (quotient + 1)
        /\ WORD * (quotient + 1) \in Nat
    BY <1>1, WordTyped
  <2>5. WORD * (quotient + 1) < WORD * WORD
    BY <1>1, <2>1, <2>2, <2>3, <2>4, WordTyped
  <2>6. quotient + 1 < WORD
    BY <1>1, <2>5, WordTyped, TimesReflects
  <2>7. (quotient + 1) % WORD = quotient + 1
    <3>1. quotient + 1 = WORD * 0 + (quotient + 1)
      BY <1>1, WordTyped
    <3>. QED
      BY <1>1, <2>6, <3>1, WordTyped, DivUnique
  <2>8. stage' = "correct" /\ quotient' = quotient + 1 /\ rem' = rem - y
    BY <1>5, <2>7 DEF DivCorrect
  <2>9. x = y * (quotient + 1) + (rem - y)
    BY <1>1, <2>1
  <2>. QED
    BY <1>1, <1>2, <1>3, <1>5, <2>8, <2>9 DEF DivInv
<1>6. CASE ~ rem >= y
  <2>1. rem < y
    BY <1>1, <1>6
  <2>2. quotient = x \div y /\ rem = x % y
    BY <1>1, <2>1, DivUnique
  <2>3. stage' = "done" /\ UNCHANGED <<quotient, rem>>
    BY <1>6 DEF DivCorrect
  <2>. QED
    BY <1>1, <1>2, <2>2, <2>3 DEF DivInv
<1>. QED
  BY <1>5, <1>6

LEMMA NextDivides == DivInv /\ [DivNext]_divVars => DivInv'
<1> SUFFICES ASSUME DivInv, [DivNext]_divVars PROVE DivInv'
  OBVIOUS
<1>1. CASE UNCHANGED divVars
  BY <1>1 DEF divVars, DivInv, DivisorWraps, High, Shifted
<1>. QED
  BY <1>1, CallDivides, ByWordDivides, InTwoDivides, EstimateDivides, CorrectDivides
  DEF DivNext

\* Whatever the size of a word, do_div64 gives the quotient and the remainder,
\* its estimate is never above the quotient, no quotient of divl needs more
\* than a word, and the only fault is that of the divisor whose y0 + 1 wraps
\* to 0 (div64.c:34-63).
THEOREM DivisionAlwaysExact == DivSpec => []DivisionIsExact
<1>1. DivInv => DivisionIsExact
  <2> SUFFICES ASSUME DivInv PROVE DivisionIsExact
    OBVIOUS
  <2>1. ASSUME stage = "correct" PROVE quotient <= x \div y
    <3>1. /\ x \in Nat /\ y \in Nat /\ quotient \in Nat /\ rem \in Nat
          /\ x = y * quotient + rem /\ High(y) # 0
      BY <2>1 DEF DivInv
    <3>2. y # 0
      <4>1. 0 = WORD * 0 + 0
        BY WordTyped
      <4>2. High(0) = 0
        BY <4>1, WordTyped, DivUnique DEF High
      <4>. QED
        BY <3>1, <4>2
    <3>3. /\ x \div y \in Nat /\ x % y \in Nat /\ x % y < y
          /\ x = y * (x \div y) + (x % y)
      BY <3>1, <3>2, DivMod
    <3>4. y * ((x \div y) + 1) = y * (x \div y) + y /\ y * quotient \in Nat
      BY <3>1, <3>3
    <3>5. y * quotient < y * ((x \div y) + 1)
      BY <3>1, <3>3, <3>4
    <3>6. quotient < (x \div y) + 1
      BY <3>1, <3>3, <3>5, TimesReflects
    <3>. QED
      BY <3>1, <3>3, <3>6
  <2>. QED
    BY <2>1 DEF DivInv, DivisionIsExact
<1>. QED
  BY <1>1, InitDivides, NextDivides, PTL DEF DivSpec
=============================================================================
