------------------------------- MODULE Frames -------------------------------
(***************************************************************************)
(* The physical frame allocator, src/kernel/mm/memory.c, with the page     *)
(* table access of memory_ext.c.                                           *)
(*                                                                         *)
(* A page_frame_t is 8 bytes, and get_page returns the address of a 4-byte *)
(* table entry as one: the second word of descriptor d, which holds used,  *)
(* kernel_page and ref_count, is the entry d + 1.  The tables come from    *)
(* kmalloc_aligned one after the other, so that the entries of all of them *)
(* are one array of words, and the second word of a table's last           *)
(* descriptor is the first entry of the next table.                        *)
(*                                                                         *)
(* map_page is given the address of the descriptor.  A table fills one     *)
(* page, so all its descriptors share one mapping: the last one wins.      *)
(***************************************************************************)
EXTENDS Integers, FiniteSets

CONSTANTS
    NFrames,     \* nframes (32768)
    WordBits,    \* frames in one word of the bitmap (32)
    Reserved,    \* frames init_memory marks as used (256)
    PerTable,    \* entries of a page table (1024)
    MaxTables    \* bound on the page tables that get_page creates

ASSUME FramesAssumption ==
    /\ NFrames \in Nat /\ WordBits \in Nat \ {0}
    /\ Reserved \in 1 .. NFrames
    /\ PerTable \in Nat \ {0}
    /\ MaxTables \in Nat \ {0}

NoFrame == -1
Frame   == 0 .. NFrames - 1
Descs   == 0 .. MaxTables * PerTable - 1
Words   == 0 .. MaxTables * PerTable
Tables  == 0 .. MaxTables - 1

\* The low bits of a table entry, as the paging unit reads them.
PRESENT == 0
RW      == 1
USER    == 2
Bits    == {PRESENT, RW, USER}

TableOf(d) == d \div PerTable

VARIABLES
    bitmap,     \* frames[]: the frames marked as used
    word,       \* the low bits of the entries of the page tables
    ntables,    \* tables created so far
    mapped,     \* the frame that each table's own page is mapped to
    booted,     \* how many iterations of init_paging have run
    holds,      \* history: the frame a descriptor was given, or NoFrame
    accidents   \* history: what has gone wrong so far

frameVars == <<bitmap, word, ntables, mapped, booted, holds, accidents>>

-----------------------------------------------------------------------------
(* The scan covers whole words of the bitmap only.                         *)
Scanned == {f \in Frame : f < (NFrames \div WordBits) * WordBits}

Free == Scanned \ bitmap

(* Zero, an index like any other, when nothing is free.                    *)
first_free_frame ==
    IF Free = {} THEN 0 ELSE CHOOSE f \in Free : \A g \in Free : f <= g

(* The bit field `used' of descriptor d.                                   *)
Used(d) == PRESENT \in word[d + 1]

(* get_page with make set: a new table is cleared, every word of it.       *)
get_page ==
    /\ ntables < MaxTables
    /\ LET fresh == ntables * PerTable .. (ntables + 1) * PerTable - 1
       IN /\ word' = [w \in Words |-> IF w \in fresh THEN {} ELSE word[w]]
          /\ accidents' = accidents \union
                IF \E w \in fresh : PRESENT \in word[w] THEN {"forgotten"} ELSE {}
    /\ ntables' = ntables + 1
    /\ UNCHANGED <<bitmap, mapped, booted, holds>>

(* map_page and get_physaddr, called with the address of descriptor d.     *)
map_page(f, d) == mapped' = [mapped EXCEPT ![TableOf(d)] = f]

get_physaddr(d) == mapped[TableOf(d)]

(* A fault in alloc_frame: the frame is not marked in the bitmap.          *)
AllocNoMark(d, kernel) ==
    /\ ~ Used(d)
    /\ word' = [word EXCEPT ![d + 1] = {PRESENT, USER} \union
                                       IF kernel THEN {RW} ELSE {}]
    /\ map_page(first_free_frame, d)
    /\ holds' = [holds EXCEPT ![d] = first_free_frame]
    /\ accidents' = accidents \union IF Free = {} THEN {"exhausted"} ELSE {}
    /\ UNCHANGED <<bitmap, ntables>>

(* used := 1, kernel_page := is_kernel and ref_count := 1 are the bits     *)
(* PRESENT, RW and USER of the next entry.  The test for an exhausted      *)
(* bitmap compares with 0xFFFFFFFF, which first_free_frame never returns.  *)
(* A descriptor in use is left alone.                                      *)
alloc_frame(d, kernel) ==
    /\ ~ Used(d)
    /\ bitmap' = bitmap \union {first_free_frame}
    /\ word' = [word EXCEPT ![d + 1] = {PRESENT, USER} \union
                                       IF kernel THEN {RW} ELSE {}]
    /\ map_page(first_free_frame, d)
    /\ holds' = [holds EXCEPT ![d] = first_free_frame]
    /\ accidents' = accidents \union IF Free = {} THEN {"exhausted"} ELSE {}
    /\ UNCHANGED ntables

(* A fault in free_frame: the bitmap is left alone.                        *)
FreeKeepsBit(d) ==
    /\ Used(d)
    /\ word' = [word EXCEPT ![d + 1] = @ \ {PRESENT, USER}]
    /\ holds' = [holds EXCEPT ![d] = NoFrame]
    /\ UNCHANGED <<bitmap, accidents, ntables, mapped, booted>>

(* The frame that is cleared is the one the descriptor's page is mapped    *)
(* to.  kernel_page keeps its value.                                       *)
free_frame(d) ==
    /\ Used(d)
    /\ bitmap' = bitmap \ {get_physaddr(d)}
    /\ word' = [word EXCEPT ![d + 1] = @ \ {PRESENT, USER}]
    /\ holds' = [holds EXCEPT ![d] = NoFrame]
    /\ accidents' = accidents \union
          IF get_physaddr(d) # holds[d] THEN {"misfreed"} ELSE {}
    /\ UNCHANGED <<ntables, mapped, booted>>

-----------------------------------------------------------------------------
(* init_memory, up to the loop of init_paging; the first get_page of that  *)
(* loop has created table 0.                                               *)
FramesInit ==
    /\ bitmap = 0 .. Reserved - 1
    /\ word = [w \in Words |-> {}]
    /\ ntables = 1
    /\ mapped = [t \in Tables |-> NoFrame]
    /\ booted = 0
    /\ holds = [d \in Descs |-> NoFrame]
    /\ accidents = {}

(* The loop of init_paging: a kernel frame for each entry of table 0.      *)
init_paging ==
    /\ booted < PerTable
    /\ alloc_frame(booted, TRUE)
    /\ booted' = booted + 1

(* Calls after the boot, on descriptors of existing tables.                *)
Live == {d \in Descs : TableOf(d) < ntables}

AllocFrame ==
    /\ booted = PerTable
    /\ \E d \in Live, kernel \in BOOLEAN : alloc_frame(d, kernel)
    /\ UNCHANGED booted

Release ==
    /\ booted = PerTable
    /\ \E d \in Live : free_frame(d)

NewTable == booted = PerTable /\ get_page

FramesNext == init_paging \/ AllocFrame \/ Release \/ NewTable

FramesSpec == FramesInit /\ [][FramesNext]_frameVars

-----------------------------------------------------------------------------
FramesTypeOK ==
    /\ bitmap \subseteq Frame
    /\ word \in [Words -> SUBSET Bits]
    /\ ntables \in 1 .. MaxTables
    /\ mapped \in [Tables -> Frame \union {NoFrame}]
    /\ booted \in 0 .. PerTable
    /\ holds \in [Descs -> Frame \union {NoFrame}]
    /\ accidents \subseteq {"exhausted", "misfreed", "forgotten"}

Held == {d \in Descs : holds[d] # NoFrame}

(* Two descriptors hold the same frame, a descriptor holds a reserved      *)
(* frame, or a held frame is marked free, only after the bitmap ran out    *)
(* (memory.c:75) or after free_frame released a frame that another         *)
(* descriptor of the table was given (memory.c:110-111).                   *)
HeldOnce ==
    (accidents \intersect {"exhausted", "misfreed"} = {}) =>
        /\ \A d, e \in Held : holds[d] = holds[e] => d = e
        /\ \A d \in Held : holds[d] \in bitmap /\ holds[d] >= Reserved

(* The bitmap marks the reserved and the held frames and nothing else:     *)
(* frames leak only when a new table clears the `used' bit of the last     *)
(* descriptor of the table before it (memory.c:214) or after one of the    *)
(* accidents above.                                                        *)
BitmapExact ==
    (accidents = {}) =>
        bitmap = (0 .. Reserved - 1) \union {holds[d] : d \in Held}
=============================================================================
