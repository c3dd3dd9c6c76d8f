-------------------------------- MODULE Heap --------------------------------
(***************************************************************************)
(* The kernel heap, src/kernel/mm/memory.c: a bump allocator over a static *)
(* array.  Neither of the two versions of kfree (memory.c, memory_ext.c)   *)
(* gives memory back: one is a stub, the other searches a list that        *)
(* nothing is ever added to.                                               *)
(***************************************************************************)
EXTENDS Integers, FiniteSets

CONSTANTS
    Base,          \* the address of kernel_heap
    Page,          \* the alignment of kmalloc_aligned (0x1000)
    AddrModulus,   \* addresses are uint32_t: 2^32
    CopySize,      \* what krealloc assumes an old block holds (256)
    Sizes,         \* the sizes callers ask for, of 32 bits like addresses
    MaxBlocks      \* bound on the blocks allocated

ASSUME HeapAssumption ==
    /\ Page \in Nat \ {0}
    /\ AddrModulus \in Nat \ {0} /\ AddrModulus % Page = 0
    /\ Base \in Nat \ {0} /\ Base < AddrModulus
    /\ CopySize \in Nat
    /\ Sizes \subseteq 0 .. AddrModulus - 1
    /\ MaxBlocks \in Nat

NULL == 0
Addr == 0 .. AddrModulus - 1

VARIABLES
    heap_end,
    mem,       \* the byte at each address: what the last writer left there
    blocks,    \* history: the blocks handed out, [addr, size]
    wrapped    \* history: heap_end has passed the end of the address space

vars == <<heap_end, mem, blocks, wrapped>>

Bytes(b) == b.addr .. b.addr + b.size - 1

-----------------------------------------------------------------------------
(* (heap_end + 0x1000) & 0xFFFFF000, before it wraps.                      *)
Round(align, end) ==
    IF align /\ end % Page # 0 THEN end + Page - (end % Page) ELSE end

(* A fault in kmalloc_internal: what the alignment skipped is not counted. *)
AllocUnrounded(size, align) ==
    LET start == Round(align, heap_end)
    IN /\ heap_end' = (heap_end + size) % AddrModulus
       /\ blocks' = blocks \union {[addr |-> start % AddrModulus, size |-> size]}
       /\ wrapped' = (wrapped \/ start + size >= AddrModulus)

(* kmalloc and kmalloc_aligned.  HEAP_SIZE is not consulted.               *)
kmalloc_internal(size, align) ==
    LET start == Round(align, heap_end)
    IN /\ heap_end' = (start + size) % AddrModulus
       /\ blocks' = blocks \union {[addr |-> start % AddrModulus, size |-> size]}
       /\ wrapped' = (wrapped \/ start + size >= AddrModulus)

(* memcpy: byte by byte, upwards, over addresses that may overlap.         *)
memcpy(m, dest, src, n) ==
    LET copy[i \in 0 .. n] ==
          IF i = 0 THEN m
          ELSE [copy[i - 1] EXCEPT ![(dest + i - 1) % AddrModulus] =
                                     copy[i - 1][(src + i - 1) % AddrModulus]]
    IN copy[n]

(* copy_size: the old size is not known.                                   *)
CopiedBytes(size) == IF size < CopySize THEN size ELSE CopySize

-----------------------------------------------------------------------------
Init ==
    /\ heap_end = Base
    /\ mem = [a \in Addr |-> 0]
    /\ blocks = {}
    /\ wrapped = FALSE

Alloc ==
    /\ Cardinality(blocks) < MaxBlocks
    /\ \E size \in Sizes, align \in BOOLEAN : kmalloc_internal(size, align)
    /\ UNCHANGED mem

(* krealloc of a NULL pointer is kmalloc; a size of zero is kfree, which   *)
(* changes nothing.  The old block stays where it is.                      *)
krealloc(old, size) ==
    /\ size # 0
    /\ kmalloc_internal(size, FALSE)
    /\ mem' = IF heap_end = NULL
              THEN mem
              ELSE memcpy(mem, heap_end, old.addr, CopiedBytes(size))

Realloc ==
    /\ Cardinality(blocks) < MaxBlocks
    /\ \E old \in blocks, size \in Sizes : old.addr # NULL /\ krealloc(old, size)

(* The owner of a block writes its bytes.                                  *)
Write ==
    /\ \E b \in blocks :
          mem' = [a \in Addr |-> IF a \in Bytes(b) THEN 1 ELSE mem[a]]
    /\ UNCHANGED <<heap_end, blocks, wrapped>>

Next == Alloc \/ Realloc \/ Write

Spec == Init /\ [][Next]_vars

-----------------------------------------------------------------------------
(* `mem' is a function on all addresses throughout.                        *)
TypeOK ==
    /\ heap_end \in Addr
    /\ blocks \subseteq [addr : Addr, size : Nat]
    /\ wrapped \in BOOLEAN

(* Blocks handed out by different calls share no byte, and nothing beyond  *)
(* heap_end has been handed out, until the 32-bit end of the heap wraps    *)
(* (memory.c:257-273).                                                     *)
BlocksDisjoint ==
    ~ wrapped =>
        /\ \A b \in blocks : b.addr >= Base /\ b.addr + b.size <= heap_end
        /\ \A b, c \in blocks :
              b # c => \/ b.addr + b.size <= c.addr
                       \/ c.addr + c.size <= b.addr

(* A freed block is never handed out again: heap_end only grows, so a      *)
(* pointer kept after kfree (process.c:111, syscall.c:176) still reads     *)
(* memory that no other block owns.                                        *)
NeverReused ==
    [][~ wrapped' => \A b \in blocks' \ blocks, c \in blocks :
          b.addr >= c.addr + c.size]_vars
=============================================================================
