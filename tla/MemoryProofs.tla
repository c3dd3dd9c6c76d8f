--------------------------- MODULE MemoryProofs ---------------------------
(***************************************************************************)
(* The kernel heap never hands out a byte twice before its 32-bit end      *)
(* wraps, and the access control list that lives in it is, through every   *)
(* copy, failure and foreign write, the list of the entries added and not  *)
(* removed: for every heap address, alignment, set of sizes and entries.   *)
(* The frame allocator gives every frame out once and keeps an exact       *)
(* bitmap until one of its accidents happens, for every memory size and    *)
(* every number of page tables.                                            *)
(***************************************************************************)
EXTENDS Acl, Frames, TLAPS, WellFoundedInduction

(* The blocks are disjoint because each one ends where heap_end then was;  *)
(* that heap_end is not below the heap carries the bound on the first.     *)
IInv == TypeOK /\ BlocksDisjoint /\ (~ wrapped => heap_end >= Base)

(* Rounding for alignment never moves down (memory.c:259-261).             *)
LEMMA RoundUp ==
    ASSUME NEW align \in BOOLEAN, NEW end \in Nat
    PROVE  Round(align, end) \in Nat /\ Round(align, end) >= end
<1>1. end % Page \in 0 .. Page - 1
  BY HeapAssumption
<1>2. end + Page - (end % Page) \in Nat /\ end + Page - (end % Page) >= end
  BY <1>1, HeapAssumption
<1> QED
  BY <1>2 DEF Round

(* One allocation: the new block starts at or after the old heap_end.      *)
LEMMA AllocShape ==
    ASSUME IInv, NEW size \in Nat, NEW align \in BOOLEAN,
           kmalloc_internal(size, align)
    PROVE  /\ IInv'
           /\ ~ wrapped' =>
                \A b \in blocks' \ blocks, c \in blocks : b.addr >= c.addr + c.size
<1> DEFINE start == Round(align, heap_end)
           new == [addr |-> start % AddrModulus, size |-> size]
<1>1. /\ heap_end' = (start + size) % AddrModulus
      /\ blocks' = blocks \union {new}
      /\ wrapped' = (wrapped \/ start + size >= AddrModulus)
  BY DEF kmalloc_internal
<1>2. heap_end \in Nat /\ heap_end \in Addr /\ size \in Nat
  BY HeapAssumption DEF IInv, TypeOK, Addr
<1>3. start \in Nat /\ start >= heap_end
  BY <1>2, RoundUp
<1>n. new.addr = start % AddrModulus /\ new.size = size
  OBVIOUS
<1>4. TypeOK'
  <2>1. heap_end' \in Addr /\ start % AddrModulus \in Addr
    BY <1>1, <1>2, <1>3, HeapAssumption DEF Addr
  <2>2. new \in [addr : Addr, size : Nat]
    BY <2>1
  <2>3. wrapped' \in BOOLEAN
    BY <1>1
  <2> QED
    BY <1>1, <2>1, <2>2, <2>3 DEF IInv, TypeOK
<1> HIDE DEF start, new
<1>5. CASE wrapped'
  BY <1>4, <1>5 DEF IInv, BlocksDisjoint
<1>6. CASE ~ wrapped'
  <2>1. ~ wrapped /\ start + size < AddrModulus
    <3>1. ~ (wrapped \/ start + size >= AddrModulus)
      BY <1>1, <1>6, Zenon
    <3>2. ~ wrapped /\ ~ (start + size >= AddrModulus)
      BY <3>1, Zenon
    <3> QED
      BY <1>2, <1>3, <3>2, HeapAssumption
  <2>2. start % AddrModulus = start /\ (start + size) % AddrModulus = start + size
    BY <1>2, <1>3, <2>1, HeapAssumption
  <2>3. new.addr = start /\ new.size = size /\ heap_end' = start + size
    BY <1>1, <1>n, <2>2
  <2>4. /\ \A b \in blocks : b.addr >= Base /\ b.addr + b.size <= heap_end
        /\ \A b, c \in blocks :
              b # c => \/ b.addr + b.size <= c.addr
                       \/ c.addr + c.size <= b.addr
        /\ heap_end >= Base
    BY <2>1 DEF IInv, BlocksDisjoint
  <2>5. \A b \in blocks : b.addr \in Nat /\ b.size \in Nat
    <3> TAKE b \in blocks
    <3>1. b \in [addr : Addr, size : Nat]
      BY DEF IInv, TypeOK
    <3>2. b.addr \in Addr /\ b.size \in Nat
      BY <3>1
    <3>3. Addr \subseteq Nat
      BY HeapAssumption DEF Addr
    <3> QED
      BY <3>2, <3>3
  <2>6. \A b \in blocks : b.addr + b.size <= new.addr
    BY <1>2, <1>3, <2>3, <2>4, <2>5
  <2>7. heap_end' >= Base /\ new.addr >= Base /\ new.addr + new.size <= heap_end'
    BY <1>2, <1>3, <2>3, <2>4, HeapAssumption
  <2>8. \A b \in blocks' : b.addr >= Base /\ b.addr + b.size <= heap_end'
    BY <1>1, <1>2, <1>3, <2>3, <2>4, <2>5, <2>7
  <2>9. \A b, c \in blocks' :
           b # c => \/ b.addr + b.size <= c.addr
                    \/ c.addr + c.size <= b.addr
    BY <1>1, <2>4, <2>6
  <2>10. \A b \in blocks' \ blocks, c \in blocks : b.addr >= c.addr + c.size
    <3>1. \A b \in blocks' \ blocks : b = new
      BY <1>1
    <3>2. \A c \in blocks : new.addr >= c.addr + c.size
      BY <1>3, <2>3, <2>5, <2>6
    <3> QED
      BY <3>1, <3>2
  <2> QED
    BY <1>4, <2>7, <2>8, <2>9, <2>10 DEF IInv, BlocksDisjoint
<1> QED
  BY <1>5, <1>6

(* A step either allocates one block or leaves the blocks alone.           *)
LEMMA Step ==
    ASSUME [Next]_vars
    PROVE  \/ \E size \in Nat, align \in BOOLEAN : kmalloc_internal(size, align)
           \/ UNCHANGED <<heap_end, blocks, wrapped>>
<1>0. Sizes \subseteq Nat
  BY HeapAssumption
<1>1. CASE Alloc
  BY <1>0, <1>1 DEF Alloc
<1>2. CASE Realloc
  BY <1>0, <1>2 DEF Realloc, krealloc
<1>3. CASE Write
  BY <1>3 DEF Write
<1>4. CASE UNCHANGED vars
  BY <1>4 DEF vars
<1> QED
  BY <1>1, <1>2, <1>3, <1>4 DEF Next

LEMMA StepPreserves == IInv /\ [Next]_vars => IInv'
<1> SUFFICES ASSUME IInv, [Next]_vars PROVE IInv'
  OBVIOUS
<1>1. CASE \E size \in Nat, align \in BOOLEAN : kmalloc_internal(size, align)
  BY <1>1, AllocShape
<1>2. CASE UNCHANGED <<heap_end, blocks, wrapped>>
  BY <1>2 DEF IInv, TypeOK, BlocksDisjoint
<1> QED
  BY <1>1, <1>2, Step

LEMMA Start == Init => IInv
<1> SUFFICES ASSUME Init PROVE IInv
  OBVIOUS
<1>1. heap_end \in Addr /\ heap_end >= Base
  BY HeapAssumption DEF Init, Addr
<1>2. blocks = {} /\ wrapped = FALSE
  BY DEF Init
<1>3. TypeOK
  BY <1>1, <1>2 DEF TypeOK
<1>4. BlocksDisjoint
  BY <1>2 DEF BlocksDisjoint
<1> QED
  BY <1>1, <1>3, <1>4 DEF IInv

LEMMA Invariance == Spec => []IInv
  BY Start, StepPreserves, PTL DEF Spec

(* No two blocks of kmalloc, kmalloc_aligned or krealloc overlap           *)
(* (memory.c:257-289), for every layout of the heap.                       *)
THEOREM BlocksDisjointAlways == Spec => []BlocksDisjoint
<1>1. IInv => BlocksDisjoint
  BY DEF IInv
<1> QED
  BY <1>1, Invariance, PTL

(* A new block lies above every block handed out before, freed or not      *)
(* (memory.c:350-358).                                                     *)
THEOREM NeverReusedAlways == Spec => NeverReused
<1> DEFINE Above == ~ wrapped' => \A b \in blocks' \ blocks, c \in blocks :
                                      b.addr >= c.addr + c.size
<1>1. ASSUME IInv, [Next]_vars PROVE [Above]_vars
  <2>1. CASE \E size \in Nat, align \in BOOLEAN : kmalloc_internal(size, align)
    BY <1>1, <2>1, AllocShape
  <2>2. CASE UNCHANGED <<heap_end, blocks, wrapped>>
    BY <2>2
  <2> QED
    BY <1>1, <2>1, <2>2, Step
<1> QED
  BY <1>1, Invariance, PTL DEF Spec, NeverReused

-----------------------------------------------------------------------------
(***************************************************************************)
(* memcpy.                                                                 *)
(***************************************************************************)
(* The least element of a set of numbers.                                  *)
LEMMA Least ==
    ASSUME NEW S \in SUBSET Nat, S # {}
    PROVE  \E n \in S : \A m \in S : n <= m
<1>1. PICK n \in S : \A m \in S : ~ (<<m, n>> \in OpToRel(<, Nat))
  BY NatLessThanWellFounded, WFMin
<1>2. \A m \in S : n <= m
  <2> TAKE m \in S
  <2>1. <<m, n>> \in Nat \X Nat /\ ~ (<<m, n>> \in OpToRel(<, Nat))
    BY <1>1
  <2>2. ~ (m < n)
    BY <2>1 DEF OpToRel
  <2> QED
    BY <2>2
<1> QED
  BY <1>2

(* Induction over 0 .. n: a set that holds 0 and each successor holds n.   *)
LEMMA Reaches ==
    ASSUME NEW n \in Nat, NEW S, 0 \in S,
           \A i \in 1 .. n : i - 1 \in S => i \in S
    PROVE  n \in S
<1> DEFINE T == {i \in 0 .. n : i \notin S}
<1> SUFFICES ASSUME T # {} PROVE FALSE
  OBVIOUS
<1>1. PICK k \in T : \A j \in T : k <= j
  <2>1. T \in SUBSET Nat
    OBVIOUS
  <2> QED BY <2>1, Least
<1>2. k \in 1 .. n /\ k - 1 \in 0 .. n /\ ~(k <= k - 1)
  OBVIOUS
<1>3. k - 1 \in S
  BY <1>1, <1>2
<1> QED BY <1>1, <1>2, <1>3

(* An address of 32 bits.                                                  *)
LEMMA Address ==
    /\ \A a \in Addr : a \in Nat /\ a % AddrModulus = a
    /\ \A a \in Nat : a % AddrModulus \in Addr /\ (a < AddrModulus => a \in Addr)
BY HeapAssumption DEF Addr

(* The stores of memcpy, one by one.                                       *)
CopyOne(c, dest, src, i) ==
    [c EXCEPT ![(dest + i - 1) % AddrModulus] = c[(src + i - 1) % AddrModulus]]

Copies(f, m, dest, src, n) ==
    f = [i \in 0 .. n |-> IF i = 0 THEN m ELSE CopyOne(f[i - 1], dest, src, i)]

LEMMA CopiesExist ==
    ASSUME NEW m, NEW dest, NEW src, NEW n \in Nat
    PROVE  \E f : Copies(f, m, dest, src, n)
<1> DEFINE S == {k \in 0 .. n : \E f : Copies(f, m, dest, src, k)}
<1>1. 0 \in S
  <2>1. Copies([i \in 0 .. 0 |-> m], m, dest, src, 0)
    BY DEF Copies
  <2> QED BY <2>1
<1>2. ASSUME NEW k \in 1 .. n, k - 1 \in S PROVE k \in S
  <2>1. PICK g : Copies(g, m, dest, src, k - 1)
    BY <1>2
  <2> DEFINE f == [i \in 0 .. k |-> IF i = k THEN CopyOne(g[k - 1], dest, src, k) ELSE g[i]]
  <2>2. \A i \in 0 .. k - 1 : f[i] = g[i]
    OBVIOUS
  <2>3. f[0] = m
    BY <2>1, <2>2 DEF Copies
  <2>4. ASSUME NEW i \in 1 .. k
        PROVE  f[i] = CopyOne(f[i - 1], dest, src, i)
    <3>1. CASE i = k
      BY <2>2, <3>1
    <3>2. CASE i # k
      <4>1. i \in 0 .. k - 1 /\ i - 1 \in 0 .. k - 1 /\ i # 0
        BY <3>2
      <4> HIDE DEF f
      <4> QED BY <2>1, <2>2, <4>1 DEF Copies
    <3> QED BY <3>1, <3>2
  <2>5. f = [i \in 0 .. k |-> f[i]]
    OBVIOUS
  <2> HIDE DEF f
  <2>6. \A i \in 0 .. k : f[i] = IF i = 0 THEN m ELSE CopyOne(f[i - 1], dest, src, i)
    BY <2>3, <2>4
  <2>7. f = [i \in 0 .. k |-> IF i = 0 THEN m ELSE CopyOne(f[i - 1], dest, src, i)]
    BY <2>5, <2>6, Zenon
  <2>8. Copies(f, m, dest, src, k)
    BY <2>7, Zenon DEF Copies
  <2> QED BY <2>8
<1> HIDE DEF S
<1>3. n \in S
  BY <1>1, <1>2, Reaches
<1> QED BY <1>3 DEF S

LEMMA MemcpyRuns ==
    ASSUME NEW m, NEW dest, NEW src, NEW n \in Nat
    PROVE  \E f : Copies(f, m, dest, src, n) /\ memcpy(m, dest, src, n) = f[n]
<1>1. PICK g : Copies(g, m, dest, src, n)
  BY CopiesExist
<1> QED BY <1>1, Zenon DEF memcpy, Copies, CopyOne

(* What memcpy does to memory: nothing outside its destination, and a copy *)
(* in it when the source lies before the destination.                      *)
LEMMA MemcpyShape ==
    ASSUME NEW m \in [Addr -> Nat], NEW dest \in Nat, NEW src \in Nat, NEW n \in Nat,
           dest + n <= AddrModulus
    PROVE  LET r == memcpy(m, dest, src, n)
           IN /\ r \in [Addr -> Nat]
              /\ \A a \in Addr : a < dest \/ a >= dest + n => r[a] = m[a]
              /\ src + n <= dest => \A j \in 0 .. n - 1 : r[dest + j] = m[src + j]
<1>1. PICK f : Copies(f, m, dest, src, n) /\ memcpy(m, dest, src, n) = f[n]
  BY MemcpyRuns
<1>2. f[0] = m /\ \A i \in 1 .. n : f[i] = CopyOne(f[i - 1], dest, src, i)
  BY <1>1 DEF Copies
<1> DEFINE Done(i) ==
             /\ f[i] \in [Addr -> Nat]
             /\ \A a \in Addr : a < dest \/ a >= dest + i => f[i][a] = m[a]
             /\ src + n <= dest => \A j \in 0 .. i - 1 : f[i][dest + j] = m[src + j]
           S == {i \in 0 .. n : Done(i)}
<1>3. 0 \in S
  BY <1>2
<1>4. ASSUME NEW i \in 1 .. n, i - 1 \in S PROVE i \in S
  <2> DEFINE k == dest + i - 1
             v == f[i - 1][(src + i - 1) % AddrModulus]
  <2>1. Done(i - 1)
    BY <1>4
  <2>2. k \in Addr /\ k % AddrModulus = k /\ (src + i - 1) % AddrModulus \in Addr /\ k >= dest
    <3>1. k \in Nat /\ k >= dest /\ k < AddrModulus /\ src + i - 1 \in Nat
      BY HeapAssumption
    <3> QED BY <3>1, Address
  <2>3. v \in Nat
    BY <2>1, <2>2
  <2>4. f[i] = [f[i - 1] EXCEPT ![k] = v]
    BY <1>2, <2>2 DEF CopyOne
  <2>5. src + n <= dest => v = m[src + i - 1]
    <3> SUFFICES ASSUME src + n <= dest PROVE v = m[src + i - 1]
      OBVIOUS
    <3>1. /\ (src + i - 1) % AddrModulus = src + i - 1
          /\ src + i - 1 \in Addr /\ src + i - 1 < dest
      <4>1. src + i - 1 \in Nat /\ src + i - 1 < dest /\ src + i - 1 < AddrModulus
        BY HeapAssumption
      <4> QED BY <4>1, Address
    <3> QED BY <2>1, <3>1
  <2> HIDE DEF v
  <2>6. f[i] \in [Addr -> Nat]
    BY <2>1, <2>2, <2>3, <2>4
  <2>7. ASSUME NEW a \in Addr, a < dest \/ a >= dest + i PROVE f[i][a] = m[a]
    <3>1. a # k /\ (a < dest \/ a >= dest + (i - 1))
      BY <2>7 DEF Addr
    <3> QED BY <2>1, <2>4, <3>1
  <2>8. ASSUME src + n <= dest, NEW j \in 0 .. i - 1 PROVE f[i][dest + j] = m[src + j]
    <3>1. CASE j = i - 1
      <4>1. dest + j = k /\ src + j = src + i - 1
        BY <3>1
      <4> QED BY <2>1, <2>2, <2>4, <2>5, <2>8, <4>1
    <3>2. CASE j # i - 1
      <4>1. j \in 0 .. (i - 1) - 1 /\ dest + j # k /\ dest + j \in Addr
        BY <3>2, HeapAssumption DEF Addr
      <4> QED BY <2>1, <2>4, <2>8, <4>1
    <3> QED BY <3>1, <3>2
  <2> QED BY <2>6, <2>7, <2>8
<1> HIDE DEF S
<1>5. n \in S
  BY <1>3, <1>4, Reaches
<1> QED BY <1>1, <1>5 DEF S

LEMMA MemcpyBefore ==
    ASSUME NEW m \in [Addr -> Nat], NEW dest \in Nat, NEW src \in Nat, NEW n \in Nat,
           dest + n <= AddrModulus, src + n <= dest
    PROVE  /\ memcpy(m, dest, src, n) \in [Addr -> Nat]
           /\ \A a \in Addr : a < dest => memcpy(m, dest, src, n)[a] = m[a]
           /\ \A j \in 0 .. n - 1 : memcpy(m, dest, src, n)[dest + j] = m[src + j]
<1> DEFINE r == memcpy(m, dest, src, n)
<1>1. /\ r \in [Addr -> Nat]
      /\ \A a \in Addr : a < dest \/ a >= dest + n => r[a] = m[a]
      /\ src + n <= dest => \A j \in 0 .. n - 1 : r[dest + j] = m[src + j]
  BY MemcpyShape, Zenon
<1> HIDE DEF r
<1>2. /\ r \in [Addr -> Nat] /\ \A a \in Addr : a < dest => r[a] = m[a]
      /\ \A j \in 0 .. n - 1 : r[dest + j] = m[src + j]
  BY <1>1, Zenon
<1> QED BY <1>2 DEF r

-----------------------------------------------------------------------------
(***************************************************************************)
(* The blocks of acl.c.                                                    *)
(***************************************************************************)
Above == ~ wrapped' => \A b \in blocks' \ blocks, c \in blocks : b.addr >= c.addr + c.size

(* The two blocks of a protected resource.                                 *)
LEMMA ProtectShape ==
    ASSUME IInv, NEW e, acl_protect(e)
    PROVE  IInv' /\ Above
<1> DEFINE end == heap_end + ResourceSize + IF heap_end = NULL THEN 0 ELSE 1
           b1 == Block(heap_end, ResourceSize)
           b2 == Block((heap_end + ResourceSize) % AddrModulus, 1)
<1>1. /\ heap_end' = end % AddrModulus
      /\ wrapped' = (wrapped \/ end >= AddrModulus)
      /\ blocks' = blocks \union IF heap_end = NULL THEN {b1} ELSE {b1, b2}
  BY DEF acl_protect
<1>2. /\ heap_end \in Addr /\ heap_end \in Nat /\ ResourceSize \in Nat
      /\ AddrModulus \in Nat /\ end \in Nat /\ heap_end + ResourceSize \in Nat
      /\ blocks \subseteq [addr : Addr, size : Nat]
  BY HeapAssumption, AclAssumption DEF IInv, TypeOK, Addr
<1>3. /\ b1 \in [addr : Addr, size : Nat] /\ b1.addr = heap_end /\ b1.size = ResourceSize
      /\ b2 \in [addr : Addr, size : Nat] /\ b2.size = 1
      /\ b2.addr = (heap_end + ResourceSize) % AddrModulus
  BY <1>2, Address DEF Block
<1> HIDE DEF b1, b2
<1>4. TypeOK'
  <2>1. heap_end' \in Addr
    BY <1>1, <1>2, Address
  <2>2. wrapped' \in BOOLEAN
    BY <1>1
  <2>3. blocks' \subseteq [addr : Addr, size : Nat]
    BY <1>1, <1>2, <1>3
  <2> QED BY <2>1, <2>2, <2>3 DEF TypeOK
<1>5. CASE wrapped'
  BY <1>4, <1>5 DEF IInv, BlocksDisjoint, Above
<1>6. CASE ~ wrapped'
  <2>1. ~ wrapped /\ ~(end >= AddrModulus)
    <3>1. ~ (wrapped \/ end >= AddrModulus)
      BY <1>1, <1>6, Zenon
    <3> QED BY <3>1, Zenon
  <2>2. /\ \A b \in blocks : b.addr >= Base /\ b.addr + b.size <= heap_end
        /\ \A b, c \in blocks :
              b # c => \/ b.addr + b.size <= c.addr
                       \/ c.addr + c.size <= b.addr
        /\ heap_end >= Base
    BY <2>1 DEF IInv, BlocksDisjoint
  <2>3. heap_end # NULL /\ end = heap_end + ResourceSize + 1
    BY <1>2, <2>2, HeapAssumption DEF NULL
  <2>4. end < AddrModulus /\ heap_end + ResourceSize < AddrModulus
    BY <1>2, <2>1, <2>3
  <2>5. heap_end' = end /\ b2.addr = heap_end + ResourceSize /\ blocks' = blocks \union {b1, b2}
    <3>1. end \in Addr /\ heap_end + ResourceSize \in Addr
      BY <1>2, <2>4, Address
    <3> QED BY <1>1, <1>3, <2>3, <3>1, Address
  <2>6. \A b \in blocks : b.addr \in Nat /\ b.size \in Nat
    BY <1>2, Address
  <2> HIDE DEF end
  <2>7. \A b \in blocks : b.addr + b.size <= b1.addr /\ b.addr + b.size <= b2.addr
    BY <1>2, <1>3, <2>2, <2>5, <2>6
  <2>8. b1.addr + b1.size <= b2.addr
    BY <1>2, <1>3, <2>5
  <2>9. /\ heap_end' >= Base
        /\ \A b \in blocks' : b.addr >= Base /\ b.addr + b.size <= heap_end'
    BY <1>2, <1>3, <2>2, <2>3, <2>5, <2>6, HeapAssumption
  <2>10. \A b, c \in blocks' :
            b # c => \/ b.addr + b.size <= c.addr
                     \/ c.addr + c.size <= b.addr
    BY <2>2, <2>5, <2>7, <2>8
  <2>11. \A b \in blocks' \ blocks, c \in blocks : b.addr >= c.addr + c.size
    <3>1. \A b \in blocks' \ blocks : b = b1 \/ b = b2
      BY <2>5
    <3>2. \A c \in blocks : b1.addr >= c.addr + c.size /\ b2.addr >= c.addr + c.size
      BY <1>2, <1>3, <2>5, <2>6, <2>7
    <3> QED BY <3>1, <3>2
  <2> QED BY <1>4, <2>9, <2>10, <2>11 DEF IInv, BlocksDisjoint, Above
<1> QED BY <1>5, <1>6

(* What a step of the composition does to the blocks.                      *)
LEMMA AclHeapStep ==
    ASSUME IInv, acl_count \in Nat, [AclNext]_allVars
    PROVE  IInv' /\ Above
<1>0. Sizes \subseteq Nat
  BY HeapAssumption
<1>1. ASSUME NEW size \in Nat, NEW align \in BOOLEAN, kmalloc_internal(size, align)
      PROVE  IInv' /\ Above
  BY <1>1, AllocShape DEF Above
<1>2. CASE UNCHANGED <<heap_end, blocks, wrapped>>
  BY <1>2 DEF IInv, TypeOK, BlocksDisjoint, Above
<1>3. ASSUME NEW e \in Entries, acl_add_entry(e) PROVE IInv' /\ Above
  <2>1. kmalloc_internal(acl_count + 1, FALSE)
    BY <1>3, Zenon DEF acl_add_entry, NewArray
  <2>2. acl_count + 1 \in Nat
    OBVIOUS
  <2> QED BY <1>1, <2>1, <2>2
<1>4. ASSUME NEW u \in Users, NEW g \in Groups, acl_remove_entry(u, g) PROVE IInv' /\ Above
  <2>1. CASE acl_count = 1
    BY <1>2, <1>4, <2>1 DEF acl_remove_entry, vars
  <2>2. CASE acl_count # 1
    <3>1. kmalloc_internal(acl_count - 1, FALSE) /\ acl_count # 0
      BY <1>4, <2>2, Zenon DEF acl_remove_entry, NewArray
    <3>2. acl_count - 1 \in Nat
      BY <3>1
    <3> QED BY <1>1, <3>1, <3>2
  <2> QED BY <2>1, <2>2
<1>5. ASSUME NEW e \in Entries, acl_protect(e) PROVE IInv' /\ Above
  BY <1>5, ProtectShape
<1>6. CASE Others
  <2>1. CASE Alloc \/ Realloc
    BY <1>0, <1>1, <2>1 DEF Alloc, Realloc, krealloc
  <2>2. CASE OtherWrite
    BY <1>2, <2>2 DEF OtherWrite
  <2> QED BY <1>6, <2>1, <2>2 DEF Others
<1>7. CASE UNCHANGED allVars
  BY <1>2, <1>7 DEF allVars, vars
<1> QED BY <1>3, <1>4, <1>5, <1>6, <1>7 DEF AclNext

-----------------------------------------------------------------------------
(***************************************************************************)
(* The list.                                                               *)
(***************************************************************************)
(* The heap has not wrapped, or has been used up to its very last byte.    *)
Calm == ~ wrapped \/ heap_end = NULL
Top  == IF wrapped THEN AddrModulus ELSE heap_end

(* The array lies in memory that has been handed out, apart from the       *)
(* blocks of all other owners.                                             *)
Apart ==
    acl_count > 0 =>
        /\ acl >= Base /\ acl + acl_count <= Top
        /\ \A b \in blocks \ arrays :
              b.size > 0 => b.addr + b.size <= acl \/ acl + acl_count <= b.addr

ListInv ==
    /\ acl_count \in Nat
    /\ Calm => /\ mem \in [Addr -> Nat] /\ acl \in Addr
               /\ grants \in Seq(Nat) /\ Len(grants) = acl_count
               /\ acl = NULL <=> acl_count = 0
               /\ Apart
               /\ \A i \in 1 .. acl_count : mem[acl + i - 1] = grants[i]

(* Where an allocation of the heap leaves its end.                         *)
LEMMA TopAfter ==
    ASSUME IInv, ~ wrapped, NEW end \in Nat, end < 2 * AddrModulus,
           heap_end' = end % AddrModulus, wrapped' = (wrapped \/ end >= AddrModulus), Calm'
    PROVE  end <= AddrModulus /\ Top' = end
<1>1. CASE end < AddrModulus
  <2>1. ~ wrapped' /\ heap_end' = end
    <3>1. ~ (end >= AddrModulus) /\ end \in Addr
      BY <1>1, Address, HeapAssumption
    <3>2. ~ wrapped'
      BY <3>1, Zenon
    <3> QED BY <3>1, <3>2, Address
  <2> QED BY <1>1, <2>1, HeapAssumption DEF Top
<1>2. CASE end >= AddrModulus
  <2>1. wrapped'
    BY <1>2, Zenon
  <2>2. heap_end' = 0
    BY <2>1 DEF Calm, NULL
  <2>3. end - AddrModulus \in Addr /\ AddrModulus \in Nat
    BY <1>2, HeapAssumption DEF Addr
  <2>4. end % AddrModulus = end - AddrModulus
    BY <1>2, <2>3, HeapAssumption DEF Addr
  <2> QED BY <2>1, <2>2, <2>3, <2>4 DEF Top
<1> QED BY <1>1, <1>2, HeapAssumption

(* Alignment does not pass the end of the address space.                   *)
LEMMA RoundBelow ==
    ASSUME NEW align \in BOOLEAN, NEW end \in Addr
    PROVE  Round(align, end) <= AddrModulus
<1> DEFINE q == end \div Page
           r == end % Page
           k == AddrModulus \div Page
<1>1. /\ Page \in Nat \ {0} /\ end \in Nat /\ end < AddrModulus /\ AddrModulus \in Nat
  BY HeapAssumption DEF Addr
<1>2. q \in Nat /\ r \in 0 .. Page - 1 /\ end = q * Page + r
  BY <1>1
<1>3. k \in Nat /\ AddrModulus = k * Page
  BY <1>1, HeapAssumption
<1>4. Round(align, end) = end \/ Round(align, end) = end + Page - r
  BY DEF Round
<1> HIDE DEF q, r, k
<1>5. q < k
  <2> SUFFICES ASSUME q >= k PROVE FALSE
    BY <1>2, <1>3
  <2>1. q * Page >= k * Page
    BY <1>1, <1>2, <1>3
  <2> QED BY <1>1, <1>2, <1>3, <2>1
<1>6. (q + 1) * Page <= k * Page
  BY <1>1, <1>2, <1>3, <1>5
<1>7. (q + 1) * Page = q * Page + Page
  BY <1>1, <1>2
<1>8. q * Page \in Nat
  BY <1>1, <1>2
<1> QED BY <1>1, <1>2, <1>3, <1>4, <1>6, <1>7, <1>8

(* A step that leaves the list where it is.                                *)
LEMMA SameList ==
    ASSUME ListInv, Calm, UNCHANGED <<acl, acl_count, grants>>,
           Calm' => /\ mem' \in [Addr -> Nat] /\ Top' >= Top /\ Top' \in Nat /\ Top \in Nat
                    /\ \A b \in blocks' \ arrays' :
                          b.size > 0 => b \in blocks \ arrays \/ b.addr >= Top
                    /\ acl_count > 0 =>
                          \A a \in acl .. acl + acl_count - 1 : mem'[a] = mem[a],
           \A b \in blocks' : b.addr \in Nat /\ b.size \in Nat
    PROVE  ListInv'
<1> SUFFICES ASSUME Calm'
             PROVE  /\ mem' \in [Addr -> Nat]
                    /\ Apart'
                    /\ \A i \in 1 .. acl_count' : mem'[acl' + i - 1] = grants'[i]
  BY DEF ListInv
<1>1. acl_count \in Nat /\ acl \in Nat /\ Apart
  BY Address DEF ListInv
<1>2. Apart'
  <2> SUFFICES ASSUME acl_count > 0
               PROVE  /\ acl >= Base /\ acl + acl_count <= Top'
                      /\ \A b \in blocks' \ arrays' :
                            b.size > 0 => b.addr + b.size <= acl \/ acl + acl_count <= b.addr
    BY DEF Apart
  <2>1. acl >= Base /\ acl + acl_count <= Top
    BY <1>1 DEF Apart
  <2>2. acl + acl_count <= Top'
    BY <1>1, <2>1
  <2>3. ASSUME NEW b \in blocks' \ arrays', b.size > 0
        PROVE  b.addr + b.size <= acl \/ acl + acl_count <= b.addr
    <3>1. CASE b \in blocks \ arrays
      BY <1>1, <2>3, <3>1 DEF Apart
    <3>2. CASE b.addr >= Top
      BY <1>1, <2>1, <3>2
    <3> QED BY <2>3, <3>1, <3>2
  <2> QED BY <2>1, <2>2, <2>3
<1>3. ASSUME NEW i \in 1 .. acl_count PROVE mem'[acl + i - 1] = grants[i]
  <2>1. acl_count > 0 /\ acl + i - 1 \in acl .. acl + acl_count - 1
    BY <1>1
  <2>2. mem'[acl + i - 1] = mem[acl + i - 1]
    BY <2>1
  <2> QED BY <2>2 DEF ListInv
<1> QED BY <1>2, <1>3

(* A step that installs a new array at the old end of the heap.            *)
LEMMA NewList ==
    ASSUME IInv, ListInv, ~ wrapped, NEW k \in Nat \ {0},
           acl' = heap_end, acl_count' = k, heap_end # NULL,
           blocks' = blocks \union {Block(heap_end, k)},
           arrays' = arrays \union {Block(heap_end, k)},
           Calm' => /\ mem' \in [Addr -> Nat] /\ heap_end + k <= Top'
                    /\ grants' \in Seq(Nat) /\ Len(grants') = k
                    /\ \A i \in 1 .. k : mem'[heap_end + i - 1] = grants'[i]
    PROVE  ListInv'
<1> SUFFICES ASSUME Calm' PROVE Apart' /\ heap_end \in Addr
  BY DEF ListInv, NULL
<1>1. /\ heap_end \in Addr /\ heap_end \in Nat /\ heap_end >= Base
      /\ \A b \in blocks : b.addr + b.size <= heap_end
  BY Address DEF IInv, TypeOK, BlocksDisjoint
<1>2. \A b \in blocks' \ arrays' : b \in blocks
  OBVIOUS
<1> QED BY <1>1, <1>2 DEF Apart

(* kmalloc of an array: no alignment, and the block at the old end.        *)
LEMMA ArrayAt ==
    ASSUME IInv, NEW k \in Nat, NewArray(k)
    PROVE  /\ heap_end' = (heap_end + k) % AddrModulus
           /\ wrapped' = (wrapped \/ heap_end + k >= AddrModulus)
           /\ blocks' = blocks \union {Block(heap_end, k)}
           /\ arrays' = arrays \union {Block(heap_end, k)}
<1>1. kmalloc_internal(k, FALSE) /\ arrays' = arrays \union {Block(heap_end, k)}
  BY Zenon DEF NewArray
<1>2. Round(FALSE, heap_end) = heap_end
  BY Zenon DEF Round
<1>3. heap_end % AddrModulus = heap_end
  BY Address DEF IInv, TypeOK
<1> QED BY <1>1, <1>2, <1>3 DEF kmalloc_internal, Block

(* The facts about the end of the heap that every step starts from.        *)
LEMMA HeapEnd ==
    ASSUME IInv
    PROVE  /\ heap_end \in Addr /\ heap_end \in Nat /\ heap_end < AddrModulus
           /\ AddrModulus \in Nat /\ Top \in Nat
           /\ ~ wrapped => heap_end # NULL /\ Top = heap_end
           /\ wrapped => Top = AddrModulus
           /\ \A b \in blocks : b.addr \in Nat /\ b.size \in Nat
           /\ \A b \in blocks' : IInv' => b.addr \in Nat /\ b.size \in Nat
<1>1. heap_end \in Addr /\ heap_end \in Nat /\ heap_end < AddrModulus /\ AddrModulus \in Nat
  BY HeapAssumption DEF IInv, TypeOK, Addr
<1>2. ~ wrapped => heap_end # NULL
  BY <1>1, HeapAssumption DEF IInv, NULL
<1>3. Top \in Nat /\ (~ wrapped => Top = heap_end) /\ (wrapped => Top = AddrModulus)
  BY <1>1 DEF Top
<1>4. \A b \in blocks : b.addr \in Nat /\ b.size \in Nat
  BY Address DEF IInv, TypeOK
<1>5. \A b \in blocks' : IInv' => b.addr \in Nat /\ b.size \in Nat
  BY Address DEF IInv, TypeOK
<1> QED BY <1>1, <1>2, <1>3, <1>4, <1>5

(* A failed allocation, at address 0 of a heap that is used up.            *)
LEMMA FailedKeeps ==
    ASSUME IInv, IInv', ListInv, wrapped, heap_end = NULL, wrapped' = TRUE,
           UNCHANGED <<mem, acl, acl_count, grants>>,
           \A b \in blocks' \ arrays' : b \in blocks \ arrays \/ b.size = 0
    PROVE  ListInv'
<1>1. Calm
  BY DEF Calm
<1>2. /\ Top = AddrModulus /\ Top' = AddrModulus /\ AddrModulus \in Nat
      /\ \A b \in blocks' : b.addr \in Nat /\ b.size \in Nat
  BY HeapEnd DEF Top
<1>3. mem' \in [Addr -> Nat]
  BY <1>1 DEF ListInv
<1>4. \A b \in blocks' \ arrays' : b.size > 0 => b \in blocks \ arrays \/ b.addr >= Top
  BY <1>2
<1> QED BY <1>1, <1>2, <1>3, <1>4, SameList

(* A step that stores only beyond what the heap had handed out.            *)
LEMMA ListBelow ==
    ASSUME IInv, ListInv, Calm, ~ wrapped, UNCHANGED <<acl, acl_count, grants>>,
           Calm' => /\ mem' \in [Addr -> Nat] /\ Top' >= Top /\ Top' \in Nat
                    /\ \A a \in Addr : a < heap_end => mem'[a] = mem[a],
           Calm' => \A b \in blocks' \ arrays' :
                       b.size > 0 => b \in blocks \ arrays \/ b.addr >= Top,
           \A b \in blocks' : b.addr \in Nat /\ b.size \in Nat
    PROVE  ListInv'
<1>1. /\ heap_end \in Nat /\ heap_end < AddrModulus /\ AddrModulus \in Nat
      /\ Top \in Nat /\ Top = heap_end
  BY HeapEnd
<1>2. acl_count \in Nat /\ acl \in Addr
  BY DEF ListInv
<1>3. acl \in Nat
  BY <1>2, Address
<1>4. ASSUME Calm', acl_count > 0, NEW a \in acl .. acl + acl_count - 1 PROVE mem'[a] = mem[a]
  <2>1. acl + acl_count <= heap_end
    BY <1>1, <1>4 DEF ListInv, Apart
  <2>2. a \in Nat /\ a < heap_end /\ a < AddrModulus
    BY <1>1, <1>2, <1>3, <2>1
  <2>3. a \in Addr
    BY <2>2, Address
  <2> QED BY <1>4, <2>2, <2>3
<1> QED BY <1>1, <1>4, SameList

-----------------------------------------------------------------------------
LEMMA AddKeeps ==
    ASSUME IInv, IInv', ListInv, Calm, NEW e \in Entries, acl_add_entry(e)
    PROVE  ListInv'
<1> DEFINE n == acl_count
           k == acl_count + 1
<1>0. /\ heap_end \in Addr /\ heap_end \in Nat /\ heap_end < AddrModulus
      /\ AddrModulus \in Nat /\ Top \in Nat
      /\ n \in Nat /\ k \in Nat \ {0} /\ acl \in Addr /\ acl \in Nat /\ e \in Nat
      /\ mem \in [Addr -> Nat] /\ grants \in Seq(Nat) /\ Len(grants) = n
      /\ acl = NULL <=> n = 0
  <2>1. /\ heap_end \in Addr /\ heap_end \in Nat /\ heap_end < AddrModulus
        /\ AddrModulus \in Nat /\ Top \in Nat
    BY HeapEnd
  <2>2. /\ n \in Nat /\ acl \in Addr
        /\ mem \in [Addr -> Nat] /\ grants \in Seq(Nat) /\ Len(grants) = n
        /\ acl = NULL <=> n = 0
    BY DEF ListInv
  <2>3. acl \in Nat /\ e \in Nat /\ k \in Nat \ {0}
    BY <2>2, Address, AclAssumption
  <2> QED BY <2>1, <2>2, <2>3
<1>1. NewArray(k)
  BY Zenon DEF acl_add_entry
<1>2. /\ heap_end' = (heap_end + k) % AddrModulus
      /\ wrapped' = (wrapped \/ heap_end + k >= AddrModulus)
      /\ blocks' = blocks \union {Block(heap_end, k)}
      /\ arrays' = arrays \union {Block(heap_end, k)}
  BY <1>0, <1>1, ArrayAt
<1>3. CASE wrapped
  <2>1. heap_end = NULL /\ wrapped'
    BY <1>2, <1>3, Zenon DEF Calm
  <2>2. UNCHANGED <<mem, acl, acl_count, grants>>
    BY <2>1 DEF acl_add_entry
  <2>3. \A b \in blocks' \ arrays' : b \in blocks \ arrays
    BY <1>2
  <2>4. wrapped' = TRUE
    BY <2>1 DEF IInv, TypeOK
  <2> QED BY <1>3, <2>1, <2>2, <2>3, <2>4, FailedKeeps
<1>4. CASE ~ wrapped
  <2>1. heap_end # NULL /\ Top = heap_end
    BY <1>4, HeapEnd
  <2>2. /\ mem' = [memcpy(mem, heap_end, acl, n) EXCEPT ![(heap_end + n) % AddrModulus] = e]
        /\ acl' = heap_end /\ acl_count' = k /\ grants' = Append(grants, e)
    BY <2>1 DEF acl_add_entry
  <2>3. acl + n <= heap_end /\ k < AddrModulus
    <3>1. CASE n = 0
      BY <1>0, <3>1, HeapAssumption DEF NULL
    <3>2. CASE n # 0
      <4>1. acl >= Base /\ acl + n <= heap_end
        BY <1>0, <2>1, <3>2 DEF ListInv, Apart
      <4> QED BY <1>0, <4>1, HeapAssumption
    <3> QED BY <3>1, <3>2
  <2> HIDE DEF n, k
  <2>4. ASSUME Calm'
        PROVE  /\ mem' \in [Addr -> Nat] /\ heap_end + k <= Top'
               /\ grants' \in Seq(Nat) /\ Len(grants') = k
               /\ \A i \in 1 .. k : mem'[heap_end + i - 1] = grants'[i]
    <3>1. heap_end + k <= AddrModulus /\ Top' = heap_end + k
      <4> DEFINE end == heap_end + k
      <4>1. end \in Nat /\ end < 2 * AddrModulus
        BY <1>0, <2>3
      <4>2. heap_end' = end % AddrModulus /\ wrapped' = (wrapped \/ end >= AddrModulus)
        BY <1>2
      <4> HIDE DEF end
      <4>3. end <= AddrModulus /\ Top' = end
        BY <1>4, <2>4, <4>1, <4>2, TopAfter
      <4> QED BY <4>3 DEF end
    <3> DEFINE r == memcpy(mem, heap_end, acl, n)
    <3>2. k = n + 1 /\ heap_end + n \in Addr /\ heap_end + n <= AddrModulus
      BY <1>0, <3>1 DEF k, n, Addr
    <3>3. /\ r \in [Addr -> Nat]
          /\ \A j \in 0 .. n - 1 : r[heap_end + j] = mem[acl + j]
      <4>1. /\ mem \in [Addr -> Nat] /\ heap_end \in Nat /\ acl \in Nat /\ n \in Nat
            /\ heap_end + n <= AddrModulus /\ acl + n <= heap_end
        BY <1>0, <2>3, <3>2
      <4> QED BY <4>1, MemcpyBefore
    <3> HIDE DEF r
    <3>4. mem' = [r EXCEPT ![heap_end + n] = e]
      <4>1. (heap_end + n) % AddrModulus = heap_end + n
        BY <3>2, Address
      <4> QED BY <2>2, <4>1 DEF r
    <3>5. mem' \in [Addr -> Nat]
      BY <1>0, <3>3, <3>4
    <3>6. /\ grants' \in Seq(Nat) /\ Len(grants') = k /\ grants'[k] = e
          /\ \A i \in 1 .. n : grants'[i] = grants[i]
      BY <1>0, <2>2, <3>2
    <3>7. ASSUME NEW i \in 1 .. k PROVE mem'[heap_end + i - 1] = grants'[i]
      <4>1. CASE i = k
        <5>1. heap_end + i - 1 = heap_end + n
          BY <1>0, <3>2, <4>1
        <5> QED BY <3>2, <3>3, <3>4, <3>6, <4>1, <5>1
      <4>2. CASE i # k
        <5>1. /\ i \in 1 .. n /\ i - 1 \in 0 .. n - 1
              /\ heap_end + i - 1 = heap_end + (i - 1)
              /\ acl + i - 1 = acl + (i - 1)
              /\ heap_end + (i - 1) # heap_end + n /\ heap_end + (i - 1) \in Addr
          BY <1>0, <3>2, <4>2 DEF Addr
        <5>2. mem'[heap_end + (i - 1)] = mem[acl + (i - 1)]
          BY <3>3, <3>4, <5>1
        <5>3. mem[acl + i - 1] = grants[i]
          BY <5>1 DEF ListInv, n
        <5> QED BY <3>6, <5>1, <5>2, <5>3
      <4> QED BY <4>1, <4>2
    <3> QED BY <1>0, <3>1, <3>5, <3>6, <3>7
  <2> QED BY <1>0, <1>2, <1>4, <2>1, <2>2, <2>4, NewList
<1> QED BY <1>3, <1>4

-----------------------------------------------------------------------------
(* The list as acl_remove_entry and acl_check_permission read it.          *)
LEMMA SlotIs ==
    ASSUME IInv, ListInv, Calm
    PROVE  \A i \in 1 .. acl_count : Slot(mem, acl, i - 1) = grants[i]
<1> SUFFICES ASSUME NEW i \in 1 .. acl_count PROVE Slot(mem, acl, i - 1) = grants[i]
  OBVIOUS
<1>0. acl_count \in Nat /\ acl \in Addr /\ mem[acl + i - 1] = grants[i]
  BY DEF ListInv
<1>1. acl_count \in Nat /\ acl_count > 0 /\ acl \in Nat /\ mem[acl + i - 1] = grants[i]
  BY <1>0, Address
<1>2. acl + acl_count <= Top /\ Top <= AddrModulus /\ AddrModulus \in Nat /\ Top \in Nat
  BY <1>1, HeapEnd DEF ListInv, Apart, Top
<1>3. acl + i - 1 \in Nat /\ acl + i - 1 < AddrModulus /\ acl + (i - 1) = acl + i - 1
  BY <1>1, <1>2
<1>4. (acl + (i - 1)) % AddrModulus = acl + i - 1
  BY <1>3, Address
<1> QED BY <1>1, <1>4 DEF Slot

LEMMA FirstIs ==
    ASSUME NEW S \in SUBSET Nat, S # {}
    PROVE  First(S) \in S /\ \A j \in S : First(S) <= j
<1>1. \E i \in S : \A j \in S : i <= j
  BY Least
<1> QED BY <1>1 DEF First

LEMMA RemoveAtShape ==
    ASSUME NEW s \in Seq(Nat), NEW k \in 1 .. Len(s)
    PROVE  /\ RemoveAt(s, k) \in Seq(Nat) /\ Len(RemoveAt(s, k)) = Len(s) - 1
           /\ \A j \in 1 .. Len(s) - 1 :
                 RemoveAt(s, k)[j] = IF j < k THEN s[j] ELSE s[j + 1]
<1> DEFINE a == SubSeq(s, 1, k - 1)
           b == SubSeq(s, k + 1, Len(s))
<1>0. Len(s) \in Nat
  OBVIOUS
<1>1. a \in Seq(Nat) /\ Len(a) = k - 1 /\ \A j \in 1 .. k - 1 : a[j] = s[j]
  <2> DEFINE m == k - 1
  <2>1. m \in Nat /\ m <= Len(s)
    BY <1>0
  <2> HIDE DEF m
  <2>2. /\ SubSeq(s, 1, m) \in Seq(Nat) /\ Len(SubSeq(s, 1, m)) = m
        /\ \A j \in 1 .. m : SubSeq(s, 1, m)[j] = s[j]
    BY <2>1
  <2> QED BY <2>2 DEF m
<1>2. b \in Seq(Nat) /\ Len(b) = Len(s) - k /\ \A j \in 1 .. Len(s) - k : b[j] = s[k + j]
  <2>1. k \in Nat /\ k + 1 <= Len(s) + 1
    BY <1>0
  <2>2. b \in Seq(Nat) /\ Len(b) = Len(s) - k
    BY <1>0, <2>1
  <2>3. \A j \in 1 .. Len(s) - k : b[j] = s[(k + 1) + j - 1] /\ (k + 1) + j - 1 = k + j
    BY <1>0, <2>1, <2>2
  <2> QED BY <2>2, <2>3
<1>3. RemoveAt(s, k) = a \o b
  BY DEF RemoveAt
<1> HIDE DEF a, b
<1>c. /\ a \o b \in Seq(Nat) /\ Len(a \o b) = Len(a) + Len(b)
      /\ \A j \in 1 .. Len(a) + Len(b) :
            (a \o b)[j] = IF j <= Len(a) THEN a[j] ELSE b[j - Len(a)]
  <2>1. a \in Seq(Nat) /\ b \in Seq(Nat)
    BY <1>1, <1>2
  <2> QED BY <2>1
<1>4. a \o b \in Seq(Nat) /\ Len(a \o b) = Len(s) - 1 /\ Len(a) + Len(b) = Len(s) - 1
  <2>1. (k - 1) + (Len(s) - k) = Len(s) - 1
    BY <1>0
  <2> QED BY <1>1, <1>2, <1>c, <2>1
<1>5. ASSUME NEW j \in 1 .. Len(s) - 1
      PROVE  (a \o b)[j] = IF j < k THEN s[j] ELSE s[j + 1]
  <2>1. CASE j < k
    <3>1. j \in 1 .. k - 1
      BY <1>0, <2>1
    <3>2. (a \o b)[j] = a[j]
      BY <1>0, <1>1, <1>4, <1>c, <3>1
    <3> QED BY <1>1, <2>1, <3>1, <3>2
  <2>2. CASE ~(j < k)
    <3>1. j - (k - 1) \in 1 .. Len(s) - k /\ k + (j - (k - 1)) = j + 1
      BY <1>0, <2>2
    <3>2. (a \o b)[j] = b[j - (k - 1)]
      <4>1. ~(j <= Len(a))
        BY <1>0, <1>1, <2>2
      <4> QED BY <1>1, <1>4, <1>c, <4>1
    <3> QED BY <1>2, <2>2, <3>1, <3>2
  <2> QED BY <2>1, <2>2
<1> QED BY <1>3, <1>4, <1>5

(* The position in the array and the one in the list of grants agree.      *)
LEMMA GoneIs ==
    ASSUME IInv, ListInv, Calm, NEW u, NEW g, Found(u, g) # {}
    PROVE  /\ First(Found(u, g)) \in 0 .. acl_count - 1
           /\ WithoutFirst(grants, u, g) = RemoveAt(grants, First(Found(u, g)) + 1)
<1> DEFINE F == Found(u, g)
           S == {i \in 1 .. Len(grants) : UserOf(grants[i]) = u /\ GroupOf(grants[i]) = g}
<1>1. acl_count \in Nat /\ Len(grants) = acl_count
  BY DEF ListInv
<1>2. \A i \in 1 .. acl_count : i \in S <=> i - 1 \in F
  <2> SUFFICES ASSUME NEW i \in 1 .. acl_count PROVE i \in S <=> i - 1 \in F
    OBVIOUS
  <2>1. i - 1 \in 0 .. acl_count - 1 /\ Slot(mem, acl, i - 1) = grants[i]
    BY <1>1, SlotIs
  <2> QED BY <1>1, <2>1 DEF Found
<1>3. F \in SUBSET Nat /\ F # {} /\ \A i \in F : i \in 0 .. acl_count - 1
  BY <1>1 DEF Found
<1>4. S \in SUBSET Nat /\ \A i \in S : i \in 1 .. acl_count
  BY <1>1
<1>5. WithoutFirst(grants, u, g) = IF S = {} THEN grants ELSE RemoveAt(grants, First(S))
  BY DEF WithoutFirst
<1> HIDE DEF F, S
<1>6. First(F) \in F /\ \A j \in F : First(F) <= j
  BY <1>3, FirstIs
<1>7. First(F) \in 0 .. acl_count - 1 /\ First(F) + 1 \in S
  <2>1. First(F) \in 0 .. acl_count - 1
    BY <1>3, <1>6
  <2>2. First(F) + 1 \in 1 .. acl_count /\ (First(F) + 1) - 1 = First(F)
    BY <1>1, <2>1
  <2> QED BY <1>2, <1>6, <2>1, <2>2
<1>8. First(S) \in S /\ \A j \in S : First(S) <= j
  BY <1>4, <1>7, FirstIs
<1>9. First(S) = First(F) + 1
  <2>1. First(S) \in 1 .. acl_count /\ First(S) - 1 \in F
    BY <1>2, <1>4, <1>8
  <2>2. First(F) <= First(S) - 1 /\ First(S) <= First(F) + 1
    BY <1>6, <1>7, <1>8, <2>1
  <2> QED BY <1>1, <1>7, <2>1, <2>2
<1> QED BY <1>5, <1>7, <1>9 DEF F

LEMMA RemoveKeeps ==
    ASSUME IInv, IInv', ListInv, Calm, NEW u, NEW g, acl_remove_entry(u, g)
    PROVE  ListInv'
<1> DEFINE n == acl_count
           k == acl_count - 1
           gone == First(Found(u, g))
<1>0. /\ heap_end \in Addr /\ heap_end \in Nat /\ heap_end < AddrModulus
      /\ AddrModulus \in Nat /\ Top \in Nat
  BY HeapEnd
<1>1. /\ n \in Nat /\ acl \in Nat /\ n # 0 /\ acl # NULL /\ Found(u, g) # {}
      /\ mem \in [Addr -> Nat] /\ grants \in Seq(Nat) /\ Len(grants) = n
  BY Address DEF ListInv, acl_remove_entry
<1>2. gone \in 0 .. n - 1 /\ WithoutFirst(grants, u, g) = RemoveAt(grants, gone + 1)
  BY <1>1, GoneIs
<1>3. /\ RemoveAt(grants, gone + 1) \in Seq(Nat) /\ Len(RemoveAt(grants, gone + 1)) = n - 1
      /\ \A j \in 1 .. n - 1 :
            RemoveAt(grants, gone + 1)[j] = IF j < gone + 1 THEN grants[j] ELSE grants[j + 1]
  <2>1. gone + 1 \in 1 .. Len(grants)
    BY <1>1, <1>2
  <2> QED BY <1>1, <2>1, RemoveAtShape
<1>4. CASE n = 1
  <2>1. /\ acl' = NULL /\ acl_count' = 0 /\ UNCHANGED <<heap_end, mem, wrapped>>
        /\ grants' = RemoveAt(grants, gone + 1)
    BY <1>2, <1>4 DEF acl_remove_entry, vars
  <2>2. grants' \in Seq(Nat) /\ Len(grants') = 0
    BY <1>3, <1>4, <2>1
  <2>3. NULL \in Addr /\ Apart'
    BY <2>1, HeapAssumption DEF NULL, Addr, Apart
  <2> QED BY <1>1, <2>1, <2>2, <2>3 DEF ListInv
<1>5. CASE n # 1
  <2>1. NewArray(k) /\ k \in Nat \ {0}
    <3>1. NewArray(k)
      BY <1>5, Zenon DEF acl_remove_entry
    <3> QED BY <1>1, <1>5, <3>1
  <2>2. /\ heap_end' = (heap_end + k) % AddrModulus
        /\ wrapped' = (wrapped \/ heap_end + k >= AddrModulus)
        /\ blocks' = blocks \union {Block(heap_end, k)}
        /\ arrays' = arrays \union {Block(heap_end, k)}
    BY <2>1, ArrayAt
  <2>3. CASE wrapped
    <3>1. heap_end = NULL /\ wrapped'
      BY <2>2, <2>3, Zenon DEF Calm
    <3>2. UNCHANGED <<mem, acl, acl_count, grants>>
      BY <1>5, <3>1 DEF acl_remove_entry
    <3>3. \A b \in blocks' \ arrays' : b \in blocks \ arrays
      BY <2>2
    <3>4. wrapped' = TRUE
      BY <3>1 DEF IInv, TypeOK
    <3> QED BY <2>3, <3>1, <3>2, <3>3, <3>4, FailedKeeps
  <2>4. CASE ~ wrapped
    <3> DEFINE first == memcpy(mem, heap_end, acl, gone)
               rest == n - 1 - gone
               both == memcpy(first, heap_end + gone, acl + gone + 1, rest)
    <3>1. heap_end # NULL /\ Top = heap_end
      BY <2>4, HeapEnd
    <3>2. /\ mem' = both /\ acl' = heap_end /\ acl_count' = k
          /\ grants' = RemoveAt(grants, gone + 1)
      BY <1>2, <1>5, <3>1 DEF acl_remove_entry
    <3>3. acl >= Base /\ acl + n <= heap_end
      BY <1>0, <1>1, <3>1 DEF ListInv, Apart
    <3>a. n > 0 /\ k = n - 1 /\ k < AddrModulus
      BY <1>0, <1>1, <3>3, HeapAssumption
    <3> HIDE DEF n, k, gone
    <3>4. ASSUME Calm'
          PROVE  /\ mem' \in [Addr -> Nat] /\ heap_end + k <= Top'
                 /\ grants' \in Seq(Nat) /\ Len(grants') = k
                 /\ \A i \in 1 .. k : mem'[heap_end + i - 1] = grants'[i]
      <4>1. heap_end + k <= AddrModulus /\ Top' = heap_end + k
        <5> DEFINE end == heap_end + k
        <5>1. end \in Nat /\ end < 2 * AddrModulus
          BY <1>0, <2>1, <3>a
        <5>2. heap_end' = end % AddrModulus /\ wrapped' = (wrapped \/ end >= AddrModulus)
          BY <2>2
        <5> HIDE DEF end
        <5>3. end <= AddrModulus /\ Top' = end
          BY <2>4, <3>4, <5>1, <5>2, TopAfter
        <5> QED BY <5>3 DEF end
      <4>2. /\ first \in [Addr -> Nat]
            /\ \A a \in Addr : a < heap_end => first[a] = mem[a]
            /\ \A j \in 0 .. gone - 1 : first[heap_end + j] = mem[acl + j]
        <5>1. /\ gone \in Nat /\ heap_end + gone <= AddrModulus /\ acl + gone <= heap_end
          BY <1>0, <1>1, <1>2, <3>3, <3>a, <4>1
        <5>2. mem \in [Addr -> Nat] /\ heap_end \in Nat /\ acl \in Nat
          BY <1>0, <1>1
        <5> QED BY <5>1, <5>2, MemcpyBefore, Zenon DEF first
      <4> HIDE DEF first
      <4>3. /\ both \in [Addr -> Nat]
            /\ \A a \in Addr : a < heap_end + gone => both[a] = first[a]
            /\ \A j \in 0 .. rest - 1 :
                  both[heap_end + gone + j] = first[acl + gone + 1 + j]
        <5> DEFINE d == heap_end + gone
                   c == acl + gone + 1
        <5>1. d \in Nat /\ c \in Nat /\ rest \in Nat /\ d + rest <= AddrModulus /\ c + rest <= d
          BY <1>0, <1>1, <1>2, <3>3, <3>a, <4>1
        <5> HIDE DEF d, c, rest
        <5>2. /\ memcpy(first, d, c, rest) \in [Addr -> Nat]
              /\ \A a \in Addr : a < d => memcpy(first, d, c, rest)[a] = first[a]
              /\ \A j \in 0 .. rest - 1 : memcpy(first, d, c, rest)[d + j] = first[c + j]
          BY <4>2, <5>1, MemcpyBefore
        <5> QED BY <5>2 DEF d, c
      <4> HIDE DEF both
      <4>4. grants' \in Seq(Nat) /\ Len(grants') = k
        BY <1>3, <3>2, <3>a
      <4>5. ASSUME NEW i \in 1 .. k PROVE both[heap_end + i - 1] = grants'[i]
        <5>0. \A j \in 1 .. n : mem[acl + j - 1] = grants[j]
          BY DEF ListInv, n
        <5>1. grants'[i] = IF i < gone + 1 THEN grants[i] ELSE grants[i + 1]
          BY <1>3, <3>2, <3>a
        <5>2. CASE i < gone + 1
          <6>1. /\ i - 1 \in 0 .. gone - 1 /\ i \in 1 .. n
                /\ heap_end + i - 1 = heap_end + (i - 1) /\ acl + i - 1 = acl + (i - 1)
                /\ heap_end + (i - 1) < heap_end + gone /\ heap_end + (i - 1) \in Addr
            BY <1>0, <1>1, <1>2, <3>a, <4>1, <5>2 DEF Addr
          <6>2. both[heap_end + (i - 1)] = mem[acl + (i - 1)]
            BY <4>2, <4>3, <6>1
          <6> QED BY <5>0, <5>1, <5>2, <6>1, <6>2
        <5>3. CASE ~(i < gone + 1)
          <6> DEFINE j == i - 1 - gone
          <6>1. /\ j \in 0 .. rest - 1 /\ i + 1 \in 1 .. n
                /\ heap_end + i - 1 = heap_end + gone + j
                /\ acl + gone + 1 + j = acl + (i + 1) - 1
                /\ acl + (i + 1) - 1 < heap_end /\ acl + (i + 1) - 1 \in Nat
            BY <1>0, <1>1, <1>2, <3>3, <3>a, <5>3
          <6>2. acl + (i + 1) - 1 \in Addr
            BY <1>0, <6>1, Address
          <6> HIDE DEF j, rest
          <6>3. both[heap_end + i - 1] = mem[acl + (i + 1) - 1]
            BY <4>2, <4>3, <6>1, <6>2
          <6> QED BY <5>0, <5>1, <5>3, <6>1, <6>3
        <5> QED BY <5>2, <5>3
      <4> QED BY <3>2, <4>1, <4>3, <4>4, <4>5, <1>0, <2>1
    <3> QED BY <2>1, <2>2, <2>4, <3>1, <3>2, <3>4, NewList
  <2> QED BY <2>3, <2>4
<1> QED BY <1>4, <1>5

-----------------------------------------------------------------------------
(* A protected resource lies behind the list.                              *)
LEMMA ProtectKeeps ==
    ASSUME IInv, IInv', ListInv, Calm, NEW e \in Entries, acl_protect(e)
    PROVE  ListInv'
<1>0. /\ heap_end \in Addr /\ heap_end \in Nat /\ heap_end < AddrModulus
      /\ AddrModulus \in Nat /\ Top \in Nat
      /\ \A b \in blocks' : b.addr \in Nat /\ b.size \in Nat
  BY HeapEnd
<1>1. UNCHANGED <<acl, acl_count, grants>> /\ \A b \in blocks' \ arrays' : b \in blocks \ arrays
  BY DEF acl_protect
<1>2. mem \in [Addr -> Nat] /\ e \in Nat /\ ResourceSize \in 1 .. AddrModulus - 1
  BY AclAssumption DEF ListInv
<1>3. CASE wrapped
  <2>1. heap_end = NULL
    BY <1>3 DEF Calm
  <2>2. wrapped' /\ mem' = mem
    BY <1>3, <2>1 DEF acl_protect
  <2>3. wrapped' = TRUE
    BY <2>2 DEF IInv, TypeOK
  <2> QED BY <1>1, <1>3, <2>1, <2>2, <2>3, FailedKeeps
<1>4. CASE ~ wrapped
  <2> DEFINE end == heap_end + ResourceSize + 1
             R == {(heap_end + i) % AddrModulus : i \in 0 .. ResourceSize - 1}
             f == [x \in Addr |-> IF x \in R THEN 1 ELSE mem[x]]
             entry == (heap_end + ResourceSize) % AddrModulus
  <2>1. heap_end # NULL /\ Top = heap_end
    BY <1>4, HeapEnd
  <2>2. /\ heap_end' = end % AddrModulus /\ wrapped' = (wrapped \/ end >= AddrModulus)
        /\ mem' = IF entry = NULL THEN f ELSE [f EXCEPT ![entry] = e]
    BY <2>1 DEF acl_protect, Filled
  <2>3. end \in Nat /\ end < 2 * AddrModulus
    BY <1>0, <1>2
  <2>4. ASSUME Calm'
        PROVE  /\ mem' \in [Addr -> Nat] /\ Top' >= Top /\ Top' \in Nat
               /\ \A a \in Addr : a < heap_end => mem'[a] = mem[a]
    <3>1. end <= AddrModulus /\ Top' = end
      <4> HIDE DEF end, f
      <4> QED BY <1>4, <2>2, <2>3, <2>4, TopAfter
    <3>2. \A i \in 0 .. ResourceSize : heap_end + i \in Addr /\ heap_end + i \in Nat
      BY <1>0, <1>2, <3>1 DEF Addr
    <3>3. \A x \in R : x >= heap_end
      <4> SUFFICES ASSUME NEW i \in 0 .. ResourceSize - 1
                   PROVE  (heap_end + i) % AddrModulus >= heap_end
        OBVIOUS
      <4>1. i \in 0 .. ResourceSize
        BY <1>2
      <4>2. (heap_end + i) % AddrModulus = heap_end + i
        BY <3>2, <4>1, Address
      <4> QED BY <1>0, <4>1, <4>2
    <3>4. entry \in Addr /\ entry >= heap_end
      <4>1. ResourceSize \in 0 .. ResourceSize
        BY <1>2
      <4>2. entry = heap_end + ResourceSize /\ entry \in Addr
        BY <3>2, <4>1, Address
      <4> QED BY <1>0, <1>2, <4>2
    <3> HIDE DEF R, entry
    <3>5. f \in [Addr -> Nat] /\ \A a \in Addr : a < heap_end => f[a] = mem[a]
      <4>1. \A a \in Addr : a < heap_end => a \notin R
        BY <1>0, <3>3, Address
      <4> QED BY <1>2, <4>1
    <3> HIDE DEF f
    <3>6. mem' \in [Addr -> Nat] /\ \A a \in Addr : a < heap_end => mem'[a] = mem[a]
      <4>1. \A a \in Addr : a < heap_end => a # entry
        BY <1>0, <3>4, Address
      <4> QED BY <1>2, <2>2, <3>4, <3>5, <4>1
    <3> QED BY <1>0, <1>2, <2>1, <2>3, <3>1, <3>6
  <2> HIDE DEF end, f, entry
  <2> QED BY <1>0, <1>1, <1>4, <2>1, <2>4, ListBelow
<1> QED BY <1>3, <1>4

(* The other owners of heap memory.                                        *)
LEMMA OthersKeep ==
    ASSUME IInv, IInv', ListInv, Calm, Others
    PROVE  ListInv'
<1>0. /\ heap_end \in Addr /\ heap_end \in Nat /\ heap_end < AddrModulus
      /\ AddrModulus \in Nat /\ Top \in Nat
      /\ \A b \in blocks' : b.addr \in Nat /\ b.size \in Nat
  BY HeapEnd
<1>1. UNCHANGED <<acl, acl_count, grants, arrays>>
  BY DEF Others, aclVars
<1>2. mem \in [Addr -> Nat] /\ acl_count \in Nat /\ acl \in Addr /\ acl \in Nat
  BY Address DEF ListInv
<1>3. ASSUME NEW size \in Sizes, NEW align \in BOOLEAN, kmalloc_internal(size, align),
             \/ mem' = mem
             \/ /\ align = FALSE /\ size # 0 /\ heap_end # NULL
                /\ \E src \in Nat : mem' = memcpy(mem, heap_end, src, CopiedBytes(size))
             \/ align = FALSE /\ size # 0 /\ heap_end = NULL /\ mem' = mem
      PROVE  ListInv'
  <2> DEFINE start == Round(align, heap_end)
             end == start + size
             new == [addr |-> start % AddrModulus, size |-> size]
  <2>1. /\ heap_end' = end % AddrModulus /\ blocks' = blocks \union {new}
        /\ wrapped' = (wrapped \/ end >= AddrModulus)
    BY <1>3 DEF kmalloc_internal
  <2>2. /\ size \in Nat /\ size < AddrModulus
        /\ start \in Nat /\ start >= heap_end /\ start <= AddrModulus
    BY <1>0, RoundUp, RoundBelow, HeapAssumption
  <2>3. CASE wrapped
    <3>1. heap_end = NULL /\ wrapped'
      BY <2>1, <2>3, Zenon DEF Calm
    <3>2. mem' = mem
      BY <1>3, <3>1
    <3>3. wrapped' = TRUE
      BY <3>1 DEF IInv, TypeOK
    <3>4. CASE ~ Calm'
      BY <1>1, <1>2, <3>4 DEF ListInv
    <3>5. CASE Calm'
      <4>1. start = 0
        BY <3>1, HeapAssumption DEF Round, NULL
      <4>2. end = size /\ size \in Addr
        <5>1. end = size
          BY <2>2, <4>1
        <5>2. size \in Addr
          BY <1>0, <2>2 DEF Addr
        <5> QED BY <5>1, <5>2
      <4>3. heap_end' = size
        BY <2>1, <4>2, Address
      <4>4. size = 0
        BY <3>1, <3>5, <4>3 DEF Calm, NULL
      <4>5. \A b \in blocks' \ arrays' : b \in blocks \ arrays \/ b.size = 0
        BY <1>1, <2>1, <4>4
      <4> QED BY <1>1, <2>3, <3>1, <3>2, <3>3, <4>5, FailedKeeps
    <3> QED BY <3>4, <3>5
  <2>4. CASE ~ wrapped
    <3>1. heap_end # NULL /\ Top = heap_end
      BY <2>4, HeapEnd
    <3>2. end \in Nat /\ end < 2 * AddrModulus
      BY <1>0, <2>2
    <3> HIDE DEF start, end, new
    <3>3. ASSUME Calm'
          PROVE  /\ mem' \in [Addr -> Nat] /\ Top' >= Top /\ Top' \in Nat
                 /\ \A a \in Addr : a < heap_end => mem'[a] = mem[a]
                 /\ \A b \in blocks' \ arrays' :
                       b.size > 0 => b \in blocks \ arrays \/ b.addr >= Top
      <4>1. end <= AddrModulus /\ Top' = end
        BY <2>1, <2>4, <3>2, <3>3, TopAfter
      <4>2. end = start + size
        BY DEF end
      <4>3. /\ mem' \in [Addr -> Nat]
            /\ \A a \in Addr : a < heap_end => mem'[a] = mem[a]
        <5>1. CASE mem' = mem
          BY <1>2, <5>1
        <5>2. CASE mem' # mem
          <6> DEFINE c == CopiedBytes(size)
          <6>1. PICK src \in Nat : mem' = memcpy(mem, heap_end, src, c)
            BY <1>3, <5>2
          <6>2. align = FALSE
            BY <1>3, <5>2
          <6>3. start = heap_end
            BY <6>2, Zenon DEF start, Round
          <6>4. c \in Nat /\ c <= size
            BY <2>2, HeapAssumption DEF CopiedBytes
          <6> HIDE DEF c
          <6>5. /\ mem \in [Addr -> Nat] /\ heap_end \in Nat /\ src \in Nat /\ c \in Nat
                /\ heap_end + c <= AddrModulus
            BY <1>0, <1>2, <2>2, <4>1, <4>2, <6>3, <6>4
          <6> DEFINE r == memcpy(mem, heap_end, src, c)
          <6>6. /\ r \in [Addr -> Nat]
                /\ \A a \in Addr : a < heap_end \/ a >= heap_end + c => r[a] = mem[a]
            BY <6>5, MemcpyShape, Zenon
          <6>7. mem' = r
            BY <6>1
          <6> HIDE DEF r
          <6> QED BY <6>6, <6>7
        <5> QED BY <5>1, <5>2
      <4>4. \A b \in blocks' \ arrays' :
               b.size > 0 => b \in blocks \ arrays \/ b.addr >= Top
        <5>1. new.size = size /\ new.addr = start % AddrModulus
          BY DEF new
        <5>2. size > 0 => new.addr >= Top
          <6> SUFFICES ASSUME size > 0 PROVE new.addr >= Top
            OBVIOUS
          <6>1. start < AddrModulus
            BY <1>0, <2>2, <4>1, <4>2
          <6>2. start % AddrModulus = start
            BY <2>2, <6>1, Address
          <6> QED BY <2>2, <3>1, <5>1, <6>2
        <5> QED BY <1>1, <2>1, <5>1, <5>2
      <4> QED BY <1>0, <2>2, <3>1, <3>2, <4>1, <4>2, <4>3, <4>4
    <3> QED BY <1>0, <1>1, <2>4, <3>1, <3>3, ListBelow
  <2> QED BY <2>3, <2>4
<1>4. CASE Alloc
  BY <1>3, <1>4 DEF Alloc
<1>5. CASE Realloc
  <2>1. PICK old \in blocks, size \in Sizes : old.addr # NULL /\ krealloc(old, size)
    BY <1>5 DEF Realloc
  <2>2. old.addr \in Nat
    BY HeapEnd
  <2>3. /\ size # 0 /\ kmalloc_internal(size, FALSE)
        /\ mem' = IF heap_end = NULL THEN mem
                  ELSE memcpy(mem, heap_end, old.addr, CopiedBytes(size))
    BY <2>1, Zenon DEF krealloc
  <2>4. \/ mem' = mem
        \/ /\ heap_end # NULL
           /\ \E src \in Nat : mem' = memcpy(mem, heap_end, src, CopiedBytes(size))
    BY <2>2, <2>3, Zenon
  <2> QED BY <1>3, <2>1, <2>3, <2>4, Zenon
<1>6. CASE OtherWrite
  <2>1. PICK b \in blocks \ arrays :
           mem' = [a \in Addr |-> IF a \in Bytes(b) THEN 1 ELSE mem[a]]
    BY <1>6 DEF OtherWrite
  <2>2. UNCHANGED <<heap_end, blocks, wrapped>> /\ b.addr \in Nat /\ b.size \in Nat
    BY <1>6, HeapEnd DEF OtherWrite
  <2>3. mem' \in [Addr -> Nat]
    BY <1>2, <2>1
  <2>4. ASSUME acl_count > 0, NEW a \in acl .. acl + acl_count - 1 PROVE mem'[a] = mem[a]
    <3>1. acl + acl_count <= Top /\ Top <= AddrModulus
      BY <1>0, <1>2, <2>4, HeapEnd DEF ListInv, Apart
    <3>2. a \in Nat /\ a \in Addr
      BY <1>0, <1>2, <3>1 DEF Addr
    <3>3. b.size > 0 => b.addr + b.size <= acl \/ acl + acl_count <= b.addr
      BY <2>1, <2>4 DEF ListInv, Apart
    <3>4. a \notin Bytes(b)
      BY <1>2, <2>2, <3>2, <3>3 DEF Bytes
    <3> QED BY <2>1, <3>2, <3>4
  <2>5. Top' = Top
    BY <2>2 DEF Top
  <2>6. \A c \in blocks' \ arrays' : c \in blocks \ arrays
    BY <1>1, <2>2
  <2>7. /\ mem' \in [Addr -> Nat] /\ Top' >= Top /\ Top' \in Nat /\ Top \in Nat
        /\ acl_count > 0 => \A a \in acl .. acl + acl_count - 1 : mem'[a] = mem[a]
    BY <1>0, <2>3, <2>4, <2>5
  <2> QED BY <1>0, <1>1, <2>6, <2>7, SameList
<1> QED BY <1>4, <1>5, <1>6 DEF Others

-----------------------------------------------------------------------------
AclInv == IInv /\ ListInv

LEMMA AclStart == AclInit => AclInv
<1> SUFFICES ASSUME AclInit PROVE AclInv
  OBVIOUS
<1>1. /\ heap_end = Base /\ blocks = {} /\ wrapped = FALSE
      /\ mem = [a \in Addr |-> 0]
      /\ acl = 0 /\ acl_count = 0 /\ grants = <<>>
  BY DEF AclInit, Init, NULL
<1>2. IInv
  BY Start DEF AclInit
<1>3. /\ acl_count \in Nat /\ acl \in Addr /\ (acl = NULL <=> acl_count = 0)
      /\ ~ (acl_count > 0) /\ 1 .. acl_count = {}
  BY <1>1, HeapAssumption DEF Addr, NULL
<1>4. mem \in [Addr -> Nat] /\ grants \in Seq(Nat) /\ Len(grants) = acl_count
  BY <1>1
<1> QED BY <1>2, <1>3, <1>4 DEF AclInv, ListInv, Apart

LEMMA AclNextKeeps == AclInv /\ [AclNext]_allVars => AclInv'
<1> SUFFICES ASSUME IInv, ListInv, [AclNext]_allVars PROVE IInv' /\ ListInv'
  BY DEF AclInv
<1>1. IInv'
  BY AclHeapStep DEF ListInv
<1>2. CASE UNCHANGED allVars
  <2>1. UNCHANGED <<heap_end, mem, blocks, wrapped, acl, acl_count, arrays, grants>>
    BY <1>2 DEF allVars, vars, aclVars
  <2>2. Calm' = Calm /\ Apart' = Apart
    BY <2>1 DEF Calm, Apart, Top
  <2>3. ListInv'
    BY <2>1, <2>2 DEF ListInv
  <2> QED BY <1>1, <2>3
<1>3. CASE AclNext
  <2>1. Calm
    BY <1>3 DEF AclNext, Calm
  <2>2. ASSUME NEW e \in Entries, acl_add_entry(e) PROVE ListInv'
    BY <1>1, <2>1, <2>2, AddKeeps
  <2>3. ASSUME NEW u \in Users, NEW g \in Groups, acl_remove_entry(u, g) PROVE ListInv'
    BY <1>1, <2>1, <2>3, RemoveKeeps
  <2>4. ASSUME NEW e \in Entries, acl_protect(e) PROVE ListInv'
    BY <1>1, <2>1, <2>4, ProtectKeeps
  <2>5. ASSUME Others PROVE ListInv'
    BY <1>1, <2>1, <2>5, OthersKeep
  <2> QED BY <1>1, <1>3, <2>2, <2>3, <2>4, <2>5 DEF AclNext
<1> QED BY <1>1, <1>2, <1>3

LEMMA AclInvariance == AclSpec => []AclInv
  BY AclStart, AclNextKeeps, PTL DEF AclSpec

(* What acl.c reads of the list is what was granted.                       *)
Read == Calm => \A i \in 1 .. acl_count : Slot(mem, acl, i - 1) = grants[i]

LEMMA AclReads == AclSpec => [](Read /\ ListInv)
<1>1. AclInv => Read /\ ListInv
  BY SlotIs DEF AclInv, Read
<1> QED BY <1>1, AclInvariance, PTL

(***************************************************************************)
(* The kernel heap under acl.c, which takes the addresses it is given as   *)
(* its own: no two blocks share a byte (memory.c:257-273).                 *)
(***************************************************************************)
THEOREM AclBlocksAlways == AclSpec => []BlocksDisjoint
<1>1. AclInv => BlocksDisjoint
  BY DEF AclInv, IInv
<1> QED BY <1>1, AclInvariance, PTL

(* And acl.c, which frees every array it replaces, is never given one of   *)
(* them again (acl.c:32, 56, 72, memory.c:350-358).                            *)
THEOREM AclNeverReusedAlways == AclSpec => NeverReused
<1> DEFINE Fresh == ~ wrapped' => \A b \in blocks' \ blocks, c \in blocks :
                                      b.addr >= c.addr + c.size
<1>1. AclInv /\ [AclNext]_allVars => [Fresh]_vars
  BY AclHeapStep DEF AclInv, ListInv, Above
<1>2. NeverReused <=> [][Fresh]_vars
  BY DEF NeverReused
<1> QED BY <1>1, <1>2, AclInvariance, PTL DEF AclSpec

(***************************************************************************)
(* The array that acl_add_entry and acl_remove_entry last stored holds the *)
(* entries added and not removed, oldest first, whatever the other users   *)
(* of the heap allocate, copy and write (acl.c:17-78).                     *)
(***************************************************************************)
THEOREM ListKeptAlways == AclSpec => []ListKept
<1>1. Read /\ ListInv => ListKept
  <2> SUFFICES ASSUME Read, ListInv, Calm
               PROVE  Listed(mem, acl, acl_count) = grants
    BY DEF ListKept, Calm
  <2>1. grants \in Seq(Nat) /\ Len(grants) = acl_count
    BY DEF ListInv
  <2>2. grants = [i \in 1 .. acl_count |-> grants[i]]
    BY <2>1
  <2>3. \A i \in 1 .. acl_count : Slot(mem, acl, i - 1) = grants[i]
    BY DEF Read
  <2> QED BY <2>2, <2>3, Zenon DEF Listed
<1> QED BY <1>1, AclReads, PTL

(***************************************************************************)
(* After acl_remove_entry of the only entry that names a user or a group,  *)
(* acl_check_permission grants that user of that group nothing             *)
(* (acl.c:36-97).                                                          *)
(***************************************************************************)
THEOREM RemovalRevokesAlways == AclSpec => RemovalRevokes
<1> DEFINE Revokes ==
      \A u \in Users \ {ROOT}, g \in Groups :
         (/\ Len(grants') < Len(grants)
          /\ grants' = WithoutFirst(grants, u, g)
          /\ ~ wrapped'
          /\ \A i \in 1 .. Len(grants') :
                UserOf(grants'[i]) # u /\ GroupOf(grants'[i]) # g)
         => \A perm \in PermBits :
               ~ acl_check_permission(mem', acl', acl_count', u, g, perm)
<1>1. Read' /\ ListInv' => Revokes
  <2> SUFFICES ASSUME Read', ListInv', NEW u \in Users \ {ROOT}, NEW g \in Groups, ~ wrapped',
                      \A i \in 1 .. Len(grants') :
                         UserOf(grants'[i]) # u /\ GroupOf(grants'[i]) # g,
                      NEW perm \in PermBits,
                      acl_check_permission(mem', acl', acl_count', u, g, perm)
               PROVE  FALSE
    BY Zenon
  <2>1. Calm'
    BY DEF Calm
  <2>2. PICK i \in 0 .. acl_count' - 1 :
           UserOf(Slot(mem', acl', i)) = u \/ GroupOf(Slot(mem', acl', i)) = g
    BY Zenon DEF acl_check_permission
  <2>3. acl_count' \in Nat /\ Len(grants') = acl_count'
    BY <2>1 DEF ListInv
  <2>4. i + 1 \in 1 .. acl_count' /\ (i + 1) - 1 = i
    <3> DEFINE n == acl_count'
    <3>1. n \in Nat /\ i \in 0 .. n - 1
      BY <2>2, <2>3
    <3> HIDE DEF n
    <3>2. i + 1 \in 1 .. n /\ (i + 1) - 1 = i
      BY <3>1
    <3> QED BY <3>2 DEF n
  <2>5. Slot(mem', acl', i) = grants'[i + 1]
    BY <2>1, <2>4 DEF Read
  <2> QED BY <2>2, <2>3, <2>4, <2>5
<1>2. RemovalRevokes <=> [][Revokes]_allVars
  BY DEF RemovalRevokes
<1> QED BY <1>1, <1>2, AclReads, PTL

-----------------------------------------------------------------------------
(***************************************************************************)
(* The frame allocator.                                                    *)
(***************************************************************************)
(* The bitmap has not run out and no wrong frame was released.             *)
NoMishap == accidents \intersect {"exhausted", "misfreed"} = {}

(* No reserved frame is ever marked free.                                  *)
ReservedKept == NoMishap => 0 .. Reserved - 1 \subseteq bitmap

(* The `used' bits and the frames held agree until a bit is forgotten.     *)
UsedExact ==
    (accidents = {}) => \A d \in Descs : Used(d) <=> holds[d] # NoFrame

(* HeldOnce needs ReservedKept, or a free frame could be a reserved one;   *)
(* BitmapExact needs UsedExact, or alloc_frame could overwrite a holder.   *)
FramesInv == FramesTypeOK /\ ReservedKept /\ HeldOnce /\ UsedExact /\ BitmapExact

(* The scan finds a free frame whenever there is one (memory.c:64-76).     *)
LEMMA FirstFree ==
    ASSUME Free # {}
    PROVE  first_free_frame \in Free
<1>1. Free \subseteq Nat
  BY FramesAssumption DEF Free, Scanned, Frame
<1>2. \E x \in Free : \A y \in Free : x <= y
  BY <1>1, Least
<1> QED
  BY <1>2 DEF first_free_frame

(* A successful alloc_frame keeps the invariant.                           *)
LEMMA AllocPreserves ==
    ASSUME FramesInv, NEW d \in Descs, NEW kernel \in BOOLEAN,
           alloc_frame(d, kernel), booted' \in 0 .. PerTable
    PROVE  FramesInv'
<1> DEFINE f == first_free_frame
<1>1. /\ ~ Used(d)
      /\ bitmap' = bitmap \union {f}
      /\ word' = [word EXCEPT ![d + 1] = {PRESENT, USER} \union
                                         IF kernel THEN {RW} ELSE {}]
      /\ mapped' = [mapped EXCEPT ![TableOf(d)] = f]
      /\ holds' = [holds EXCEPT ![d] = f]
      /\ accidents' = accidents \union IF Free = {} THEN {"exhausted"} ELSE {}
      /\ UNCHANGED ntables
  BY DEF alloc_frame, map_page
<1>2. FramesTypeOK /\ ReservedKept /\ HeldOnce /\ UsedExact /\ BitmapExact
  BY DEF FramesInv
<1>3. f \in Frame
  <2>1. CASE Free = {}
    BY <2>1, FramesAssumption DEF first_free_frame, Frame
  <2>2. CASE Free # {}
    BY <2>2, FirstFree DEF Free, Scanned
  <2> QED
    BY <2>1, <2>2
<1> HIDE DEF f
<1>4. FramesTypeOK'
  <2>1. {PRESENT, USER} \union (IF kernel THEN {RW} ELSE {}) \in SUBSET Bits
    BY DEF Bits
  <2>2. word' \in [Words -> SUBSET Bits]
    BY <1>1, <1>2, <2>1 DEF FramesTypeOK
  <2>3. mapped' \in [Tables -> Frame \union {NoFrame}]
    BY <1>1, <1>2, <1>3 DEF FramesTypeOK
  <2>4. holds' \in [Descs -> Frame \union {NoFrame}]
    BY <1>1, <1>2, <1>3 DEF FramesTypeOK
  <2>5. accidents' \subseteq {"exhausted", "misfreed", "forgotten"}
    BY <1>1, <1>2 DEF FramesTypeOK
  <2>6. bitmap' \subseteq Frame
    BY <1>1, <1>2, <1>3 DEF FramesTypeOK
  <2> QED
    BY <1>1, <1>2, <2>2, <2>3, <2>4, <2>5, <2>6 DEF FramesTypeOK
<1>5. NoMishap' => NoMishap /\ Free # {}
  BY <1>1 DEF NoMishap
<1>6. NoMishap' => /\ f \notin bitmap
                /\ f >= Reserved
  <2> SUFFICES ASSUME NoMishap' PROVE f \notin bitmap /\ f >= Reserved
    OBVIOUS
  <2>1. f \in Free
    BY <1>5, FirstFree DEF f
  <2>2. f \notin bitmap
    BY <2>1 DEF Free
  <2>3. f \notin 0 .. Reserved - 1
    BY <1>2, <1>5, <2>2 DEF ReservedKept
  <2> QED
    BY <1>3, <2>2, <2>3, FramesAssumption DEF Frame
<1>7. ReservedKept'
  BY <1>1, <1>2, <1>5 DEF ReservedKept
<1>8. HeldOnce'
  <2> SUFFICES ASSUME NoMishap'
               PROVE /\ \A a, b \in Held' : holds'[a] = holds'[b] => a = b
                     /\ \A a \in Held' : holds'[a] \in bitmap' /\ holds'[a] >= Reserved
    BY DEF HeldOnce, NoMishap
  <2>1. \A a \in Held' : a # d => a \in Held /\ holds'[a] = holds[a]
    BY <1>1, <1>2 DEF Held, FramesTypeOK
  <2>2. holds'[d] = f
    BY <1>1, <1>2 DEF FramesTypeOK
  <2>3. \A a \in Held : holds[a] \in bitmap /\ holds[a] >= Reserved
    BY <1>2, <1>5 DEF HeldOnce, NoMishap
  <2>4. \A a, b \in Held : holds[a] = holds[b] => a = b
    BY <1>2, <1>5 DEF HeldOnce, NoMishap
  <2> QED
    BY <1>1, <1>5, <1>6, <2>1, <2>2, <2>3, <2>4
<1>9. UsedExact'
  <2> SUFFICES ASSUME accidents' = {}, NEW a \in Descs
               PROVE Used(a)' <=> holds'[a] # NoFrame
    BY DEF UsedExact
  <2>1. accidents = {}
    BY <1>1
  <2>2. f # NoFrame
    BY <1>3, FramesAssumption DEF Frame, NoFrame
  <2>3. a \in Nat /\ d \in Nat /\ a + 1 \in Words /\ d + 1 \in Words
    BY FramesAssumption DEF Descs, Words
  <2>4. CASE a = d
    <3>1. word'[d + 1] = {PRESENT, USER} \union (IF kernel THEN {RW} ELSE {})
      BY <1>1, <1>2, <2>3 DEF FramesTypeOK
    <3>2. Used(a)'
      BY <2>4, <3>1 DEF Used
    <3> QED
      BY <1>1, <1>2, <2>2, <2>4, <3>2 DEF FramesTypeOK
  <2>5. CASE a # d
    <3>1. a + 1 # d + 1
      BY <2>3, <2>5
    <3>2. word'[a + 1] = word[a + 1] /\ holds'[a] = holds[a]
      BY <1>1, <1>2, <2>3, <2>5, <3>1 DEF FramesTypeOK
    <3> QED
      BY <1>2, <2>1, <3>2 DEF UsedExact, Used
  <2> QED
    BY <2>4, <2>5
<1>10. BitmapExact'
  <2> SUFFICES ASSUME accidents' = {}
               PROVE bitmap' = (0 .. Reserved - 1) \union {holds'[a] : a \in Held'}
    BY DEF BitmapExact
  <2>1. accidents = {}
    BY <1>1
  <2>2. bitmap = (0 .. Reserved - 1) \union {holds[a] : a \in Held}
    BY <1>2, <2>1 DEF BitmapExact
  <2>3. f # NoFrame /\ holds[d] = NoFrame
    BY <1>1, <1>2, <1>3, <2>1, FramesAssumption DEF UsedExact, Frame, NoFrame
  <2>4. Held' = Held \union {d} /\ d \notin Held
    BY <1>1, <1>2, <2>3 DEF Held, FramesTypeOK
  <2>5. holds'[d] = f /\ \A a \in Held : holds'[a] = holds[a]
    BY <1>1, <1>2, <2>4 DEF Held, FramesTypeOK
  <2>6. {holds'[a] : a \in Held'} = {holds[a] : a \in Held} \union {f}
    BY <2>4, <2>5
  <2> QED
    BY <1>1, <2>2, <2>6
<1> QED
  BY <1>4, <1>7, <1>8, <1>9, <1>10 DEF FramesInv

(* free_frame keeps the invariant: a wrong release is an accident.         *)
LEMMA FreePreserves ==
    ASSUME FramesInv, NEW d \in Descs, free_frame(d)
    PROVE  FramesInv'
<1> DEFINE f == mapped[TableOf(d)]
<1>1. /\ bitmap' = bitmap \ {f}
      /\ word' = [word EXCEPT ![d + 1] = @ \ {PRESENT, USER}]
      /\ holds' = [holds EXCEPT ![d] = NoFrame]
      /\ accidents' = accidents \union IF f # holds[d] THEN {"misfreed"} ELSE {}
      /\ UNCHANGED <<ntables, mapped, booted>>
  BY DEF free_frame, get_physaddr
<1>2. FramesTypeOK /\ ReservedKept /\ HeldOnce /\ UsedExact /\ BitmapExact
  BY DEF FramesInv
<1> HIDE DEF f
<1>d. d \in Nat /\ d + 1 \in Words
  BY FramesAssumption DEF Descs, Words
<1>3. FramesTypeOK'
  <2>1. word[d + 1] \in SUBSET Bits
    BY <1>2, <1>d DEF FramesTypeOK
  <2>2. word' \in [Words -> SUBSET Bits]
    BY <1>1, <1>2, <2>1 DEF FramesTypeOK
  <2>3. holds' \in [Descs -> Frame \union {NoFrame}]
    BY <1>1, <1>2 DEF FramesTypeOK
  <2>4. accidents' \subseteq {"exhausted", "misfreed", "forgotten"}
    BY <1>1, <1>2 DEF FramesTypeOK
  <2> QED
    BY <1>1, <1>2, <2>2, <2>3, <2>4 DEF FramesTypeOK
<1>4. NoMishap' => NoMishap /\ f = holds[d]
  BY <1>1 DEF NoMishap
<1>5. holds'[d] = NoFrame /\ \A a \in Descs : a # d => holds'[a] = holds[a]
  BY <1>1, <1>2 DEF FramesTypeOK
<1>6. Held' = Held \ {d}
  BY <1>5 DEF Held
<1>7. ReservedKept'
  <2> SUFFICES ASSUME NoMishap' PROVE 0 .. Reserved - 1 \subseteq bitmap'
    BY DEF ReservedKept
  <2>1. 0 .. Reserved - 1 \subseteq bitmap
    BY <1>2, <1>4 DEF ReservedKept
  <2>2. f \notin 0 .. Reserved - 1
    <3>1. CASE d \in Held
      BY <1>2, <1>4, <3>1, FramesAssumption DEF HeldOnce, NoMishap
    <3>2. CASE d \notin Held
      BY <1>4, <3>2, FramesAssumption DEF Held, NoFrame
    <3> QED
      BY <3>1, <3>2
  <2> QED
    BY <1>1, <2>1, <2>2
<1>8. HeldOnce'
  <2> SUFFICES ASSUME NoMishap'
               PROVE /\ \A a, b \in Held' : holds'[a] = holds'[b] => a = b
                     /\ \A a \in Held' : holds'[a] \in bitmap' /\ holds'[a] >= Reserved
    BY DEF HeldOnce, NoMishap
  <2>1. /\ \A a \in Held : holds[a] \in bitmap /\ holds[a] >= Reserved
        /\ \A a, b \in Held : holds[a] = holds[b] => a = b
    BY <1>2, <1>4 DEF HeldOnce, NoMishap
  <2>2. \A a \in Held' : a \in Held /\ a # d /\ holds'[a] = holds[a]
    BY <1>5, <1>6 DEF Held
  <2>3. \A a \in Held' : holds[a] # f
    <3> TAKE a \in Held'
    <3>1. CASE d \in Held
      BY <1>4, <2>1, <2>2, <3>1
    <3>2. CASE d \notin Held
      BY <1>4, <2>2, <3>2 DEF Held
    <3> QED
      BY <3>1, <3>2
  <2> QED
    BY <1>1, <2>1, <2>2, <2>3
<1>9. UsedExact'
  <2> SUFFICES ASSUME accidents' = {}, NEW a \in Descs
               PROVE Used(a)' <=> holds'[a] # NoFrame
    BY DEF UsedExact
  <2>1. accidents = {}
    BY <1>1
  <2>2. a \in Nat /\ a + 1 \in Words
    BY FramesAssumption DEF Descs, Words
  <2>3. CASE a = d
    <3>1. PRESENT \notin word'[d + 1]
      BY <1>1, <1>2, <1>d DEF FramesTypeOK
    <3> QED
      BY <1>5, <2>3, <3>1 DEF Used
  <2>4. CASE a # d
    <3>1. a + 1 # d + 1
      BY <1>d, <2>2, <2>4
    <3>2. word'[a + 1] = word[a + 1]
      BY <1>1, <1>2, <2>2, <3>1 DEF FramesTypeOK
    <3> QED
      BY <1>2, <1>5, <2>1, <2>4, <3>2 DEF UsedExact, Used
  <2> QED
    BY <2>3, <2>4
<1>10. BitmapExact'
  <2> SUFFICES ASSUME accidents' = {}
               PROVE bitmap' = (0 .. Reserved - 1) \union {holds'[a] : a \in Held'}
    BY DEF BitmapExact
  <2>1. accidents = {} /\ NoMishap' /\ Used(d)
    BY <1>1 DEF NoMishap, free_frame
  <2>2. bitmap = (0 .. Reserved - 1) \union {holds[a] : a \in Held}
    BY <1>2, <2>1 DEF BitmapExact
  <2>3. d \in Held /\ f = holds[d]
    BY <1>2, <1>4, <2>1 DEF UsedExact, Held
  <2>4. /\ \A a \in Held : holds[a] \in bitmap /\ holds[a] >= Reserved
        /\ \A a, b \in Held : holds[a] = holds[b] => a = b
    BY <1>2, <1>4, <2>1 DEF HeldOnce, NoMishap
  <2>5. f \notin 0 .. Reserved - 1
    BY <2>3, <2>4, FramesAssumption
  <2>6. \A a \in Held' : a \in Held /\ a # d /\ holds'[a] = holds[a]
    BY <1>5, <1>6 DEF Held
  <2>7. {holds'[a] : a \in Held'} = {holds[a] : a \in Held} \ {f}
    BY <1>6, <2>3, <2>4, <2>6
  <2> QED
    BY <1>1, <2>2, <2>5, <2>7
<1> QED
  BY <1>3, <1>7, <1>8, <1>9, <1>10 DEF FramesInv

(* A new table clears words: a cleared `used' bit is an accident.          *)
LEMMA TablePreserves ==
    ASSUME FramesInv, get_page
    PROVE  FramesInv'
<1> DEFINE fresh == ntables * PerTable .. (ntables + 1) * PerTable - 1
<1>1. /\ ntables < MaxTables
      /\ word' = [w \in Words |-> IF w \in fresh THEN {} ELSE word[w]]
      /\ accidents' = accidents \union
            IF \E w \in fresh : PRESENT \in word[w] THEN {"forgotten"} ELSE {}
      /\ ntables' = ntables + 1
      /\ UNCHANGED <<bitmap, mapped, booted, holds>>
  BY DEF get_page
<1>2. FramesTypeOK /\ ReservedKept /\ HeldOnce /\ UsedExact /\ BitmapExact
  BY DEF FramesInv
<1> HIDE DEF fresh
<1>3. FramesTypeOK'
  <2>1. word' \in [Words -> SUBSET Bits]
    BY <1>1, <1>2 DEF FramesTypeOK
  <2>2. ntables' \in 1 .. MaxTables
    BY <1>1, <1>2, FramesAssumption DEF FramesTypeOK
  <2>3. accidents' \subseteq {"exhausted", "misfreed", "forgotten"}
    BY <1>1, <1>2 DEF FramesTypeOK
  <2> QED
    BY <1>1, <1>2, <2>1, <2>2, <2>3 DEF FramesTypeOK
<1>4. NoMishap' <=> NoMishap
  BY <1>1 DEF NoMishap
<1>5. ReservedKept'
  BY <1>1, <1>2, <1>4 DEF ReservedKept
<1>6. HeldOnce'
  <2>1. Held' = Held
    BY <1>1 DEF Held
  <2> QED
    BY <1>1, <1>2, <1>4, <2>1 DEF HeldOnce, NoMishap
<1>7. accidents' = {} =>
         accidents = {} /\ \A w \in fresh : PRESENT \notin word[w]
  BY <1>1
<1>8. UsedExact'
  <2> SUFFICES ASSUME accidents' = {}, NEW a \in Descs
               PROVE Used(a)' <=> holds'[a] # NoFrame
    BY DEF UsedExact
  <2>1. a + 1 \in Words
    BY FramesAssumption DEF Descs, Words
  <2>2. PRESENT \in word'[a + 1] <=> PRESENT \in word[a + 1]
    BY <1>1, <1>7, <2>1
  <2> QED
    BY <1>1, <1>2, <1>7, <2>2 DEF UsedExact, Used
<1>9. BitmapExact'
  <2>1. Held' = Held
    BY <1>1 DEF Held
  <2> QED
    BY <1>1, <1>2, <1>7, <2>1 DEF BitmapExact
<1> QED
  BY <1>3, <1>5, <1>6, <1>8, <1>9 DEF FramesInv

(* Every step of the allocator keeps the invariant.                        *)
LEMMA FramesStep == FramesInv /\ [FramesNext]_frameVars => FramesInv'
<1> SUFFICES ASSUME FramesInv, [FramesNext]_frameVars PROVE FramesInv'
  OBVIOUS
<1>t. FramesTypeOK
  BY DEF FramesInv
<1>1. CASE init_paging
  <2>1. booted \in 0 .. PerTable - 1 /\ booted' \in 0 .. PerTable
    BY <1>1, <1>t, FramesAssumption DEF init_paging, FramesTypeOK
  <2>2. MaxTables * PerTable >= PerTable
    BY FramesAssumption
  <2>3. MaxTables * PerTable \in Int
    BY FramesAssumption
  <2>4. booted \in Descs
    BY <2>1, <2>2, <2>3, FramesAssumption DEF Descs
  <2>5. alloc_frame(booted, TRUE)
    BY <1>1 DEF init_paging
  <2> QED
    BY <2>1, <2>4, <2>5, AllocPreserves
<1>2. CASE AllocFrame
  <2>1. PICK d \in Live, kernel \in BOOLEAN : alloc_frame(d, kernel)
    BY <1>2 DEF AllocFrame
  <2>2. d \in Descs /\ booted' \in 0 .. PerTable
    BY <1>2, <1>t DEF Live, AllocFrame, FramesTypeOK
  <2> QED
    BY <2>1, <2>2, AllocPreserves
<1>3. CASE Release
  BY <1>3, FreePreserves DEF Release, Live
<1>4. CASE NewTable
  BY <1>4, TablePreserves DEF NewTable
<1>5. CASE UNCHANGED frameVars
  BY <1>5 DEF frameVars, FramesInv, FramesTypeOK, ReservedKept, NoMishap, HeldOnce, Held,
              UsedExact, Used, BitmapExact
<1> QED
  BY <1>1, <1>2, <1>3, <1>4, <1>5 DEF FramesNext

LEMMA FramesInvariance == FramesSpec => []FramesInv
<1>1. FramesInit => FramesInv
  <2> SUFFICES ASSUME FramesInit PROVE FramesInv
    OBVIOUS
  <2>1. FramesTypeOK
    BY FramesAssumption DEF FramesInit, FramesTypeOK, Frame, Bits
  <2>2. Held = {}
    BY DEF FramesInit, Held
  <2>3. ReservedKept /\ HeldOnce
    BY <2>2 DEF FramesInit, ReservedKept, HeldOnce
  <2>4. UsedExact
    <3> SUFFICES ASSUME NEW d \in Descs PROVE Used(d) <=> holds[d] # NoFrame
      BY DEF UsedExact
    <3>1. d + 1 \in Words
      BY FramesAssumption DEF Descs, Words
    <3> QED
      BY <3>1 DEF FramesInit, Used
  <2>5. BitmapExact
    BY <2>2 DEF FramesInit, BitmapExact
  <2> QED
    BY <2>1, <2>3, <2>4, <2>5 DEF FramesInv
<1> QED
  BY <1>1, FramesStep, PTL DEF FramesSpec

(* Until the bitmap runs out or a wrong frame is released, no frame is     *)
(* given out twice (memory.c:79-114), for every size of the memory.        *)
THEOREM HeldOnceAlways == FramesSpec => []HeldOnce
<1>1. FramesInv => HeldOnce
  BY DEF FramesInv
<1> QED
  BY <1>1, FramesInvariance, PTL

(* Until an accident, the bitmap marks exactly the reserved and the held   *)
(* frames.                                                                 *)
THEOREM BitmapExactAlways == FramesSpec => []BitmapExact
<1>1. FramesInv => BitmapExact
  BY DEF FramesInv
<1> QED
  BY <1>1, FramesInvariance, PTL
=============================================================================
