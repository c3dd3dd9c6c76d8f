-------------------------------- MODULE Acl --------------------------------
(***************************************************************************)
(* Access control lists, src/security/acl.c, in the memory of the kernel   *)
(* heap.  The list of a resource is an array that every change replaces by *)
(* a new one: kmalloc, copy, kfree of the old array, store of the pointer. *)
(* Other owners of heap memory allocate and write between the calls.       *)
(*                                                                         *)
(* An entry (acl_entry_t) is one number in one unit of memory: the user,   *)
(* the group and the permission bits are its digits.                       *)
(***************************************************************************)
EXTENDS Heap, Sequences, SequencesExt

CONSTANTS
    NUsers,        \* user ids are 0 .. NUsers - 1, 0 is root
    NGroups,       \* group ids are 0 .. NGroups - 1
    Entries,       \* the entries callers add
    ResourceSize   \* sizeof(acl_resource_t), in the same units

ASSUME AclAssumption ==
    /\ NUsers \in Nat \ {0} /\ NGroups \in Nat \ {0}
    /\ Entries \subseteq Nat
    /\ ResourceSize \in 1 .. AddrModulus - 1

VARIABLES
    acl,        \* resource->acl
    acl_count,  \* resource->acl_count
    arrays,     \* history: the blocks that acl.c allocated
    grants      \* history: the entries added and not removed, oldest first

aclVars == <<acl, acl_count, arrays, grants>>
allVars == <<vars, aclVars>>

ROOT == 0
PermBits == {1, 2, 4}     \* ACL_PERM_READ, ACL_PERM_WRITE, ACL_PERM_EXEC

UserOf(e)  == e % NUsers
GroupOf(e) == (e \div NUsers) % NGroups
PermsOf(e) == e \div (NUsers * NGroups)

(* (perms & perm) == perm                                                  *)
Includes(perms, perm) ==
    \A b \in PermBits : (perm \div b) % 2 = 1 => (perms \div b) % 2 = 1

Users  == 0 .. NUsers - 1
Groups == 0 .. NGroups - 1

-----------------------------------------------------------------------------
(* resource->acl[i], i counted from 0, where memory m holds the array.     *)
Slot(m, a, i) == m[(a + i) % AddrModulus]

(* What memory m holds as the list of n entries at a.                      *)
Listed(m, a, n) == [i \in 1 .. n |-> Slot(m, a, i - 1)]

(* The fields of a resource at a, n units of memory.                       *)
Filled(m, a, n) ==
    [x \in Addr |-> IF x \in {(a + i) % AddrModulus : i \in 0 .. n - 1} THEN 1 ELSE m[x]]

Block(a, n) == [addr |-> a, size |-> n]

(* kmalloc(n) for a new array at a; NULL is an allocation failure.         *)
NewArray(n) ==
    /\ Cardinality(blocks) < MaxBlocks
    /\ kmalloc_internal(n, FALSE)
    /\ arrays' = arrays \union {Block(heap_end, n)}

acl_add_entry(e) ==
    LET new == heap_end
    IN /\ NewArray(acl_count + 1)
       /\ IF new = NULL
          THEN UNCHANGED <<mem, acl, acl_count, grants>>
          ELSE /\ mem' = [memcpy(mem, new, acl, acl_count) EXCEPT
                             ![(new + acl_count) % AddrModulus] = e]
               /\ acl' = new
               /\ acl_count' = acl_count + 1
               /\ grants' = Append(grants, e)

(* A fault in acl_remove_entry: the comparison takes the user or the group. *)
FoundEither(u, g) ==
    {i \in 0 .. acl_count - 1 : LET e == Slot(mem, acl, i)
                                IN UserOf(e) = u \/ GroupOf(e) = g}

(* Positions in the array, from 0, of the entries of a user and a group.   *)
Found(u, g) ==
    {i \in 0 .. acl_count - 1 : LET e == Slot(mem, acl, i)
                                IN UserOf(e) = u /\ GroupOf(e) = g}

First(S) == CHOOSE i \in S : \A j \in S : i <= j

(* The same on the list of grants.                                         *)
WithoutFirst(s, u, g) ==
    LET S == {i \in 1 .. Len(s) : UserOf(s[i]) = u /\ GroupOf(s[i]) = g}
    IN IF S = {} THEN s ELSE RemoveAt(s, First(S))

(* A fault in acl_remove_entry: the count goes down and the array stays.   *)
RemoveKeepsArray(u, g) ==
    /\ acl # NULL /\ Found(u, g) # {}
    /\ acl_count' = acl_count - 1
    /\ grants' = WithoutFirst(grants, u, g)
    /\ UNCHANGED <<vars, acl, arrays>>

(* The last entry leaves a NULL list; before that the others are copied,   *)
(* the ones before the one that goes and the ones behind it.               *)
acl_remove_entry(u, g) ==
    /\ acl # NULL /\ acl_count # 0
    /\ Found(u, g) # {}
    /\ IF acl_count = 1
       THEN /\ acl' = NULL /\ acl_count' = 0
            /\ grants' = WithoutFirst(grants, u, g)
            /\ UNCHANGED <<vars, arrays>>
       ELSE LET gone == First(Found(u, g))
                rest == acl_count - 1 - gone
                new  == heap_end
            IN /\ NewArray(acl_count - 1)
               /\ IF new = NULL
                  THEN UNCHANGED <<mem, acl, acl_count, grants>>
                  ELSE /\ mem' = memcpy(memcpy(mem, new, acl, gone),
                                        new + gone, acl + gone + 1, rest)
                       /\ acl' = new
                       /\ acl_count' = acl_count - 1
                       /\ grants' = WithoutFirst(grants, u, g)

(* Over the memory m; without a list nobody passes, root neither.          *)
acl_check_permission(m, a, n, u, g, perm) ==
    /\ a # NULL
    /\ \/ u = ROOT
       \/ \E i \in 0 .. n - 1 :
             LET e == Slot(m, a, i)
             IN /\ UserOf(e) = u \/ GroupOf(e) = g
                /\ Includes(PermsOf(e), perm)

(* acl_protect_file, acl_protect_process and acl_protect_memory: a new     *)
(* resource and its first entry.  Nothing keeps the resource: both blocks  *)
(* stay allocated and the list of the first is never looked at again.      *)
acl_protect(e) ==
    LET resource == heap_end
        entry    == (heap_end + ResourceSize) % AddrModulus
        new      == IF resource = NULL THEN {Block(resource, ResourceSize)}
                    ELSE {Block(resource, ResourceSize), Block(entry, 1)}
        end      == heap_end + ResourceSize + IF resource = NULL THEN 0 ELSE 1
    IN /\ Cardinality(blocks) + 1 < MaxBlocks
       /\ heap_end' = end % AddrModulus
       /\ wrapped' = (wrapped \/ end >= AddrModulus)
       /\ blocks' = blocks \union new
       /\ arrays' = arrays \union new
       /\ mem' = IF resource = NULL THEN mem
                 ELSE LET filled == Filled(mem, resource, ResourceSize)
                      IN IF entry = NULL THEN filled ELSE [filled EXCEPT ![entry] = e]
       /\ UNCHANGED <<acl, acl_count, grants>>

-----------------------------------------------------------------------------
AclInit ==
    /\ Init
    /\ acl = NULL /\ acl_count = 0
    /\ arrays = {} /\ grants = <<>>

(* Everybody else's use of the heap: owners write the blocks they hold.    *)
OtherWrite ==
    /\ \E b \in blocks \ arrays :
          mem' = [a \in Addr |-> IF a \in Bytes(b) THEN 1 ELSE mem[a]]
    /\ UNCHANGED <<heap_end, blocks, wrapped>>

Others ==
    /\ Alloc \/ Realloc \/ OtherWrite
    /\ UNCHANGED aclVars

(* Nothing is claimed of a heap that has wrapped, and the model stops      *)
(* there; when it has wrapped to address 0, the next kmalloc returns NULL. *)
AclNext ==
    /\ wrapped => heap_end = NULL
    /\ \/ \E e \in Entries : acl_add_entry(e)
       \/ \E u \in Users, g \in Groups : acl_remove_entry(u, g)
       \/ \E e \in Entries : acl_protect(e)
       \/ Others

AclSpec == AclInit /\ [][AclNext]_allVars

-----------------------------------------------------------------------------
(***************************************************************************)
(* The array in memory is the list of the entries added and not removed,   *)
(* oldest first (acl.c:17-78), whatever the other users of the heap write  *)
(* and although each change abandons an array, until the heap wraps.  A    *)
(* call that fails for want of memory leaves the list as it was.           *)
(***************************************************************************)
ListKept ==
    ~ wrapped \/ heap_end = NULL => Listed(mem, acl, acl_count) = grants

(***************************************************************************)
(* A removal revokes: the user, in a group no other entry names, has no    *)
(* permission left, unless the same pair was added more than once; then    *)
(* the newer entry keeps granting (acl.c:46-51).                           *)
(***************************************************************************)
RemovalRevokes ==
    [][\A u \in Users \ {ROOT}, g \in Groups :
         (/\ Len(grants') < Len(grants)
          /\ grants' = WithoutFirst(grants, u, g)
          /\ ~ wrapped'
          /\ \A i \in 1 .. Len(grants') :
                UserOf(grants'[i]) # u /\ GroupOf(grants'[i]) # g)
         => \A perm \in PermBits :
               ~ acl_check_permission(mem', acl', acl_count', u, g, perm)]_allVars
=============================================================================
