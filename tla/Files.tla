------------------------------- MODULE Files -------------------------------
(***************************************************************************)
(* File descriptors and files: syscall_open, read, write and close of      *)
(* src/kernel/syscall.c over the in-memory tree of src/kernel/fs.c.        *)
(*                                                                         *)
(* fs_create_node installs fs_read, fs_write, fs_open, fs_close and        *)
(* fs_finddir as the callbacks of the node, and each of these calls the    *)
(* node's callback: itself, without end.  A call on such a node leaves the *)
(* kernel stuck.  Only a node whose owner has replaced its callbacks can   *)
(* be used; the model starts with such nodes (finddir searches the         *)
(* children, the others are null, so that syscall.c works on `contents').  *)
(* A file created by O_CREAT keeps the callbacks of fs_create_node.        *)
(*                                                                         *)
(* The tree: a root, one directory, one symbolic link to it, and files     *)
(* that are linked and unlinked.  The children of a directory are a list   *)
(* through the nodes' own next fields, so that a node linked twice ties    *)
(* two lists together, or one of them into a ring that no walk leaves.     *)
(***************************************************************************)
EXTENDS Integers, Sequences, FiniteSets, SequencesExt

CONSTANTS
    Files,       \* the files whose owner has replaced the callbacks
    FileName,    \* their names
    Names,       \* the names a path may have
    Paths,       \* the paths open is called with, as sequences of names
    MAX_FD,      \* descriptors 0 .. MAX_FD - 1 (32)
    Modulus,     \* sizes and offsets are uint32_t: 2^32
    CopySize,    \* what krealloc keeps of the old block (256)
    Masks,       \* the masks files are given
    Counts,      \* the counts of read and write
    MaxLength    \* bound on the length of a file

NULL == "NULL"
Root == "root"
Dir  == "dir"
Link == "link"
New  == "new"      \* the file that O_CREAT creates, at most one
Dirs  == {Root, Dir}
Nodes == Dirs \cup {Link, New} \cup Files
AllFiles == Files \cup {New}

NoName  == ""
Endless == "endless"   \* what a walk round a ring comes to

ASSUME FilesAssumption ==
    /\ IsFiniteSet(Files) /\ Files \cap {NULL, Root, Dir, Link, New, Endless} = {}
    /\ FileName \in [Files -> Names]
    /\ {"dir", "link"} \subseteq Names /\ NoName \notin Names
    /\ Paths \subseteq Seq(Names)
    /\ MAX_FD \in Nat /\ MAX_FD >= 3
    /\ Modulus \in Nat \ {0} /\ CopySize \in Nat
    /\ Masks \subseteq SUBSET {"READ", "WRITE"}
    /\ Counts \subseteq 0 .. Modulus - 1
    /\ MaxLength \in 0 .. Modulus - 1

Fd     == 3 .. MAX_FD - 1     \* 0 .. 2 are never marked used
Junk   == -1                  \* a byte that nobody has written
Byte   == {0, 1}

VARIABLES
    children,   \* the children field of each directory: its first child
    next,       \* the next field of each node
    parent,     \* the parent field of each node
    relinked,   \* history: a node has been added that was still linked
    newname,    \* the name of the file O_CREAT has created, or NoName
    mask,       \* the low permission bits of each file
    length,     \* its length field
    contents,   \* the block its contents field points to (<<>>: null)
    fd_table,   \* fd_table[3 ..]: the node, or NULL if unused, and the offset
    stuck,      \* a callback calls itself, or a walk goes round
    ideal,      \* history: the bytes the file should have
    accidents   \* history: what has gone wrong so far

links == <<children, next, parent, relinked>>
tree == <<links, newname>>
data == <<length, contents, ideal>>
vars == <<tree, mask, data, fd_table, stuck, accidents>>

(* The kernel is not followed beyond a call without end or a store outside *)
(* a file's block.                                                         *)
Running == ~ stuck /\ "stray" \notin accidents

-----------------------------------------------------------------------------
(***************************************************************************)
(* Paths.                                                                  *)
(***************************************************************************)
NameOf(n) == IF n = New THEN newname ELSE IF n \in Files THEN FileName[n] ELSE n

(* The nodes a walk along the list of d comes to; more steps than there    *)
(* are nodes do not lead to new ones.                                      *)
After(n) == IF n = NULL THEN NULL ELSE next[n]
Steps    == 0 .. Cardinality(Nodes)
Visited(d) ==
    LET at[i \in Steps] == IF i = 0 THEN children[d] ELSE After(at[i - 1])
    IN at

Ends(d)   == \E i \in Steps : Visited(d)[i] = NULL
Listed(d) == {Visited(d)[i] : i \in Steps} \ {NULL}
First(S)  == CHOOSE i \in S : \A j \in S : i <= j

(* The finddir of a directory's owner: the first child of that name.       *)
Lookup(d, c) ==
    LET hits == {i \in Steps : Visited(d)[i] # NULL /\ NameOf(Visited(d)[i]) = c}
    IN IF hits # {} THEN Visited(d)[First(hits)]
       ELSE IF Ends(d) THEN NULL ELSE Endless

(* One component.  A link is followed once.                                *)
Step(current, c) ==
    IF current \in {NULL, Endless} \/ c = "." THEN current
    ELSE IF c = ".." THEN IF parent[current] = NULL THEN current ELSE parent[current]
    ELSE IF current \notin Dirs THEN NULL
    ELSE LET child == Lookup(current, c)
         IN IF child = Link THEN Dir ELSE child

fs_resolve_path(path) ==
    LET walk[i \in 0 .. Len(path)] ==
          IF i = 0 THEN Root ELSE Step(walk[i - 1], path[i])
    IN walk[Len(path)]

fs_get_parent_dir(path) == fs_resolve_path(SubSeq(path, 1, Len(path) - 1))

(***************************************************************************)
(* Linking.                                                                *)
(***************************************************************************)
(* The stores of fs_add_node once the end of the list is found: n goes     *)
(* behind it with whatever its own next field holds.                       *)
LinkLast(p, n) ==
    /\ parent' = [parent EXCEPT ![n] = p]
    /\ \/ /\ children[p] = NULL
          /\ children' = [children EXCEPT ![p] = n] /\ UNCHANGED next
       \/ /\ children[p] # NULL
          /\ LET last == CHOOSE m \in Listed(p) : next[m] = NULL
             IN next' = [next EXCEPT ![last] = n]
          /\ UNCHANGED children

(* Nothing is asked of n: it may be in this list already, or in another.   *)
fs_add_node(p, n) ==
    /\ Running
    /\ relinked' = (relinked \/ parent[n] # NULL)
    /\ \/ /\ Ends(p)
          /\ LinkLast(p, n) /\ UNCHANGED stuck
       \/ /\ ~ Ends(p)
          /\ parent' = [parent EXCEPT ![n] = p] /\ stuck' = TRUE
          /\ UNCHANGED <<children, next>>
    /\ UNCHANGED <<newname, mask, data, fd_table, accidents>>

Made(n) == n = New => newname # NoName

(* The node before n, which is in the list of p but not its first.         *)
Before(p, n) == Visited(p)[First({i \in Steps : Visited(p)[i] = n}) - 1]

(* next as it is when n has left the list of p.                            *)
NextWithout(p, n) ==
    IF children[p] = n THEN next ELSE [next EXCEPT ![Before(p, n)] = next[n]]

(* n leaves the list of p.                                                 *)
FirstWithout(p, n) ==
    children' = [children EXCEPT ![p] = IF @ = n THEN next[n] ELSE @]

(* A fault in fs_remove_node: the node keeps its next field.               *)
RemoveKeepsNext(p, n) ==
    /\ Running /\ Made(n)
    /\ n \in Listed(p)
    /\ FirstWithout(p, n) /\ next' = NextWithout(p, n)
    /\ parent' = [parent EXCEPT ![n] = NULL]
    /\ UNCHANGED <<relinked, newname, mask, data, fd_table, stuck, accidents>>

(* A node that is not in the list is left alone, if the list ends.         *)
fs_remove_node(p, n) ==
    /\ Running /\ Made(n)
    /\ \/ /\ n \in Listed(p)
          /\ FirstWithout(p, n)
          /\ next' = [NextWithout(p, n) EXCEPT ![n] = NULL]
          /\ parent' = [parent EXCEPT ![n] = NULL]
          /\ UNCHANGED stuck
       \/ /\ n \notin Listed(p) /\ ~ Ends(p)
          /\ stuck' = TRUE
          /\ UNCHANGED <<children, next, parent>>
    /\ UNCHANGED <<relinked, newname, mask, data, fd_table, accidents>>

(* The owner of a file assigns its mask, as acl_protect_file does.         *)
SetMask(f, m) ==
    /\ Running
    /\ mask' = [mask EXCEPT ![f] = m]
    /\ UNCHANGED <<tree, data, fd_table, stuck, accidents>>

-----------------------------------------------------------------------------
(***************************************************************************)
(* open and close.                                                         *)
(***************************************************************************)
Flags == SUBSET {"TRUNC", "APPEND"}    \* beside O_CREAT

(* A fault in find_free_fd: the last descriptor is never tried.            *)
FreeFdsButLast == {fd \in Fd \ {MAX_FD - 1} : fd_table[fd].node = NULL}

FreeFds == {fd \in Fd : fd_table[fd].node = NULL}

(* O_TRUNC: the block is cleared and stays.                                *)
Truncate(n, flags) ==
    IF "TRUNC" \in flags /\ length[n] > 0
    THEN /\ length' = [length EXCEPT ![n] = 0]
         /\ contents' = [contents EXCEPT ![n] =
                           [i \in DOMAIN @ |-> IF i <= length[n] THEN 0 ELSE @[i]]]
         /\ ideal' = [ideal EXCEPT ![n] = <<>>]
         /\ accidents' = accidents \cup
               IF \E fd \in Fd : fd_table[fd].node = n /\ fd_table[fd].offset > 0
               THEN {"truncated"} ELSE {}
    ELSE UNCHANGED <<data, accidents>>

(* The offset of a new descriptor: O_APPEND looks at the length once.      *)
StartOffset(n, flags) == IF "APPEND" \in flags THEN length'[n] ELSE 0

(* syscall_open once it has its node: the truncation comes before the      *)
(* search for a descriptor, and the node's open callback last.             *)
OpenNode(n, flags) ==
    /\ Truncate(n, flags)
    /\ \/ /\ FreeFds = {}
          /\ UNCHANGED <<fd_table, stuck>>
       \/ /\ FreeFds # {}
          /\ fd_table' = [fd_table EXCEPT ![First(FreeFds)] =
                             [node |-> n, offset |-> StartOffset(n, flags)]]
          /\ stuck' = (n = New)
    /\ UNCHANGED mask

(* The path leads to a file: the modes, the mask and O_CREAT are not       *)
(* looked at.                                                              *)
OpenExisting(found, flags) ==
    /\ Running
    /\ found \in AllFiles
    /\ OpenNode(found, flags)
    /\ UNCHANGED tree

(* The path leads nowhere and O_CREAT is given.  The walk that missed the  *)
(* name has come to the end of the list.  Below a file, fs_add_node        *)
(* refuses the new node, and syscall_open goes on without noticing.        *)
OpenCreate(path, found, flags) ==
    /\ Running
    /\ found = NULL
    /\ newname = NoName
    /\ LET p == fs_get_parent_dir(path)
       IN /\ p # NULL
          /\ newname' = path[Len(path)]
          /\ \/ p \in Dirs /\ LinkLast(p, New) /\ UNCHANGED relinked
             \/ p \notin Dirs /\ UNCHANGED links
    /\ OpenNode(New, flags)

(* The search for a component goes round a ring.                           *)
OpenEndless(found) ==
    /\ Running
    /\ found = Endless
    /\ stuck' = TRUE
    /\ UNCHANGED <<tree, mask, data, fd_table, accidents>>

syscall_open(path) ==
    LET found == fs_resolve_path(path)
    IN \/ \E flags \in Flags : OpenExisting(found, flags)
       \/ \E flags \in Flags : OpenCreate(path, found, flags)
       \/ OpenEndless(found)

syscall_close(fd) ==
    /\ Running
    /\ fd_table[fd].node # NULL
    /\ fd_table' = [fd_table EXCEPT ![fd] = [node |-> NULL, offset |-> 0]]
    /\ UNCHANGED <<tree, mask, data, stuck, accidents>>

-----------------------------------------------------------------------------
(***************************************************************************)
(* read and write.                                                         *)
(***************************************************************************)
(* A fault in syscall_read: the block is taken for the file.               *)
RemainingInBlock(fd) == Len(contents[fd_table[fd].node]) - fd_table[fd].offset

(* length - offset, in 32 bits.                                            *)
Remaining(fd) == (length[fd_table[fd].node] - fd_table[fd].offset) % Modulus

(* read_size: a file without a block has nothing to read.                  *)
ReadSize(fd, count) ==
    IF contents[fd_table[fd].node] = <<>> THEN 0
    ELSE IF count > Remaining(fd) THEN Remaining(fd) ELSE count

(* What the call copies to the caller.                                     *)
ReadBytes(fd, count) ==
    LET n == fd_table[fd].node
        o == fd_table[fd].offset
    IN [i \in 1 .. ReadSize(fd, count) |->
          IF o + i <= Len(contents[n]) THEN contents[n][o + i] ELSE Junk]

Advance(offset, n) == (offset + n) % Modulus

syscall_read(fd, count) ==
    /\ Running
    /\ fd_table[fd].node # NULL
    /\ "READ" \in mask[fd_table[fd].node]
    /\ ReadSize(fd, count) > 0
    /\ fd_table' = [fd_table EXCEPT ![fd].offset = Advance(@, ReadSize(fd, count))]
    /\ accidents' = accidents \cup
          IF fd_table[fd].offset + ReadSize(fd, count) > length[fd_table[fd].node]
          THEN {"beyond"} ELSE {}
    /\ UNCHANGED <<tree, mask, data, stuck>>

(* A fault in syscall_write: the new bytes are not cleared.                *)
GrownDirty(n, size) ==
    IF size <= length[n] THEN contents[n]
    ELSE [i \in 1 .. size |->
            IF i <= Len(contents[n]) /\ i <= CopySize THEN contents[n][i] ELSE Junk]

(* The block after krealloc and memset: the part that was copied, what was *)
(* not (beyond CopySize), and zeros from the old length on.                *)
Grown(n, size) ==
    IF size <= length[n] THEN contents[n]
    ELSE [i \in 1 .. size |-> IF i > length[n] THEN 0
                              ELSE IF i <= CopySize THEN contents[n][i] ELSE Junk]

(* memcpy of count bytes b to offset o, as far as it hits the block.       *)
Overlay(block, o, count, b) ==
    [i \in DOMAIN block |-> IF i > o /\ i <= o + count THEN b ELSE block[i]]

(* What a write means: the file is filled up with zeros and overwritten.   *)
Written(bytes, o, count, b) ==
    LET size == IF o + count > Len(bytes) THEN o + count ELSE Len(bytes)
    IN Overlay([i \in 1 .. size |-> IF i <= Len(bytes) THEN bytes[i] ELSE 0],
               o, count, b)

syscall_write(fd, count, b) ==
    LET n    == fd_table[fd].node
        o    == fd_table[fd].offset
        size == (o + count) % Modulus
    IN /\ Running
       /\ n # NULL
       /\ "WRITE" \in mask[n]
       /\ size <= MaxLength
       /\ contents' = [contents EXCEPT ![n] = Overlay(Grown(n, size), o, count, b)]
       /\ length' = [length EXCEPT ![n] = IF size > @ THEN size ELSE @]
       /\ fd_table' = [fd_table EXCEPT ![fd].offset = Advance(o, count)]
       /\ \/ /\ size = o + count
             /\ ideal' = [ideal EXCEPT ![n] = Written(@, o, count, b)]
             /\ accidents' = accidents \cup
                   IF size > length[n] /\ length[n] > CopySize THEN {"cut"} ELSE {}
          \/ /\ size # o + count
             /\ accidents' = accidents \cup {"stray"}
             /\ UNCHANGED ideal
       /\ UNCHANGED <<tree, mask, stuck>>

-----------------------------------------------------------------------------
(* After fs_init and the setup of the directory and the link, as fs_test   *)
(* does it.  The files are not linked yet.                                 *)
Init ==
    /\ children = [d \in Dirs |-> IF d = Root THEN Dir ELSE NULL]
    /\ next = [n \in Nodes |-> IF n = Dir THEN Link ELSE NULL]
    /\ parent = [n \in Nodes |-> IF n \in {Dir, Link} THEN Root ELSE NULL]
    /\ relinked = FALSE
    /\ newname = NoName
    /\ mask = [f \in AllFiles |-> {"READ"}]
    /\ length = [f \in AllFiles |-> 0]
    /\ contents = [f \in AllFiles |-> <<>>]
    /\ fd_table = [fd \in Fd |-> [node |-> NULL, offset |-> 0]]
    /\ stuck = FALSE
    /\ ideal = [f \in AllFiles |-> <<>>]
    /\ accidents = {}

Next ==
    \/ \E p \in Dirs, n \in Files : fs_add_node(p, n)
    \/ \E p \in Dirs, n \in AllFiles : fs_remove_node(p, n)
    \/ \E f \in Files, m \in Masks : SetMask(f, m)
    \/ \E path \in Paths : syscall_open(path)
    \/ \E fd \in Fd : syscall_close(fd)
    \/ \E fd \in Fd, count \in Counts : syscall_read(fd, count)
    \/ \E fd \in Fd, count \in Counts : syscall_write(fd, count, 1)

Spec == Init /\ [][Next]_vars

-----------------------------------------------------------------------------
TypeOK ==
    /\ children \in [Dirs -> Nodes \cup {NULL}]
    /\ next \in [Nodes -> Nodes \cup {NULL}]
    /\ parent \in [Nodes -> Dirs \cup {NULL}]
    /\ relinked \in BOOLEAN
    /\ newname \in Names \cup {NoName}
    /\ mask \in [AllFiles -> SUBSET {"READ", "WRITE"}]
    /\ length \in [AllFiles -> 0 .. MaxLength]
    /\ contents \in [AllFiles -> Seq(Byte \cup {Junk})]
    /\ fd_table \in [Fd -> [node : AllFiles \cup {NULL}, offset : 0 .. Modulus - 1]]
    /\ stuck \in BOOLEAN
    /\ ideal \in [AllFiles -> Seq(Byte)]
    /\ accidents \subseteq {"truncated", "beyond", "cut", "stray"}

(* As long as no node is added that is still linked, the walk along every  *)
(* list ends, and it meets each node whose parent is that directory and no *)
(* other: no node is in two lists, and none drags its old neighbours into  *)
(* a new list (fs.c:64-113, syscall.c:261).                                *)
LinksExact ==
    /\ TypeOK
    /\ ~ relinked =>
          \A d \in Dirs : Ends(d) /\ Listed(d) = {n \in Nodes : parent[n] = d}

(* A file holds what was written to it, through whichever descriptors and  *)
(* in whatever order, holes filled with zeros, truncations included, until *)
(* krealloc has grown a file of more than CopySize bytes (memory.c:378),   *)
(* or offset + count has wrapped (syscall.c:172).                          *)
DataKept ==
    (accidents \cap {"cut", "stray"} = {}) =>
        \A f \in AllFiles : SubSeq(contents[f], 1, length[f]) = ideal[f]

(* Whatever read would be called with, it would return the file's bytes    *)
(* from the offset on, and no more than there are, unless one of the       *)
(* accidents has happened (syscall.c:118: length - offset is unsigned).    *)
ReadExact ==
    (accidents = {}) =>
        \A fd \in Fd, count \in Counts :
            fd_table[fd].node # NULL =>
                LET file == ideal[fd_table[fd].node]
                    o    == fd_table[fd].offset
                    end  == IF o + count < Len(file) THEN o + count ELSE Len(file)
                IN ReadBytes(fd, count) = SubSeq(file, o + 1, end)

(* What becomes of an open that changes a file (syscall.c:255-297).  One   *)
(* that creates a file never returns a descriptor: it hangs in the file's  *)
(* open callback, or every descriptor is in use and the file stays behind. *)
(* No descriptor of a running kernel is for such a file, not even after a  *)
(* later open of its name.  One that truncates a file returns a descriptor *)
(* for that file, unless every descriptor is in use.                       *)
TableFull == \A fd \in Fd : fd_table[fd].node # NULL
Returns(f) == \E fd \in Fd : fd_table[fd].node = NULL /\ fd_table'[fd].node = f

OpenOutcomes ==
    [][/\ newname' # newname => stuck' \/ (TableFull /\ fd_table' = fd_table)
       /\ ~ stuck' => \A fd \in Fd : fd_table'[fd].node # New
       /\ \A f \in AllFiles : length'[f] < length[f] => Returns(f) \/ TableFull]_vars
=============================================================================
