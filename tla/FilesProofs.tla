---------------------------- MODULE FilesProofs ----------------------------
(***************************************************************************)
(* The links of the tree are exact, files keep what is written to them and *)
(* reads return it, for every number of files and descriptors, every size  *)
(* of a file and every width of the offsets.                               *)
(***************************************************************************)
EXTENDS Files, TLAPS, WellFoundedInduction, FiniteSetTheorems

(* What the lists of children are, as sequences ch: no node is in two      *)
(* places, and the parent fields say where each one is.                    *)
Tree(ch, par) ==
    /\ ch \in [Dirs -> Seq(Nodes)]
    /\ par \in [Nodes -> Dirs \cup {NULL}]
    /\ \A p \in Dirs, n \in Nodes :
          (par[n] = p) <=> \E i \in 1 .. Len(ch[p]) : ch[p][i] = n
    /\ \A p \in Dirs : \A i, j \in 1 .. Len(ch[p]) : ch[p][i] = ch[p][j] => i = j

(* The first child hd[d] and the next fields nx lead along ch[d].          *)
Strung(ch, hd, nx) ==
    /\ \A d \in Dirs : hd[d] = IF Len(ch[d]) = 0 THEN NULL ELSE ch[d][1]
    /\ \A d \in Dirs : \A i \in 1 .. Len(ch[d]) :
          nx[ch[d][i]] = IF i = Len(ch[d]) THEN NULL ELSE ch[d][i + 1]

(* A node outside the tree has no successor.                               *)
Loose(nx, par) == \A n \in Nodes : par[n] = NULL => nx[n] = NULL

Pointers(hd, nx) ==
    hd \in [Dirs -> Nodes \cup {NULL}] /\ nx \in [Nodes -> Nodes \cup {NULL}]

Spells(ch, hd, nx, par) == Tree(ch, par) /\ Strung(ch, hd, nx) /\ Loose(nx, par)

TreeInv ==
    /\ Pointers(children, next)
    /\ parent \in [Nodes -> Dirs \cup {NULL}]
    /\ relinked \in BOOLEAN
    /\ newname \in Names \cup {NoName}
    /\ newname = NoName => parent[New] = NULL
    /\ ~ relinked => \E ch : Spells(ch, children, next, parent)

LEMMA Distinct ==
    /\ Root # Dir /\ Root # Link /\ Root # New /\ Dir # Link /\ Dir # New /\ Link # New
    /\ Endless \notin Nodes /\ Endless # NULL
    /\ NULL \notin Nodes /\ NULL \notin Dirs /\ NULL \notin AllFiles
    /\ Files \cap {Root, Dir, Link, New} = {}
    /\ Dirs \subseteq Nodes /\ AllFiles \subseteq Nodes
    /\ AllFiles \cap Dirs = {}
  BY FilesAssumption DEF NULL, Endless, Root, Dir, Link, New, Nodes, Dirs, AllFiles

(* The least element of a set of numbers.                                  *)
LEMMA Least ==
    ASSUME NEW S \in SUBSET Nat, S # {}
    PROVE  \E n \in S : \A m \in S : n <= m
<1>1. PICK n \in S : \A m \in S : ~ (<<m, n>> \in OpToRel(<, Nat))
  BY NatLessThanWellFounded, WFMin
<1>2. \A m \in S : n <= m
  <2> TAKE m \in S
  <2>1. <<m, n>> \in Nat \X Nat /\ ~ (<<m, n>> \in OpToRel(<, Nat))
    BY <1>1
  <2>2. ~ (m < n)
    BY <2>1 DEF OpToRel
  <2> QED
    BY <2>2
<1> QED
  BY <1>2

-----------------------------------------------------------------------------
(***************************************************************************)
(* Linking and unlinking.                                                  *)
(***************************************************************************)
LEMMA AddToTree ==
    ASSUME NEW ch, NEW par, NEW ch2, NEW par2, Tree(ch, par),
           NEW p \in Dirs, NEW n \in Nodes, par[n] = NULL,
           ch2 = [ch EXCEPT ![p] = Append(@, n)],
           par2 = [par EXCEPT ![n] = p]
    PROVE  Tree(ch2, par2)
<1> DEFINE s == ch[p]
           t == ch2[p]
<1>1. /\ ch2 \in [Dirs -> Seq(Nodes)] /\ t = Append(s, n)
      /\ \A d \in Dirs \ {p} : ch2[d] = ch[d]
  BY DEF Tree
<1>2. /\ par2 \in [Nodes -> Dirs \cup {NULL}] /\ par2[n] = p
      /\ \A m \in Nodes \ {n} : par2[m] = par[m]
  BY DEF Tree
<1>3. s \in Seq(Nodes) /\ Len(s) \in Nat
  BY DEF Tree
<1> HIDE DEF s, t
<1>4. Len(t) = Len(s) + 1 /\ t[Len(s) + 1] = n /\ \A i \in 1 .. Len(s) : t[i] = s[i]
  BY <1>1, <1>3
<1>5. \A i \in 1 .. Len(s) : s[i] # n
  <2>1. (par[n] = p) <=> \E i \in 1 .. Len(s) : s[i] = n
    BY DEF Tree, s
  <2>2. par[n] # p
    BY Distinct
  <2> QED BY <2>1, <2>2
<1>6. \A i \in 1 .. Len(s) + 1 : i = Len(s) + 1 \/ i \in 1 .. Len(s)
  BY <1>3
<1>7. ASSUME NEW d \in Dirs, NEW m \in Nodes
      PROVE  (par2[m] = d) <=> \E i \in 1 .. Len(ch2[d]) : ch2[d][i] = m
  <2>1. CASE d # p /\ m # n
    BY <1>1, <1>2, <2>1 DEF Tree
  <2>2. CASE d # p /\ m = n
    <3>1. par[n] # d
      BY Distinct
    <3> QED BY <1>1, <1>2, <2>2, <3>1 DEF Tree
  <2>3. CASE d = p /\ m = n
    <3>1. Len(s) + 1 \in 1 .. Len(t)
      BY <1>3, <1>4
    <3> QED BY <1>2, <1>4, <2>3, <3>1 DEF t
  <2>4. CASE d = p /\ m # n
    <3>1. (par[m] = p) <=> \E i \in 1 .. Len(s) : s[i] = m
      BY DEF Tree, s
    <3>2. (\E i \in 1 .. Len(t) : t[i] = m) <=> \E i \in 1 .. Len(s) : s[i] = m
      <4>1. \A i \in 1 .. Len(s) : i \in 1 .. Len(t)
        BY <1>3, <1>4
      <4> QED BY <1>4, <1>6, <2>4, <4>1
    <3> QED BY <1>2, <2>4, <3>1, <3>2 DEF t
  <2> QED BY <2>1, <2>2, <2>3, <2>4
<1>8. \A i, j \in 1 .. Len(t) : t[i] = t[j] => i = j
  <2>1. \A i, j \in 1 .. Len(s) : s[i] = s[j] => i = j
    BY DEF Tree, s
  <2> QED BY <1>4, <1>5, <1>6, <2>1
<1>9. ASSUME NEW d \in Dirs
      PROVE  \A i, j \in 1 .. Len(ch2[d]) : ch2[d][i] = ch2[d][j] => i = j
  <2>1. CASE d = p
    BY <1>8, <2>1 DEF t
  <2>2. CASE d # p
    BY <1>1, <2>2 DEF Tree
  <2> QED BY <2>1, <2>2
<1> QED BY <1>1, <1>2, <1>7, <1>9 DEF Tree

LEMMA RemoveAtShape ==
    ASSUME NEW T, NEW s \in Seq(T), NEW k \in 1 .. Len(s)
    PROVE  /\ RemoveAt(s, k) \in Seq(T) /\ Len(RemoveAt(s, k)) = Len(s) - 1
           /\ \A j \in 1 .. Len(s) - 1 :
                 RemoveAt(s, k)[j] = IF j < k THEN s[j] ELSE s[j + 1]
<1> DEFINE a == SubSeq(s, 1, k - 1)
           b == SubSeq(s, k + 1, Len(s))
<1>0. Len(s) \in Nat
  OBVIOUS
<1>1. a \in Seq(T) /\ Len(a) = k - 1 /\ \A j \in 1 .. k - 1 : a[j] = s[j]
  <2> DEFINE m == k - 1
  <2>1. m \in Nat /\ m <= Len(s)
    BY <1>0
  <2> HIDE DEF m
  <2>2. /\ SubSeq(s, 1, m) \in Seq(T) /\ Len(SubSeq(s, 1, m)) = m
        /\ \A j \in 1 .. m : SubSeq(s, 1, m)[j] = s[j]
    BY <2>1
  <2> QED BY <2>2 DEF m
<1>2. b \in Seq(T) /\ Len(b) = Len(s) - k /\ \A j \in 1 .. Len(s) - k : b[j] = s[k + j]
  <2>1. k \in Nat /\ k + 1 <= Len(s) + 1
    BY <1>0
  <2>2. b \in Seq(T) /\ Len(b) = Len(s) - k
    BY <1>0, <2>1
  <2>3. \A j \in 1 .. Len(s) - k : b[j] = s[(k + 1) + j - 1] /\ (k + 1) + j - 1 = k + j
    BY <1>0, <2>1, <2>2
  <2> QED BY <2>2, <2>3
<1>3. RemoveAt(s, k) = a \o b
  BY DEF RemoveAt
<1> HIDE DEF a, b
<1>c. /\ a \o b \in Seq(T) /\ Len(a \o b) = Len(a) + Len(b)
      /\ \A j \in 1 .. Len(a) + Len(b) :
            (a \o b)[j] = IF j <= Len(a) THEN a[j] ELSE b[j - Len(a)]
  <2>1. a \in Seq(T) /\ b \in Seq(T)
    BY <1>1, <1>2
  <2> QED BY <2>1
<1>4. a \o b \in Seq(T) /\ Len(a \o b) = Len(s) - 1 /\ Len(a) + Len(b) = Len(s) - 1
  <2>1. (k - 1) + (Len(s) - k) = Len(s) - 1
    BY <1>0
  <2> QED BY <1>1, <1>2, <1>c, <2>1
<1>5. ASSUME NEW j \in 1 .. Len(s) - 1
      PROVE  (a \o b)[j] = IF j < k THEN s[j] ELSE s[j + 1]
  <2>1. CASE j < k
    <3>1. j \in 1 .. k - 1
      BY <1>0, <2>1
    <3>2. (a \o b)[j] = a[j]
      BY <1>0, <1>1, <1>4, <1>c, <3>1
    <3> QED BY <1>1, <2>1, <3>1, <3>2
  <2>2. CASE ~(j < k)
    <3>1. j - (k - 1) \in 1 .. Len(s) - k /\ k + (j - (k - 1)) = j + 1
      BY <1>0, <2>2
    <3>2. (a \o b)[j] = b[j - (k - 1)]
      <4>1. ~(j <= Len(a))
        BY <1>0, <1>1, <2>2
      <4> QED BY <1>1, <1>4, <1>c, <4>1
    <3> QED BY <1>2, <2>2, <3>1, <3>2
  <2> QED BY <2>1, <2>2
<1> QED BY <1>3, <1>4, <1>5

LEMMA RemoveFromTree ==
    ASSUME NEW ch, NEW par, NEW ch2, NEW par2, Tree(ch, par),
           NEW p \in Dirs, NEW n \in Nodes, NEW k \in 1 .. Len(ch[p]), ch[p][k] = n,
           ch2 = [ch EXCEPT ![p] = RemoveAt(@, k)],
           par2 = [par EXCEPT ![n] = NULL]
    PROVE  Tree(ch2, par2)
<1> DEFINE s == ch[p]
           t == ch2[p]
<1>1. k \in 1 .. Len(s) /\ s[k] = n /\ ch2 = [ch EXCEPT ![p] = RemoveAt(@, k)]
  OBVIOUS
<1>2. s \in Seq(Nodes) /\ Len(s) \in Nat /\ \A i, j \in 1 .. Len(s) : s[i] = s[j] => i = j
  BY DEF Tree
<1>3. t = RemoveAt(s, k) /\ \A d \in Dirs \ {p} : ch2[d] = ch[d]
  BY <1>1 DEF Tree
<1>4. /\ par2 \in [Nodes -> Dirs \cup {NULL}] /\ par2[n] = NULL
      /\ \A m \in Nodes \ {n} : par2[m] = par[m]
  BY DEF Tree
<1>5. ch2 \in [Dirs -> Seq(Nodes)]
  <2>1. RemoveAt(s, k) \in Seq(Nodes)
    <3> HIDE DEF s
    <3> QED BY <1>1, <1>2, RemoveAtShape
  <2> QED BY <1>1, <2>1 DEF Tree
<1>6. par[n] = p
  BY <1>1 DEF Tree
<1> HIDE DEF s, t
<1>7. /\ Len(t) = Len(s) - 1
      /\ \A j \in 1 .. Len(t) : t[j] = IF j < k THEN s[j] ELSE s[j + 1]
  <2>1. /\ Len(RemoveAt(s, k)) = Len(s) - 1
        /\ \A j \in 1 .. Len(s) - 1 :
              RemoveAt(s, k)[j] = IF j < k THEN s[j] ELSE s[j + 1]
    BY <1>1, <1>2, RemoveAtShape
  <2> QED BY <1>3, <2>1
<1>8. \A j \in 1 .. Len(t) : /\ j \in 1 .. Len(s) /\ j + 1 \in 1 .. Len(s)
                             /\ j < k => t[j] = s[j]
                             /\ ~ (j < k) => t[j] = s[j + 1]
  BY <1>1, <1>2, <1>7
<1>9. \A j \in 1 .. Len(t) : t[j] # n
  <2> SUFFICES ASSUME NEW j \in 1 .. Len(t), t[j] = n PROVE FALSE
    OBVIOUS
  <2>1. CASE j < k
    <3>1. j = k
      BY <1>1, <1>2, <1>8, <2>1
    <3> QED BY <2>1, <3>1
  <2>2. CASE ~ (j < k)
    <3>1. j + 1 = k
      BY <1>1, <1>2, <1>8, <2>2
    <3> QED BY <2>2, <3>1
  <2> QED BY <2>1, <2>2
<1>10. ASSUME NEW m \in Nodes, m # n
       PROVE  (\E i \in 1 .. Len(t) : t[i] = m) <=> \E i \in 1 .. Len(s) : s[i] = m
  <2>1. ASSUME NEW i \in 1 .. Len(s), s[i] = m PROVE \E j \in 1 .. Len(t) : t[j] = m
    <3>0. i # k
      BY <1>1, <1>10, <2>1
    <3>1. CASE i < k
      <4>1. i \in 1 .. Len(t)
        BY <1>1, <1>2, <1>7, <3>1
      <4> QED BY <1>8, <2>1, <3>1, <4>1
    <3>2. CASE i > k
      <4>1. i - 1 \in 1 .. Len(t) /\ ~ (i - 1 < k) /\ (i - 1) + 1 = i
        BY <1>1, <1>2, <1>7, <3>2
      <4> QED BY <1>8, <2>1, <4>1
    <3> QED BY <3>0, <3>1, <3>2
  <2>2. ASSUME NEW i \in 1 .. Len(t), t[i] = m PROVE \E j \in 1 .. Len(s) : s[j] = m
    BY <1>8, <2>2
  <2> QED BY <2>1, <2>2
<1>11. ASSUME NEW d \in Dirs, NEW m \in Nodes
       PROVE  (par2[m] = d) <=> \E i \in 1 .. Len(ch2[d]) : ch2[d][i] = m
  <2>1. CASE d # p /\ m # n
    BY <1>3, <1>4, <2>1 DEF Tree
  <2>2. CASE d # p /\ m = n
    <3>1. par2[n] # d /\ par[n] # d
      BY <1>4, <1>6, <2>2, Distinct
    <3> QED BY <1>3, <2>2, <3>1 DEF Tree
  <2>3. CASE d = p /\ m = n
    <3>1. par2[n] # p
      BY <1>4, Distinct
    <3> QED BY <1>9, <2>3, <3>1 DEF t
  <2>4. CASE d = p /\ m # n
    <3>1. (par[m] = p) <=> \E i \in 1 .. Len(s) : s[i] = m
      BY DEF Tree, s
    <3> QED BY <1>4, <1>10, <2>4, <3>1 DEF t
  <2> QED BY <2>1, <2>2, <2>3, <2>4
<1>12. \A i, j \in 1 .. Len(t) : t[i] = t[j] => i = j
  <2> SUFFICES ASSUME NEW i \in 1 .. Len(t), NEW j \in 1 .. Len(t), t[i] = t[j]
               PROVE  i = j
    OBVIOUS
  <2>1. CASE i < k /\ j < k
    BY <1>2, <1>8, <2>1
  <2>2. CASE ~ (i < k) /\ ~ (j < k)
    <3>1. i + 1 = j + 1
      BY <1>2, <1>8, <2>2
    <3> QED BY <3>1
  <2>3. CASE i < k /\ ~ (j < k)
    <3>1. i = j + 1
      BY <1>2, <1>8, <2>3
    <3> QED BY <2>3, <3>1
  <2>4. CASE ~ (i < k) /\ j < k
    <3>1. i + 1 = j
      BY <1>2, <1>8, <2>4
    <3> QED BY <2>4, <3>1
  <2> QED BY <2>1, <2>2, <2>3, <2>4
<1>13. ASSUME NEW d \in Dirs
       PROVE  \A i, j \in 1 .. Len(ch2[d]) : ch2[d][i] = ch2[d][j] => i = j
  <2>1. CASE d = p
    BY <1>12, <2>1 DEF t
  <2>2. CASE d # p
    BY <1>3, <2>2 DEF Tree
  <2> QED BY <2>1, <2>2
<1> QED BY <1>4, <1>5, <1>11, <1>13 DEF Tree
-----------------------------------------------------------------------------
(***************************************************************************)
(* The walk along a list.                                                  *)
(***************************************************************************)
LEMMA Counted == Cardinality(Nodes) \in Nat /\ IsFiniteSet(Nodes) /\ Steps = 0 .. Cardinality(Nodes)
<1>0. ASSUME NEW x, NEW y PROVE IsFiniteSet({x, y})
  <2>1. IsFiniteSet({} \cup {x})
    BY FS_EmptySet, FS_AddElement
  <2>2. IsFiniteSet(({} \cup {x}) \cup {y})
    BY <2>1, FS_AddElement
  <2>3. ({} \cup {x}) \cup {y} = {x, y}
    OBVIOUS
  <2> QED BY <2>2, <2>3
<1>1. IsFiniteSet({Root, Dir}) /\ IsFiniteSet({Link, New})
  BY <1>0
<1>2. IsFiniteSet(Nodes)
  BY <1>1, FilesAssumption, FS_Union DEF Nodes, Dirs
<1> QED BY <1>2, FS_CardinalityType DEF Steps

LEMMA ShortLists ==
    ASSUME NEW ch, NEW par, Tree(ch, par), NEW d \in Dirs
    PROVE  Len(ch[d]) \in Nat /\ Len(ch[d]) <= Cardinality(Nodes)
<1> DEFINE s == ch[d]
<1>1. s \in Seq(Nodes) /\ Len(s) \in Nat /\ \A i, j \in 1 .. Len(s) : s[i] = s[j] => i = j
  BY DEF Tree
<1> HIDE DEF s
<1>2. s \in [1 .. Len(s) -> Nodes]
  BY <1>1
<1>3. s \in Injection(1 .. Len(s), Nodes)
  BY <1>1, <1>2 DEF Injection, IsInjective
<1>4. Cardinality(1 .. Len(s)) = Len(s)
  <2> DEFINE m == Len(s)
  <2>1. m \in Nat /\ m \in Int /\ 1 \in Int
    BY <1>1
  <2> HIDE DEF m
  <2>2. Cardinality(1 .. m) = IF 1 > m THEN 0 ELSE m - 1 + 1
    BY <2>1, FS_Interval
  <2>3. Cardinality(1 .. m) = m
    BY <2>1, <2>2
  <2> QED BY <2>3 DEF m
<1>5. Cardinality(1 .. Len(s)) <= Cardinality(Nodes)
  BY <1>3, FS_Injection, Counted
<1> QED BY <1>1, <1>4, <1>5 DEF s

VisitLoop(at, d) ==
    at = [i \in Steps |-> IF i = 0 THEN children[d] ELSE After(at[i - 1])]

(* Where the walk along a list is after i steps.                           *)
Spot(s, i) == IF i < Len(s) THEN s[i + 1] ELSE NULL

LEMMA Walks ==
    ASSUME NEW ch, Spells(ch, children, next, parent), NEW d \in Dirs
    PROVE  \A i \in Steps : Visited(d)[i] = Spot(ch[d], i)
<1> DEFINE s == ch[d]
           g == [i \in Steps |-> Spot(s, i)]
<1>1. s \in Seq(Nodes) /\ Len(s) \in Nat
  BY DEF Spells, Tree
<1>2. children[d] = Spot(s, 0)
  BY <1>1 DEF Spells, Strung, Spot
<1>3. \A i \in 1 .. Len(s) : next[s[i]] = IF i = Len(s) THEN NULL ELSE s[i + 1]
  BY DEF Spells, Strung
<1> HIDE DEF s
<1>4. ASSUME NEW i \in Nat, i > 0 PROVE After(Spot(s, i - 1)) = Spot(s, i)
  <2>1. CASE i <= Len(s)
    <3>1. Spot(s, i - 1) = s[i] /\ s[i] \in Nodes /\ i \in 1 .. Len(s)
      BY <1>1, <1>4, <2>1 DEF Spot
    <3>2. After(s[i]) = next[s[i]]
      BY <3>1, Distinct DEF After
    <3>3. Spot(s, i) = IF i = Len(s) THEN NULL ELSE s[i + 1]
      BY <1>1, <1>4, <2>1 DEF Spot
    <3> QED BY <1>3, <3>1, <3>2, <3>3
  <2>2. CASE i > Len(s)
    BY <1>1, <1>4, <2>2 DEF Spot, After
  <2> QED BY <1>1, <1>4, <2>1, <2>2
<1>5. \A i \in Steps : i \in Nat /\ (i # 0 => i > 0 /\ i - 1 \in Steps)
  BY Counted
<1>6. VisitLoop(g, d)
  <2>1. \A i \in Steps : Spot(s, i) = IF i = 0 THEN children[d] ELSE After(g[i - 1])
    BY <1>2, <1>4, <1>5
  <2> QED BY <2>1 DEF VisitLoop
<1> HIDE DEF g
<1>7. VisitLoop(CHOOSE at : VisitLoop(at, d), d)
  BY <1>6
<1>8. Visited(d) = CHOOSE at : VisitLoop(at, d)
  BY Zenon DEF Visited, VisitLoop
<1>9. \A i \in Steps : Visited(d)[i] = IF i = 0 THEN children[d] ELSE After(Visited(d)[i - 1])
  BY <1>7, <1>8 DEF VisitLoop
<1> DEFINE Wrong == {i \in Steps : Visited(d)[i] # Spot(s, i)}
<1>10. Wrong = {}
  <2> SUFFICES ASSUME Wrong # {} PROVE FALSE
    OBVIOUS
  <2>1. Wrong \in SUBSET Nat
    BY <1>5
  <2>2. PICK i \in Wrong : \A j \in Wrong : i <= j
    <3> HIDE DEF Wrong
    <3> QED BY <2>1, Least
  <2>3. i \in Steps /\ i \in Nat
    BY <1>5
  <2>4. i # 0
    BY <1>2, <1>9, <2>3
  <2>5. i - 1 \in Steps /\ i > 0 /\ ~ (i <= i - 1)
    BY <1>5, <2>3, <2>4
  <2>6. i - 1 \notin Wrong
    <3> HIDE DEF Wrong
    <3> QED BY <2>2, <2>5
  <2>7. Visited(d)[i - 1] = Spot(s, i - 1)
    BY <2>5, <2>6
  <2>8. Visited(d)[i] = Spot(s, i)
    BY <1>4, <1>9, <2>3, <2>4, <2>5, <2>7
  <2> QED BY <2>8
<1> QED BY <1>10 DEF s

(* The walk ends behind the list and meets the nodes that are in it.       *)
LEMMA WalkEnds ==
    ASSUME NEW ch, Spells(ch, children, next, parent), NEW d \in Dirs
    PROVE  Ends(d) /\ Listed(d) = {ch[d][i] : i \in 1 .. Len(ch[d])}
<1> DEFINE s == ch[d]
<1>1. s \in Seq(Nodes) /\ Len(s) \in Nat /\ Len(s) <= Cardinality(Nodes)
  BY ShortLists DEF Spells, Tree
<1>2. \A i \in Steps : Visited(d)[i] = Spot(s, i)
  BY Walks
<1> HIDE DEF s
<1>3. Len(s) \in Steps /\ Spot(s, Len(s)) = NULL
  BY <1>1, Counted DEF Spot
<1>4. Ends(d)
  BY <1>2, <1>3 DEF Ends
<1>5. ASSUME NEW i \in 1 .. Len(s) PROVE s[i] \in Listed(d)
  <2>1. i - 1 \in Steps /\ Spot(s, i - 1) = s[i] /\ s[i] \in Nodes
    BY <1>1, Counted DEF Spot
  <2> QED BY <1>2, <2>1, Distinct DEF Listed
<1>6. ASSUME NEW n \in Listed(d) PROVE \E i \in 1 .. Len(s) : s[i] = n
  <2>1. PICK i \in Steps : Visited(d)[i] = n /\ n # NULL
    BY DEF Listed
  <2>2. i < Len(s) /\ n = s[i + 1]
    BY <1>2, <2>1 DEF Spot
  <2>3. i + 1 \in 1 .. Len(s)
    BY <1>1, <2>2, Counted
  <2> QED BY <2>2, <2>3
<1>7. Listed(d) = {s[i] : i \in 1 .. Len(s)}
  BY <1>5, <1>6
<1> QED BY <1>4, <1>7 DEF s

(* The node before the k-th of a list.                                     *)
LEMMA BeforeIs ==
    ASSUME NEW ch, Spells(ch, children, next, parent), NEW p \in Dirs,
           NEW k \in 2 .. Len(ch[p])
    PROVE  Before(p, ch[p][k]) = ch[p][k - 1]
<1> DEFINE s == ch[p]
           hits == {i \in Steps : Visited(p)[i] = s[k]}
<1>1. /\ s \in Seq(Nodes) /\ Len(s) \in Nat /\ Len(s) <= Cardinality(Nodes)
      /\ \A i, j \in 1 .. Len(s) : s[i] = s[j] => i = j
  <2>1. Tree(ch, parent)
    BY DEF Spells
  <2>2. Len(s) \in Nat /\ Len(s) <= Cardinality(Nodes)
    BY <2>1, ShortLists
  <2>3. s \in Seq(Nodes) /\ \A i, j \in 1 .. Len(s) : s[i] = s[j] => i = j
    BY <2>1 DEF Tree
  <2> QED BY <2>2, <2>3
<1>2. \A i \in Steps : Visited(p)[i] = Spot(s, i)
  BY Walks
<1>k. k \in 2 .. Len(s)
  OBVIOUS
<1>h. hits = {i \in Steps : Visited(p)[i] = s[k]}
  OBVIOUS
<1>b. Before(p, s[k]) = Visited(p)[First(hits) - 1]
  BY DEF Before
<1> HIDE DEF s, hits
<1>3. k - 1 \in hits
  <2>1. k - 1 \in Steps /\ Spot(s, k - 1) = s[k]
    BY <1>1, <1>k, Counted DEF Spot
  <2> QED BY <1>2, <1>h, <2>1
<1>4. ASSUME NEW i \in hits PROVE i = k - 1
  <2>1. i \in Steps /\ Spot(s, i) = s[k] /\ i \in Nat
    BY <1>2, <1>h, Counted
  <2>2. s[k] # NULL /\ k \in 1 .. Len(s)
    BY <1>1, <1>k, Distinct
  <2>3. i < Len(s) /\ s[i + 1] = s[k]
    BY <2>1, <2>2 DEF Spot
  <2>4. i + 1 \in 1 .. Len(s)
    BY <1>1, <2>1, <2>3
  <2>5. i + 1 = k
    BY <1>1, <2>2, <2>3, <2>4
  <2> QED BY <1>k, <2>1, <2>5
<1>5. First(hits) = k - 1
  <2>1. hits = {k - 1}
    BY <1>3, <1>4
  <2>2. k - 1 \in Int
    BY <1>k
  <2>3. \A i \in {k - 1} : \A j \in {k - 1} : i <= j
    BY <2>2
  <2> QED BY <2>1, <2>3 DEF First
<1>6. (k - 1) - 1 \in Steps /\ Spot(s, (k - 1) - 1) = s[k - 1]
  BY <1>1, <1>k, Counted DEF Spot
<1> QED BY <1>b, <1>2, <1>5, <1>6 DEF s

-----------------------------------------------------------------------------
(***************************************************************************)
(* The pointers under fs_add_node and fs_remove_node.                      *)
(***************************************************************************)
LEMMA AddKeeps ==
    ASSUME NEW ch, Spells(ch, children, next, parent), Pointers(children, next),
           NEW p \in Dirs, NEW n \in Nodes, parent[n] = NULL, LinkLast(p, n)
    PROVE  Spells([ch EXCEPT ![p] = Append(@, n)], children', next', parent')
<1> DEFINE ch2 == [ch EXCEPT ![p] = Append(@, n)]
           s == ch[p]
           m == Len(s)
<1>1. Tree(ch, parent) /\ Strung(ch, children, next) /\ Loose(next, parent)
  BY DEF Spells
<1>2. parent' = [parent EXCEPT ![n] = p]
  BY DEF LinkLast
<1>3. Tree(ch2, parent')
  BY <1>1, <1>2, AddToTree
<1>4. /\ s \in Seq(Nodes) /\ m \in Nat
      /\ \A i \in 1 .. m : s[i] \in Nodes
      /\ \A i, j \in 1 .. m : s[i] = s[j] => i = j
      /\ \A i \in 1 .. m : parent[s[i]] = p
  <2>1. s \in Seq(Nodes) /\ m \in Nat /\ \A i \in 1 .. m : s[i] \in Nodes
    BY <1>1 DEF Tree
  <2>2. \A i, j \in 1 .. m : s[i] = s[j] => i = j
    BY <1>1 DEF Tree
  <2>3. \A i \in 1 .. m : parent[s[i]] = p
    BY <1>1, <2>1 DEF Tree
  <2> QED BY <2>1, <2>2, <2>3
<1>5. /\ ch2[p] = Append(s, n) /\ Len(ch2[p]) = m + 1 /\ ch2[p][m + 1] = n
      /\ \A i \in 1 .. m : ch2[p][i] = s[i]
      /\ \A d \in Dirs \ {p} : ch2[d] = ch[d]
  BY <1>1, <1>4 DEF Tree
<1>6. \A d \in Dirs \ {p} : \A i \in 1 .. Len(ch[d]) :
         ch[d][i] \in Nodes /\ parent[ch[d][i]] = d
  BY <1>1 DEF Tree
<1>7. /\ children[p] = IF m = 0 THEN NULL ELSE s[1]
      /\ \A i \in 1 .. m : next[s[i]] = IF i = m THEN NULL ELSE s[i + 1]
  BY <1>1 DEF Strung
<1>8. /\ \A d \in Dirs \ {p} : children[d] = IF Len(ch[d]) = 0 THEN NULL ELSE ch[d][1]
      /\ \A d \in Dirs \ {p} : \A i \in 1 .. Len(ch[d]) :
            next[ch[d][i]] = IF i = Len(ch[d]) THEN NULL ELSE ch[d][i + 1]
  BY <1>1 DEF Strung
<1>9. next[n] = NULL
  BY <1>1 DEF Loose
<1>10. m # 0 => Listed(p) = {s[i] : i \in 1 .. m}
  BY WalkEnds
<1> HIDE DEF ch2, s, m
<1>11. CASE m = 0
  <2>1. children' = [children EXCEPT ![p] = n] /\ next' = next
    BY <1>7, <1>11 DEF LinkLast
  <2>2. children'[p] = n /\ \A d \in Dirs \ {p} : children'[d] = children[d]
    BY <2>1 DEF Pointers
  <2>3. Strung(ch2, children', next')
    <3>1. ASSUME NEW d \in Dirs
          PROVE  /\ children'[d] = IF Len(ch2[d]) = 0 THEN NULL ELSE ch2[d][1]
                 /\ \A i \in 1 .. Len(ch2[d]) :
                      next'[ch2[d][i]] = IF i = Len(ch2[d]) THEN NULL ELSE ch2[d][i + 1]
      <4>1. CASE d = p
        <5>1. Len(ch2[p]) = 1 /\ ch2[p][1] = n /\ \A i \in 1 .. 1 : i = 1
          BY <1>5, <1>11
        <5> QED BY <1>9, <2>1, <2>2, <4>1, <5>1
      <4>2. CASE d # p
        BY <1>5, <1>8, <2>1, <2>2, <4>2
      <4> QED BY <4>1, <4>2
    <3> QED BY <3>1 DEF Strung
  <2>4. Loose(next', parent')
    BY <1>1, <1>2, <2>1, Distinct DEF Loose, Tree
  <2> QED BY <1>3, <2>3, <2>4 DEF Spells, ch2
<1>12. CASE m # 0
  <2>1. children[p] # NULL
    <3>1. s[1] \in Nodes
      BY <1>4, <1>12
    <3> QED BY <1>7, <1>12, <3>1, Distinct
  <2>2. m \in 1 .. m /\ s[m] \in Nodes /\ next[s[m]] = NULL /\ s[m] # n
    <3>1. m \in 1 .. m
      BY <1>4, <1>12
    <3> QED BY <1>4, <1>7, <3>1, Distinct
  <2>3. ASSUME NEW x \in Listed(p), next[x] = NULL PROVE x = s[m]
    <3>1. PICK i \in 1 .. m : x = s[i]
      BY <1>10, <1>12
    <3>2. CASE i = m
      BY <3>1, <3>2
    <3>3. CASE i # m
      <4>1. next[s[i]] = s[i + 1] /\ i + 1 \in 1 .. m
        BY <1>4, <1>7, <3>3
      <4> QED BY <1>4, <2>3, <3>1, <4>1, Distinct
    <3> QED BY <3>2, <3>3
  <2>4. s[m] \in Listed(p)
    BY <1>10, <1>12, <2>2
  <2>5. (CHOOSE x \in Listed(p) : next[x] = NULL) = s[m]
    BY <2>2, <2>3, <2>4
  <2>6. next' = [next EXCEPT ![s[m]] = n] /\ children' = children
    BY <2>1, <2>5 DEF LinkLast
  <2>7. next'[s[m]] = n /\ \A x \in Nodes : x # s[m] => next'[x] = next[x]
    BY <2>2, <2>6 DEF Pointers
  <2>8. Strung(ch2, children', next')
    <3>1. ASSUME NEW i \in 1 .. m + 1
          PROVE  next'[ch2[p][i]] = IF i = m + 1 THEN NULL ELSE ch2[p][i + 1]
      <4>1. CASE i = m + 1
        BY <1>5, <1>9, <2>2, <2>7, <4>1
      <4>2. CASE i = m
        <5>1. ch2[p][i] = s[m] /\ ch2[p][i + 1] = n /\ i # m + 1
          BY <1>4, <1>5, <2>2, <4>2
        <5> QED BY <2>7, <5>1
      <4>3. CASE i # m /\ i # m + 1
        <5>1. i \in 1 .. m /\ i + 1 \in 1 .. m
          BY <1>4, <4>3
        <5>2. s[i] # s[m] /\ s[i] \in Nodes
          BY <1>4, <2>2, <4>3, <5>1
        <5> QED BY <1>5, <1>7, <2>7, <4>3, <5>1, <5>2
      <4> QED BY <4>1, <4>2, <4>3
    <3>2. children'[p] = ch2[p][1] /\ Len(ch2[p]) # 0
      <4>1. 1 \in 1 .. m
        BY <1>4, <1>12
      <4>2. m + 1 # 0
        BY <1>4
      <4> QED BY <1>5, <1>7, <1>12, <2>6, <4>1, <4>2
    <3>3. ASSUME NEW d \in Dirs, d # p
          PROVE  /\ children'[d] = IF Len(ch2[d]) = 0 THEN NULL ELSE ch2[d][1]
                 /\ \A i \in 1 .. Len(ch2[d]) :
                      next'[ch2[d][i]] = IF i = Len(ch2[d]) THEN NULL ELSE ch2[d][i + 1]
      <4>1. \A i \in 1 .. Len(ch[d]) : ch[d][i] \in Nodes /\ ch[d][i] # s[m]
        BY <1>4, <1>6, <2>2, <3>3
      <4> QED BY <1>5, <1>8, <2>6, <2>7, <3>3, <4>1
    <3> QED BY <1>5, <3>1, <3>2, <3>3 DEF Strung
  <2>9. Loose(next', parent')
    <3> SUFFICES ASSUME NEW x \in Nodes, parent'[x] = NULL PROVE next'[x] = NULL
      BY DEF Loose
    <3>1. parent'[n] = p /\ p # NULL
      BY <1>1, <1>2, Distinct DEF Tree
    <3>2. x # n /\ parent[x] = NULL
      BY <1>1, <1>2, <3>1 DEF Tree
    <3>3. x # s[m]
      BY <1>4, <2>2, <3>1, <3>2
    <3> QED BY <1>1, <2>7, <3>2, <3>3 DEF Loose
  <2> QED BY <1>3, <2>8, <2>9 DEF Spells, ch2
<1> QED BY <1>11, <1>12

(* The stores of fs_remove_node.                                           *)
Unlinks(p, n) ==
    /\ n \in Listed(p)
    /\ FirstWithout(p, n)
    /\ next' = [NextWithout(p, n) EXCEPT ![n] = NULL]
    /\ parent' = [parent EXCEPT ![n] = NULL]

LEMMA RemoveKeeps ==
    ASSUME NEW ch, Spells(ch, children, next, parent), Pointers(children, next),
           NEW p \in Dirs, NEW n \in Nodes, Unlinks(p, n)
    PROVE  \E ch2 : Spells(ch2, children', next', parent')
<1> DEFINE s == ch[p]
           m == Len(s)
<1>1. Tree(ch, parent) /\ Strung(ch, children, next) /\ Loose(next, parent)
  BY DEF Spells
<1>2. PICK k \in 1 .. m : s[k] = n
  <2>1. n \in {ch[p][i] : i \in 1 .. Len(ch[p])}
    BY WalkEnds DEF Unlinks
  <2> QED BY <2>1
<1> DEFINE ch2 == [ch EXCEPT ![p] = RemoveAt(@, k)]
           t == RemoveAt(s, k)
<1>3. Tree(ch2, parent')
  <2>1. parent' = [parent EXCEPT ![n] = NULL]
    BY DEF Unlinks
  <2> QED BY <1>1, <1>2, <2>1, RemoveFromTree
<1>4. /\ s \in Seq(Nodes) /\ m \in Nat
      /\ \A i \in 1 .. m : s[i] \in Nodes
      /\ \A i, j \in 1 .. m : s[i] = s[j] => i = j
      /\ \A i \in 1 .. m : parent[s[i]] = p
  <2>1. s \in Seq(Nodes) /\ m \in Nat /\ \A i \in 1 .. m : s[i] \in Nodes
    BY <1>1 DEF Tree
  <2>2. \A i, j \in 1 .. m : s[i] = s[j] => i = j
    BY <1>1 DEF Tree
  <2>3. \A i \in 1 .. m : parent[s[i]] = p
    BY <1>1, <2>1 DEF Tree
  <2> QED BY <2>1, <2>2, <2>3
<1>5. ch2[p] = t /\ \A d \in Dirs \ {p} : ch2[d] = ch[d]
  BY <1>1 DEF Tree
<1>6. \A d \in Dirs \ {p} : \A i \in 1 .. Len(ch[d]) :
         ch[d][i] \in Nodes /\ parent[ch[d][i]] = d
  BY <1>1 DEF Tree
<1>7. /\ children[p] = IF m = 0 THEN NULL ELSE s[1]
      /\ \A i \in 1 .. m : next[s[i]] = IF i = m THEN NULL ELSE s[i + 1]
  BY <1>1 DEF Strung
<1>8. /\ \A d \in Dirs \ {p} : children[d] = IF Len(ch[d]) = 0 THEN NULL ELSE ch[d][1]
      /\ \A d \in Dirs \ {p} : \A i \in 1 .. Len(ch[d]) :
            next[ch[d][i]] = IF i = Len(ch[d]) THEN NULL ELSE ch[d][i + 1]
  BY <1>1 DEF Strung
<1>9. k \in 2 .. m => Before(p, n) = s[k - 1]
  BY <1>2, BeforeIs
<1> HIDE DEF ch2, s, m
<1>10. /\ Len(t) = m - 1
       /\ \A j \in 1 .. m - 1 : t[j] = IF j < k THEN s[j] ELSE s[j + 1]
  BY <1>2, <1>4, RemoveAtShape DEF m
<1> HIDE DEF t
<1>11. parent' = [parent EXCEPT ![n] = NULL] /\ parent'[n] = NULL
       /\ \A x \in Nodes \ {n} : parent'[x] = parent[x]
  BY <1>1 DEF Unlinks, Tree
<1>12. k \in Nat /\ 1 <= k /\ k <= m
  BY <1>2, <1>4
<1>13. next'[n] = NULL /\ \A d \in Dirs \ {p} : children'[d] = children[d]
  <2>1. NextWithout(p, n) \in [Nodes -> Nodes \cup {NULL}]
    BY DEF NextWithout, Pointers
  <2> QED BY <2>1 DEF Unlinks, FirstWithout, Pointers
<1> DEFINE Rewoven ==
             /\ children'[p] = IF Len(t) = 0 THEN NULL ELSE t[1]
             /\ \A j \in 1 .. Len(t) : next'[t[j]] = IF j = Len(t) THEN NULL ELSE t[j + 1]
             /\ \A x \in Nodes : x = n \/ parent[x] = p \/ next'[x] = next[x]
<1>14. ASSUME k = 1 PROVE Rewoven
  <2>1. children[p] = n /\ m # 0
    BY <1>2, <1>7, <1>12, <1>14
  <2>2. children'[p] = next[n] /\ next' = [next EXCEPT ![n] = NULL]
    BY <2>1 DEF Unlinks, FirstWithout, NextWithout, Pointers
  <2>3. \A x \in Nodes \ {n} : next'[x] = next[x]
    BY <2>2 DEF Pointers
  <2>4. children'[p] = IF m = 1 THEN NULL ELSE s[2]
    <3>1. next[s[1]] = IF 1 = m THEN NULL ELSE s[1 + 1]
      BY <1>7, <1>12, <1>14
    <3> QED BY <1>2, <1>14, <2>2, <3>1
  <2>5. \A j \in 1 .. m - 1 : t[j] = s[j + 1] /\ j + 1 \in 1 .. m /\ ~ (j < 1)
    BY <1>4, <1>10, <1>14
  <2>6. children'[p] = IF Len(t) = 0 THEN NULL ELSE t[1]
    <3>1. CASE m = 1
      BY <1>10, <2>4, <3>1
    <3>2. CASE m # 1
      <4>1. 1 \in 1 .. m - 1 /\ m - 1 # 0 /\ 1 + 1 = 2
        BY <1>4, <1>12, <3>2
      <4> QED BY <1>10, <2>4, <2>5, <3>2, <4>1
    <3> QED BY <3>1, <3>2
  <2>7. ASSUME NEW j \in 1 .. Len(t)
        PROVE  next'[t[j]] = IF j = Len(t) THEN NULL ELSE t[j + 1]
    <3>1. j \in 1 .. m - 1 /\ t[j] = s[j + 1] /\ j + 1 \in 1 .. m /\ j + 1 # k
      BY <1>4, <1>10, <1>14, <2>5
    <3>2. s[j + 1] \in Nodes \ {n}
      BY <1>2, <1>4, <3>1
    <3>3. next'[t[j]] = IF j + 1 = m THEN NULL ELSE s[(j + 1) + 1]
      BY <1>7, <2>3, <3>1, <3>2
    <3>4. CASE j = m - 1
      BY <1>4, <1>10, <3>1, <3>3, <3>4
    <3>5. CASE j # m - 1
      <4>1. j + 1 \in 1 .. m - 1 /\ j + 1 # m
        BY <1>4, <3>1, <3>5
      <4> QED BY <1>10, <2>5, <3>3, <3>5, <4>1
    <3> QED BY <3>4, <3>5
  <2> QED BY <2>3, <2>6, <2>7
<1>15. ASSUME k # 1 PROVE Rewoven
  <2>1. k \in 2 .. m /\ k - 1 \in 1 .. m /\ m # 0 /\ 1 \in 1 .. m
    BY <1>4, <1>12, <1>15
  <2>2. children[p] = s[1] /\ s[1] # n
    BY <1>2, <1>4, <1>7, <1>15, <2>1
  <2>3. Before(p, n) = s[k - 1] /\ s[k - 1] \in Nodes /\ s[k - 1] # n
    <3>1. k - 1 # k
      BY <1>12
    <3> QED BY <1>2, <1>4, <1>9, <2>1, <3>1
  <2>4. children'[p] = s[1]
    BY <2>2 DEF Unlinks, FirstWithout, Pointers
  <2>5. next' = [[next EXCEPT ![s[k - 1]] = next[n]] EXCEPT ![n] = NULL]
    BY <2>2, <2>3 DEF Unlinks, NextWithout
  <2>6. /\ next'[s[k - 1]] = next[n]
        /\ \A x \in Nodes \ {n, s[k - 1]} : next'[x] = next[x]
    BY <2>3, <2>5 DEF Pointers
  <2>7. next[n] = IF k = m THEN NULL ELSE s[k + 1]
    BY <1>2, <1>7
  <2>8. children'[p] = IF Len(t) = 0 THEN NULL ELSE t[1]
    <3>1. 1 \in 1 .. m - 1 /\ 1 < k /\ m - 1 # 0
      BY <1>4, <2>1
    <3> QED BY <1>10, <2>4, <3>1
  <2>9. ASSUME NEW j \in 1 .. Len(t)
        PROVE  next'[t[j]] = IF j = Len(t) THEN NULL ELSE t[j + 1]
    <3>1. j \in 1 .. m - 1 /\ j \in Nat
      BY <1>4, <1>10
    <3>2. CASE j < k - 1
      <4>1. /\ j \in 1 .. m /\ j < k /\ j + 1 < k /\ j + 1 \in 1 .. m - 1 /\ j # m - 1
            /\ j # m /\ j # k /\ j # k - 1
        BY <1>4, <1>12, <3>1, <3>2
      <4>2. t[j] = s[j] /\ t[j + 1] = s[j + 1]
        BY <1>10, <3>1, <4>1
      <4>3. s[j] \in Nodes \ {n, s[k - 1]}
        BY <1>2, <1>4, <2>1, <4>1
      <4>4. next'[s[j]] = s[j + 1]
        BY <1>7, <2>6, <4>1, <4>3
      <4> QED BY <1>10, <4>1, <4>2, <4>4
    <3>3. CASE j = k - 1
      <4>1. j < k /\ t[j] = s[k - 1]
        BY <1>10, <1>12, <3>1, <3>3
      <4>2. next'[t[j]] = IF k = m THEN NULL ELSE s[k + 1]
        BY <2>6, <2>7, <4>1
      <4>3. CASE k = m
        BY <1>10, <3>3, <4>2, <4>3
      <4>4. CASE k # m
        <5>1. j + 1 = k /\ k \in 1 .. m - 1 /\ ~ (k < k) /\ j # m - 1
          BY <1>4, <1>12, <3>3, <4>4
        <5> QED BY <1>10, <4>2, <4>4, <5>1
      <4> QED BY <4>3, <4>4
    <3>4. CASE j > k - 1
      <4>1. ~ (j < k) /\ j + 1 \in 1 .. m /\ j + 1 # k /\ j + 1 # k - 1
        BY <1>4, <1>12, <3>1, <3>4
      <4>2. t[j] = s[j + 1]
        BY <1>10, <3>1, <4>1
      <4>3. s[j + 1] \in Nodes \ {n, s[k - 1]}
        BY <1>2, <1>4, <2>1, <4>1
      <4>4. next'[t[j]] = IF j + 1 = m THEN NULL ELSE s[(j + 1) + 1]
        BY <1>7, <2>6, <4>1, <4>2, <4>3
      <4>5. CASE j = m - 1
        BY <1>4, <1>10, <3>1, <4>4, <4>5
      <4>6. CASE j # m - 1
        <5>1. j + 1 \in 1 .. m - 1 /\ ~ (j + 1 < k) /\ j + 1 # m
          BY <1>4, <1>12, <3>1, <3>4, <4>6
        <5> QED BY <1>10, <4>4, <4>6, <5>1
      <4> QED BY <4>5, <4>6
    <3> QED BY <1>12, <3>1, <3>2, <3>3, <3>4
  <2>10. parent[s[k - 1]] = p
    BY <1>4, <2>1
  <2> QED BY <2>6, <2>8, <2>9, <2>10
<1>16. Rewoven
  <2> HIDE DEF Rewoven
  <2> QED BY <1>14, <1>15
<1>17. Strung(ch2, children', next')
  <2>1. ASSUME NEW d \in Dirs, d # p
        PROVE  /\ children'[d] = IF Len(ch2[d]) = 0 THEN NULL ELSE ch2[d][1]
               /\ \A i \in 1 .. Len(ch2[d]) :
                    next'[ch2[d][i]] = IF i = Len(ch2[d]) THEN NULL ELSE ch2[d][i + 1]
    <3>1. \A i \in 1 .. Len(ch[d]) : ch[d][i] \in Nodes /\ ch[d][i] # n /\ parent[ch[d][i]] # p
      BY <1>2, <1>4, <1>6, <2>1
    <3>2. \A i \in 1 .. Len(ch[d]) : next'[ch[d][i]] = next[ch[d][i]]
      BY <1>16, <3>1
    <3> QED BY <1>5, <1>8, <1>13, <2>1, <3>2
  <2> QED BY <1>5, <1>16, <2>1 DEF Strung
<1>18. Loose(next', parent')
  <2> SUFFICES ASSUME NEW x \in Nodes, parent'[x] = NULL PROVE next'[x] = NULL
    BY DEF Loose
  <2>1. CASE x = n
    BY <1>13, <2>1
  <2>2. CASE x # n
    <3>1. parent[x] = NULL /\ parent[x] # p
      BY <1>11, <2>2, Distinct
    <3>2. next'[x] = next[x]
      BY <1>16, <2>2, <3>1
    <3> QED BY <1>1, <3>1, <3>2 DEF Loose
  <2> QED BY <2>1, <2>2
<1> QED BY <1>3, <1>17, <1>18 DEF Spells
-----------------------------------------------------------------------------
(***************************************************************************)
(* The tree under every operation.                                         *)
(***************************************************************************)
(* The walk along a path, as fs_resolve_path makes it.                     *)
WalkLoop(w, path) ==
    w = [i \in 0 .. Len(path) |-> IF i = 0 THEN Root ELSE Step(w[i - 1], path[i])]

(* The empty path is the root, so that open creates nothing there.         *)
LEMMA EmptyPath == fs_resolve_path(<<>>) = Root
<1> DEFINE g == [i \in 0 .. 0 |-> Root]
<1>1. Len(<<>>) = 0 /\ \A i \in 0 .. 0 : i = 0
  OBVIOUS
<1>2. WalkLoop(g, <<>>)
  BY <1>1 DEF WalkLoop
<1>3. \A w : WalkLoop(w, <<>>) => w[Len(<<>>)] = Root
  BY <1>1 DEF WalkLoop
<1> HIDE DEF g
<1>4. WalkLoop(CHOOSE w : WalkLoop(w, <<>>), <<>>)
  BY <1>2
<1>5. fs_resolve_path(<<>>) = (CHOOSE w : WalkLoop(w, <<>>))[Len(<<>>)]
  BY Zenon DEF fs_resolve_path, WalkLoop
<1> QED BY <1>3, <1>4, <1>5

LEMMA LastName ==
    ASSUME NEW path \in Paths, fs_resolve_path(path) = NULL
    PROVE  path[Len(path)] \in Names
<1>1. path \in Seq(Names)
  BY FilesAssumption
<1>2. path # <<>>
  BY EmptyPath, Distinct DEF Nodes, Dirs
<1> QED BY <1>1, <1>2

LEMMA TreeStart == Init => TreeInv
<1> SUFFICES ASSUME Init PROVE TreeInv
  OBVIOUS
<1> DEFINE ch == [d \in Dirs |-> IF d = Root THEN <<Dir, Link>> ELSE <<>>]
<1>1. /\ children = [d \in Dirs |-> IF d = Root THEN Dir ELSE NULL]
      /\ next = [n \in Nodes |-> IF n = Dir THEN Link ELSE NULL]
      /\ parent = [n \in Nodes |-> IF n \in {Dir, Link} THEN Root ELSE NULL]
      /\ relinked = FALSE /\ newname = NoName
  BY DEF Init
<1>2. Root \in Dirs /\ Dir \in Nodes /\ Link \in Nodes /\ New \in Nodes /\ New \notin {Dir, Link}
  BY Distinct DEF Dirs, Nodes
<1>3. /\ Pointers(children, next) /\ parent \in [Nodes -> Dirs \cup {NULL}]
      /\ parent[New] = NULL
  BY <1>1, <1>2 DEF Pointers
<1>4. /\ ch \in [Dirs -> Seq(Nodes)] /\ ch[Root] = <<Dir, Link>>
      /\ \A d \in Dirs \ {Root} : ch[d] = <<>> /\ Len(ch[d]) = 0
      /\ Len(ch[Root]) = 2 /\ ch[Root][1] = Dir /\ ch[Root][2] = Link
      /\ \A i \in 1 .. 2 : i = 1 \/ i = 2
  BY <1>2
<1> HIDE DEF ch
<1>5. \A p \in Dirs \ {Root} : \A i \in 1 .. Len(ch[p]) : FALSE
  BY <1>4
<1>6. Tree(ch, parent)
  <2>1. ASSUME NEW p \in Dirs, NEW n \in Nodes
        PROVE  (parent[n] = p) <=> \E i \in 1 .. Len(ch[p]) : ch[p][i] = n
    <3>1. CASE p = Root
      <4>1. (parent[n] = Root) <=> n \in {Dir, Link}
        BY <1>1, <1>2, Distinct
      <4>2. 1 \in 1 .. 2 /\ 2 \in 1 .. 2
        OBVIOUS
      <4> QED BY <1>4, <3>1, <4>1, <4>2
    <3>2. CASE p # Root
      BY <1>1, <1>5, <3>2, Distinct
    <3> QED BY <3>1, <3>2
  <2>2. \A i, j \in 1 .. Len(ch[Root]) : ch[Root][i] = ch[Root][j] => i = j
    BY <1>4, Distinct
  <2> QED BY <1>3, <1>4, <1>5, <2>1, <2>2 DEF Tree
<1>7. Strung(ch, children, next)
  <2>1. \A d \in Dirs : children[d] = IF Len(ch[d]) = 0 THEN NULL ELSE ch[d][1]
    <3>1. children[Root] = Dir /\ \A d \in Dirs \ {Root} : children[d] = NULL
      BY <1>1, <1>2
    <3> QED BY <1>4, <3>1
  <2>2. \A i \in 1 .. Len(ch[Root]) :
           next[ch[Root][i]] = IF i = Len(ch[Root]) THEN NULL ELSE ch[Root][i + 1]
    BY <1>1, <1>2, <1>4, Distinct
  <2> QED BY <1>5, <2>1, <2>2 DEF Strung
<1>8. Loose(next, parent)
  BY <1>1, Distinct DEF Loose, Dirs
<1> QED BY <1>1, <1>3, <1>6, <1>7, <1>8 DEF TreeInv, Spells

(* Whatever node is linked or unlinked, the pointers keep their types.     *)
LEMMA LinkTypes ==
    ASSUME Pointers(children, next), parent \in [Nodes -> Dirs \cup {NULL}],
           NEW p \in Dirs, NEW n \in Nodes, LinkLast(p, n)
    PROVE  /\ Pointers(children', next')
           /\ parent' \in [Nodes -> Dirs \cup {NULL}] /\ parent'[n] = p
           /\ \A x \in Nodes \ {n} : parent'[x] = parent[x]
  BY DEF LinkLast, Pointers

LEMMA TreeStep == TreeInv /\ [Next]_vars => TreeInv'
<1> SUFFICES ASSUME TreeInv, [Next]_vars PROVE TreeInv'
  OBVIOUS
<1>0. CASE UNCHANGED tree
  BY <1>0 DEF TreeInv, tree, links
<1>t. /\ Pointers(children, next) /\ parent \in [Nodes -> Dirs \cup {NULL}]
      /\ relinked \in BOOLEAN
      /\ ~ relinked => \E ch : Spells(ch, children, next, parent)
  BY DEF TreeInv
<1>1. ASSUME NEW p \in Dirs, NEW n \in Files, fs_add_node(p, n) PROVE TreeInv'
  <2>1. n \in Nodes /\ New \in Nodes /\ n # New
    BY Distinct DEF AllFiles, Nodes
  <2>2. newname' = newname /\ relinked' = (relinked \/ parent[n] # NULL)
    BY <1>1 DEF fs_add_node
  <2>3. /\ Pointers(children', next') /\ parent' \in [Nodes -> Dirs \cup {NULL}]
        /\ parent'[New] = parent[New]
    <3>1. CASE LinkLast(p, n)
      BY <1>t, <2>1, <3>1, LinkTypes
    <3>2. CASE parent' = [parent EXCEPT ![n] = p] /\ UNCHANGED <<children, next>>
      BY <1>t, <2>1, <3>2 DEF Pointers
    <3> QED BY <1>1, <3>1, <3>2 DEF fs_add_node
  <2>4. ASSUME ~ relinked' PROVE \E ch : Spells(ch, children', next', parent')
    <3>1. ~ relinked /\ parent[n] = NULL
      BY <2>2, <2>4
    <3>2. PICK ch : Spells(ch, children, next, parent)
      BY <1>t, <3>1
    <3>3. Ends(p)
      BY <3>2, WalkEnds
    <3>4. LinkLast(p, n)
      BY <1>1, <3>3 DEF fs_add_node
    <3> QED BY <1>t, <2>1, <3>1, <3>2, <3>4, AddKeeps
  <2>5. relinked' \in BOOLEAN
    BY <1>t, <2>2
  <2> QED BY <2>2, <2>3, <2>4, <2>5 DEF TreeInv
<1>2. ASSUME NEW p \in Dirs, NEW n \in AllFiles, fs_remove_node(p, n) PROVE TreeInv'
  <2>1. n \in Nodes /\ New \in Nodes
    BY Distinct DEF Nodes
  <2>2. UNCHANGED <<newname, relinked>> /\ (n = New => newname # NoName)
    BY <1>2 DEF fs_remove_node, Made
  <2>3. CASE Unlinks(p, n)
    <3>1. /\ Pointers(children', next') /\ parent' \in [Nodes -> Dirs \cup {NULL}]
          /\ newname = NoName => parent'[New] = parent[New]
      <4>1. next[n] \in Nodes \cup {NULL}
        BY <1>t, <2>1 DEF Pointers
      <4>2. NextWithout(p, n) \in [Nodes -> Nodes \cup {NULL}]
        BY <1>t, <4>1 DEF Pointers, NextWithout
      <4>3. Pointers(children', next')
        BY <1>t, <2>3, <4>1, <4>2 DEF Pointers, Unlinks, FirstWithout
      <4> QED BY <1>t, <2>1, <2>2, <2>3, <4>3 DEF Unlinks
    <3>2. ASSUME ~ relinked PROVE \E ch : Spells(ch, children', next', parent')
      <4>1. PICK ch : Spells(ch, children, next, parent)
        BY <1>t, <3>2
      <4> QED BY <1>t, <2>1, <2>3, <4>1, RemoveKeeps
    <3> QED BY <2>2, <3>1, <3>2 DEF TreeInv
  <2>4. CASE UNCHANGED <<children, next, parent>>
    BY <1>0, <2>2, <2>4 DEF tree, links
  <2> QED BY <1>2, <2>3, <2>4 DEF fs_remove_node, Unlinks
<1>3. ASSUME NEW path \in Paths, NEW flags, OpenCreate(path, fs_resolve_path(path), flags)
      PROVE  TreeInv'
  <2>1. newname' \in Names /\ newname' # NoName /\ newname = NoName
    BY <1>3, LastName, FilesAssumption DEF OpenCreate
  <2>2. parent[New] = NULL /\ New \in Nodes
    BY <2>1 DEF TreeInv, Nodes
  <2>3. CASE UNCHANGED links
    BY <2>1, <2>3 DEF TreeInv, links
  <2>4. ASSUME NEW p \in Dirs, LinkLast(p, New), relinked' = relinked PROVE TreeInv'
    <3>1. Pointers(children', next') /\ parent' \in [Nodes -> Dirs \cup {NULL}]
      BY <1>t, <2>2, <2>4, LinkTypes
    <3>2. ASSUME ~ relinked PROVE \E ch : Spells(ch, children', next', parent')
      <4>1. PICK ch : Spells(ch, children, next, parent)
        BY <1>t, <3>2
      <4> QED BY <1>t, <2>2, <2>4, <4>1, AddKeeps
    <3> QED BY <1>t, <2>1, <2>4, <3>1, <3>2 DEF TreeInv
  <2> QED BY <1>3, <2>3, <2>4 DEF OpenCreate
<1>4. ASSUME NEW path \in Paths, syscall_open(path) PROVE TreeInv'
  <2>1. ASSUME NEW flags, OpenExisting(fs_resolve_path(path), flags) PROVE TreeInv'
    BY <1>0, <2>1 DEF OpenExisting
  <2>2. CASE OpenEndless(fs_resolve_path(path))
    BY <1>0, <2>2 DEF OpenEndless
  <2> QED BY <1>3, <1>4, <2>1, <2>2 DEF syscall_open
<1>5. CASE \E f \in Files, m \in Masks : SetMask(f, m)
  BY <1>0, <1>5 DEF SetMask
<1>6. CASE \E fd \in Fd : syscall_close(fd)
  BY <1>0, <1>6 DEF syscall_close
<1>7. CASE \E fd \in Fd, count \in Counts : syscall_read(fd, count)
  BY <1>0, <1>7 DEF syscall_read
<1>8. CASE \E fd \in Fd, count \in Counts : syscall_write(fd, count, 1)
  BY <1>0, <1>8 DEF syscall_write
<1>9. CASE UNCHANGED vars
  BY <1>0, <1>9 DEF vars
<1> QED BY <1>1, <1>2, <1>4, <1>5, <1>6, <1>7, <1>8, <1>9 DEF Next
-----------------------------------------------------------------------------
(***************************************************************************)
(* The bytes.                                                              *)
(***************************************************************************)
(* The block of a file has room for it.                                    *)
Roomy(len, block, file) ==
    /\ len \in 0 .. MaxLength
    /\ block \in Seq(Byte \cup {Junk}) /\ file \in Seq(Byte)
    /\ len <= Len(block)

(* The block begins with the file.                                         *)
Same(len, block, file) ==
    Len(file) = len /\ \A i \in 1 .. len : block[i] = file[i]

Whole == accidents \cap {"cut", "stray"} = {}

FileInv ==
    /\ mask \in [AllFiles -> SUBSET {"READ", "WRITE"}]
    /\ fd_table \in [Fd -> [node : AllFiles \cup {NULL}, offset : 0 .. Modulus - 1]]
    /\ stuck \in BOOLEAN
    /\ accidents \subseteq {"truncated", "beyond", "cut", "stray"}
    /\ length \in [AllFiles -> 0 .. MaxLength]
    /\ contents \in [AllFiles -> Seq(Byte \cup {Junk})]
    /\ ideal \in [AllFiles -> Seq(Byte)]
    /\ \A f \in AllFiles : Roomy(length[f], contents[f], ideal[f])
    /\ Whole => \A f \in AllFiles : Same(length[f], contents[f], ideal[f])
    /\ accidents = {} => \A fd \in Fd : fd_table[fd].node # NULL =>
                            fd_table[fd].offset <= length[fd_table[fd].node]

IsBlock(block, m, T) == block \in [1 .. m -> T]

(* What memcpy leaves in a block of m bytes.                               *)
Overlaid(t, block, m, T, o, count, b) ==
    /\ t \in Seq(T) /\ Len(t) = m
    /\ \A i \in 1 .. m : t[i] = IF i > o /\ i <= o + count THEN b ELSE block[i]

LEMMA OverlayShape ==
    ASSUME NEW T, NEW m \in Nat, NEW block, IsBlock(block, m, T), NEW o \in Nat,
           NEW count \in Nat, NEW b \in T
    PROVE  Overlaid(Overlay(block, o, count, b), block, m, T, o, count, b)
<1> DEFINE t == Overlay(block, o, count, b)
<1>0. block \in [1 .. m -> T]
  BY DEF IsBlock
<1>1. t = [i \in 1 .. m |-> IF i > o /\ i <= o + count THEN b ELSE block[i]]
  BY <1>0 DEF Overlay
<1>2. t \in [1 .. m -> T] /\ \A i \in 1 .. m : t[i] = IF i > o /\ i <= o + count THEN b ELSE block[i]
  BY <1>0, <1>1
<1> HIDE DEF t
<1>3. t \in Seq(T) /\ Len(t) = m
  BY <1>2
<1> QED BY <1>2, <1>3 DEF Overlaid, t

(* The block that a write to size leaves before the bytes are copied.      *)
LEMMA GrownShape ==
    ASSUME FileInv, NEW n \in AllFiles, NEW size \in 0 .. MaxLength
    PROVE  \E m \in Nat :
             /\ m >= size /\ m >= length[n]
             /\ Grown(n, size) \in [1 .. m -> Byte \cup {Junk}]
             /\ ~ (size > length[n] /\ length[n] > CopySize) =>
                   /\ \A i \in 1 .. length[n] : Grown(n, size)[i] = contents[n][i]
                   /\ \A i \in length[n] + 1 .. size : Grown(n, size)[i] = 0
<1> DEFINE l == length[n]
           c == contents[n]
           T == Byte \cup {Junk}
<1>1. Roomy(l, c, ideal[n]) /\ MaxLength \in Nat /\ CopySize \in Nat
  BY FilesAssumption DEF FileInv
<1>2. l \in Nat /\ c \in Seq(T) /\ l <= Len(c) /\ Len(c) \in Nat /\ size \in Nat
  BY <1>1 DEF Roomy
<1>3. 0 \in T /\ Junk \in T
  BY DEF Byte
<1>4. CASE size <= l
  <2>1. Grown(n, size) = c
    BY <1>4 DEF Grown
  <2>2. c \in [1 .. Len(c) -> T]
    BY <1>2
  <2>3. \A i \in l + 1 .. size : FALSE
    BY <1>2, <1>4
  <2> HIDE DEF c, T, l
  <2>4. /\ Len(c) >= size /\ Len(c) >= l /\ Grown(n, size) \in [1 .. Len(c) -> T]
        /\ \A i \in 1 .. l : Grown(n, size)[i] = c[i]
        /\ \A i \in l + 1 .. size : Grown(n, size)[i] = 0
    BY <1>2, <1>4, <2>1, <2>2, <2>3
  <2> QED BY <1>2, <2>4 DEF c, T, l
<1>5. CASE ~ (size <= l)
  <2>1. Grown(n, size) = [i \in 1 .. size |-> IF i > l THEN 0
                                              ELSE IF i <= CopySize THEN c[i] ELSE Junk]
    BY <1>5 DEF Grown
  <2> HIDE DEF l, c, T
  <2>2. ASSUME NEW i \in 1 .. size
        PROVE  (IF i > l THEN 0 ELSE IF i <= CopySize THEN c[i] ELSE Junk) \in T
    <3>1. CASE i > l
      BY <1>3, <3>1
    <3>2. CASE ~ (i > l)
      <4>1. c[i] \in T
        BY <1>2, <3>2
      <4> QED BY <1>3, <3>2, <4>1
    <3> QED BY <3>1, <3>2
  <2>3. Grown(n, size) \in [1 .. size -> T]
    BY <2>1, <2>2
  <2>4. ASSUME ~ (l > CopySize)
        PROVE  /\ \A i \in 1 .. l : Grown(n, size)[i] = c[i]
               /\ \A i \in l + 1 .. size : Grown(n, size)[i] = 0
    <3>1. ASSUME NEW i \in 1 .. l PROVE Grown(n, size)[i] = c[i]
      <4>1. i \in 1 .. size /\ ~ (i > l) /\ i <= CopySize
        BY <1>1, <1>2, <1>5, <2>4
      <4> QED BY <2>1, <4>1
    <3>2. ASSUME NEW i \in l + 1 .. size PROVE Grown(n, size)[i] = 0
      <4>1. i \in 1 .. size /\ i > l
        BY <1>2
      <4> QED BY <2>1, <4>1
    <3> QED BY <3>1, <3>2
  <2>5. size >= size /\ size >= l /\ size > l
    BY <1>2, <1>5
  <2> QED BY <1>2, <2>3, <2>4, <2>5 DEF l, c, T
<1> QED BY <1>4, <1>5

LEMMA WriteShape ==
    ASSUME FileInv, NEW n \in AllFiles, NEW o \in 0 .. Modulus - 1, NEW count \in Counts,
           NEW size \in 0 .. MaxLength
    PROVE  /\ Overlay(Grown(n, size), o, count, 1) \in Seq(Byte \cup {Junk})
           /\ length[n] <= Len(Overlay(Grown(n, size), o, count, 1))
           /\ size <= Len(Overlay(Grown(n, size), o, count, 1))
           /\ size = o + count =>
                 /\ Written(ideal[n], o, count, 1) \in Seq(Byte)
                 /\ /\ Same(length[n], contents[n], ideal[n])
                    /\ ~ (size > length[n] /\ length[n] > CopySize)
                    => Same(IF size > length[n] THEN size ELSE length[n],
                            Overlay(Grown(n, size), o, count, 1),
                            Written(ideal[n], o, count, 1))
<1> DEFINE l == length[n]
           c == contents[n]
           d == ideal[n]
           g == Grown(n, size)
           t == Overlay(g, o, count, 1)
           T == Byte \cup {Junk}
<1>1. /\ o \in Nat /\ count \in Nat /\ size \in Nat /\ l \in Nat
      /\ d \in Seq(Byte) /\ Len(d) \in Nat /\ 1 \in Byte /\ 1 \in T /\ 0 \in Byte
  BY FilesAssumption DEF FileInv, Byte
<1>2. PICK m \in Nat :
         /\ m >= size /\ m >= l
         /\ g \in [1 .. m -> T]
         /\ ~ (size > l /\ l > CopySize) =>
               /\ \A i \in 1 .. l : g[i] = c[i]
               /\ \A i \in l + 1 .. size : g[i] = 0
  BY GrownShape
<1> HIDE DEF g, T, l, c, d
<1>3. /\ t \in Seq(T) /\ Len(t) = m
      /\ \A i \in 1 .. m : t[i] = IF i > o /\ i <= o + count THEN 1 ELSE g[i]
  <2>1. IsBlock(g, m, T)
    BY <1>2 DEF IsBlock
  <2>2. Overlaid(t, g, m, T, o, count, 1)
    BY <1>1, <2>1, OverlayShape
  <2> QED BY <2>2 DEF Overlaid
<1> HIDE DEF t
<1>4. ASSUME size = o + count
      PROVE  /\ Written(d, o, count, 1) \in Seq(Byte)
             /\ Len(Written(d, o, count, 1)) = IF size > Len(d) THEN size ELSE Len(d)
             /\ \A i \in 1 .. IF size > Len(d) THEN size ELSE Len(d) :
                  Written(d, o, count, 1)[i] =
                     IF i > o /\ i <= o + count THEN 1
                     ELSE IF i <= Len(d) THEN d[i] ELSE 0
  <2> DEFINE k == IF size > Len(d) THEN size ELSE Len(d)
             w == [i \in 1 .. k |-> IF i <= Len(d) THEN d[i] ELSE 0]
  <2>1. k \in Nat
    BY <1>1
  <2>2. Written(d, o, count, 1) = Overlay(w, o, count, 1)
    BY <1>4 DEF Written
  <2> HIDE DEF k
  <2>3. w \in [1 .. k -> Byte] /\ \A i \in 1 .. k : w[i] = IF i <= Len(d) THEN d[i] ELSE 0
    BY <1>1, <2>1
  <2> HIDE DEF w
  <2>4. /\ Overlay(w, o, count, 1) \in Seq(Byte) /\ Len(Overlay(w, o, count, 1)) = k
        /\ \A i \in 1 .. k : Overlay(w, o, count, 1)[i] =
              IF i > o /\ i <= o + count THEN 1 ELSE w[i]
    <3>1. IsBlock(w, k, Byte)
      BY <2>3 DEF IsBlock
    <3>2. Overlaid(Overlay(w, o, count, 1), w, k, Byte, o, count, 1)
      BY <1>1, <2>1, <3>1, OverlayShape
    <3> QED BY <3>2 DEF Overlaid
  <2> QED BY <2>2, <2>3, <2>4 DEF k
<1>5. ASSUME size = o + count, Same(l, c, d), ~ (size > l /\ l > CopySize)
      PROVE  Same(IF size > l THEN size ELSE l, t, Written(d, o, count, 1))
  <2> DEFINE k == IF size > l THEN size ELSE l
             w == Written(d, o, count, 1)
  <2>1. Len(d) = l /\ \A i \in 1 .. l : c[i] = d[i]
    BY <1>5 DEF Same
  <2>2. /\ Len(w) = k
        /\ \A i \in 1 .. k : w[i] = IF i > o /\ i <= o + count THEN 1
                                    ELSE IF i <= l THEN d[i] ELSE 0
    BY <1>4, <1>5, <2>1
  <2>3. k \in Nat /\ k <= m /\ (k = size \/ k = l)
    BY <1>1, <1>2
  <2> HIDE DEF w
  <2>4. ASSUME NEW i \in 1 .. k PROVE t[i] = w[i]
    <3>1. i \in 1 .. m
      BY <2>3
    <3>2. CASE i > o /\ i <= o + count
      BY <1>3, <2>2, <3>1, <3>2
    <3>3. CASE ~ (i > o /\ i <= o + count) /\ i <= l
      <4>1. i \in 1 .. l /\ g[i] = c[i] /\ c[i] = d[i]
        BY <1>2, <1>5, <2>1, <3>1, <3>3
      <4> QED BY <1>3, <2>2, <3>1, <3>3, <4>1
    <3>4. CASE ~ (i > o /\ i <= o + count) /\ ~ (i <= l)
      <4>1. i \in l + 1 .. size
        BY <1>1, <2>3, <3>4
      <4>2. g[i] = 0
        BY <1>2, <1>5, <4>1
      <4> QED BY <1>3, <2>2, <3>1, <3>4, <4>2
    <3> QED BY <3>2, <3>3, <3>4
  <2> QED BY <2>2, <2>4 DEF Same, w
<1> QED BY <1>2, <1>3, <1>4, <1>5 DEF l, c, d, g, t, T
LEMMA FileStart == Init => FileInv
<1> SUFFICES ASSUME Init PROVE FileInv
  OBVIOUS
<1>1. MaxLength \in Nat /\ 0 \in 0 .. MaxLength /\ 0 \in 0 .. Modulus - 1
  BY FilesAssumption
<1>2. \A f \in AllFiles : length[f] = 0 /\ contents[f] = <<>> /\ ideal[f] = <<>>
  BY DEF Init
<1>3. /\ <<>> \in Seq(Byte \cup {Junk}) /\ <<>> \in Seq(Byte) /\ Len(<<>>) = 0
  OBVIOUS
<1>4. \A f \in AllFiles : Roomy(length[f], contents[f], ideal[f])
  <2>1. Roomy(0, <<>>, <<>>)
    BY <1>1, <1>3 DEF Roomy
  <2> QED BY <1>2, <2>1
<1>5. \A f \in AllFiles : Same(length[f], contents[f], ideal[f])
  BY <1>2, <1>3 DEF Same
<1>6. /\ length \in [AllFiles -> 0 .. MaxLength]
      /\ contents \in [AllFiles -> Seq(Byte \cup {Junk})]
      /\ ideal \in [AllFiles -> Seq(Byte)]
  BY <1>1, <1>3 DEF Init
<1>7. /\ fd_table \in [Fd -> [node : AllFiles \cup {NULL}, offset : 0 .. Modulus - 1]]
      /\ \A fd \in Fd : fd_table[fd].node = NULL
  BY <1>1 DEF Init
<1>8. /\ mask \in [AllFiles -> SUBSET {"READ", "WRITE"}]
      /\ stuck \in BOOLEAN /\ accidents = {}
  BY DEF Init
<1> QED BY <1>4, <1>5, <1>6, <1>7, <1>8 DEF FileInv

(* A length is an offset.                                                  *)
LEMMA Bounds ==
    /\ Modulus \in Nat \ {0} /\ MaxLength \in Nat /\ MaxLength < Modulus
    /\ \A x \in 0 .. MaxLength : x \in Nat /\ x \in 0 .. Modulus - 1
    /\ \A x \in 0 .. Modulus - 1 : x \in Nat
  BY FilesAssumption

(* x % Modulus is one of Modulus numbers, x itself if it is one of them.   *)
LEMMA Wraps ==
    /\ \A x \in Int : x % Modulus \in 0 .. Modulus - 1
    /\ \A x \in 0 .. Modulus - 1 : x % Modulus = x
  BY FilesAssumption

LEMMA TruncateKeeps ==
    ASSUME FileInv, NEW n \in AllFiles, NEW flags, Truncate(n, flags)
    PROVE  /\ length' \in [AllFiles -> 0 .. MaxLength]
           /\ contents' \in [AllFiles -> Seq(Byte \cup {Junk})]
           /\ ideal' \in [AllFiles -> Seq(Byte)]
           /\ accidents' \subseteq {"truncated", "beyond", "cut", "stray"}
           /\ \A f \in AllFiles : Roomy(length'[f], contents'[f], ideal'[f])
           /\ Whole' => \A f \in AllFiles : Same(length'[f], contents'[f], ideal'[f])
           /\ accidents' = {} => \A fd \in Fd : fd_table[fd].node # NULL =>
                                    fd_table[fd].offset <= length'[fd_table[fd].node]
<1>1. CASE UNCHANGED <<data, accidents>>
  BY <1>1 DEF FileInv, Whole, data
<1>2. CASE ~ UNCHANGED <<data, accidents>>
  <2> DEFINE c == contents[n]
             z == [i \in DOMAIN c |-> IF i <= length[n] THEN 0 ELSE c[i]]
             T == Byte \cup {Junk}
  <2>1. /\ length' = [length EXCEPT ![n] = 0]
        /\ contents' = [contents EXCEPT ![n] = z]
        /\ ideal' = [ideal EXCEPT ![n] = <<>>]
        /\ accidents' = accidents \cup
              IF \E fd \in Fd : fd_table[fd].node = n /\ fd_table[fd].offset > 0
              THEN {"truncated"} ELSE {}
    BY <1>2 DEF Truncate
  <2>2. z \in Seq(T)
    <3>1. c \in Seq(T) /\ 0 \in T
      BY DEF FileInv, Byte
    <3> HIDE DEF c, T
    <3>2. Len(c) \in Nat /\ DOMAIN c = 1 .. Len(c) /\ \A i \in 1 .. Len(c) : c[i] \in T
      BY <3>1
    <3>3. z \in [1 .. Len(c) -> T]
      BY <3>1, <3>2
    <3> HIDE DEF z
    <3> QED BY <3>2, <3>3
  <2> HIDE DEF z, c
  <2>3. MaxLength \in Nat /\ <<>> \in Seq(Byte) /\ Len(<<>>) = 0 /\ Len(z) \in Nat
    BY <2>2, Bounds
  <2>4. /\ length' \in [AllFiles -> 0 .. MaxLength]
        /\ contents' \in [AllFiles -> Seq(T)]
        /\ ideal' \in [AllFiles -> Seq(Byte)]
    BY <2>1, <2>2, <2>3 DEF FileInv
  <2>5. /\ length'[n] = 0 /\ contents'[n] = z /\ ideal'[n] = <<>>
        /\ \A f \in AllFiles \ {n} : /\ length'[f] = length[f] /\ contents'[f] = contents[f]
                                     /\ ideal'[f] = ideal[f]
    BY <2>1 DEF FileInv
  <2>6. Roomy(length'[n], contents'[n], ideal'[n]) /\ Same(length'[n], contents'[n], ideal'[n])
    BY <2>2, <2>3, <2>5 DEF Roomy, Same
  <2>7. \A f \in AllFiles : Roomy(length'[f], contents'[f], ideal'[f])
    BY <2>5, <2>6 DEF FileInv
  <2>8. Whole' => \A f \in AllFiles : Same(length'[f], contents'[f], ideal'[f])
    <3>1. Whole' => Whole
      BY <2>1 DEF Whole
    <3> QED BY <2>5, <2>6, <3>1 DEF FileInv
  <2>9. accidents' \subseteq {"truncated", "beyond", "cut", "stray"}
    BY <2>1 DEF FileInv
  <2>10. ASSUME accidents' = {}, NEW fd \in Fd, fd_table[fd].node # NULL
         PROVE  fd_table[fd].offset <= length'[fd_table[fd].node]
    <3>1. accidents = {} /\ ~ (fd_table[fd].node = n /\ fd_table[fd].offset > 0)
      BY <2>1, <2>10
    <3>2. fd_table[fd].node \in AllFiles /\ fd_table[fd].offset \in 0 .. Modulus - 1
      BY <2>10 DEF FileInv
    <3>3. fd_table[fd].offset <= length[fd_table[fd].node]
      BY <2>10, <3>1 DEF FileInv
    <3>4. CASE fd_table[fd].node = n
      BY <2>5, <3>1, <3>2, <3>4, Bounds
    <3>5. CASE fd_table[fd].node # n
      BY <2>5, <3>2, <3>3, <3>5
    <3> QED BY <3>4, <3>5
  <2> QED BY <2>4, <2>7, <2>8, <2>9, <2>10
<1> QED BY <1>1, <1>2

LEMMA OpenKeeps ==
    ASSUME FileInv, NEW n \in AllFiles, NEW flags, OpenNode(n, flags)
    PROVE  FileInv'
<1>1. /\ length' \in [AllFiles -> 0 .. MaxLength]
      /\ contents' \in [AllFiles -> Seq(Byte \cup {Junk})]
      /\ ideal' \in [AllFiles -> Seq(Byte)]
      /\ accidents' \subseteq {"truncated", "beyond", "cut", "stray"}
      /\ \A f \in AllFiles : Roomy(length'[f], contents'[f], ideal'[f])
      /\ Whole' => \A f \in AllFiles : Same(length'[f], contents'[f], ideal'[f])
      /\ accidents' = {} => \A fd \in Fd : fd_table[fd].node # NULL =>
                               fd_table[fd].offset <= length'[fd_table[fd].node]
  BY TruncateKeeps DEF OpenNode
<1>2. mask' \in [AllFiles -> SUBSET {"READ", "WRITE"}]
  BY DEF OpenNode, FileInv
<1>3. CASE UNCHANGED <<fd_table, stuck>>
  BY <1>1, <1>2, <1>3 DEF FileInv
<1>4. CASE ~ UNCHANGED <<fd_table, stuck>>
  <2> DEFINE fd == First(FreeFds)
             new == [node |-> n, offset |-> StartOffset(n, flags)]
  <2>1. fd_table' = [fd_table EXCEPT ![fd] = new] /\ stuck' \in BOOLEAN
    BY <1>4 DEF OpenNode
  <2>2. new \in [node : AllFiles \cup {NULL}, offset : 0 .. Modulus - 1] /\ new.node = n
    <3>1. StartOffset(n, flags) \in 0 .. Modulus - 1
      BY <1>1, Bounds DEF StartOffset
    <3> QED BY <3>1
  <2>3. new.offset <= length'[n]
    BY <1>1, Bounds DEF StartOffset
  <2> HIDE DEF fd, new
  <2>4. fd_table' \in [Fd -> [node : AllFiles \cup {NULL}, offset : 0 .. Modulus - 1]]
    BY <2>1, <2>2 DEF FileInv
  <2>5. \A e \in Fd : fd_table'[e] = new \/ fd_table'[e] = fd_table[e]
    BY <2>1 DEF FileInv
  <2>6. accidents' = {} => \A e \in Fd : fd_table'[e].node # NULL =>
                              fd_table'[e].offset <= length'[fd_table'[e].node]
    BY <1>1, <2>2, <2>3, <2>5
  <2> QED BY <1>1, <1>2, <2>1, <2>4, <2>6 DEF FileInv
<1> QED BY <1>3, <1>4
LEMMA WriteKeeps ==
    ASSUME FileInv, NEW fd \in Fd, NEW count \in Counts, syscall_write(fd, count, 1)
    PROVE  FileInv'
<1> DEFINE n == fd_table[fd].node
           o == fd_table[fd].offset
           size == (o + count) % Modulus
           block == Overlay(Grown(n, size), o, count, 1)
           l == IF size > length[n] THEN size ELSE length[n]
<1>1. /\ n \in AllFiles /\ o \in 0 .. Modulus - 1 /\ size \in 0 .. MaxLength
      /\ count \in Nat /\ o \in Nat
  <2>1. n \in AllFiles /\ o \in 0 .. Modulus - 1
    BY DEF FileInv, syscall_write
  <2>2. o \in Nat /\ count \in Nat
    BY <2>1, FilesAssumption
  <2>3. o + count \in Int
    BY <2>2
  <2>4. size \in 0 .. Modulus - 1 /\ size <= MaxLength
    BY <2>3, Wraps DEF syscall_write
  <2> QED BY <2>1, <2>2, <2>4, Bounds
<1>2. /\ contents' = [contents EXCEPT ![n] = block]
      /\ length' = [length EXCEPT ![n] = l]
      /\ fd_table' = [fd_table EXCEPT ![fd].offset = size]
      /\ mask' = mask /\ stuck' = stuck
      /\ \/ /\ size = o + count
            /\ ideal' = [ideal EXCEPT ![n] = Written(ideal[n], o, count, 1)]
            /\ accidents' = accidents \cup
                  IF size > length[n] /\ length[n] > CopySize THEN {"cut"} ELSE {}
         \/ /\ size # o + count
            /\ accidents' = accidents \cup {"stray"}
            /\ ideal' = ideal
  BY DEF syscall_write, Advance
<1> HIDE DEF n, o, size
<1>3. /\ block \in Seq(Byte \cup {Junk}) /\ length[n] <= Len(block) /\ size <= Len(block)
      /\ size = o + count =>
            /\ Written(ideal[n], o, count, 1) \in Seq(Byte)
            /\ /\ Same(length[n], contents[n], ideal[n])
               /\ ~ (size > length[n] /\ length[n] > CopySize)
               => Same(l, block, Written(ideal[n], o, count, 1))
  BY <1>1, WriteShape
<1>4. length[n] \in 0 .. MaxLength /\ size \in 0 .. MaxLength
  BY <1>1 DEF FileInv
<1>5. l \in 0 .. MaxLength /\ l <= Len(block) /\ length[n] <= l /\ size <= l
  BY <1>3, <1>4, Bounds
<1> HIDE DEF l, block
<1>6. /\ length' \in [AllFiles -> 0 .. MaxLength]
      /\ contents' \in [AllFiles -> Seq(Byte \cup {Junk})]
  BY <1>2, <1>3, <1>5 DEF FileInv
<1>7. ideal' \in [AllFiles -> Seq(Byte)]
  <2>1. CASE ideal' = ideal
    BY <2>1 DEF FileInv
  <2>2. CASE size = o + count /\ ideal' = [ideal EXCEPT ![n] = Written(ideal[n], o, count, 1)]
    BY <1>3, <2>2 DEF FileInv
  <2> QED BY <1>2, <2>1, <2>2
<1>8. /\ length'[n] = l /\ contents'[n] = block
      /\ \A f \in AllFiles \ {n} : /\ length'[f] = length[f] /\ contents'[f] = contents[f]
                                   /\ ideal'[f] = ideal[f]
  BY <1>1, <1>2 DEF FileInv
<1>9. \A f \in AllFiles : Roomy(length'[f], contents'[f], ideal'[f])
  <2>1. Roomy(length'[n], contents'[n], ideal'[n])
    BY <1>1, <1>3, <1>5, <1>7, <1>8 DEF Roomy
  <2> QED BY <1>8, <2>1 DEF FileInv
<1>10. ASSUME Whole' PROVE \A f \in AllFiles : Same(length'[f], contents'[f], ideal'[f])
  <2>1. /\ size = o + count /\ Whole
        /\ ~ (size > length[n] /\ length[n] > CopySize)
        /\ ideal' = [ideal EXCEPT ![n] = Written(ideal[n], o, count, 1)]
    BY <1>2, <1>10 DEF Whole
  <2>2. \A f \in AllFiles : Same(length[f], contents[f], ideal[f])
    BY <2>1 DEF FileInv
  <2>3. ideal'[n] = Written(ideal[n], o, count, 1)
    BY <1>1, <2>1 DEF FileInv
  <2>4. Same(length'[n], contents'[n], ideal'[n])
    BY <1>1, <1>3, <1>8, <2>1, <2>2, <2>3
  <2> QED BY <1>8, <2>2, <2>4
<1>11. /\ fd_table' \in [Fd -> [node : AllFiles \cup {NULL}, offset : 0 .. Modulus - 1]]
       /\ \A e \in Fd : /\ fd_table'[e].node = fd_table[e].node
                        /\ fd_table'[e].offset = IF e = fd THEN size ELSE fd_table[e].offset
  <2>1. size \in 0 .. Modulus - 1
    BY <1>4, Bounds
  <2> QED BY <1>2, <2>1 DEF FileInv
<1>12. ASSUME accidents' = {}, NEW e \in Fd, fd_table'[e].node # NULL
       PROVE  fd_table'[e].offset <= length'[fd_table'[e].node]
  <2>1. accidents = {}
    BY <1>2, <1>12
  <2>2. fd_table[e].node \in AllFiles /\ fd_table[e].offset \in 0 .. Modulus - 1
    BY <1>11, <1>12 DEF FileInv
  <2>3. fd_table[e].offset <= length[fd_table[e].node]
    BY <1>11, <1>12, <2>1 DEF FileInv
  <2>4. CASE e = fd
    BY <1>5, <1>8, <1>11, <2>4 DEF n
  <2>5. CASE e # fd /\ fd_table[e].node = n
    BY <1>4, <1>5, <1>8, <1>11, <2>2, <2>3, <2>5, Bounds
  <2>6. CASE e # fd /\ fd_table[e].node # n
    BY <1>8, <1>11, <2>2, <2>3, <2>6
  <2> QED BY <2>4, <2>5, <2>6
<1>13. /\ mask' \in [AllFiles -> SUBSET {"READ", "WRITE"}] /\ stuck' \in BOOLEAN
       /\ accidents' \subseteq {"truncated", "beyond", "cut", "stray"}
  <2>1. accidents' \subseteq accidents \cup {"cut", "stray"}
    BY <1>2
  <2> QED BY <1>2, <2>1 DEF FileInv
<1> QED BY <1>6, <1>7, <1>9, <1>10, <1>11, <1>12, <1>13 DEF FileInv

(* What read copies: at most count bytes and, as long as the offset has    *)
(* not passed the end, at most what is left.                               *)
LEMMA SizeRead ==
    ASSUME FileInv, NEW fd \in Fd, NEW count \in Counts, fd_table[fd].node # NULL
    PROVE  /\ ReadSize(fd, count) \in Nat
           /\ fd_table[fd].offset <= length[fd_table[fd].node] =>
                 ReadSize(fd, count) =
                    IF length[fd_table[fd].node] - fd_table[fd].offset < count
                    THEN length[fd_table[fd].node] - fd_table[fd].offset ELSE count
<1> DEFINE n == fd_table[fd].node
           o == fd_table[fd].offset
           l == length[n]
<1>1. n \in AllFiles /\ o \in 0 .. Modulus - 1 /\ count \in Nat /\ l \in 0 .. MaxLength
  BY FilesAssumption DEF FileInv
<1>2. o \in Nat /\ l \in Nat /\ l - o \in Int
  BY <1>1, Bounds
<1>3. l <= Len(contents[n])
  BY <1>1 DEF FileInv, Roomy
<1> HIDE DEF n, o, l
<1>4. Remaining(fd) \in 0 .. Modulus - 1 /\ Remaining(fd) = (l - o) % Modulus
  <2>1. Remaining(fd) = (l - o) % Modulus
    BY DEF Remaining, n, o, l
  <2> QED BY <1>2, <2>1, Wraps
<1>5. Remaining(fd) \in Nat
  BY <1>4, Bounds
<1>6. ReadSize(fd, count) = IF contents[n] = <<>> THEN 0
                            ELSE IF count > Remaining(fd) THEN Remaining(fd) ELSE count
  BY DEF ReadSize, n
<1>7. ASSUME o <= l PROVE ReadSize(fd, count) = IF l - o < count THEN l - o ELSE count
  <2>1. l - o \in 0 .. MaxLength /\ l - o \in Nat
    BY <1>1, <1>2, <1>7, Bounds
  <2>2. Remaining(fd) = l - o
    BY <1>4, <2>1, Bounds, Wraps
  <2>3. CASE contents[n] = <<>>
    <3>1. l = 0
      BY <1>2, <1>3, <2>3
    <3> QED BY <1>1, <1>2, <1>6, <1>7, <2>3, <3>1
  <2>4. CASE contents[n] # <<>>
    BY <1>1, <1>6, <2>1, <2>2, <2>4
  <2> QED BY <2>3, <2>4
<1> QED BY <1>1, <1>5, <1>6, <1>7 DEF n, o, l

LEMMA ReadKeeps ==
    ASSUME FileInv, NEW fd \in Fd, NEW count \in Counts, syscall_read(fd, count)
    PROVE  FileInv'
<1> DEFINE n == fd_table[fd].node
           o == fd_table[fd].offset
           r == ReadSize(fd, count)
           end == (o + r) % Modulus
<1>1. /\ n \in AllFiles /\ o \in Nat /\ r \in Nat /\ length[n] \in 0 .. MaxLength
      /\ UNCHANGED <<mask, data, stuck>>
  <2>1. n # NULL
    BY DEF syscall_read
  <2>2. r \in Nat
    BY <2>1, SizeRead
  <2>3. n \in AllFiles /\ o \in 0 .. Modulus - 1 /\ length[n] \in 0 .. MaxLength
    BY <2>1 DEF FileInv
  <2> QED BY <2>2, <2>3, Bounds DEF syscall_read
<1>2. /\ fd_table' = [fd_table EXCEPT ![fd].offset = end]
      /\ accidents' = accidents \cup IF o + r > length[n] THEN {"beyond"} ELSE {}
  BY DEF syscall_read, Advance
<1> HIDE DEF n, o, r
<1>3. end \in 0 .. Modulus - 1
  <2>1. o + r \in Int
    BY <1>1
  <2> QED BY <2>1, Wraps
<1> HIDE DEF end
<1>4. /\ fd_table' \in [Fd -> [node : AllFiles \cup {NULL}, offset : 0 .. Modulus - 1]]
      /\ \A e \in Fd : /\ fd_table'[e].node = fd_table[e].node
                       /\ fd_table'[e].offset = IF e = fd THEN end ELSE fd_table[e].offset
  BY <1>2, <1>3 DEF FileInv
<1>5. ASSUME accidents' = {}, NEW e \in Fd, fd_table'[e].node # NULL
      PROVE  fd_table'[e].offset <= length'[fd_table'[e].node]
  <2>1. accidents = {} /\ o + r <= length[n] /\ length' = length
    BY <1>1, <1>2, <1>5, Bounds DEF data
  <2>2. fd_table[e].offset <= length[fd_table[e].node]
    BY <1>4, <1>5, <2>1 DEF FileInv
  <2>3. CASE e = fd
    <3>1. o + r \in 0 .. Modulus - 1
      BY <1>1, <2>1, Bounds
    <3>2. end = o + r
      BY <3>1, Wraps DEF end
    <3> QED BY <1>4, <2>1, <2>3, <3>2 DEF n
  <2> QED BY <1>4, <2>1, <2>2, <2>3
<1>6. accidents' \subseteq {"truncated", "beyond", "cut", "stray"} /\ (Whole' => Whole)
  BY <1>2 DEF FileInv, Whole
<1> QED BY <1>1, <1>4, <1>5, <1>6 DEF FileInv, data

LEMMA FileStep == FileInv /\ [Next]_vars => FileInv'
<1> SUFFICES ASSUME FileInv, [Next]_vars PROVE FileInv'
  OBVIOUS
<1>1. CASE UNCHANGED <<mask, data, fd_table, stuck, accidents>>
  BY <1>1 DEF FileInv, Whole, data
<1>2. ASSUME NEW p, NEW n, fs_add_node(p, n) \/ fs_remove_node(p, n)
      PROVE  FileInv'
  <2>1. UNCHANGED <<mask, data, fd_table, accidents>> /\ (stuck' = stuck \/ stuck' = TRUE)
    BY <1>2 DEF fs_add_node, fs_remove_node
  <2> QED BY <2>1 DEF FileInv, Whole, data
<1>3. ASSUME NEW f \in Files, NEW m \in Masks, SetMask(f, m) PROVE FileInv'
  <2>1. /\ UNCHANGED <<data, fd_table, stuck, accidents>>
        /\ mask' \in [AllFiles -> SUBSET {"READ", "WRITE"}]
    BY <1>3, FilesAssumption DEF SetMask, FileInv
  <2> QED BY <2>1 DEF FileInv, Whole, data
<1>4. ASSUME NEW path \in Paths, syscall_open(path) PROVE FileInv'
  <2>1. ASSUME NEW found, NEW flags, OpenExisting(found, flags) PROVE FileInv'
    BY <2>1, OpenKeeps DEF OpenExisting
  <2>2. ASSUME NEW found, NEW flags, OpenCreate(path, found, flags) PROVE FileInv'
    <3>1. New \in AllFiles
      BY DEF AllFiles
    <3> QED BY <2>2, <3>1, OpenKeeps DEF OpenCreate
  <2>3. ASSUME NEW found, OpenEndless(found) PROVE FileInv'
    <3>1. UNCHANGED <<mask, data, fd_table, accidents>> /\ stuck' = TRUE
      BY <2>3 DEF OpenEndless
    <3> QED BY <3>1 DEF FileInv, Whole, data
  <2> QED BY <1>4, <2>1, <2>2, <2>3 DEF syscall_open
<1>5. ASSUME NEW fd \in Fd, syscall_close(fd) PROVE FileInv'
  <2>1. /\ UNCHANGED <<mask, data, stuck, accidents>>
        /\ fd_table' = [fd_table EXCEPT ![fd] = [node |-> NULL, offset |-> 0]]
    BY <1>5 DEF syscall_close
  <2>2. /\ fd_table' \in [Fd -> [node : AllFiles \cup {NULL}, offset : 0 .. Modulus - 1]]
        /\ \A e \in Fd : fd_table'[e].node # NULL => fd_table'[e] = fd_table[e]
    <3>1. [node |-> NULL, offset |-> 0] \in [node : AllFiles \cup {NULL}, offset : 0 .. Modulus - 1]
      BY Bounds
    <3> QED BY <2>1, <3>1 DEF FileInv
  <2> QED BY <2>1, <2>2 DEF FileInv, Whole, data
<1>6. ASSUME NEW fd \in Fd, NEW count \in Counts, syscall_read(fd, count) PROVE FileInv'
  BY <1>6, ReadKeeps
<1>7. ASSUME NEW fd \in Fd, NEW count \in Counts, syscall_write(fd, count, 1) PROVE FileInv'
  BY <1>7, WriteKeeps
<1>8. CASE UNCHANGED vars
  BY <1>1, <1>8 DEF vars
<1> QED BY <1>2, <1>3, <1>4, <1>5, <1>6, <1>7, <1>8 DEF Next
LEMMA Invariance == Spec => [](TreeInv /\ FileInv)
  BY TreeStart, TreeStep, FileStart, FileStep, PTL DEF Spec

-----------------------------------------------------------------------------
(* Whatever is linked, unlinked and created, in whatever order, the walk   *)
(* along every list ends and meets the nodes whose parent is that          *)
(* directory, as long as no node is added that is still linked             *)
(* (fs.c:64-113, syscall.c:261); for any files, names and paths.           *)
THEOREM LinksExactAlways == Spec => []LinksExact
<1>1. ASSUME TreeInv, ~ relinked, NEW d \in Dirs
      PROVE  Ends(d) /\ Listed(d) = {n \in Nodes : parent[n] = d}
  <2>1. PICK ch : Spells(ch, children, next, parent)
    BY <1>1 DEF TreeInv
  <2>2. Ends(d) /\ Listed(d) = {ch[d][i] : i \in 1 .. Len(ch[d])}
    BY <2>1, WalkEnds
  <2>3. \A i \in 1 .. Len(ch[d]) : ch[d][i] \in Nodes
    BY <2>1 DEF Spells, Tree
  <2>4. \A n \in Nodes : (parent[n] = d) <=> \E i \in 1 .. Len(ch[d]) : ch[d][i] = n
    BY <2>1 DEF Spells, Tree
  <2> QED BY <2>2, <2>3, <2>4
<1>2. TreeInv /\ FileInv => TypeOK
  BY Zenon DEF TreeInv, Pointers, FileInv, TypeOK
<1>3. TreeInv /\ FileInv => LinksExact
  BY <1>1, <1>2 DEF LinksExact
<1> QED BY <1>3, Invariance, PTL

(* A file holds what was written to it, through any number of descriptors, *)
(* until krealloc has cut a block or an offset has wrapped                 *)
(* (syscall.c:168-197, memory.c:378).                                      *)
THEOREM DataKeptAlways == Spec => []DataKept
<1>1. FileInv => DataKept
  <2> SUFFICES ASSUME FileInv, Whole, NEW f \in AllFiles
               PROVE  SubSeq(contents[f], 1, length[f]) = ideal[f]
    BY DEF DataKept, Whole
  <2> DEFINE l == length[f]
             c == contents[f]
             d == ideal[f]
             T == Byte \cup {Junk}
  <2>1. Roomy(l, c, d) /\ Same(l, c, d)
    BY DEF FileInv
  <2> HIDE DEF l, c, d
  <2>2. /\ l \in Nat /\ c \in Seq(T) /\ d \in Seq(Byte) /\ l <= Len(c)
        /\ Len(d) = l /\ \A i \in 1 .. l : c[i] = d[i]
    BY <2>1, Bounds DEF Roomy, Same
  <2> HIDE DEF T
  <2>3. /\ SubSeq(c, 1, l) \in Seq(T) /\ Len(SubSeq(c, 1, l)) = l
        /\ \A i \in 1 .. l : SubSeq(c, 1, l)[i] = c[i]
    BY <2>2
  <2>4. SubSeq(c, 1, l) = d
    BY <2>2, <2>3
  <2> QED BY <2>4 DEF l, c, d
<1> QED BY <1>1, Invariance, PTL

(* Until one of the accidents, read returns the file's bytes from the      *)
(* offset on and no more than there are (syscall.c:113-128).               *)
THEOREM ReadExactAlways == Spec => []ReadExact
<1>1. FileInv => ReadExact
  <2> SUFFICES ASSUME FileInv, accidents = {}, NEW fd \in Fd, NEW count \in Counts,
                      fd_table[fd].node # NULL
               PROVE  LET file == ideal[fd_table[fd].node]
                          o    == fd_table[fd].offset
                          end  == IF o + count < Len(file) THEN o + count ELSE Len(file)
                      IN ReadBytes(fd, count) = SubSeq(file, o + 1, end)
    BY DEF ReadExact
  <2> DEFINE n == fd_table[fd].node
             o == fd_table[fd].offset
             l == length[n]
             c == contents[n]
             d == ideal[n]
             r == ReadSize(fd, count)
             end == IF o + count < Len(d) THEN o + count ELSE Len(d)
  <2>1. n \in AllFiles /\ o \in 0 .. Modulus - 1 /\ o <= l /\ count \in Nat
    BY FilesAssumption DEF FileInv
  <2>2. Roomy(l, c, d) /\ Same(l, c, d)
    BY <2>1 DEF FileInv, Whole
  <2>3. r = IF l - o < count THEN l - o ELSE count
    BY <2>1, SizeRead
  <2>4. ReadBytes(fd, count) = [i \in 1 .. r |-> IF o + i <= Len(c) THEN c[o + i] ELSE Junk]
    BY DEF ReadBytes
  <2> HIDE DEF n, o, l, c, d, r
  <2>5. /\ o \in Nat /\ l \in Nat /\ l <= Len(c) /\ Len(c) \in Nat /\ d \in Seq(Byte)
        /\ Len(d) = l /\ \A i \in 1 .. l : c[i] = d[i]
    BY <2>1, <2>2, Bounds DEF Roomy, Same
  <2>6. end = o + r /\ r \in Nat /\ o + r <= l
    BY <2>1, <2>3, <2>5
  <2> HIDE DEF end
  <2>7. ASSUME NEW i \in 1 .. r
        PROVE  (IF o + i <= Len(c) THEN c[o + i] ELSE Junk) = d[o + i]
    <3>1. o + i \in 1 .. l /\ o + i <= Len(c)
      BY <2>5, <2>6
    <3> QED BY <2>5, <3>1
  <2>8. SubSeq(d, o + 1, o + r) = [i \in 1 .. r |-> d[o + i]]
    <3>1. SubSeq(d, o + 1, o + r) = [i \in 1 .. (o + r) - (o + 1) + 1 |-> d[i + (o + 1) - 1]]
      BY <2>5, <2>6
    <3>2. (o + r) - (o + 1) + 1 = r /\ \A i \in 1 .. r : i + (o + 1) - 1 = o + i
      BY <2>5, <2>6
    <3> QED BY <3>1, <3>2
  <2>9. ReadBytes(fd, count) = SubSeq(d, o + 1, end)
    BY <2>4, <2>6, <2>7, <2>8
  <2> QED BY <2>9 DEF n, o, d, end
<1> QED BY <1>1, Invariance, PTL

-----------------------------------------------------------------------------
(* While the kernel runs, no descriptor is for a file that O_CREAT made.   *)
Unusable == ~ stuck => \A fd \in Fd : fd_table[fd].node # New

(* What an open that has its node comes to.                                *)
LEMMA OpenEnds ==
    ASSUME FileInv, Running, Unusable, NEW n \in AllFiles, NEW flags, OpenNode(n, flags)
    PROVE  /\ Unusable'
           /\ n = New => stuck' \/ (TableFull /\ fd_table' = fd_table)
           /\ \A f \in AllFiles : length'[f] < length[f] => Returns(f) \/ TableFull
<1>1. CASE FreeFds = {}
  <2>1. TableFull
    BY <1>1 DEF FreeFds, TableFull
  <2>2. fd_table' = fd_table /\ stuck' = stuck
    BY <1>1 DEF OpenNode
  <2> QED BY <2>1, <2>2 DEF Unusable
<1>2. CASE FreeFds # {}
  <2> DEFINE fd == First(FreeFds)
             new == [node |-> n, offset |-> StartOffset(n, flags)]
  <2>1. FreeFds \in SUBSET Nat
    BY FilesAssumption DEF FreeFds, Fd
  <2>2. fd \in FreeFds
    BY <1>2, <2>1, Least DEF First
  <2>3. fd_table' = [fd_table EXCEPT ![fd] = new] /\ (stuck' <=> n = New)
    BY <1>2 DEF OpenNode
  <2>4. new.node = n
    OBVIOUS
  <2> HIDE DEF fd, new
  <2>5. /\ fd \in Fd /\ fd_table[fd].node = NULL /\ fd_table'[fd].node = n
        /\ \A e \in Fd : e = fd \/ fd_table'[e] = fd_table[e]
    BY <2>2, <2>3, <2>4 DEF FileInv, FreeFds
  <2>6. Unusable'
    BY <2>3, <2>5 DEF Unusable, Running
  <2>7. \A f \in AllFiles : length'[f] < length[f] => f = n
    <3>1. ASSUME NEW f \in AllFiles, f # n PROVE length'[f] = length[f]
      BY <3>1 DEF OpenNode, Truncate, FileInv, data
    <3>2. \A f \in AllFiles : length[f] \in Nat
      BY Bounds DEF FileInv
    <3> QED BY <3>1, <3>2
  <2>8. Returns(n)
    BY <2>5 DEF Returns
  <2> QED BY <2>3, <2>6, <2>7, <2>8
<1> QED BY <1>1, <1>2

(* A step that gives out no descriptor and shrinks no file.                *)
Quiet ==
    /\ newname' = newname
    /\ \A f \in AllFiles : ~ (length'[f] < length[f])
    /\ stuck' = stuck \/ stuck' = TRUE
    /\ \A fd \in Fd : fd_table'[fd].node \in {fd_table[fd].node, NULL}

LEMMA QuietSteps ==
    ASSUME FileInv, Next, ~ \E path \in Paths : syscall_open(path)
    PROVE  Quiet
<1>1. ASSUME UNCHANGED <<newname, length, fd_table>>, stuck' = stuck \/ stuck' = TRUE
      PROVE  Quiet
  <2>1. \A f \in AllFiles : length[f] \in Nat
    BY Bounds DEF FileInv
  <2>2. \A f \in AllFiles : ~ (length[f] < length[f])
    BY <2>1
  <2> QED BY <1>1, <2>2 DEF Quiet
<1>2. ASSUME NEW p, NEW n, fs_add_node(p, n) \/ fs_remove_node(p, n) PROVE Quiet
  BY <1>1, <1>2 DEF fs_add_node, fs_remove_node, data
<1>3. ASSUME NEW f, NEW m, SetMask(f, m) PROVE Quiet
  BY <1>1, <1>3 DEF SetMask, tree, data
<1>4. ASSUME NEW fd \in Fd, syscall_close(fd) PROVE Quiet
  <2>1. UNCHANGED <<newname, length, stuck>>
    BY <1>4 DEF syscall_close, tree, data
  <2>2. \A f \in AllFiles : ~ (length[f] < length[f])
    BY Bounds DEF FileInv
  <2>3. fd_table' = [fd_table EXCEPT ![fd] = [node |-> NULL, offset |-> 0]]
    BY <1>4 DEF syscall_close
  <2>4. \A e \in Fd : fd_table'[e].node \in {fd_table[e].node, NULL}
    BY <2>3 DEF FileInv
  <2> QED BY <2>1, <2>2, <2>4 DEF Quiet
<1>5. ASSUME NEW fd \in Fd, NEW count \in Counts, syscall_read(fd, count) PROVE Quiet
  <2>1. UNCHANGED <<newname, length, stuck>>
    BY <1>5 DEF syscall_read, tree, data
  <2>2. \A f \in AllFiles : ~ (length[f] < length[f])
    BY Bounds DEF FileInv
  <2>3. \A e \in Fd : fd_table'[e].node \in {fd_table[e].node, NULL}
    BY <1>5 DEF syscall_read, FileInv
  <2> QED BY <2>1, <2>2, <2>3 DEF Quiet
<1>6. ASSUME NEW fd \in Fd, NEW count \in Counts, syscall_write(fd, count, 1) PROVE Quiet
  <2> DEFINE n == fd_table[fd].node
             o == fd_table[fd].offset
             size == (o + count) % Modulus
  <2>1. length' = [length EXCEPT ![n] = IF size > length[n] THEN size ELSE length[n]]
    BY <1>6 DEF syscall_write
  <2>2. newname' = newname /\ stuck' = stuck
    BY <1>6 DEF syscall_write, tree
  <2>3. \A e \in Fd : fd_table'[e].node \in {fd_table[e].node, NULL}
    BY <1>6 DEF syscall_write, FileInv
  <2>4. n \in AllFiles /\ o \in 0 .. Modulus - 1 /\ count \in Nat
    BY <1>6, FilesAssumption DEF FileInv, syscall_write
  <2>5. size \in Nat
    <3>1. o + count \in Int
      BY <2>4, Bounds
    <3> QED BY <3>1, Bounds, Wraps
  <2> HIDE DEF n, o, size
  <2>6. \A f \in AllFiles : ~ (length'[f] < length[f])
    BY <2>1, <2>5, Bounds DEF FileInv
  <2> QED BY <2>2, <2>3, <2>6 DEF Quiet
<1> QED BY <1>2, <1>3, <1>4, <1>5, <1>6 DEF Next

(* An open that creates a file never returns a descriptor, no descriptor   *)
(* is ever for such a file, and an open that truncates one returns its     *)
(* descriptor unless all of them are in use (syscall.c:255-297); for any   *)
(* number of descriptors, files and paths.                                 *)
THEOREM OpenOutcomesAlways == Spec => OpenOutcomes
<1> DEFINE Made1 == newname' # newname => stuck' \/ (TableFull /\ fd_table' = fd_table)
           Usable == ~ stuck' => \A fd \in Fd : fd_table'[fd].node # New
           Shrunk == \A f \in AllFiles : length'[f] < length[f] => Returns(f) \/ TableFull
<1>1. Init => Unusable
  BY Distinct DEF Init, Unusable, Nodes
<1>2. ASSUME FileInv, Unusable, Next PROVE Unusable' /\ Made1 /\ Shrunk
  <2>1. Running
    BY <1>2 DEF Next, fs_add_node, fs_remove_node, SetMask, syscall_open, OpenExisting,
                OpenCreate, OpenEndless, syscall_close, syscall_read, syscall_write
  <2>2. ASSUME Quiet PROVE Unusable' /\ Made1 /\ Shrunk
    <3>1. Unusable'
      BY <1>2, <2>2, Distinct DEF Quiet, Unusable, Nodes
    <3> QED BY <2>2, <3>1 DEF Quiet
  <2>3. ASSUME NEW path \in Paths, syscall_open(path) PROVE Unusable' /\ Made1 /\ Shrunk
    <3>1. ASSUME NEW found, NEW flags, OpenExisting(found, flags)
          PROVE  Unusable' /\ Made1 /\ Shrunk
      <4>1. found \in AllFiles /\ OpenNode(found, flags) /\ newname' = newname
        BY <3>1 DEF OpenExisting, tree
      <4> QED BY <1>2, <2>1, <4>1, OpenEnds
    <3>2. ASSUME NEW found, NEW flags, OpenCreate(path, found, flags)
          PROVE  Unusable' /\ Made1 /\ Shrunk
      <4>1. New \in AllFiles /\ OpenNode(New, flags)
        BY <3>2 DEF OpenCreate, AllFiles
      <4> QED BY <1>2, <2>1, <4>1, OpenEnds
    <3>3. ASSUME NEW found, OpenEndless(found) PROVE Quiet
      <4>1. UNCHANGED <<newname, length, fd_table>> /\ stuck' = TRUE
        BY <3>3 DEF OpenEndless, tree, data
      <4>2. \A f \in AllFiles : ~ (length[f] < length[f])
        BY <1>2, Bounds DEF FileInv
      <4> QED BY <4>1, <4>2 DEF Quiet
    <3> QED BY <2>2, <2>3, <3>1, <3>2, <3>3 DEF syscall_open
  <2> QED BY <1>2, <2>2, <2>3, QuietSteps
<1>3. FileInv /\ Unusable /\ [Next]_vars => Unusable'
  <2>1. ASSUME Unusable, UNCHANGED vars PROVE Unusable'
    BY <2>1 DEF Unusable, vars
  <2> QED BY <1>2, <2>1
<1>4. Unusable' => Usable
  BY DEF Unusable
<1>5. FileInv /\ Unusable /\ [Next]_vars => [Made1 /\ Usable /\ Shrunk]_vars
  BY <1>2, <1>4
<1> QED BY <1>1, <1>3, <1>5, Invariance, PTL DEF Spec, OpenOutcomes
=============================================================================
