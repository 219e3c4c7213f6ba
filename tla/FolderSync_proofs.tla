------------------------- MODULE FolderSync_proofs -------------------------
(***************************************************************************)
(* Proofs about the folder table beside the message table: the schema's    *)
(* keys hold after every transaction, the folders are the server's as of   *)
(* the stored state, and removing a folder takes only its own messages,    *)
(* for any mailboxes, names, messages, order of the list and bounds.       *)
(***************************************************************************)
EXTENDS FolderSync, FiniteSetTheorems, TLAPS

\* What a list of mailboxes carries of them: paths by id.
IsPathList(paths) ==
  /\ DOMAIN paths \subseteq Boxes
  /\ \A i \in DOMAIN paths : paths[i] \in Paths

\* The schema's types and keys.
KeysHold(fs, tab) ==
  /\ fs \in [Boxes -> Paths \cup {NULL}] /\ tab \in [Mails -> MailRow \cup {NULL}]
  /\ \A i, j \in Stored(fs) : i # j => fs[i] # fs[j]
  /\ \A m \in Mails : tab[m] # NULL => tab[m].context \in Stored(fs)

-----------------------------------------------------------------------------
\* Numbers.
LEMMA LeastNumber ==
  ASSUME NEW S \in SUBSET Nat, S # {}
  PROVE  \E n \in S : \A k \in S : n <= k
<1>1. OpToRel(<, Nat) = {ss \in Nat \X Nat : ss[1] < ss[2]}
  BY Zenon DEF OpToRel
<1>2. IsWellFoundedOn({ss \in Nat \X Nat : ss[1] < ss[2]}, Nat)
  BY <1>1, NatLessThanWellFounded, Zenon
<1>3. PICK R : R = {ss \in Nat \X Nat : ss[1] < ss[2]}
  OBVIOUS
<1>4. PICK n \in S : \A k \in S : <<k, n>> \notin R
  BY <1>2, <1>3, WFMin
<1>5. ASSUME NEW k \in S PROVE n <= k
  <2>1. k \in Nat /\ n \in Nat /\ <<k, n>> \in Nat \X Nat
    OBVIOUS
  <2>2. k < n => <<k, n>> \in R
    BY <1>3, <2>1
  <2> QED BY <1>4, <2>1, <2>2
<1> QED BY <1>5

\* Induction, for a set of numbers.
LEMMA SetInduction ==
  ASSUME NEW S, 0 \in S, \A n \in Nat : n \in S => n + 1 \in S
  PROVE  Nat \subseteq S
<1>1. PICK T \in SUBSET Nat : T = Nat \ S
  OBVIOUS
<1>2. ASSUME T # {} PROVE FALSE
  <2>1. PICK n \in T : \A k \in T : n <= k
    BY <1>2, LeastNumber
  <2>2. n \in Nat /\ n # 0 /\ n - 1 \in Nat /\ (n - 1) + 1 = n
    BY <1>1, <2>1
  <2>3. n - 1 \notin T
    BY <2>1, <2>2
  <2> QED BY <1>1, <2>1, <2>2, <2>3
<1> QED BY <1>1, <1>2

-----------------------------------------------------------------------------
\* Paths.
Named(bs) == {j \in Boxes : bs[j] # NULL}
Top(bs, j) == bs[j].parent = NULL \/ bs[bs[j].parent] = NULL

\* The recursion in build_path: the paths d names deep, from those below, and
\* all of them to depth n.
Level(bs, d, below) ==
  [j \in Boxes |-> IF d = 0 \/ Top(bs, j) THEN <<bs[j].name>>
                   ELSE Append(below[bs[j].parent], bs[j].name)]

Climb(bs, n, up) == up = [d \in 0..n |-> Level(bs, d, up[d - 1])]

LEMMA ClimbExists ==
  ASSUME NEW bs
  PROVE  \A n \in Nat : \E up : Climb(bs, n, up)
<1> DEFINE S == {n \in Nat : \E up : Climb(bs, n, up)}
<1>1. 0 \in S
  <2>1. PICK up : up = [d \in 0..0 |-> Level(bs, 0, 0)]
    OBVIOUS
  <2>2. PICK over : over = [d \in 0..0 |-> Level(bs, d, up[d - 1])]
    OBVIOUS
  <2>3. over[0] = Level(bs, 0, over[0 - 1])
    BY <2>2 DEF Level
  <2>4. Climb(bs, 0, over)
    BY <2>2, <2>3 DEF Climb
  <2> QED BY <2>4
<1>2. ASSUME NEW n \in Nat, n \in S PROVE n + 1 \in S
  <2>1. PICK up : Climb(bs, n, up)
    BY <1>2
  <2>2. PICK over : over = [d \in 0..n+1 |->
          IF d <= n THEN up[d] ELSE Level(bs, d, up[d - 1])]
    OBVIOUS
  <2>3. \A d \in 0..n : over[d] = Level(bs, d, up[d - 1])
    BY <2>1, <2>2 DEF Climb
  <2>4. \A d \in 1..n+1 : over[d - 1] = up[d - 1]
    BY <2>2
  <2>5. over[n + 1] = Level(bs, n + 1, up[(n + 1) - 1])
    BY <2>2
  <2>6. Level(bs, 0, up[0 - 1]) = Level(bs, 0, over[0 - 1])
    BY DEF Level
  <2>7. ASSUME NEW d \in 0..n+1 PROVE over[d] = Level(bs, d, over[d - 1])
    <3>1. CASE d = 0
      BY <3>1, <2>3, <2>6
    <3>2. CASE d \in 1..n
      BY <3>2, <2>3, <2>4
    <3>3. CASE d = n + 1
      BY <3>3, <2>4, <2>5
    <3> QED BY <3>1, <3>2, <3>3
  <2>8. over = [d \in 0..n+1 |-> Level(bs, d, over[d - 1])]
    <3>1. over = [d \in 0..n+1 |-> over[d]]
      BY <2>2
    <3> QED BY <3>1, <2>7
  <2> QED BY <2>8 DEF Climb
<1>3. Nat \subseteq S
  <2> HIDE DEF S
  <2> QED BY <1>1, <1>2, SetInduction
<1> QED BY <1>3

LEMMA PathClimbs ==
  ASSUME NEW bs
  PROVE  \E up : Climb(bs, 21, up) /\ \A i : Path(bs, i) = up[21][i]
<1> DEFINE up == CHOOSE up : Climb(bs, 21, up)
<1>1. Climb(bs, 21, up)
  BY ClimbExists
<1>2. \A i : Path(bs, i) = up[21][i]
  BY DEF Path, Climb, Level, Top
<1> QED BY <1>1, <1>2

LEMMA ClimbFacts ==
  ASSUME NEW bs, NEW up, Climb(bs, 21, up)
  PROVE  /\ \A j \in Boxes : up[0][j] = <<bs[j].name>>
         /\ \A n \in 0..20 : \A j \in Boxes :
              up[n + 1][j] = IF Top(bs, j) THEN <<bs[j].name>>
                             ELSE Append(up[n][bs[j].parent], bs[j].name)
<1>1. ASSUME NEW d \in 0..21 PROVE up[d] = Level(bs, d, up[d - 1])
  <2>1. PICK f : f = [e \in 0..21 |-> Level(bs, e, up[e - 1])]
    OBVIOUS
  <2>2. up = f
    BY <2>1, Zenon DEF Climb
  <2> QED BY <2>1, <2>2
<1>2. ASSUME NEW d, NEW below, NEW j \in Boxes
      PROVE  Level(bs, d, below)[j] =
               IF d = 0 \/ Top(bs, j) THEN <<bs[j].name>>
               ELSE Append(below[bs[j].parent], bs[j].name)
  BY DEF Level
<1>3. ASSUME NEW j \in Boxes PROVE up[0][j] = <<bs[j].name>>
  <2>1. PICK f : f = up[0 - 1]
    OBVIOUS
  <2>2. up[0] = Level(bs, 0, f)
    BY <1>1, <2>1
  <2> QED BY <2>2, <1>2
<1>4. ASSUME NEW n \in 0..20, NEW j \in Boxes
      PROVE  up[n + 1][j] = IF Top(bs, j) THEN <<bs[j].name>>
                            ELSE Append(up[n][bs[j].parent], bs[j].name)
  <2>1. PICK f : f = up[n]
    OBVIOUS
  <2>2. (n + 1) - 1 = n /\ n + 1 \in 0..21 /\ n + 1 # 0
    OBVIOUS
  <2>3. up[n + 1] = Level(bs, n + 1, f)
    BY <1>1, <2>1, <2>2
  <2>4. Level(bs, n + 1, f)[j] = IF n + 1 = 0 \/ Top(bs, j) THEN <<bs[j].name>>
                                 ELSE Append(f[bs[j].parent], bs[j].name)
    BY <1>2, Zenon
  <2> QED BY <2>1, <2>2, <2>3, <2>4
<1> QED BY <1>3, <1>4

\* A path has a name at least and 22 at most.
LEMMA PathTyped ==
  ASSUME NEW bs \in [Boxes -> Box \cup {NULL}]
  PROVE  \A i \in Named(bs) : Path(bs, i) \in Paths
<1>1. PICK up : Climb(bs, 21, up) /\ \A i : Path(bs, i) = up[21][i]
  BY PathClimbs
<1> DEFINE S == {n \in Nat : n <= 21 =>
                   \A j \in Named(bs) : up[n][j] \in Seq(Names) /\ Len(up[n][j]) \in 1..n+1}
<1>2. \A j \in Named(bs) : j \in Boxes /\ bs[j] \in Box /\ bs[j].name \in Names
  BY InitialAssumption DEF Named, Box
<1>3. \A j \in Named(bs) : ~Top(bs, j) => bs[j].parent \in Named(bs)
  BY <1>2 DEF Named, Top, Box
<1>4. /\ \A j \in Named(bs) : up[0][j] = <<bs[j].name>>
      /\ \A n \in 0..20 : \A j \in Named(bs) :
           up[n + 1][j] = IF Top(bs, j) THEN <<bs[j].name>>
                          ELSE Append(up[n][bs[j].parent], bs[j].name)
  BY <1>1, <1>2, ClimbFacts
<1>5. 0 \in S
  <2>1. ASSUME NEW j \in Named(bs) PROVE up[0][j] \in Seq(Names) /\ Len(up[0][j]) \in 1..0+1
    <3>1. PICK p : p = <<bs[j].name>>
      OBVIOUS
    <3>2. p \in Seq(Names) /\ Len(p) \in 1..0+1
      BY <3>1, <1>2
    <3>3. up[0][j] = p
      BY <1>4, <3>1, Zenon
    <3> QED BY <3>2, <3>3, Zenon
  <2> QED BY <2>1
<1>6. ASSUME NEW n \in Nat, n \in S PROVE n + 1 \in S
  <2> SUFFICES ASSUME n + 1 <= 21, NEW j \in Named(bs)
               PROVE  /\ up[n + 1][j] \in Seq(Names)
                      /\ Len(up[n + 1][j]) \in 1..(n + 1)+1
    OBVIOUS
  <2>0. n \in 0..20
    OBVIOUS
  <2>1. CASE Top(bs, j)
    <3>1. PICK p : p = <<bs[j].name>>
      OBVIOUS
    <3>2. p \in Seq(Names) /\ Len(p) \in 1..(n + 1)+1
      BY <3>1, <1>2, <2>0
    <3>3. up[n + 1][j] = p
      BY <2>0, <2>1, <3>1, <1>4
    <3> QED BY <3>2, <3>3, Zenon
  <2>2. CASE ~Top(bs, j)
    <3>1. PICK k \in Named(bs) : k = bs[j].parent
      BY <2>2, <1>3
    <3>2. PICK p : p = up[n][k]
      OBVIOUS
    <3>3. p \in Seq(Names) /\ Len(p) \in 1..n+1
      BY <3>1, <3>2, <1>6
    <3>4. up[n + 1][j] = Append(p, bs[j].name)
      BY <2>0, <2>2, <3>1, <3>2, <1>4
    <3> QED BY <3>3, <3>4, <1>2
  <2> QED BY <2>1, <2>2
<1>7. Nat \subseteq S
  <2> HIDE DEF S
  <2> QED BY <1>5, <1>6, SetInduction
<1>8. 21 \in S
  BY <1>7
<1>9. ASSUME NEW j \in Named(bs) PROVE Path(bs, j) \in Paths
  <2>1. PICK p : p = up[21][j]
    OBVIOUS
  <2>2. p \in Seq(Names) /\ Len(p) \in 1..21+1
    <3>1. 21 <= 21 => \A k \in Named(bs) : up[21][k] \in Seq(Names) /\ Len(up[21][k]) \in 1..21+1
      BY <1>8
    <3> QED BY <2>1, <3>1
  <2>3. p \in Paths
    BY <2>2 DEF Paths
  <2> QED BY <2>1, <2>3, <1>1
<1> QED BY <1>9

\* Two lists give i the same path if they agree on i and on a set that has
\* its parent and the parent of every mailbox in it.
LEMMA PathAgrees ==
  ASSUME NEW bs \in [Boxes -> Box \cup {NULL}], NEW cs \in [Boxes -> Box \cup {NULL}],
         NEW A \in SUBSET Boxes, NEW i \in A, i \in Named(bs),
         \A j \in A : bs[j] = cs[j],
         \A j \in A : bs[j] # NULL => bs[j].parent \in A \cup {NULL}
  PROVE  Path(bs, i) = Path(cs, i)
<1>1. PICK up : Climb(bs, 21, up) /\ \A j : Path(bs, j) = up[21][j]
  BY PathClimbs
<1>2. PICK vp : Climb(cs, 21, vp) /\ \A j : Path(cs, j) = vp[21][j]
  BY PathClimbs
<1> DEFINE B == {j \in A : bs[j] # NULL}
<1> DEFINE S == {n \in Nat : n <= 21 => \A j \in B : up[n][j] = vp[n][j]}
<1>3. /\ \A j \in Boxes : up[0][j] = <<bs[j].name>>
      /\ \A n \in 0..20 : \A j \in Boxes :
           up[n + 1][j] = IF Top(bs, j) THEN <<bs[j].name>>
                          ELSE Append(up[n][bs[j].parent], bs[j].name)
  BY <1>1, ClimbFacts
<1>4. /\ \A j \in Boxes : vp[0][j] = <<cs[j].name>>
      /\ \A n \in 0..20 : \A j \in Boxes :
           vp[n + 1][j] = IF Top(cs, j) THEN <<cs[j].name>>
                          ELSE Append(vp[n][cs[j].parent], cs[j].name)
  BY <1>2, ClimbFacts
<1>5. \A j \in B : /\ Top(bs, j) <=> Top(cs, j)
                   /\ ~Top(bs, j) => bs[j].parent \in B
  BY DEF Top
<1>6. 0 \in S
  BY <1>3, <1>4
<1>7. ASSUME NEW n \in Nat, n \in S PROVE n + 1 \in S
  <2> SUFFICES ASSUME n + 1 <= 21, NEW j \in B PROVE up[n + 1][j] = vp[n + 1][j]
    OBVIOUS
  <2>0. n \in 0..20 /\ j \in Boxes /\ bs[j] = cs[j]
    OBVIOUS
  <2>1. CASE Top(bs, j)
    BY <2>0, <2>1, <1>3, <1>4, <1>5
  <2>2. CASE ~Top(bs, j)
    <3>1. PICK k \in B : k = bs[j].parent /\ k = cs[j].parent
      BY <2>2, <1>5
    <3>2. up[n][k] = vp[n][k]
      BY <1>7
    <3>3. up[n + 1][j] = Append(up[n][k], bs[j].name)
      BY <2>0, <2>2, <3>1, <1>3
    <3>4. vp[n + 1][j] = Append(vp[n][k], cs[j].name)
      <4>1. ~Top(cs, j)
        BY <2>2, <1>5
      <4> QED BY <2>0, <4>1, <3>1, <1>4
    <3> QED BY <3>2, <3>3, <3>4
  <2> QED BY <2>1, <2>2
<1>8. Nat \subseteq S
  <2> HIDE DEF S
  <2> QED BY <1>6, <1>7, SetInduction
<1>9. 21 \in S
  BY <1>8
<1> QED BY <1>1, <1>2, <1>9 DEF Named

-----------------------------------------------------------------------------
\* The transactions.

\* The list names every mailbox of the answer.
LEMMA ListFacts ==
  ASSUME NEW D \in SUBSET Boxes, NEW order \in SetToSeqs(D)
  PROVE  /\ Len(order) \in Nat
         /\ \A k \in 1..Len(order) : order[k] \in D
         /\ \A i \in D : \E k \in 1..Len(order) : order[k] = i
         /\ \A h, k \in 1..Len(order) : order[h] = order[k] => h = k
<1>1. PICK n : n = Cardinality(D)
  OBVIOUS
<1>2. n \in Nat /\ IsFiniteSet(D)
  BY <1>1, TablesAssumption, FS_Subset, FS_CardinalityType
<1>3. order \in [1..n -> D] /\ \A i, j \in 1..n : i # j => order[i] # order[j]
  BY <1>1 DEF SetToSeqs
<1>4. order \in Injection(1..n, D)
  BY <1>3 DEF Injection, IsInjective
<1>5. IsFiniteSet(1..n) /\ Cardinality(1..n) = n
  BY <1>2, FS_Interval
<1>6. order \in Surjection(1..n, D)
  BY <1>1, <1>2, <1>4, <1>5, FS_Injection
<1>7. Len(order) = n
  BY <1>2, <1>3
<1> QED BY <1>2, <1>3, <1>6, <1>7 DEF Surjection

LEMMA UpsertFacts ==
  ASSUME NEW fs \in [Boxes -> Paths \cup {NULL}], NEW paths, IsPathList(paths),
         \A i, j \in Stored(fs) : i # j => fs[i] # fs[j],
         NEW order \in SetToSeqs(DOMAIN paths),
         NEW up, up = UpsertFolders(fs, paths, order), up # Refused
  PROVE  /\ up \in [Boxes -> Paths \cup {NULL}]
         /\ \A i \in Boxes : up[i] = IF i \in DOMAIN paths THEN paths[i] ELSE fs[i]
         /\ \A i, j \in Stored(up) : i # j => up[i] # up[j]
         /\ \A i \in Stored(fs) : i \in Stored(up)
<1> DEFINE After(k) == [i \in Boxes |-> IF \E l \in 1..k : order[l] = i THEN paths[i] ELSE fs[i]]
<1> DEFINE n == Len(order)
<1>1. /\ n \in Nat
      /\ \A k \in 1..n : order[k] \in DOMAIN paths
      /\ \A i \in DOMAIN paths : \E k \in 1..n : order[k] = i
      /\ \A h, k \in 1..n : order[h] = order[k] => h = k
  BY ListFacts DEF IsPathList
<1>2. /\ up = After(n)
      /\ \A k \in 1..n : \A j \in Boxes \ {order[k]} : After(k - 1)[j] # paths[order[k]]
  BY DEF UpsertFolders
<1>3. \A i \in Boxes : up[i] = IF i \in DOMAIN paths THEN paths[i] ELSE fs[i]
  BY <1>1, <1>2
<1>4. up \in [Boxes -> Paths \cup {NULL}]
  <2>1. \A i \in Boxes : up[i] \in Paths \cup {NULL}
    BY <1>3 DEF IsPathList
  <2> QED BY <1>2, <2>1
<1>5. ASSUME NEW i \in Boxes, NEW j \in Boxes, i # j, up[j] # NULL, NEW k \in 1..n,
             order[k] = i, \A l \in k..n : order[l] # j
      PROVE  up[i] # up[j]
  <2>1. j \in Boxes \ {order[k]} /\ k - 1 \in Nat
    BY <1>5
  <2>2. After(k - 1)[j] = up[j]
    <3>1. (\E l \in 1..k-1 : order[l] = j) <=> j \in DOMAIN paths
      <4>1. \A l \in 1..n : l \in 1..k-1 \/ l \in k..n
        BY <1>1
      <4>2. 1..k-1 \subseteq 1..n
        BY <1>1
      <4> QED BY <4>1, <4>2, <1>1, <1>5
    <3> QED BY <3>1, <1>3
  <2>3. up[i] = paths[order[k]]
    BY <1>1, <1>3, <1>5
  <2> QED BY <2>1, <2>2, <2>3, <1>2
<1>6. ASSUME NEW i \in Boxes, NEW j \in Boxes, i # j, up[i] # NULL, up[j] # NULL,
             i \in DOMAIN paths
      PROVE  up[i] # up[j]
  <2>1. PICK k \in 1..n : order[k] = i
    BY <1>1, <1>6
  <2>2. CASE \A l \in k..n : order[l] # j
    BY <1>5, <1>6, <2>1, <2>2
  <2>3. CASE \E l \in k..n : order[l] = j
    <3>1. PICK l \in k..n : order[l] = j
      BY <2>3
    <3>2. l \in 1..n
      BY <2>1, <3>1, <1>1
    <3>3. \A h \in l..n : order[h] # i
      <4>1. ASSUME NEW h \in l..n, order[h] = i PROVE FALSE
        <5>1. h \in 1..n
          BY <3>2, <1>1
        <5>2. h = k
          BY <4>1, <5>1, <2>1, <1>1
        <5>3. h = l
          BY <5>2, <3>1, <3>2, <1>1
        <5> QED BY <4>1, <5>3, <3>1, <1>6
      <4> QED BY <4>1
    <3> QED BY <1>5, <1>6, <3>1, <3>2, <3>3
  <2> QED BY <2>2, <2>3
<1>7. \A i, j \in Stored(up) : i # j => up[i] # up[j]
  <2> SUFFICES ASSUME NEW i \in Boxes, NEW j \in Boxes, i # j, up[i] # NULL, up[j] # NULL
               PROVE  up[i] # up[j]
    BY DEF Stored
  <2>1. CASE i \in DOMAIN paths
    BY <2>1, <1>6
  <2>2. CASE j \in DOMAIN paths
    BY <2>2, <1>6
  <2>3. CASE i \notin DOMAIN paths /\ j \notin DOMAIN paths
    BY <2>3, <1>3 DEF Stored
  <2> QED BY <2>1, <2>2, <2>3
<1>8. \A i \in Stored(fs) : i \in Stored(up)
  BY <1>3, TablesAssumption DEF Stored, IsPathList
<1> QED BY <1>3, <1>4, <1>7, <1>8

LEMMA RemoveFacts ==
  ASSUME NEW fs, NEW tab, KeysHold(fs, tab), NEW gone \in SUBSET Boxes,
         NEW r, r = RemoveFolders(fs, tab, gone), r # Refused
  PROVE  /\ KeysHold(r.folders, r.table)
         /\ \A i \in Boxes : r.folders[i] = IF i \in gone THEN NULL ELSE fs[i]
         /\ \A m \in Mails :
              /\ tab[m] = NULL => r.table[m] = NULL
              /\ tab[m] # NULL /\ tab[m].boxes # {} /\ tab[m].boxes \cap gone = {}
                   => r.table[m] = tab[m]
<1>1. PICK left : left = LeaveFolders(tab, gone)
  OBVIOUS
<1>2. PICK rest : rest = [i \in Boxes |-> IF i \in gone THEN NULL ELSE fs[i]]
  OBVIOUS
<1>3. /\ r.folders = rest /\ r.table = left
      /\ \A m \in Mails : left[m] # NULL => left[m].context \notin gone
  BY <1>1, <1>2 DEF RemoveFolders
<1>4. left \in [Mails -> MailRow \cup {NULL}]
  <2>1. left = [m \in Mails |-> IF tab[m] = NULL \/ tab[m].boxes \subseteq gone THEN NULL
                                ELSE [tab[m] EXCEPT !.boxes = tab[m].boxes \ gone]]
    BY <1>1 DEF LeaveFolders
  <2>2. ASSUME NEW m \in Mails, tab[m] # NULL
        PROVE  [tab[m] EXCEPT !.boxes = tab[m].boxes \ gone] \in MailRow
    <3>1. PICK row \in MailRow : row = tab[m]
      BY <2>2 DEF KeysHold
    <3> QED BY <3>1 DEF MailRow
  <2> QED BY <2>1, <2>2
<1>5. ASSUME NEW m \in Mails
      PROVE  /\ left[m] # NULL => tab[m] # NULL /\ left[m].context = tab[m].context
             /\ tab[m] = NULL => left[m] = NULL
             /\ tab[m] # NULL /\ tab[m].boxes # {} /\ tab[m].boxes \cap gone = {}
                  => left[m] = tab[m]
  <2>1. left[m] = IF tab[m] = NULL \/ tab[m].boxes \subseteq gone THEN NULL
                  ELSE [tab[m] EXCEPT !.boxes = tab[m].boxes \ gone]
    BY <1>1 DEF LeaveFolders
  <2>2. CASE tab[m] = NULL
    BY <2>1, <2>2
  <2>3. CASE tab[m] # NULL
    <3>1. PICK row \in MailRow : row = tab[m]
      BY <2>3 DEF KeysHold
    <3>2. row.boxes \cap gone = {} => row.boxes \ gone = row.boxes
      OBVIOUS
    <3> QED BY <2>1, <2>3, <3>1, <3>2 DEF MailRow
  <2> QED BY <2>2, <2>3
<1>6. rest \in [Boxes -> Paths \cup {NULL}]
  BY <1>2 DEF KeysHold
<1>7. \A i \in Stored(rest) : i \in Stored(fs) /\ rest[i] = fs[i]
  BY <1>2 DEF Stored
<1>8. \A m \in Mails : left[m] # NULL => left[m].context \in Stored(rest)
  BY <1>2, <1>3, <1>5 DEF KeysHold, Stored
<1>9. KeysHold(rest, left)
  BY <1>4, <1>6, <1>7, <1>8 DEF KeysHold
<1> QED BY <1>2, <1>3, <1>5, <1>9

LEMMA UpsertKeeps ==
  ASSUME NEW fs, NEW tab, KeysHold(fs, tab), NEW paths, IsPathList(paths),
         NEW order \in SetToSeqs(DOMAIN paths),
         NEW up, up = UpsertFolders(fs, paths, order), up # Refused
  PROVE  /\ KeysHold(up, tab)
         /\ \A i \in Boxes : up[i] = IF i \in DOMAIN paths THEN paths[i] ELSE fs[i]
<1>1. /\ fs \in [Boxes -> Paths \cup {NULL}]
      /\ \A i, j \in Stored(fs) : i # j => fs[i] # fs[j]
  BY DEF KeysHold
<1>2. /\ up \in [Boxes -> Paths \cup {NULL}]
      /\ \A i \in Boxes : up[i] = IF i \in DOMAIN paths THEN paths[i] ELSE fs[i]
      /\ \A i, j \in Stored(up) : i # j => up[i] # up[j]
      /\ \A i \in Stored(fs) : i \in Stored(up)
  BY <1>1, UpsertFacts
<1> QED BY <1>2 DEF KeysHold

LEMMA SaveFacts ==
  ASSUME NEW fs, NEW tab, KeysHold(fs, tab), NEW paths, IsPathList(paths),
         NEW order \in SetToSeqs(DOMAIN paths),
         NEW r, r = SaveFolders(fs, tab, paths, order), r # Refused
  PROVE  /\ KeysHold(r.folders, r.table)
         /\ \A i \in Boxes : r.folders[i] = IF i \in DOMAIN paths THEN paths[i] ELSE NULL
<1>1. PICK up : up = UpsertFolders(fs, paths, order)
  OBVIOUS
<1>2. up # Refused /\ r = RemoveFolders(up, tab, Boxes \ DOMAIN paths)
  BY <1>1 DEF SaveFolders
<1>3. /\ KeysHold(up, tab)
      /\ \A i \in Boxes : up[i] = IF i \in DOMAIN paths THEN paths[i] ELSE fs[i]
  BY <1>1, <1>2, UpsertKeeps
<1>4. PICK gone \in SUBSET Boxes : gone = Boxes \ DOMAIN paths
  OBVIOUS
<1>5. /\ KeysHold(r.folders, r.table)
      /\ \A i \in Boxes : r.folders[i] = IF i \in gone THEN NULL ELSE up[i]
  <2>1. r = RemoveFolders(up, tab, gone)
    BY <1>2, <1>4
  <2> QED BY <2>1, <1>3, RemoveFacts
<1> QED BY <1>3, <1>4, <1>5

\* What a delta leaves of the folders and of the messages.
DeltaDone(fs, tab, paths, gone, r) ==
  /\ KeysHold(r.folders, r.table)
  /\ \A i \in Boxes : r.folders[i] = IF i \in gone THEN NULL
                                     ELSE IF i \in DOMAIN paths THEN paths[i] ELSE fs[i]
  /\ \A m \in Mails :
       /\ tab[m] = NULL => r.table[m] = NULL
       /\ tab[m] # NULL /\ tab[m].boxes # {} /\ tab[m].boxes \cap gone = {}
            => r.table[m] = tab[m]

LEMMA DeltaFacts ==
  ASSUME NEW fs, NEW tab, KeysHold(fs, tab), NEW paths, IsPathList(paths),
         NEW gone \in SUBSET Boxes, NEW order \in SetToSeqs(DOMAIN paths),
         NEW r, r = DeltaFolders(fs, tab, paths, order, gone), r # Refused
  PROVE  DeltaDone(fs, tab, paths, gone, r)
<1>1. PICK up : up = UpsertFolders(fs, paths, order)
  OBVIOUS
<1>2. up # Refused /\ r = IF gone = {} THEN [folders |-> up, table |-> tab]
                          ELSE RemoveFolders(up, tab, gone)
  BY <1>1 DEF DeltaFolders
<1>3. /\ KeysHold(up, tab)
      /\ \A i \in Boxes : up[i] = IF i \in DOMAIN paths THEN paths[i] ELSE fs[i]
  BY <1>1, <1>2, UpsertKeeps
<1>4. CASE gone = {}
  BY <1>2, <1>3, <1>4 DEF DeltaDone
<1>5. CASE gone # {}
  <2>1. /\ KeysHold(r.folders, r.table)
        /\ \A i \in Boxes : r.folders[i] = IF i \in gone THEN NULL ELSE up[i]
        /\ \A m \in Mails :
             /\ tab[m] = NULL => r.table[m] = NULL
             /\ tab[m] # NULL /\ tab[m].boxes # {} /\ tab[m].boxes \cap gone = {}
                  => r.table[m] = tab[m]
    BY <1>2, <1>3, <1>5, RemoveFacts
  <2> QED BY <1>3, <2>1 DEF DeltaDone
<1> QED BY <1>4, <1>5

LEMMA BatchFacts ==
  ASSUME NEW fs, NEW tab, KeysHold(fs, tab), NEW destroyed, NEW got,
         DOMAIN got \subseteq Mails, \A m \in DOMAIN got : got[m] \in MailRow,
         NEW r, r = EmailBatch(fs, tab, destroyed, got), r # Refused
  PROVE  /\ KeysHold(fs, r)
         /\ \A m \in Mails : r[m] = IF m \in DOMAIN got THEN got[m]
                                    ELSE IF m \in destroyed THEN NULL ELSE tab[m]
<1>1. /\ \A m \in DOMAIN got : fs[got[m].context] # NULL
      /\ r = [m \in Mails |-> IF m \in DOMAIN got THEN got[m]
                              ELSE IF m \in destroyed THEN NULL ELSE tab[m]]
  BY DEF EmailBatch
<1>2. r \in [Mails -> MailRow \cup {NULL}]
  BY <1>1 DEF KeysHold
<1>3. \A m \in DOMAIN got : got[m].context \in Stored(fs)
  BY <1>1 DEF Stored, MailRow
<1>4. \A m \in Mails : r[m] # NULL => r[m].context \in Stored(fs)
  BY <1>1, <1>3 DEF KeysHold
<1> QED BY <1>1, <1>2, <1>4 DEF KeysHold

-----------------------------------------------------------------------------
\* The server's log of mailboxes, its tree, and its messages, as values.
Entry == [id : Boxes, kind : {"created", "updated", "destroyed"}]

StampOf(log, i) ==
  IF \E k \in 1..Len(log) : log[k].id = i
  THEN CHOOSE k \in 1..Len(log) : log[k].id = i /\ \A l \in k+1..Len(log) : log[l].id # i
  ELSE 0

\* Every mailbox the log names has a last entry.
LogEnds(log) ==
  \A k \in 1..Len(log) : \E l \in 1..Len(log) :
    log[l].id = log[k].id /\ \A n \in l+1..Len(log) : log[n].id # log[k].id

LEMMA StampFacts ==
  ASSUME NEW log \in Seq(Entry), LogEnds(log), NEW i
  PROVE  /\ StampOf(log, i) \in 0..Len(log)
         /\ StampOf(log, i) > 0 => log[StampOf(log, i)].id = i
         /\ \A k \in 1..Len(log) : log[k].id = i => k <= StampOf(log, i)
<1>1. CASE \E k \in 1..Len(log) : log[k].id = i
  <2>1. \E k \in 1..Len(log) : log[k].id = i /\ \A l \in k+1..Len(log) : log[l].id # i
    BY <1>1 DEF LogEnds
  <2>2. PICK s : s = StampOf(log, i)
    OBVIOUS
  <2>3. s \in 1..Len(log) /\ log[s].id = i /\ \A l \in s+1..Len(log) : log[l].id # i
    BY <1>1, <2>1, <2>2 DEF StampOf
  <2> QED BY <2>2, <2>3
<1>2. CASE ~ \E k \in 1..Len(log) : log[k].id = i
  BY <1>2 DEF StampOf
<1> QED BY <1>1, <1>2

\* next is log with the entry e behind it.
Longer(log, e, next) ==
  /\ next \in Seq(Entry) /\ LogEnds(next) /\ Len(next) = Len(log) + 1
  /\ \A k \in 1..Len(log) : next[k] = log[k]
  /\ next[Len(log) + 1] = e
  /\ StampOf(next, e.id) = Len(log) + 1
  /\ \A i : i # e.id => StampOf(next, i) = StampOf(log, i)

LEMMA StampAppend ==
  ASSUME NEW log \in Seq(Entry), LogEnds(log), NEW e \in Entry,
         NEW next, next = Append(log, e)
  PROVE  Longer(log, e, next)
<1>1. /\ next \in Seq(Entry) /\ Len(next) = Len(log) + 1 /\ Len(log) \in Nat
      /\ \A k \in 1..Len(log) : next[k] = log[k]
      /\ next[Len(log) + 1] = e
  OBVIOUS
<1>2. LogEnds(next)
  <2> SUFFICES ASSUME NEW k \in 1..Len(next)
               PROVE  \E l \in 1..Len(next) : next[l].id = next[k].id /\
                        \A n \in l+1..Len(next) : next[n].id # next[k].id
    BY DEF LogEnds
  <2>1. CASE next[k].id = e.id
    <3>1. Len(next) \in 1..Len(next) /\ next[Len(next)].id = next[k].id
      BY <1>1, <2>1
    <3>2. (Len(next) + 1)..Len(next) = {}
      BY <1>1
    <3> QED BY <3>1, <3>2
  <2>2. CASE next[k].id # e.id
    <3>1. k \in 1..Len(log)
      BY <1>1, <2>2
    <3>2. PICK l \in 1..Len(log) :
            log[l].id = log[k].id /\ \A n \in l+1..Len(log) : log[n].id # log[k].id
      BY <3>1 DEF LogEnds
    <3>3. ASSUME NEW n \in l+1..Len(next) PROVE next[n].id # next[k].id
      <4>1. CASE n \in l+1..Len(log)
        BY <4>1, <3>1, <3>2, <1>1
      <4>2. CASE n = Len(log) + 1
        BY <4>2, <2>2, <1>1
      <4> QED BY <4>1, <4>2, <3>2, <1>1
    <3>4. l \in 1..Len(next) /\ next[l].id = next[k].id
      BY <1>1, <3>1, <3>2
    <3> QED BY <3>3, <3>4
  <2> QED BY <2>1, <2>2
<1>3. StampOf(next, e.id) = Len(log) + 1
  <2>1. PICK s : s = StampOf(next, e.id)
    OBVIOUS
  <2>2. s \in 0..Len(next) /\ \A k \in 1..Len(next) : next[k].id = e.id => k <= s
    BY <1>1, <1>2, <2>1, StampFacts
  <2> QED BY <1>1, <2>1, <2>2
<1>4. ASSUME NEW i, i # e.id PROVE StampOf(next, i) = StampOf(log, i)
  <2>1. PICK s : s = StampOf(log, i)
    OBVIOUS
  <2>2. PICK t : t = StampOf(next, i)
    OBVIOUS
  <2>3. /\ s \in 0..Len(log) /\ (s > 0 => log[s].id = i)
        /\ \A k \in 1..Len(log) : log[k].id = i => k <= s
    BY <2>1, StampFacts
  <2>4. /\ t \in 0..Len(next) /\ (t > 0 => next[t].id = i)
        /\ \A k \in 1..Len(next) : next[k].id = i => k <= t
    BY <1>1, <1>2, <2>2, StampFacts
  <2>5. t \in 0..Len(log)
    BY <1>1, <1>4, <2>4
  <2>6. t <= s
    <3>1. CASE t = 0
      BY <3>1, <2>3
    <3>2. CASE t > 0
      BY <3>2, <1>1, <2>3, <2>4, <2>5
    <3> QED BY <3>1, <3>2, <2>5
  <2>7. s <= t
    <3>1. CASE s = 0
      BY <3>1, <2>5
    <3>2. CASE s > 0
      BY <3>2, <1>1, <2>3, <2>4
    <3> QED BY <3>1, <3>2, <2>3
  <2> QED BY <2>1, <2>2, <2>3, <2>5, <2>6, <2>7
<1> QED BY <1>1, <1>2, <1>3, <1>4 DEF Longer

\* A set that has the parent of i, if i has one, and of every mailbox in it.
ParentOf(bs, S, i) == bs[i] # NULL => bs[i].parent \in S \cup {NULL}
Closed(bs, S, i) == ParentOf(bs, S, i) /\ \A k \in S : ParentOf(bs, S, k)
AboveOf(bs, i) == {j \in Boxes : \A S \in SUBSET Boxes : Closed(bs, S, i) => j \in S}

LEMMA AboveFacts ==
  ASSUME NEW bs \in [Boxes -> Box \cup {NULL}], NEW i \in Boxes
  PROVE  /\ AboveOf(bs, i) \in SUBSET Boxes
         /\ Closed(bs, AboveOf(bs, i), i)
         /\ \A S \in SUBSET Boxes : Closed(bs, S, i) => AboveOf(bs, i) \subseteq S
<1>1. PICK A : A = AboveOf(bs, i)
  OBVIOUS
<1>2. A \in SUBSET Boxes /\ \A S \in SUBSET Boxes : Closed(bs, S, i) => A \subseteq S
  BY <1>1 DEF AboveOf
<1>3. \A j \in Boxes : bs[j] # NULL => bs[j].parent \in Boxes \cup {NULL}
  BY DEF Box
<1>4. \A j \in Boxes : (\A S \in SUBSET Boxes : Closed(bs, S, i) => j \in S) => j \in A
  BY <1>1 DEF AboveOf
<1>5. ParentOf(bs, A, i)
  <2> SUFFICES ASSUME bs[i] # NULL, bs[i].parent # NULL PROVE bs[i].parent \in A
    BY DEF ParentOf
  <2>1. \A S \in SUBSET Boxes : Closed(bs, S, i) => bs[i].parent \in S
    BY DEF Closed, ParentOf
  <2> QED BY <2>1, <1>3, <1>4
<1>6. ASSUME NEW k \in A PROVE ParentOf(bs, A, k)
  <2> SUFFICES ASSUME bs[k] # NULL, bs[k].parent # NULL PROVE bs[k].parent \in A
    BY DEF ParentOf
  <2>1. \A S \in SUBSET Boxes : Closed(bs, S, i) => bs[k].parent \in S
    BY <1>2, <1>6 DEF Closed, ParentOf
  <2> QED BY <2>1, <1>2, <1>3, <1>4, <1>6
<1> QED BY <1>1, <1>2, <1>5, <1>6 DEF Closed

\* A change of x leaves the path of i and what is above i alone, unless x is i
\* or is above i now.
LEMMA PathStays ==
  ASSUME NEW bs \in [Boxes -> Box \cup {NULL}], NEW cs \in [Boxes -> Box \cup {NULL}],
         NEW x, \A j \in Boxes : j # x => cs[j] = bs[j],
         NEW i \in Boxes, i # x, x \notin AboveOf(cs, i)
  PROVE  /\ AboveOf(cs, i) = AboveOf(bs, i)
         /\ bs[i] # NULL => Path(cs, i) = Path(bs, i)
<1>1. PICK A : A = AboveOf(cs, i)
  OBVIOUS
<1>2. PICK B : B = AboveOf(bs, i)
  OBVIOUS
<1>3. /\ A \in SUBSET Boxes /\ Closed(cs, A, i)
      /\ \A S \in SUBSET Boxes : Closed(cs, S, i) => A \subseteq S
  BY <1>1, AboveFacts
<1>4. /\ B \in SUBSET Boxes /\ Closed(bs, B, i)
      /\ \A S \in SUBSET Boxes : Closed(bs, S, i) => B \subseteq S
  BY <1>2, AboveFacts
<1>5. \A j \in A \cup {i} : cs[j] = bs[j]
  BY <1>1, <1>3
<1>6. Closed(bs, A, i)
  BY <1>3, <1>5 DEF Closed, ParentOf
<1>7. B \subseteq A
  BY <1>3, <1>4, <1>6
<1>8. Closed(cs, B, i)
  BY <1>4, <1>5, <1>7 DEF Closed, ParentOf
<1>9. A = B
  BY <1>3, <1>4, <1>7, <1>8
<1>10. ASSUME bs[i] # NULL PROVE Path(cs, i) = Path(bs, i)
  <2>1. PICK C \in SUBSET Boxes : C = A \cup {i}
    BY <1>3
  <2>2. \A j \in C : bs[j] # NULL => bs[j].parent \in C \cup {NULL}
    BY <2>1, <1>6 DEF Closed, ParentOf
  <2>3. i \in C /\ i \in Named(bs) /\ \A j \in C : bs[j] = cs[j]
    BY <2>1, <1>5, <1>10 DEF Named
  <2> QED BY <2>2, <2>3, PathAgrees
<1> QED BY <1>1, <1>2, <1>9, <1>10

\* The largest of the numbers the messages carry.
MaxOf(f) == CHOOSE n \in {f[m] : m \in Mails} : \A m \in Mails : f[m] <= n

LEMMA MaxFacts ==
  ASSUME NEW f \in [Mails -> Nat], NEW n \in Mails, \A m \in Mails : f[m] <= f[n]
  PROVE  MaxOf(f) = f[n]
<1>1. \E k \in {f[m] : m \in Mails} : \A m \in Mails : f[m] <= k
  OBVIOUS
<1>2. PICK k : k = MaxOf(f)
  OBVIOUS
<1>3. k \in {f[m] : m \in Mails} /\ \A m \in Mails : f[m] <= k
  BY <1>1, <1>2 DEF MaxOf
<1> QED BY <1>2, <1>3

-----------------------------------------------------------------------------
\* The invariant.
Buried(i) == \E k \in 1..Token : boxLog[k].id = i /\ boxLog[k].kind = "destroyed"

ServerTyped ==
  /\ boxes \in [Boxes -> Box \cup {NULL}]
  /\ boxLog \in Seq(Entry) /\ LogEnds(boxLog)
  /\ horizon \in Nat
  /\ mail \in [Mails -> SUBSET Boxes] /\ mailSeq \in [Mails -> Nat]
  /\ \A m \in Mails : mail[m] \subseteq Alive
  /\ \E m \in Mails : \A n \in Mails : mailSeq[n] <= mailSeq[m]

\* No mailbox comes back, and one whose last entry is not its end is there.
LogTrue ==
  /\ \A i \in Boxes : Buried(i) => i \notin Alive
  /\ \A i \in Boxes : Stamp(i) > 0 /\ boxLog[Stamp(i)].kind # "destroyed" => i \in Alive

CacheTyped ==
  /\ KeysHold(folders, table)
  /\ boxState \in 0..Token /\ mailState \in 0..MailToken

TaskTyped ==
  \/ task = Idle
  \/ task = [pc |-> "changes", since |-> boxState]
  \/ task = [pc |-> "none", state |-> boxState]
  \/ task = [pc |-> "full"]
  \/ /\ task.pc \in {"get", "delta"}
     /\ task = [pc |-> task.pc, state |-> task.state, gone |-> task.gone,
                ids |-> task.ids, paths |-> task.paths]
     /\ task.state \in 0..Token
     /\ task.gone \subseteq Boxes /\ (\A i \in task.gone : Buried(i))
     /\ IsPathList(task.paths) /\ DOMAIN task.paths \subseteq task.ids
  \/ /\ task.pc = "save"
     /\ task = [pc |-> "save", state |-> task.state, paths |-> task.paths]
     /\ task.state \in 0..Token /\ IsPathList(task.paths)

MailTaskTyped ==
  \/ mtask = Idle
  \/ /\ mtask = [pc |-> "save", state |-> mtask.state, destroyed |-> mtask.destroyed,
                 got |-> mtask.got]
     /\ mtask.state \in 0..MailToken /\ DOMAIN mtask.got \subseteq Mails
     /\ \A m \in DOMAIN mtask.got : mtask.got[m] \in MailRow

Types == ServerTyped /\ LogTrue /\ CacheTyped /\ TaskTyped /\ MailTaskTyped

\* What an email delta brings is right of every message that has not changed
\* after it was asked for, and only a call that starts over removes a folder
\* the server still has.
MailTrue ==
  /\ MailKept
  /\ task.pc \in {"full", "save"} => horizon > 0
  /\ mtask.pc = "save" =>
       \A m \in Mails : mailSeq[m] <= mtask.state =>
         IF m \in DOMAIN mtask.got
         THEN mail[m] # {} /\ mtask.got[m].boxes = mail[m]
         ELSE IF m \in mtask.destroyed THEN mail[m] = {} ELSE mailSeq[m] <= mailState

RightPath(i, p) == (\A j \in Above(i) : Stamp(j) <= Stamp(i)) => p = Path(boxes, i)

\* The window of a delta names every mailbox that changed in it, as gone or as
\* changed, and what was fetched is right of those that have not changed since.
DeltaNames ==
  /\ task.gone \cap task.ids = {}
  /\ \A i \in Boxes : Stamp(i) <= task.state =>
       IF Stamp(i) <= boxState THEN i \notin task.ids \cup task.gone
       ELSE IF i \in Alive THEN i \in task.ids ELSE i \in task.gone

DeltaPaths ==
  \A i \in Boxes : Stamp(i) <= task.state /\ i \in Alive /\ i \in task.ids =>
    i \in DOMAIN task.paths /\ RightPath(i, task.paths[i])

SavePaths ==
  \A i \in Boxes : Stamp(i) <= task.state =>
    /\ i \in DOMAIN task.paths <=> i \in Alive
    /\ i \in Alive => RightPath(i, task.paths[i])

FoldersTrue ==
  /\ FoldersAsOf
  /\ task.pc \in {"get", "delta"} => DeltaNames
  /\ task.pc = "delta" => DeltaPaths
  /\ task.pc = "save" => SavePaths

IInv == Types /\ MailTrue /\ FoldersTrue

LEMMA TypesMeanTypeOK == Types => TypeOK
BY DEF Types, CacheTyped, KeysHold, TypeOK, Tables

-----------------------------------------------------------------------------
\* What the server's steps have in common.
LEMMA TokenFacts ==
  ASSUME ServerTyped
  PROVE  /\ MailToken \in Nat /\ MailToken = MaxOf(mailSeq)
         /\ \A m \in Mails : mailSeq[m] <= MailToken
         /\ \E m \in Mails : mailSeq[m] = MailToken
         /\ Token \in Nat
<1>1. MailToken = MaxOf(mailSeq)
  BY DEF MailToken, MaxOf
<1>2. PICK m \in Mails : \A n \in Mails : mailSeq[n] <= mailSeq[m]
  BY DEF ServerTyped
<1>3. mailSeq \in [Mails -> Nat]
  BY DEF ServerTyped
<1>4. MaxOf(mailSeq) = mailSeq[m]
  BY <1>2, <1>3, MaxFacts
<1>5. Token \in Nat
  BY DEF ServerTyped, Token
<1> QED BY <1>1, <1>2, <1>3, <1>4, <1>5

LEMMA StampIsStampOf ==
  \A i : Stamp(i) = StampOf(boxLog, i) /\ Stamp(i)' = StampOf(boxLog', i)
BY DEF Stamp, StampOf, Token

LEMMA AboveIsAboveOf ==
  \A i : Above(i) = AboveOf(boxes, i) /\ Above(i)' = AboveOf(boxes', i)
BY DEF Above, AboveOf, ParentIn, Closed, ParentOf

LEMMA StampTyped ==
  ASSUME ServerTyped
  PROVE  /\ \A i : Stamp(i) \in 0..Token /\ (Stamp(i) > 0 => boxLog[Stamp(i)].id = i)
         /\ \A k \in 1..Token : k <= Stamp(boxLog[k].id)
<1>1. boxLog \in Seq(Entry) /\ LogEnds(boxLog)
  BY DEF ServerTyped
<1>2. ASSUME NEW i
      PROVE  /\ Stamp(i) \in 0..Token /\ (Stamp(i) > 0 => boxLog[Stamp(i)].id = i)
             /\ \A k \in 1..Token : boxLog[k].id = i => k <= Stamp(i)
  <2>1. PICK s : s = StampOf(boxLog, i)
    OBVIOUS
  <2>2. /\ s \in 0..Len(boxLog) /\ (s > 0 => boxLog[s].id = i)
        /\ \A k \in 1..Len(boxLog) : boxLog[k].id = i => k <= s
    BY <1>1, <2>1, StampFacts
  <2>3. Stamp(i) = s
    BY <2>1, StampIsStampOf
  <2> QED BY <2>2, <2>3 DEF Token
<1> QED BY <1>2

\* Messages that moved are newer than everything.
Remailed ==
  /\ mail' \in [Mails -> SUBSET Boxes] /\ mailSeq' \in [Mails -> Nat]
  /\ \A m \in Mails : mail'[m] \subseteq Alive'
  /\ \A m \in Mails : \/ mail'[m] = mail[m] /\ mailSeq'[m] = mailSeq[m]
                      \/ mailSeq'[m] = MailToken + 1

LEMMA RemailedFacts ==
  ASSUME ServerTyped, Remailed
  PROVE  /\ \E m \in Mails : \A n \in Mails : mailSeq'[n] <= mailSeq'[m]
         /\ MailToken' \in Nat /\ MailToken <= MailToken'
<1>1. /\ MailToken \in Nat /\ \A m \in Mails : mailSeq[m] <= MailToken
      /\ \E m \in Mails : mailSeq[m] = MailToken
  BY TokenFacts
<1>2. PICK f \in [Mails -> Nat] : f = mailSeq'
  BY DEF Remailed
<1>3. MailToken' = MaxOf(f)
  BY <1>2 DEF MailToken, MaxOf
<1>4. PICK m \in Mails : MailToken <= f[m] /\ \A n \in Mails : f[n] <= f[m]
  <2>1. CASE \E m \in Mails : f[m] = MailToken + 1
    <3>1. PICK m \in Mails : f[m] = MailToken + 1
      BY <2>1
    <3>2. \A n \in Mails : f[n] <= MailToken + 1
      <4>1. ASSUME NEW n \in Mails PROVE f[n] <= MailToken + 1
        <5>1. f[n] = mailSeq[n] \/ f[n] = MailToken + 1
          BY <1>2 DEF Remailed
        <5>2. f[n] \in Nat /\ mailSeq[n] <= MailToken
          BY <1>1
        <5> QED BY <5>1, <5>2, <1>1
      <4> QED BY <4>1
    <3> QED BY <1>1, <3>1, <3>2
  <2>2. CASE \A m \in Mails : f[m] # MailToken + 1
    <3>1. \A m \in Mails : f[m] = mailSeq[m]
      BY <1>2, <2>2 DEF Remailed
    <3> QED BY <1>1, <3>1
  <2> QED BY <2>1, <2>2
<1>5. MaxOf(f) = f[m]
  BY <1>4, MaxFacts
<1> QED BY <1>1, <1>2, <1>3, <1>4, <1>5

\* A step of the server that is no change of a mailbox leaves what holds of the
\* log; one that is appends an entry for it.
Logged(x, e) ==
  /\ x \in Boxes /\ e \in Entry /\ e.id = x /\ boxLog' = Append(boxLog, e)
  /\ boxes' \in [Boxes -> Box \cup {NULL}] /\ \A j \in Boxes : j # x => boxes'[j] = boxes[j]
  /\ IF e.kind = "destroyed" THEN boxes'[x] = NULL ELSE boxes'[x] # NULL /\ ~Buried(x)
  /\ horizon' = horizon

Unlogged ==
  /\ UNCHANGED <<boxes, boxLog>>
  /\ horizon' \in Nat /\ horizon <= horizon'

\* What either leaves: stamps and paths of the others, and every end in the log.
TreeKept(x) ==
  /\ Token' \in Nat /\ Token <= Token'
  /\ \A i \in Boxes : Buried(i) => Buried(i)'
  /\ \A i \in Boxes : i # x =>
       /\ Stamp(i)' = Stamp(i) /\ boxes'[i] = boxes[i]
       /\ \A p : i \in Alive /\ RightPath(i, p) => RightPath(i, p)'
  /\ x \in Boxes => Stamp(x)' \in Nat /\ Stamp(x)' > Token

LEMMA LoggedKeeps ==
  ASSUME Types, NEW x, NEW e, Logged(x, e), Remailed
  PROVE  ServerTyped' /\ LogTrue' /\ TreeKept(x)
<1>1. PICK log : log = boxLog'
  OBVIOUS
<1>2. boxLog \in Seq(Entry) /\ LogEnds(boxLog) /\ e \in Entry /\ log = Append(boxLog, e)
  BY <1>1 DEF Types, ServerTyped, Logged
<1>3. /\ log \in Seq(Entry) /\ LogEnds(log) /\ Len(log) = Len(boxLog) + 1
      /\ \A k \in 1..Len(boxLog) : log[k] = boxLog[k]
      /\ log[Len(boxLog) + 1] = e
      /\ StampOf(log, e.id) = Len(boxLog) + 1
      /\ \A i : i # e.id => StampOf(log, i) = StampOf(boxLog, i)
  <2>1. Longer(boxLog, e, log)
    BY <1>2, StampAppend
  <2> QED BY <2>1, Zenon DEF Longer
<1>4. /\ Token \in Nat /\ Token' = Token + 1
      /\ Stamp(x)' = Token + 1 /\ \A i : i # x => Stamp(i)' = Stamp(i)
  BY <1>1, <1>2, <1>3, StampIsStampOf DEF Token, Logged
<1>5. PICK bs \in [Boxes -> Box \cup {NULL}] : bs = boxes'
  BY DEF Logged
<1>6. \A j \in Boxes : j # x => bs[j] = boxes[j]
  BY <1>5 DEF Logged
<1>7. boxes \in [Boxes -> Box \cup {NULL}]
  BY DEF Types, ServerTyped
<1>8. \A i \in Boxes : Stamp(i) \in 0..Token
  BY StampTyped DEF Types
<1>9. ASSUME NEW i \in Boxes, i # x, i \in Alive, NEW p, RightPath(i, p) PROVE RightPath(i, p)'
  <2> SUFFICES ASSUME \A j \in Above(i)' : Stamp(j)' <= Stamp(i)' PROVE p = Path(bs, i)
    BY <1>5 DEF RightPath
  <2>1. Above(i)' = AboveOf(bs, i) /\ Above(i) = AboveOf(boxes, i)
    BY <1>5, AboveIsAboveOf
  <2>2. x \notin AboveOf(bs, i)
    BY <2>1, <1>4, <1>8, <1>9
  <2>3. AboveOf(bs, i) = AboveOf(boxes, i) /\ Path(bs, i) = Path(boxes, i)
    <3>1. boxes[i] # NULL
      BY <1>9 DEF Alive
    <3> QED BY <2>2, <3>1, <1>6, <1>7, <1>9, PathStays
  <2>4. \A j \in Above(i) : Stamp(j) <= Stamp(i)
    BY <2>1, <2>2, <2>3, <1>4, <1>9
  <2> QED BY <2>3, <2>4, <1>9 DEF RightPath
<1>10. \A i \in Boxes : Buried(i)' <=> Buried(i) \/ (i = x /\ e.kind = "destroyed")
  <2> SUFFICES ASSUME NEW i \in Boxes
               PROVE  Buried(i)' <=> Buried(i) \/ (i = x /\ e.kind = "destroyed")
    OBVIOUS
  <2>1. Buried(i)' <=> \E k \in 1..Token + 1 : log[k].id = i /\ log[k].kind = "destroyed"
    BY <1>1, <1>4 DEF Buried
  <2>2. \A k \in 1..Token + 1 : k \in 1..Token \/ k = Token + 1
    BY <1>4
  <2>3. 1..Token \subseteq 1..Token + 1 /\ Token + 1 \in 1..Token + 1
    BY <1>4
  <2>4. (\A k \in 1..Token : log[k] = boxLog[k]) /\ log[Token + 1] = e /\ e.id = x
    BY <1>3 DEF Token, Logged
  <2> QED BY <2>1, <2>2, <2>3, <2>4 DEF Buried
<1>11. LogTrue'
  <2>1. ASSUME NEW i \in Boxes, Buried(i)' PROVE i \notin Alive'
    <3>1. CASE i = x
      BY <3>1, <2>1, <1>10 DEF Logged, Alive
    <3>2. CASE i # x
      <4>1. i \notin Alive
        BY <3>2, <2>1, <1>10 DEF Types, LogTrue
      <4> QED BY <3>2, <4>1, <1>5, <1>6 DEF Alive
    <3> QED BY <3>1, <3>2
  <2>2. ASSUME NEW i \in Boxes, Stamp(i)' > 0, boxLog'[Stamp(i)'].kind # "destroyed"
        PROVE  i \in Alive'
    <3>1. CASE i = x
      <4>1. boxLog'[Stamp(x)'] = e
        BY <1>1, <1>3, <1>4 DEF Token
      <4> QED BY <3>1, <4>1, <2>2 DEF Logged, Alive
    <3>2. CASE i # x
      <4>1. Stamp(i)' = Stamp(i) /\ Stamp(i) \in 1..Token
        BY <3>2, <2>2, <1>4, <1>8
      <4>2. boxLog[Stamp(i)].kind # "destroyed" /\ Stamp(i) > 0
        BY <4>1, <2>2, <1>1, <1>3 DEF Token
      <4>3. i \in Alive
        BY <4>2 DEF Types, LogTrue
      <4> QED BY <3>2, <4>3, <1>5, <1>6 DEF Alive
    <3> QED BY <3>1, <3>2
  <2> QED BY <2>1, <2>2 DEF LogTrue
<1>12. ServerTyped'
  <2>1. \E m \in Mails : \A n \in Mails : mailSeq'[n] <= mailSeq'[m]
    BY RemailedFacts DEF Types
  <2>2. horizon' \in Nat
    BY DEF Types, ServerTyped, Logged
  <2> QED BY <2>1, <2>2, <1>1, <1>3, <1>5 DEF ServerTyped, Remailed
<1>13. TreeKept(x)
  BY <1>4, <1>5, <1>6, <1>9, <1>10 DEF TreeKept
<1> QED BY <1>11, <1>12, <1>13

LEMMA UnloggedKeeps ==
  ASSUME Types, Unlogged, Remailed
  PROVE  ServerTyped' /\ LogTrue' /\ TreeKept(NULL)
<1>1. \E m \in Mails : \A n \in Mails : mailSeq'[n] <= mailSeq'[m]
  BY RemailedFacts DEF Types
<1>2. ServerTyped'
  BY <1>1 DEF Types, ServerTyped, Unlogged, Remailed
<1>3. Token' = Token /\ Alive' = Alive /\ \A i : Stamp(i)' = Stamp(i)
  BY DEF Unlogged, Token, Alive, Stamp
<1>4. LogTrue'
  BY <1>3 DEF Types, LogTrue, Unlogged, Buried
<1>5. Token \in Nat
  BY TokenFacts DEF Types
<1>6. \A i : Above(i)' = Above(i)
  BY DEF Unlogged, Above, ParentIn
<1>7. \A i, p : RightPath(i, p) => RightPath(i, p)'
  BY <1>3, <1>6 DEF RightPath, Unlogged
<1>8. \A i \in Boxes : Buried(i) => Buried(i)'
  BY <1>3 DEF Buried, Unlogged
<1>9. NULL \notin Boxes
  BY TablesAssumption
<1> QED BY <1>2, <1>3, <1>4, <1>5, <1>7, <1>8, <1>9 DEF TreeKept, Unlogged

-----------------------------------------------------------------------------
\* Steps of the server.
CallsKept == UNCHANGED <<folders, table, boxState, mailState, task, mtask>>

LEMMA ServerTypes ==
  ASSUME Types, NEW x, TreeKept(x), ServerTyped', LogTrue', Remailed, CallsKept
  PROVE  Types'
<1>1. MailToken \in Nat /\ MailToken' \in Nat /\ MailToken <= MailToken'
  BY TokenFacts, RemailedFacts DEF Types
<1>2. Token \in Nat /\ Token' \in Nat /\ Token <= Token'
  BY TokenFacts DEF Types, TreeKept
<1>3. boxState \in 0..Token' /\ mailState \in 0..MailToken'
  BY <1>1, <1>2 DEF Types, CacheTyped
<1>4. CacheTyped'
  BY <1>3 DEF Types, CacheTyped, CallsKept
<1>5. TaskTyped'
  <2>1. CASE task \in {Idle, [pc |-> "changes", since |-> boxState],
                       [pc |-> "none", state |-> boxState], [pc |-> "full"]}
    BY <2>1 DEF TaskTyped, CallsKept, Idle
  <2>2. CASE /\ task.pc \in {"get", "delta"}
             /\ task = [pc |-> task.pc, state |-> task.state, gone |-> task.gone,
                        ids |-> task.ids, paths |-> task.paths]
             /\ task.state \in 0..Token
             /\ task.gone \subseteq Boxes /\ (\A i \in task.gone : Buried(i))
             /\ IsPathList(task.paths) /\ DOMAIN task.paths \subseteq task.ids
    <3>1. task.state \in 0..Token'
      BY <2>2, <1>2
    <3>2. \A i \in task.gone : Buried(i)'
      BY <2>2 DEF TreeKept
    <3> QED BY <2>2, <3>1, <3>2 DEF TaskTyped, CallsKept
  <2>3. CASE /\ task.pc = "save"
             /\ task = [pc |-> "save", state |-> task.state, paths |-> task.paths]
             /\ task.state \in 0..Token /\ IsPathList(task.paths)
    <3>1. task.state \in 0..Token'
      BY <2>3, <1>2
    <3> QED BY <2>3, <3>1 DEF TaskTyped, CallsKept
  <2> QED BY <2>1, <2>2, <2>3 DEF Types, TaskTyped
<1>6. MailTaskTyped'
  BY <1>1 DEF Types, MailTaskTyped, CallsKept, Idle
<1> QED BY <1>4, <1>5, <1>6 DEF Types

LEMMA ServerMail ==
  ASSUME Types, MailTrue, Remailed, horizon' \in Nat, horizon <= horizon', CallsKept
  PROVE  MailTrue'
<1>1. /\ MailToken \in Nat /\ mailState \in Nat /\ mailState <= MailToken /\ horizon \in Nat
      /\ mtask.pc = "save" => mtask.state \in Nat /\ mtask.state <= MailToken
  <2>1. mtask.pc = "save" => mtask.state \in 0..MailToken
    BY DEF Types, MailTaskTyped, Idle
  <2> QED BY <2>1, TokenFacts DEF Types, CacheTyped, ServerTyped
<1>2. \A m \in Mails : \A n \in Nat : n <= MailToken /\ mailSeq'[m] <= n =>
        mail'[m] = mail[m] /\ mailSeq'[m] = mailSeq[m]
  BY <1>1 DEF Remailed
<1>3. MailKept'
  BY <1>1, <1>2 DEF MailTrue, MailKept, CallsKept
<1>4. (task.pc \in {"full", "save"} => horizon > 0)'
  BY <1>1 DEF MailTrue, CallsKept
<1>5. mtask.pc = "save" =>
        \A m \in Mails : mailSeq'[m] <= mtask.state =>
          IF m \in DOMAIN mtask.got
          THEN mail'[m] # {} /\ mtask.got[m].boxes = mail'[m]
          ELSE IF m \in mtask.destroyed THEN mail'[m] = {} ELSE mailSeq'[m] <= mailState
  BY <1>1, <1>2 DEF MailTrue
<1> QED BY <1>3, <1>4, <1>5 DEF MailTrue, CallsKept

LEMMA ServerFolders ==
  ASSUME Types, FoldersTrue, NEW x, TreeKept(x), CallsKept
  PROVE  FoldersTrue'
<1>1. /\ Token \in Nat /\ boxState \in 0..Token
      /\ task.pc \in {"get", "delta", "save"} => task.state \in 0..Token
  <2>1. task.pc \in {"get", "delta", "save"} => task.state \in 0..Token
    BY DEF Types, TaskTyped, Idle
  <2> QED BY <2>1, TokenFacts DEF Types, CacheTyped
<1>2. \A i \in Boxes, n \in 0..Token : Stamp(i)' <= n =>
        /\ Stamp(i)' = Stamp(i) /\ (i \in Alive' <=> i \in Alive)
        /\ \A p : i \in Alive /\ RightPath(i, p) => RightPath(i, p)'
  <2> SUFFICES ASSUME NEW i \in Boxes, NEW n \in 0..Token, Stamp(i)' <= n
               PROVE  /\ Stamp(i)' = Stamp(i) /\ (i \in Alive' <=> i \in Alive)
                      /\ \A p : i \in Alive /\ RightPath(i, p) => RightPath(i, p)'
    OBVIOUS
  <2>1. Token' \in Nat
    BY DEF TreeKept
  <2>2. i # x
    <3>1. ASSUME x \in Boxes, i = x PROVE FALSE
      <4>1. PICK s : s = Stamp(i)'
        OBVIOUS
      <4>2. s \in Nat /\ s > Token /\ s <= n
        BY <3>1, <4>1 DEF TreeKept
      <4> QED BY <4>2, <1>1
    <3> QED BY <3>1
  <2> QED BY <2>2 DEF TreeKept, Alive
<1>3. FoldersAsOf'
  <2> SUFFICES ASSUME NEW i \in Boxes, Stamp(i)' <= boxState, NEW p, p = folders[i]
               PROVE  (p # NULL <=> i \in Alive') /\ (i \in Alive' => RightPath(i, p)')
    BY DEF FoldersAsOf, RightPath, CallsKept
  <2>1. /\ Stamp(i) <= boxState /\ (i \in Alive' <=> i \in Alive)
        /\ i \in Alive /\ RightPath(i, p) => RightPath(i, p)'
    BY <1>1, <1>2
  <2>2. (p # NULL <=> i \in Alive) /\ (i \in Alive => RightPath(i, p))
    BY <2>1 DEF FoldersTrue, FoldersAsOf, RightPath
  <2> QED BY <2>1, <2>2
<1>4. (task.pc \in {"get", "delta"} => DeltaNames)'
  <2> SUFFICES ASSUME task.pc \in {"get", "delta"} PROVE DeltaNames'
    BY DEF CallsKept
  <2> QED BY <1>1, <1>2 DEF FoldersTrue, DeltaNames, CallsKept
<1>5. (task.pc = "delta" => DeltaPaths)'
  <2> SUFFICES ASSUME task.pc = "delta" PROVE DeltaPaths'
    BY DEF CallsKept
  <2> QED BY <1>1, <1>2 DEF FoldersTrue, DeltaPaths, CallsKept
<1>6. (task.pc = "save" => SavePaths)'
  <2> SUFFICES ASSUME task.pc = "save" PROVE SavePaths'
    BY DEF CallsKept
  <2> QED BY <1>1, <1>2 DEF FoldersTrue, SavePaths, CallsKept
<1> QED BY <1>3, <1>4, <1>5, <1>6 DEF FoldersTrue

LEMMA ServerKeeps ==
  ASSUME IInv, Remailed, CallsKept,
         (\E x, e : Logged(x, e)) \/ Unlogged
  PROVE  IInv'
<1>1. PICK x : ServerTyped' /\ LogTrue' /\ TreeKept(x)
  BY LoggedKeeps, UnloggedKeeps DEF IInv
<1>2. horizon \in Nat /\ horizon' \in Nat /\ horizon <= horizon'
  BY DEF IInv, Types, ServerTyped, Logged, Unlogged
<1> QED BY <1>1, <1>2, ServerTypes, ServerMail, ServerFolders DEF IInv

LEMMA CreateBoxKeeps ==
  ASSUME IInv, NEW i \in Boxes, NEW p \in Alive \cup {NULL}, NEW n \in NewNames,
         CreateBox(i, p, n)
  PROVE  IInv'
<1>1. [name |-> n, parent |-> p] \in Box
  BY DEF NewNames, Box, Alive
<1>2. boxes \in [Boxes -> Box \cup {NULL}] /\ boxes[i] = NULL
  BY DEF IInv, Types, ServerTyped, CreateBox
<1>3. PICK bs : bs = boxes' /\ bs = [boxes EXCEPT ![i] = [name |-> n, parent |-> p]]
  BY DEF CreateBox
<1>4. /\ bs \in [Boxes -> Box \cup {NULL}] /\ bs[i] # NULL
      /\ \A j \in Boxes : j # i => bs[j] = boxes[j]
  BY <1>1, <1>2, <1>3, InitialAssumption
<1>5. ~Buried(i)
  <2>1. \A k \in 1..Token : k <= Stamp(boxLog[k].id)
    BY StampTyped DEF IInv, Types
  <2> QED BY <2>1 DEF CreateBox, Buried
<1>6. PICK e \in Entry : e = [id |-> i, kind |-> "created"]
  BY DEF Entry
<1>7. Logged(i, e)
  BY <1>3, <1>4, <1>5, <1>6 DEF CreateBox, Log, Logged
<1>8. Remailed
  BY <1>2, <1>3, <1>4 DEF CreateBox, Remailed, IInv, Types, ServerTyped, Alive
<1>9. CallsKept
  BY DEF CreateBox, Log, cacheVars, CallsKept
<1> QED BY <1>7, <1>8, <1>9, ServerKeeps

LEMMA RenameBoxKeeps ==
  ASSUME IInv, NEW i \in Boxes, NEW p \in Alive \cup {NULL}, NEW n \in NewNames,
         RenameBox(i, p, n)
  PROVE  IInv'
<1>1. [name |-> n, parent |-> p] \in Box
  BY DEF NewNames, Box, Alive
<1>2. boxes \in [Boxes -> Box \cup {NULL}] /\ i \in Alive
  BY DEF IInv, Types, ServerTyped, RenameBox
<1>3. PICK bs : bs = boxes' /\ bs = [boxes EXCEPT ![i] = [name |-> n, parent |-> p]]
  BY DEF RenameBox
<1>4. /\ bs \in [Boxes -> Box \cup {NULL}] /\ bs[i] # NULL
      /\ \A j \in Boxes : j # i => bs[j] = boxes[j]
  BY <1>1, <1>2, <1>3, InitialAssumption
<1>5. ~Buried(i)
  BY <1>2 DEF IInv, Types, LogTrue
<1>6. PICK e \in Entry : e = [id |-> i, kind |-> "updated"]
  BY DEF Entry
<1>7. Logged(i, e)
  BY <1>3, <1>4, <1>5, <1>6 DEF RenameBox, Log, Logged
<1>8. Remailed
  BY <1>2, <1>3, <1>4 DEF RenameBox, Remailed, IInv, Types, ServerTyped, Alive
<1>9. CallsKept
  BY DEF RenameBox, Log, cacheVars, CallsKept
<1> QED BY <1>7, <1>8, <1>9, ServerKeeps

LEMMA DestroyBoxKeeps ==
  ASSUME IInv, NEW i \in Boxes, DestroyBox(i)
  PROVE  IInv'
<1>1. boxes \in [Boxes -> Box \cup {NULL}]
  BY DEF IInv, Types, ServerTyped
<1>2. PICK bs : bs = boxes' /\ bs = [boxes EXCEPT ![i] = NULL]
  BY DEF DestroyBox
<1>3. /\ bs \in [Boxes -> Box \cup {NULL}] /\ bs[i] = NULL
      /\ \A j \in Boxes : j # i => bs[j] = boxes[j]
  BY <1>1, <1>2
<1>4. PICK e \in Entry : e = [id |-> i, kind |-> "destroyed"]
  BY DEF Entry
<1>5. Logged(i, e)
  BY <1>2, <1>3, <1>4 DEF DestroyBox, Log, Logged
<1>6. /\ mail \in [Mails -> SUBSET Boxes] /\ mailSeq \in [Mails -> Nat] /\ MailToken \in Nat
      /\ \A m \in Mails : mail[m] \subseteq Alive
  BY TokenFacts DEF IInv, Types, ServerTyped
<1>7. /\ mail' = [m \in Mails |-> mail[m] \ {i}]
      /\ mailSeq' = [m \in Mails |-> IF i \in mail[m] THEN MailToken + 1 ELSE mailSeq[m]]
  BY DEF DestroyBox
<1>8. \A m \in Mails : mail'[m] \subseteq Alive'
  BY <1>2, <1>3, <1>6, <1>7 DEF Alive
<1>9. Remailed
  <2>1. mail' \in [Mails -> SUBSET Boxes] /\ mailSeq' \in [Mails -> Nat]
    BY <1>6, <1>7
  <2>2. \A m \in Mails : i \notin mail[m] => mail[m] \ {i} = mail[m]
    OBVIOUS
  <2> QED BY <2>1, <2>2, <1>7, <1>8 DEF Remailed
<1>10. CallsKept
  BY DEF DestroyBox, Log, cacheVars, CallsKept
<1> QED BY <1>5, <1>9, <1>10, ServerKeeps

LEMMA MoveMailKeeps ==
  ASSUME IInv, NEW m \in Mails, NEW bs \in SUBSET Alive, MoveMail(m, bs)
  PROVE  IInv'
<1>1. /\ mail \in [Mails -> SUBSET Boxes] /\ mailSeq \in [Mails -> Nat] /\ MailToken \in Nat
      /\ \A k \in Mails : mail[k] \subseteq Alive
  BY TokenFacts DEF IInv, Types, ServerTyped
<1>2. /\ mail' = [mail EXCEPT ![m] = bs]
      /\ mailSeq' = [mailSeq EXCEPT ![m] = MailToken + 1]
      /\ boxes' = boxes /\ boxLog' = boxLog /\ horizon' = horizon
  BY DEF MoveMail
<1>3. Alive' = Alive /\ bs \in SUBSET Boxes
  BY <1>2 DEF Alive
<1>4. Remailed
  BY <1>1, <1>2, <1>3 DEF Remailed
<1>5. Unlogged
  BY <1>2 DEF Unlogged, IInv, Types, ServerTyped
<1>6. CallsKept
  BY DEF MoveMail, cacheVars, CallsKept
<1> QED BY <1>4, <1>5, <1>6, ServerKeeps

LEMMA ForgetLogKeeps ==
  ASSUME IInv, ForgetLog
  PROVE  IInv'
<1>1. /\ mail' = mail /\ mailSeq' = mailSeq /\ boxes' = boxes /\ boxLog' = boxLog
      /\ horizon < Token /\ horizon' = Token
  BY DEF ForgetLog
<1>2. Token \in Nat /\ horizon \in Nat
  BY TokenFacts DEF IInv, Types, ServerTyped
<1>3. Remailed
  BY <1>1 DEF Remailed, IInv, Types, ServerTyped, Alive
<1>4. Unlogged
  BY <1>1, <1>2 DEF Unlogged
<1>5. CallsKept
  BY DEF ForgetLog, cacheVars, CallsKept
<1> QED BY <1>3, <1>4, <1>5, ServerKeeps

-----------------------------------------------------------------------------
\* Steps of sync_mailboxes that leave the tables.
LEMMA SameServer ==
  ASSUME Types, UNCHANGED serverVars
  PROVE  /\ ServerTyped' /\ LogTrue'
         /\ Token' = Token /\ MailToken' = MailToken /\ Alive' = Alive
         /\ \A i : Stamp(i)' = Stamp(i) /\ (Buried(i)' <=> Buried(i))
         /\ \A i, p : RightPath(i, p)' <=> RightPath(i, p)
<1>1. /\ boxes' = boxes /\ boxLog' = boxLog /\ horizon' = horizon /\ mail' = mail
      /\ mailSeq' = mailSeq
  BY DEF serverVars
<1>2. Token' = Token /\ MailToken' = MailToken /\ Alive' = Alive
  BY <1>1 DEF Token, MailToken, Alive
<1>3. \A i : Stamp(i)' = Stamp(i)
  BY <1>1, <1>2 DEF Stamp
<1>4. \A i : Buried(i)' <=> Buried(i)
  BY <1>1, <1>2 DEF Buried
<1>5. \A i : Above(i)' = Above(i)
  BY <1>1 DEF Above, ParentIn
<1>6. \A i, p : RightPath(i, p)' <=> RightPath(i, p)
  BY <1>1, <1>3, <1>5 DEF RightPath
<1>7. ServerTyped'
  BY <1>1, <1>2 DEF Types, ServerTyped
<1>8. LogTrue'
  BY <1>1, <1>2, <1>3, <1>4 DEF Types, LogTrue
<1> QED BY <1>2, <1>3, <1>4, <1>6, <1>7, <1>8

\* A call goes on and leaves the tables and the stored states.
LEMMA CallKeeps ==
  ASSUME IInv, UNCHANGED <<serverVars, cacheVars, mtask>>, TaskTyped',
         task'.pc \in {"full", "save"} => horizon > 0,
         task'.pc \in {"get", "delta"} => DeltaNames',
         task'.pc = "delta" => DeltaPaths',
         task'.pc = "save" => SavePaths'
  PROVE  IInv'
<1>1. /\ ServerTyped' /\ LogTrue'
      /\ Token' = Token /\ MailToken' = MailToken /\ Alive' = Alive
      /\ \A i : Stamp(i)' = Stamp(i)
      /\ \A i, p : RightPath(i, p)' <=> RightPath(i, p)
  BY SameServer DEF IInv
<1>2. /\ folders' = folders /\ table' = table /\ boxState' = boxState
      /\ mailState' = mailState /\ mtask' = mtask
      /\ horizon' = horizon /\ mail' = mail /\ mailSeq' = mailSeq
  BY DEF cacheVars, serverVars
<1>3. CacheTyped' /\ MailTaskTyped'
  BY <1>1, <1>2 DEF IInv, Types, CacheTyped, MailTaskTyped
<1>4. MailTrue'
  BY <1>2 DEF IInv, MailTrue, MailKept
<1>5. FoldersAsOf'
  <2> SUFFICES ASSUME NEW i \in Boxes, Stamp(i) <= boxState, NEW p, p = folders[i]
               PROVE  (p # NULL <=> i \in Alive) /\ (i \in Alive => RightPath(i, p)')
    BY <1>1, <1>2 DEF FoldersAsOf, RightPath
  <2>1. (p # NULL <=> i \in Alive) /\ (i \in Alive => RightPath(i, p))
    BY DEF IInv, FoldersTrue, FoldersAsOf, RightPath
  <2> QED BY <2>1, <1>1
<1> QED BY <1>1, <1>3, <1>4, <1>5 DEF IInv, Types, FoldersTrue

LEMMA SyncStartKeeps ==
  ASSUME IInv, SyncStart
  PROVE  IInv'
<1>1. /\ UNCHANGED <<serverVars, cacheVars, mtask>>
      /\ task' = [pc |-> "changes", since |-> boxState] /\ boxState' = boxState
  BY DEF SyncStart, cacheVars
<1>2. TaskTyped' /\ task'.pc = "changes"
  BY <1>1 DEF TaskTyped
<1> QED BY <1>1, <1>2, CallKeeps

LEMMA NothingListed == IsPathList(<<>>) /\ DOMAIN <<>> = {}
BY DEF IsPathList

\* The window from the stored state to upto.
LEMMA WindowFacts ==
  ASSUME IInv, NEW since, since = boxState, NEW upto \in since+1..Token
  PROVE  /\ Gone(since, upto) \subseteq Boxes /\ \A i \in Gone(since, upto) : Buried(i)
         /\ \A i \in Boxes : Stamp(i) <= upto =>
              IF Stamp(i) <= boxState THEN i \notin Changed(since, upto) \cup Gone(since, upto)
              ELSE IF i \in Alive THEN i \in Changed(since, upto) \ Gone(since, upto)
              ELSE i \in Gone(since, upto)
<1>1. boxState \in Nat /\ Token \in Nat /\ upto \in Nat /\ boxLog \in Seq(Entry)
  BY TokenFacts DEF IInv, Types, CacheTyped, ServerTyped
<1>2. since+1..upto \subseteq 1..Token
  BY <1>1
<1>3. /\ \A i : Stamp(i) \in 0..Token /\ (Stamp(i) > 0 => boxLog[Stamp(i)].id = i)
      /\ \A k \in 1..Token : k <= Stamp(boxLog[k].id)
  BY StampTyped DEF IInv, Types
<1>4. ASSUME NEW k \in 1..Token PROVE boxLog[k].id \in Boxes
  <2>1. boxLog[k] \in Entry
    BY <1>1 DEF Token
  <2> QED BY <2>1 DEF Entry
<1>5. /\ Gone(since, upto) \subseteq Changed(since, upto)
      /\ \A i \in Gone(since, upto) : i \in Boxes /\ Buried(i)
  BY <1>2, <1>4 DEF Gone, Changed, Buried
<1>6. ASSUME NEW i \in Changed(since, upto) PROVE Stamp(i) > boxState
  <2>1. PICK k \in since+1..upto : boxLog[k].id = i
    BY DEF Changed
  <2>2. k <= Stamp(i) /\ Stamp(i) \in Nat
    BY <1>2, <1>3, <2>1
  <2> QED BY <1>1, <2>1, <2>2
<1>7. ASSUME NEW i \in Boxes, Stamp(i) <= upto, ~(Stamp(i) <= boxState)
      PROVE  IF i \in Alive THEN i \in Changed(since, upto) \ Gone(since, upto)
             ELSE i \in Gone(since, upto)
  <2>1. PICK s : s = Stamp(i)
    OBVIOUS
  <2>2. s \in since+1..upto /\ s > 0 /\ boxLog[s].id = i
    <3>1. s \in 0..Token /\ (s > 0 => boxLog[s].id = i)
      BY <1>3, <2>1
    <3>2. s <= upto /\ ~(s <= since)
      BY <1>7, <2>1
    <3> QED BY <1>1, <3>1, <3>2
  <2>3. i \in Changed(since, upto)
    BY <2>2 DEF Changed
  <2>4. CASE i \in Alive
    <3>1. i \notin Gone(since, upto)
      BY <2>4, <1>5 DEF IInv, Types, LogTrue
    <3> QED BY <2>3, <2>4, <3>1
  <2>5. CASE i \notin Alive
    <3>1. boxLog[s].kind = "destroyed"
      BY <2>1, <2>2, <2>5 DEF IInv, Types, LogTrue
    <3>2. i \in Gone(since, upto)
      BY <2>2, <3>1 DEF Gone
    <3> QED BY <2>5, <3>2
  <2> QED BY <2>4, <2>5
<1>8. ASSUME NEW i \in Boxes, Stamp(i) <= boxState
      PROVE  i \notin Changed(since, upto) \cup Gone(since, upto)
  <2>1. PICK s : s = Stamp(i)
    OBVIOUS
  <2>2. s \in Nat /\ ~(s > boxState)
    BY <1>1, <1>3, <1>8, <2>1
  <2> QED BY <1>5, <1>6, <2>1, <2>2
<1> QED BY <1>5, <1>7, <1>8

LEMMA MailboxChangesKeeps ==
  ASSUME IInv, MailboxChanges
  PROVE  IInv'
<1>1. UNCHANGED <<serverVars, cacheVars, mtask>> /\ boxState' = boxState
  BY DEF MailboxChanges, cacheVars
<1>2. task = [pc |-> "changes", since |-> boxState]
  BY DEF IInv, Types, TaskTyped, MailboxChanges, Idle
<1>3. Token \in Nat /\ boxState \in Nat /\ horizon \in Nat
  BY TokenFacts DEF IInv, Types, CacheTyped, ServerTyped
<1>4. CASE boxState < horizon
  <2>1. task' = [pc |-> "full"]
    BY <1>2, <1>4 DEF MailboxChanges
  <2>2. TaskTyped' /\ task'.pc = "full" /\ horizon > 0
    BY <2>1, <1>3, <1>4 DEF TaskTyped
  <2> QED BY <1>1, <2>2, CallKeeps
<1>5. CASE ~(boxState < horizon) /\ boxState = Token
  <2>1. task' = [pc |-> "none", state |-> boxState]
    BY <1>2, <1>5 DEF MailboxChanges
  <2>2. TaskTyped' /\ task'.pc = "none"
    BY <1>1, <2>1 DEF TaskTyped
  <2> QED BY <1>1, <2>2, CallKeeps
<1>6. CASE ~(boxState < horizon) /\ boxState # Token
  <2>1. PICK upto \in boxState+1..Token :
          LET gone == Gone(boxState, upto)
              ids  == Changed(boxState, upto) \ gone
          IN  task' = [pc |-> IF ids = {} THEN "delta" ELSE "get", state |-> upto,
                       gone |-> gone, ids |-> ids, paths |-> <<>>]
    BY <1>2, <1>6 DEF MailboxChanges
  <2>2. PICK gone, ids, pc :
          /\ gone = Gone(boxState, upto) /\ ids = Changed(boxState, upto) \ gone
          /\ pc = (IF ids = {} THEN "delta" ELSE "get")
    OBVIOUS
  <2>3. task' = [pc |-> pc, state |-> upto, gone |-> gone, ids |-> ids, paths |-> <<>>]
    BY <2>1, <2>2
  <2>4. /\ gone \subseteq Boxes /\ \A i \in gone : Buried(i)
        /\ \A i \in Boxes : Stamp(i) <= upto =>
             IF Stamp(i) <= boxState THEN i \notin Changed(boxState, upto) \cup gone
             ELSE IF i \in Alive THEN i \in ids ELSE i \in gone
    BY <2>2, WindowFacts
  <2>5. /\ Token' = Token /\ Alive' = Alive
        /\ \A i : Stamp(i)' = Stamp(i) /\ (Buried(i)' <=> Buried(i))
    BY <1>1, SameServer DEF IInv
  <2>6. TaskTyped'
    <3>1. upto \in 0..Token' /\ pc \in {"get", "delta"}
      BY <1>3, <2>2, <2>5
    <3>2. \A i \in gone : Buried(i)'
      BY <2>4, <2>5
    <3>3. PICK none : none = <<>> /\ IsPathList(none) /\ DOMAIN none = {}
      BY NothingListed
    <3>4. task' = [pc |-> pc, state |-> upto, gone |-> gone, ids |-> ids, paths |-> none]
      BY <2>3, <3>3
    <3> QED BY <2>4, <3>1, <3>2, <3>3, <3>4 DEF TaskTyped
  <2>7. DeltaNames'
    <3>1. gone \cap ids = {}
      BY <2>2
    <3>2. \A i \in Boxes : Stamp(i) <= upto =>
             IF Stamp(i) <= boxState THEN i \notin ids \cup gone
             ELSE IF i \in Alive THEN i \in ids ELSE i \in gone
      BY <2>2, <2>4
    <3> QED BY <1>1, <2>3, <2>5, <3>1, <3>2 DEF DeltaNames
  <2>8. task'.pc = "delta" => DeltaPaths'
    <3>1. task'.pc = "delta" => ids = {}
      BY <2>2, <2>3
    <3> QED BY <3>1, <2>3 DEF DeltaPaths
  <2>9. task'.pc \notin {"full", "save"}
    BY <2>2, <2>3
  <2> QED BY <1>1, <2>6, <2>7, <2>8, <2>9, CallKeeps
<1> QED BY <1>4, <1>5, <1>6

LEMMA FetchByIdsKeeps ==
  ASSUME IInv, FetchByIds
  PROVE  IInv'
<1>1. UNCHANGED <<serverVars, cacheVars, mtask>> /\ boxState' = boxState /\ task.pc = "get"
  BY DEF FetchByIds, cacheVars
<1>2. /\ task = [pc |-> "get", state |-> task.state, gone |-> task.gone,
                 ids |-> task.ids, paths |-> task.paths]
      /\ task.state \in 0..Token
      /\ task.gone \subseteq Boxes /\ \A i \in task.gone : Buried(i)
  BY <1>1 DEF IInv, Types, TaskTyped, Idle
<1>3. PICK paths : paths = [i \in task.ids \cap Alive |-> Path(boxes, i)]
  OBVIOUS
<1>4. task' = [pc |-> "delta", state |-> task.state, gone |-> task.gone,
               ids |-> task.ids, paths |-> paths]
  BY <1>2, <1>3 DEF FetchByIds
<1>5. IsPathList(paths) /\ DOMAIN paths = task.ids \cap Alive
  <2>1. boxes \in [Boxes -> Box \cup {NULL}]
    BY DEF IInv, Types, ServerTyped
  <2>2. \A i \in Alive : Path(boxes, i) \in Paths
    BY <2>1, PathTyped DEF Alive, Named
  <2> QED BY <1>3, <2>2 DEF IsPathList, Alive
<1>6. /\ Token' = Token /\ Alive' = Alive
      /\ \A i : Stamp(i)' = Stamp(i) /\ (Buried(i)' <=> Buried(i))
      /\ \A i, p : RightPath(i, p)' <=> RightPath(i, p)
  BY <1>1, SameServer DEF IInv
<1>7. TaskTyped'
  <2>1. /\ task'.pc = "delta" /\ task'.state = task.state /\ task'.gone = task.gone
        /\ task'.ids = task.ids /\ task'.paths = paths
    BY <1>4
  <2>2. task'.state \in 0..Token'
    BY <2>1, <1>2, <1>6
  <2>3. \A i \in task'.gone : Buried(i)'
    BY <2>1, <1>2, <1>6
  <2>4. task' = [pc |-> task'.pc, state |-> task'.state, gone |-> task'.gone,
                 ids |-> task'.ids, paths |-> task'.paths]
    BY <2>1, <1>4
  <2>5. /\ task'.gone \subseteq Boxes /\ IsPathList(task'.paths)
        /\ DOMAIN task'.paths \subseteq task'.ids /\ task'.pc \in {"get", "delta"}
    BY <2>1, <1>2, <1>5
  <2> QED BY <2>2, <2>3, <2>4, <2>5 DEF TaskTyped
<1>8. DeltaNames'
  <2>1. DeltaNames
    BY <1>1 DEF IInv, FoldersTrue
  <2> QED BY <2>1, <1>1, <1>4, <1>6 DEF DeltaNames
<1>9. DeltaPaths'
  <2> SUFFICES ASSUME NEW i \in Boxes, i \in Alive, i \in task.ids, NEW p, p = paths[i]
               PROVE  i \in DOMAIN paths /\ RightPath(i, p)'
    BY <1>4, <1>6 DEF DeltaPaths, RightPath
  <2>1. p = Path(boxes, i)
    BY <1>3
  <2>2. RightPath(i, p)
    BY <2>1 DEF RightPath
  <2> QED BY <2>2, <1>5, <1>6
<1>10. task'.pc = "delta"
  BY <1>4
<1> QED BY <1>1, <1>7, <1>8, <1>9, <1>10, CallKeeps

LEMMA MailboxGetKeeps ==
  ASSUME IInv, MailboxGet
  PROVE  IInv'
<1>1. UNCHANGED <<serverVars, cacheVars, mtask>> /\ boxState' = boxState /\ task.pc = "full"
  BY DEF MailboxGet, cacheVars
<1>2. PICK paths : paths = [i \in Alive |-> Path(boxes, i)]
  OBVIOUS
<1>3. task' = [pc |-> "save", state |-> Token, paths |-> paths]
  BY <1>2 DEF MailboxGet
<1>4. IsPathList(paths) /\ DOMAIN paths = Alive
  <2>1. boxes \in [Boxes -> Box \cup {NULL}]
    BY DEF IInv, Types, ServerTyped
  <2>2. \A i \in Alive : Path(boxes, i) \in Paths
    BY <2>1, PathTyped DEF Alive, Named
  <2> QED BY <1>2, <2>2 DEF IsPathList, Alive
<1>5. /\ Token' = Token /\ Alive' = Alive /\ Token \in Nat
      /\ \A i : Stamp(i)' = Stamp(i)
      /\ \A i, p : RightPath(i, p)' <=> RightPath(i, p)
  BY <1>1, SameServer, TokenFacts DEF IInv, Types
<1>6. TaskTyped'
  BY <1>3, <1>4, <1>5 DEF TaskTyped
<1>7. SavePaths'
  <2> SUFFICES ASSUME NEW i \in Boxes
               PROVE  /\ i \in DOMAIN paths <=> i \in Alive
                      /\ \A p : i \in Alive /\ p = paths[i] => RightPath(i, p)'
    BY <1>3, <1>5 DEF SavePaths, RightPath
  <2>1. \A p : i \in Alive /\ p = paths[i] => RightPath(i, p)
    BY <1>2 DEF RightPath
  <2> QED BY <2>1, <1>4, <1>5
<1>8. horizon > 0 /\ task'.pc = "save"
  BY <1>1, <1>3 DEF IInv, MailTrue
<1> QED BY <1>1, <1>6, <1>7, <1>8, CallKeeps

LEMMA FailKeeps ==
  ASSUME IInv, Fail
  PROVE  IInv'
<1>1. UNCHANGED <<serverVars, cacheVars, mtask>> /\ task' = Idle
  BY DEF Fail
<1>2. TaskTyped' /\ task'.pc = "idle"
  BY <1>1 DEF TaskTyped, Idle
<1> QED BY <1>1, <1>2, CallKeeps

LEMMA SetStateKeeps ==
  ASSUME IInv, SetState
  PROVE  IInv'
<1>1. task = [pc |-> "none", state |-> boxState]
  BY DEF IInv, Types, TaskTyped, SetState, Idle
<1>2. UNCHANGED <<serverVars, cacheVars, mtask>> /\ task' = Idle
  BY <1>1 DEF SetState, cacheVars
<1>3. TaskTyped' /\ task'.pc = "idle"
  BY <1>2 DEF TaskTyped, Idle
<1> QED BY <1>2, <1>3, CallKeeps

LEMMA CrashKeeps ==
  ASSUME IInv, Crash
  PROVE  IInv'
<1>1. /\ UNCHANGED serverVars /\ task' = Idle /\ mtask' = Idle
      /\ folders' = folders /\ table' = table /\ boxState' = boxState
      /\ mailState' = mailState
      /\ horizon' = horizon /\ mail' = mail /\ mailSeq' = mailSeq
  BY DEF Crash, cacheVars, serverVars
<1>2. /\ ServerTyped' /\ LogTrue'
      /\ Token' = Token /\ MailToken' = MailToken /\ Alive' = Alive
      /\ \A i : Stamp(i)' = Stamp(i)
      /\ \A i, p : RightPath(i, p)' <=> RightPath(i, p)
  BY <1>1, SameServer DEF IInv
<1>3. CacheTyped' /\ TaskTyped' /\ MailTaskTyped'
  BY <1>1, <1>2 DEF IInv, Types, CacheTyped, TaskTyped, MailTaskTyped
<1>4. MailTrue'
  BY <1>1 DEF IInv, MailTrue, MailKept, Idle
<1>5. FoldersAsOf'
  <2> SUFFICES ASSUME NEW i \in Boxes, Stamp(i) <= boxState, NEW p, p = folders[i]
               PROVE  (p # NULL <=> i \in Alive) /\ (i \in Alive => RightPath(i, p)')
    BY <1>1, <1>2 DEF FoldersAsOf, RightPath
  <2>1. (p # NULL <=> i \in Alive) /\ (i \in Alive => RightPath(i, p))
    BY DEF IInv, FoldersTrue, FoldersAsOf, RightPath
  <2> QED BY <2>1, <1>2
<1>6. task'.pc = "idle"
  BY <1>1 DEF Idle
<1> QED BY <1>2, <1>3, <1>4, <1>5, <1>6 DEF IInv, Types, FoldersTrue

-----------------------------------------------------------------------------
\* The transactions as steps.

\* A refused transaction leaves everything but the call.
LEMMA RefusedKeeps ==
  ASSUME IInv, UNCHANGED <<serverVars, cacheVars, mtask>>, task' = Idle
  PROVE  IInv'
<1>1. TaskTyped' /\ task'.pc = "idle"
  BY DEF TaskTyped, Idle
<1> QED BY <1>1, CallKeeps

\* One that commits leaves the server and the email delta; the keys hold after
\* it, the folders are as of its state, and the messages are kept.
LEMMA CommitKeeps ==
  ASSUME IInv, UNCHANGED serverVars, UNCHANGED <<mailState, mtask>>, task' = Idle,
         KeysHold(folders', table'), boxState' \in 0..Token,
         \A i \in Boxes : Stamp(i) <= boxState' =>
           /\ folders'[i] # NULL <=> i \in Alive
           /\ \A p : i \in Alive /\ p = folders'[i] => RightPath(i, p),
         horizon = 0 =>
           \A m \in Mails : IF table[m] = NULL THEN table'[m] = NULL
                            ELSE table[m].boxes = mail[m] /\ mail[m] # {} => table'[m] = table[m]
  PROVE  IInv'
<1>1. /\ ServerTyped' /\ LogTrue'
      /\ Token' = Token /\ MailToken' = MailToken /\ Alive' = Alive
      /\ \A i : Stamp(i)' = Stamp(i)
      /\ \A i, p : RightPath(i, p)' <=> RightPath(i, p)
  BY SameServer DEF IInv
<1>2. horizon' = horizon /\ mail' = mail /\ mailSeq' = mailSeq
  BY DEF serverVars
<1>3. CacheTyped' /\ TaskTyped' /\ MailTaskTyped'
  BY <1>1 DEF IInv, Types, CacheTyped, TaskTyped, MailTaskTyped
<1>4. MailKept'
  BY <1>2 DEF IInv, MailTrue, MailKept
<1>5. MailTrue'
  BY <1>2, <1>4 DEF IInv, MailTrue, Idle
<1>6. FoldersAsOf'
  <2> SUFFICES ASSUME NEW i \in Boxes, Stamp(i) <= boxState', NEW p, p = folders'[i]
               PROVE  (p # NULL <=> i \in Alive) /\ (i \in Alive => RightPath(i, p)')
    BY <1>1 DEF FoldersAsOf, RightPath
  <2> QED BY <1>1
<1>7. task'.pc = "idle"
  BY DEF Idle
<1> QED BY <1>1, <1>3, <1>5, <1>6, <1>7 DEF IInv, Types, FoldersTrue

LEMMA CommitDeltaKeeps ==
  ASSUME IInv, CommitDelta
  PROVE  IInv'
<1>1. /\ task.state \in 0..Token /\ task.gone \in SUBSET Boxes
      /\ \A i \in task.gone : Buried(i)
      /\ IsPathList(task.paths) /\ DOMAIN task.paths \subseteq task.ids
  BY DEF IInv, Types, TaskTyped, CommitDelta, Idle
<1>2. PICK order \in SetToSeqs(DOMAIN task.paths) :
        Commit(DeltaFolders(folders, table, task.paths, order, task.gone))
  BY DEF CommitDelta
<1>3. PICK r : r = DeltaFolders(folders, table, task.paths, order, task.gone)
  OBVIOUS
<1>4. /\ task' = Idle /\ UNCHANGED serverVars /\ UNCHANGED <<mailState, mtask>>
      /\ IF r = Refused THEN UNCHANGED <<folders, table, boxState>>
         ELSE folders' = r.folders /\ table' = r.table /\ boxState' = task.state
  BY <1>2, <1>3 DEF Commit
<1>5. CASE r = Refused
  BY <1>4, <1>5, RefusedKeeps DEF cacheVars
<1>6. CASE r # Refused
  <2>1. KeysHold(folders, table)
    BY DEF IInv, Types, CacheTyped
  <2>2. /\ KeysHold(folders', table')
        /\ \A i \in Boxes : folders'[i] = IF i \in task.gone THEN NULL
                              ELSE IF i \in DOMAIN task.paths THEN task.paths[i] ELSE folders[i]
        /\ \A m \in Mails :
             /\ table[m] = NULL => table'[m] = NULL
             /\ table[m] # NULL /\ table[m].boxes # {} /\ table[m].boxes \cap task.gone = {}
                  => table'[m] = table[m]
    <3>1. /\ KeysHold(r.folders, r.table)
          /\ \A i \in Boxes : r.folders[i] = IF i \in task.gone THEN NULL
                                 ELSE IF i \in DOMAIN task.paths THEN task.paths[i] ELSE folders[i]
          /\ \A m \in Mails :
               /\ table[m] = NULL => r.table[m] = NULL
               /\ table[m] # NULL /\ table[m].boxes # {} /\ table[m].boxes \cap task.gone = {}
                    => r.table[m] = table[m]
      <4>1. PICK paths, gone : paths = task.paths /\ gone = task.gone
        OBVIOUS
      <4>2. /\ IsPathList(paths) /\ gone \in SUBSET Boxes /\ order \in SetToSeqs(DOMAIN paths)
            /\ r = DeltaFolders(folders, table, paths, order, gone)
        BY <4>1, <1>1, <1>2, <1>3
      <4>3. DeltaDone(folders, table, paths, gone, r)
        BY <4>2, <1>6, <2>1, DeltaFacts
      <4> QED BY <4>1, <4>3 DEF DeltaDone
    <3> QED BY <3>1, <1>4, <1>6
  <2>3. task.gone \cap Alive = {}
    BY <1>1 DEF IInv, Types, LogTrue
  <2>4. /\ task.gone \cap task.ids = {}
        /\ \A i \in Boxes : Stamp(i) <= task.state =>
             IF Stamp(i) <= boxState THEN i \notin task.ids \cup task.gone
             ELSE IF i \in Alive THEN i \in task.ids ELSE i \in task.gone
        /\ \A i \in Boxes : Stamp(i) <= task.state /\ i \in Alive /\ i \in task.ids =>
             i \in DOMAIN task.paths /\ RightPath(i, task.paths[i])
    BY DEF IInv, FoldersTrue, DeltaNames, DeltaPaths, CommitDelta
  <2>5. \A i \in Boxes : Stamp(i) <= boxState' =>
          /\ folders'[i] # NULL <=> i \in Alive
          /\ \A p : i \in Alive /\ p = folders'[i] => RightPath(i, p)
    <3> SUFFICES ASSUME NEW i \in Boxes, Stamp(i) <= task.state, NEW p, p = folders'[i]
                 PROVE  (p # NULL <=> i \in Alive) /\ (i \in Alive => RightPath(i, p))
      BY <1>4, <1>6
    <3>1. CASE Stamp(i) <= boxState
      <4>1. p = folders[i]
        BY <1>1, <2>2, <2>4, <3>1
      <4> QED BY <3>1, <4>1 DEF IInv, FoldersTrue, FoldersAsOf, RightPath
    <3>2. CASE ~(Stamp(i) <= boxState) /\ i \in Alive
      <4>1. i \in DOMAIN task.paths /\ i \notin task.gone /\ RightPath(i, task.paths[i])
        BY <2>3, <2>4, <3>2
      <4>2. p = task.paths[i] /\ p \in Paths
        BY <4>1, <2>2, <1>1 DEF IsPathList
      <4> QED BY <3>2, <4>1, <4>2, TablesAssumption
    <3>3. CASE ~(Stamp(i) <= boxState) /\ i \notin Alive
      BY <2>2, <2>4, <3>3
    <3> QED BY <3>1, <3>2, <3>3
  <2>6. \A m \in Mails : IF table[m] = NULL THEN table'[m] = NULL
                         ELSE table[m].boxes = mail[m] /\ mail[m] # {} => table'[m] = table[m]
    <3>1. \A m \in Mails : mail[m] \cap task.gone = {}
      BY <2>3 DEF IInv, Types, ServerTyped
    <3> QED BY <3>1, <2>2
  <2>7. boxState' \in 0..Token
    BY <1>1, <1>4, <1>6
  <2> QED BY <1>4, <2>2, <2>5, <2>6, <2>7, CommitKeeps
<1> QED BY <1>5, <1>6

LEMMA CommitFullKeeps ==
  ASSUME IInv, CommitFull
  PROVE  IInv'
<1>1. task.state \in 0..Token /\ IsPathList(task.paths) /\ horizon > 0
  BY DEF IInv, Types, TaskTyped, CommitFull, Idle, MailTrue
<1>2. PICK order \in SetToSeqs(DOMAIN task.paths) :
        Commit(SaveFolders(folders, table, task.paths, order))
  BY DEF CommitFull
<1>3. PICK r : r = SaveFolders(folders, table, task.paths, order)
  OBVIOUS
<1>4. /\ task' = Idle /\ UNCHANGED serverVars /\ UNCHANGED <<mailState, mtask>>
      /\ IF r = Refused THEN UNCHANGED <<folders, table, boxState>>
         ELSE folders' = r.folders /\ table' = r.table /\ boxState' = task.state
  BY <1>2, <1>3 DEF Commit
<1>5. CASE r = Refused
  BY <1>4, <1>5, RefusedKeeps DEF cacheVars
<1>6. CASE r # Refused
  <2>1. KeysHold(folders, table)
    BY DEF IInv, Types, CacheTyped
  <2>2. /\ KeysHold(folders', table')
        /\ \A i \in Boxes : folders'[i] = IF i \in DOMAIN task.paths THEN task.paths[i] ELSE NULL
    BY <1>1, <1>3, <1>4, <1>6, <2>1, SaveFacts
  <2>3. SavePaths
    BY DEF IInv, FoldersTrue, CommitFull
  <2>4. \A i \in Boxes : Stamp(i) <= boxState' =>
          /\ folders'[i] # NULL <=> i \in Alive
          /\ \A p : i \in Alive /\ p = folders'[i] => RightPath(i, p)
    <3> SUFFICES ASSUME NEW i \in Boxes, Stamp(i) <= task.state, NEW p, p = folders'[i]
                 PROVE  (p # NULL <=> i \in Alive) /\ (i \in Alive => RightPath(i, p))
      BY <1>4, <1>6
    <3>1. /\ i \in DOMAIN task.paths <=> i \in Alive
          /\ i \in Alive => RightPath(i, task.paths[i])
      BY <2>3 DEF SavePaths
    <3>2. i \in DOMAIN task.paths => p = task.paths[i] /\ p # NULL
      BY <2>2, <1>1, TablesAssumption DEF IsPathList
    <3> QED BY <2>2, <3>1, <3>2
  <2>5. boxState' \in 0..Token /\ horizon # 0
    BY <1>1, <1>4, <1>6
  <2> QED BY <1>4, <2>2, <2>4, <2>5, CommitKeeps
<1> QED BY <1>5, <1>6

-----------------------------------------------------------------------------
\* sync_emails.
LEMMA StoredUnderTyped ==
  ASSUME NEW bs \in SUBSET Boxes, bs # {}, NEW b \in Boxes
  PROVE  StoredUnder(bs, b) \in MailRow /\ StoredUnder(bs, b).boxes = bs
<1>1. PICK least \in bs : \A j \in bs : least <= j
  BY TablesAssumption, LeastNumber
<1>2. PICK l : l = Least(bs)
  OBVIOUS
<1>3. l \in bs
  BY <1>1, <1>2 DEF Least
<1> QED BY <1>2, <1>3 DEF StoredUnder, MailRow

\* Nothing an email delta does meets the folders.
LEMMA FoldersStay ==
  ASSUME IInv, UNCHANGED serverVars, UNCHANGED <<folders, boxState, task>>
  PROVE  FoldersTrue'
<1>1. /\ Token' = Token /\ Alive' = Alive
      /\ \A i : Stamp(i)' = Stamp(i) /\ (Buried(i)' <=> Buried(i))
      /\ \A i, p : RightPath(i, p)' <=> RightPath(i, p)
  BY SameServer DEF IInv
<1>2. FoldersAsOf'
  <2> SUFFICES ASSUME NEW i \in Boxes, Stamp(i) <= boxState, NEW p, p = folders[i]
               PROVE  (p # NULL <=> i \in Alive) /\ (i \in Alive => RightPath(i, p)')
    BY <1>1 DEF FoldersAsOf, RightPath
  <2>1. (p # NULL <=> i \in Alive) /\ (i \in Alive => RightPath(i, p))
    BY DEF IInv, FoldersTrue, FoldersAsOf, RightPath
  <2> QED BY <2>1, <1>1
<1>3. DeltaNames' <=> DeltaNames
  BY <1>1 DEF DeltaNames
<1>4. DeltaPaths => DeltaPaths'
  <2> SUFFICES ASSUME DeltaPaths, NEW i \in Boxes, Stamp(i) <= task.state, i \in Alive,
                      i \in task.ids, NEW p, p = task.paths[i]
               PROVE  i \in DOMAIN task.paths /\ RightPath(i, p)'
    BY <1>1 DEF DeltaPaths, RightPath
  <2> QED BY <1>1 DEF DeltaPaths
<1>5. SavePaths => SavePaths'
  <2> SUFFICES ASSUME SavePaths, NEW i \in Boxes, Stamp(i) <= task.state,
                      NEW p, p = task.paths[i]
               PROVE  /\ i \in DOMAIN task.paths <=> i \in Alive
                      /\ i \in Alive => RightPath(i, p)'
    BY <1>1 DEF SavePaths, RightPath
  <2> QED BY <1>1 DEF SavePaths
<1> QED BY <1>2, <1>3, <1>4, <1>5 DEF IInv, FoldersTrue

\* An email delta is right of the messages, and the keys hold after its save.
LEMMA MailCallKeeps ==
  ASSUME IInv, UNCHANGED serverVars, UNCHANGED <<folders, boxState, task>>,
         KeysHold(folders, table'), mailState' \in 0..MailToken, MailTaskTyped', MailTrue'
  PROVE  IInv'
<1>1. /\ ServerTyped' /\ LogTrue'
      /\ Token' = Token /\ MailToken' = MailToken
      /\ \A i : Buried(i)' <=> Buried(i)
  BY SameServer DEF IInv
<1>2. CacheTyped' /\ TaskTyped'
  BY <1>1 DEF IInv, Types, CacheTyped, TaskTyped
<1> QED BY <1>1, <1>2, FoldersStay DEF IInv, Types

LEMMA EmailChangesKeeps ==
  ASSUME IInv, NEW b \in Boxes, EmailChanges(b)
  PROVE  IInv'
<1>1. /\ UNCHANGED <<serverVars, cacheVars, task>>
      /\ table' = table /\ mailState' = mailState
      /\ horizon' = horizon /\ mail' = mail /\ mailSeq' = mailSeq
  BY DEF EmailChanges, cacheVars, serverVars
<1>2. PICK changed, live, got :
        /\ changed = {m \in Mails : mailSeq[m] > mailState}
        /\ live = {m \in changed : mail[m] # {}}
        /\ got = [m \in live |-> StoredUnder(mail[m], b)]
  OBVIOUS
<1>3. mtask' = [pc |-> "save", state |-> MailToken, destroyed |-> changed \ live, got |-> got]
  BY <1>2 DEF EmailChanges
<1>4. /\ MailToken \in Nat /\ mailState \in Nat
      /\ mail \in [Mails -> SUBSET Boxes] /\ mailSeq \in [Mails -> Nat]
  BY TokenFacts DEF IInv, Types, ServerTyped, CacheTyped
<1>5. /\ DOMAIN got = live /\ live \subseteq Mails
      /\ \A m \in live : got[m] \in MailRow /\ got[m].boxes = mail[m]
  BY <1>2, <1>4, StoredUnderTyped
<1>6. MailTaskTyped'
  <2>1. MailToken' = MailToken
    BY <1>1, SameServer DEF IInv
  <2> QED BY <2>1, <1>3, <1>4, <1>5 DEF MailTaskTyped
<1>7. MailTrue'
  <2>1. MailKept'
    BY <1>1 DEF IInv, MailTrue, MailKept
  <2>2. (task.pc \in {"full", "save"} => horizon > 0)'
    BY <1>1 DEF IInv, MailTrue
  <2>3. ASSUME NEW m \in Mails
        PROVE  IF m \in DOMAIN got THEN mail[m] # {} /\ got[m].boxes = mail[m]
               ELSE IF m \in changed \ live THEN mail[m] = {} ELSE mailSeq[m] <= mailState
    BY <1>2, <1>4, <1>5
  <2> QED BY <2>1, <2>2, <2>3, <1>1, <1>3 DEF MailTrue
<1>8. KeysHold(folders, table') /\ mailState' \in 0..MailToken
  BY <1>1 DEF IInv, Types, CacheTyped
<1>9. UNCHANGED <<folders, boxState, task>>
  BY DEF EmailChanges, cacheVars
<1> QED BY <1>1, <1>6, <1>7, <1>8, <1>9, MailCallKeeps

LEMMA EmailSaveKeeps ==
  ASSUME IInv, EmailSave
  PROVE  IInv'
<1>1. /\ mtask = [pc |-> "save", state |-> mtask.state, destroyed |-> mtask.destroyed,
                  got |-> mtask.got]
      /\ mtask.state \in 0..MailToken /\ DOMAIN mtask.got \subseteq Mails
      /\ \A m \in DOMAIN mtask.got : mtask.got[m] \in MailRow
  BY DEF IInv, Types, MailTaskTyped, EmailSave, Idle
<1>2. PICK r : r = EmailBatch(folders, table, mtask.destroyed, mtask.got)
  OBVIOUS
<1>3. /\ UNCHANGED serverVars /\ UNCHANGED <<folders, boxState, task>> /\ mtask' = Idle
      /\ IF r = Refused THEN UNCHANGED <<table, mailState>>
         ELSE table' = r /\ mailState' = mtask.state
      /\ horizon' = horizon /\ mail' = mail /\ mailSeq' = mailSeq
  BY <1>2 DEF EmailSave, serverVars
<1>4. MailTaskTyped'
  BY <1>3 DEF MailTaskTyped
<1>5. CASE r = Refused
  <2>1. MailTrue'
    BY <1>3, <1>5 DEF IInv, MailTrue, MailKept, Idle
  <2>2. KeysHold(folders, table') /\ mailState' \in 0..MailToken
    BY <1>3, <1>5 DEF IInv, Types, CacheTyped
  <2> QED BY <1>3, <1>4, <2>1, <2>2, MailCallKeeps
<1>6. CASE r # Refused
  <2>1. KeysHold(folders, table)
    BY DEF IInv, Types, CacheTyped
  <2>2. /\ KeysHold(folders, r)
        /\ \A m \in Mails : r[m] = IF m \in DOMAIN mtask.got THEN mtask.got[m]
                                   ELSE IF m \in mtask.destroyed THEN NULL ELSE table[m]
    BY <1>1, <1>2, <1>6, <2>1, BatchFacts
  <2>5. MailKept'
    <3> SUFFICES ASSUME horizon = 0, NEW m \in Mails, mailSeq[m] <= mtask.state
                 PROVE  IF mail[m] = {} THEN r[m] = NULL
                        ELSE r[m] # NULL /\ r[m].boxes = mail[m]
      BY <1>3, <1>6 DEF MailKept
    <3>1. /\ IF m \in DOMAIN mtask.got
             THEN mail[m] # {} /\ mtask.got[m].boxes = mail[m]
             ELSE IF m \in mtask.destroyed THEN mail[m] = {} ELSE mailSeq[m] <= mailState
          /\ mailSeq[m] <= mailState =>
               IF mail[m] = {} THEN table[m] = NULL
               ELSE table[m] # NULL /\ table[m].boxes = mail[m]
      BY DEF IInv, MailTrue, MailKept, EmailSave
    <3>2. m \in DOMAIN mtask.got => mtask.got[m] # NULL
      BY <1>1, RowAssumption
    <3> QED BY <3>1, <3>2, <2>2
  <2>6. MailTrue'
    BY <2>5, <1>3 DEF IInv, MailTrue, Idle
  <2>7. KeysHold(folders, table') /\ mailState' \in 0..MailToken
    BY <1>1, <1>3, <1>6, <2>2
  <2> QED BY <1>3, <1>4, <2>6, <2>7, MailCallKeeps
<1> QED BY <1>5, <1>6

-----------------------------------------------------------------------------
\* The invariant is inductive.

LEMMA IInvInit == Init => IInv
<1> SUFFICES ASSUME Init PROVE IInv
  OBVIOUS
<1>1. /\ boxes \in [Boxes -> Box \cup {NULL}] /\ mail \in [Mails -> SUBSET Boxes]
      /\ \A m \in Mails : mail[m] \subseteq Alive
      /\ boxLog = <<>> /\ horizon = 0 /\ mailSeq = [m \in Mails |-> 0]
  BY InitialAssumption DEF Init
<1>2. Token = 0 /\ boxLog \in Seq(Entry)
  BY <1>1 DEF Token
<1>3. LogEnds(boxLog)
  BY <1>1 DEF LogEnds
<1>4. \A i : Stamp(i) = 0 /\ ~Buried(i)
  BY <1>2 DEF Stamp, Buried
<1>5. ServerTyped
  <2>1. PICK m \in Mails : TRUE
    BY TablesAssumption
  <2>2. \A n \in Mails : mailSeq[n] <= mailSeq[m]
    BY <1>1
  <2>3. mailSeq \in [Mails -> Nat]
    BY <1>1
  <2> QED BY <1>1, <1>2, <1>3, <2>2, <2>3 DEF ServerTyped
<1>6. LogTrue
  BY <1>4 DEF LogTrue
<1>7. \A i \in Boxes : folders[i] = IF i \in Alive THEN Path(boxes, i) ELSE NULL
  BY DEF Init
<1>8. \A i \in Alive : i \in Boxes /\ Path(boxes, i) \in Paths
  BY <1>1, PathTyped DEF Alive, Named
<1>9. ASSUME NEW m \in Mails
      PROVE  IF mail[m] = {} THEN table[m] = NULL
             ELSE /\ table[m] # NULL /\ table[m].boxes = mail[m]
                  /\ table[m].context \in Alive
  <2>1. CASE mail[m] = {}
    BY <2>1 DEF Init
  <2>2. CASE mail[m] # {}
    <3>1. PICK b \in mail[m] : table[m] = StoredUnder(mail[m], b)
      BY <2>2 DEF Init
    <3>2. b \in Alive /\ mail[m] \in SUBSET Boxes /\ b \in Boxes
      BY <1>1
    <3>3. StoredUnder(mail[m], b) \in MailRow
      BY <2>2, <3>2, StoredUnderTyped
    <3> QED BY <2>2, <3>1, <3>2, <3>3, RowAssumption DEF StoredUnder
  <2> QED BY <2>1, <2>2
<1>10. KeysHold(folders, table)
  <2>1. folders \in [Boxes -> Paths \cup {NULL}]
    <3>1. folders = [i \in Boxes |-> IF i \in Alive THEN Path(boxes, i) ELSE NULL]
      BY DEF Init
    <3> QED BY <3>1, <1>8
  <2>2. Stored(folders) = Alive
    BY <1>7, <1>8, TablesAssumption DEF Stored, Alive
  <2>3. \A i, j \in Alive : i # j => folders[i] # folders[j]
    BY <1>7, InitialAssumption DEF Init, Alive
  <2> QED BY <1>9, <2>1, <2>2, <2>3 DEF KeysHold, Init
<1>11. MailToken = 0
  <2>1. MailToken \in Nat /\ \E m \in Mails : mailSeq[m] = MailToken
    BY <1>5, TokenFacts
  <2> QED BY <2>1, <1>1
<1>12. CacheTyped
  BY <1>2, <1>10, <1>11 DEF CacheTyped, Init
<1>13. TaskTyped /\ MailTaskTyped
  BY DEF Init, TaskTyped, MailTaskTyped
<1>14. MailTrue
  <2>1. \A m \in Mails : IF mail[m] = {} THEN table[m] = NULL
                          ELSE table[m] # NULL /\ table[m].boxes = mail[m]
    BY <1>9
  <2> QED BY <2>1 DEF MailTrue, MailKept, Init, Idle
<1>15. FoldersTrue
  <2>1. FoldersAsOf
    BY <1>7, <1>8, TablesAssumption DEF FoldersAsOf
  <2>2. task.pc = "idle"
    BY DEF Init, Idle
  <2> QED BY <2>1, <2>2 DEF FoldersTrue
<1> QED BY <1>5, <1>6, <1>12, <1>13, <1>14, <1>15 DEF IInv, Types

LEMMA IInvStep == IInv /\ [Next]_vars => IInv'
<1> SUFFICES ASSUME IInv, [Next]_vars PROVE IInv'
  OBVIOUS
<1>1. ASSUME NEW i \in Boxes, NEW p \in Alive \cup {NULL}, NEW n \in NewNames, CreateBox(i, p, n)
      PROVE  IInv'
  BY <1>1, CreateBoxKeeps
<1>2. ASSUME NEW i \in Boxes, NEW p \in Alive \cup {NULL}, NEW n \in NewNames, RenameBox(i, p, n)
      PROVE  IInv'
  BY <1>2, RenameBoxKeeps
<1>3. ASSUME NEW i \in Boxes, DestroyBox(i) PROVE IInv'
  BY <1>3, DestroyBoxKeeps
<1>4. ASSUME NEW m \in Mails, NEW bs \in SUBSET Alive, MoveMail(m, bs) PROVE IInv'
  BY <1>4, MoveMailKeeps
<1>5. CASE ForgetLog
  BY <1>5, ForgetLogKeeps
<1>6. CASE SyncStart
  BY <1>6, SyncStartKeeps
<1>7. CASE MailboxChanges
  BY <1>7, MailboxChangesKeeps
<1>8. CASE SetState
  BY <1>8, SetStateKeeps
<1>9. CASE FetchByIds
  BY <1>9, FetchByIdsKeeps
<1>10. CASE MailboxGet
  BY <1>10, MailboxGetKeeps
<1>11. CASE CommitDelta
  BY <1>11, CommitDeltaKeeps
<1>12. CASE CommitFull
  BY <1>12, CommitFullKeeps
<1>13. CASE Fail
  BY <1>13, FailKeeps
<1>14. ASSUME NEW b \in Boxes, EmailChanges(b) PROVE IInv'
  BY <1>14, EmailChangesKeeps
<1>15. CASE EmailSave
  BY <1>15, EmailSaveKeeps
<1>16. CASE Crash
  BY <1>16, CrashKeeps
<1>17. CASE UNCHANGED vars
  <2>1. Unlogged
    BY <1>17 DEF vars, serverVars, Unlogged, IInv, Types, ServerTyped
  <2>2. Remailed
    BY <1>17 DEF vars, serverVars, Remailed, IInv, Types, ServerTyped, Alive
  <2>3. CallsKept
    BY <1>17 DEF vars, cacheVars, CallsKept
  <2> QED BY <2>1, <2>2, <2>3, ServerKeeps
<1> QED BY <1>1, <1>2, <1>3, <1>4, <1>5, <1>6, <1>7, <1>8, <1>9, <1>10, <1>11, <1>12,
           <1>13, <1>14, <1>15, <1>16, <1>17 DEF Next

LEMMA IInvHolds == Spec => []IInv
<1>1. Init => IInv
  BY IInvInit
<1>2. IInv /\ [Next]_vars => IInv'
  BY IInvStep
<1> QED BY <1>1, <1>2, PTL DEF Spec

-----------------------------------------------------------------------------
\* The tables keep their types and the schema's keys, whatever the server's
\* tree, the order of the list, faults and restarts: no path belongs to two
\* folders, and no message is stored under a folder that is not there.
THEOREM FoldersTyped == Spec => []TypeOK
BY IInvHolds, TypesMeanTypeOK, PTL DEF IInv

\* However the changes of the server fall between the requests and the transactions
\* of sync_mailboxes, and whichever of these are refused: a mailbox unchanged since the
\* stored state is in the folder table if and only if it is on the server, and under
\* its path there, unless a mailbox above it was renamed after its own last change.
THEOREM FoldersAreAsOf == Spec => []FoldersAsOf
<1>1. IInv => FoldersAsOf
  BY DEF IInv, FoldersTrue
<1> QED BY <1>1, IInvHolds, PTL

\* While folder deltas never start over, removing folders loses no message the
\* server has elsewhere: each is in the folders of the stored Email state.
THEOREM MailIsKept == Spec => []MailKept
<1>1. IInv => MailKept
  BY DEF IInv, MailTrue
<1> QED BY <1>1, IInvHolds, PTL
=============================================================================
