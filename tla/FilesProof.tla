---------------------------- MODULE FilesProof ----------------------------
(***************************************************************************)
(* Proofs about Files, for every number of processes, descriptors and      *)
(* pipes and for every list of mount points: a path leads to the file that *)
(* is mounted at it, the counts of a file are those of its open            *)
(* descriptors, and no open descriptor names freed memory.                 *)
(***************************************************************************)
EXTENDS Files, FiniteSetTheorems, SequenceTheorems, WellFoundedInduction, TLAPS

-----------------------------------------------------------------------------
(* The least element of a set of numbers *)

(* A set of natural numbers that is not empty has a least element. *)
LEMMA LeastExists ==
    ASSUME NEW S \in SUBSET Nat, S # {}
    PROVE  \E x \in S : \A y \in S : x <= y
  <1> DEFINE R == OpToRel(<, Nat)
  <1>1. IsWellFoundedOn(R, Nat)
    BY NatLessThanWellFounded
  <1> HIDE DEF R
  <1>2. PICK x \in S : \A y \in S : ~(<<y, x>> \in R)
    BY <1>1, WFMin, Zenon
  <1>3. ASSUME NEW y \in S PROVE x <= y
    <2>1. ~(<<y, x>> \in R) /\ x \in Nat /\ y \in Nat
      BY <1>2
    <2>2. ~(y < x)
      BY <2>1 DEF R, OpToRel
    <2> QED BY <2>1, <2>2
  <1> QED BY <1>3

(* Min is that element. *)
LEMMA MinLemma ==
    ASSUME NEW S \in SUBSET Nat, S # {}
    PROVE  Min(S) \in S /\ \A y \in S : Min(S) <= y
  <1>1. \E x \in S : \A y \in S : x <= y
    BY LeastExists
  <1> QED BY <1>1 DEF Min

-----------------------------------------------------------------------------
(* Paths *)

IsPrefixOf(s, t) == Len(s) <= Len(t) /\ \A k \in 1..Len(s) : s[k] = t[k]

(* The test of fs_closest_mp finds out whether one path begins with another: the *)
(* strncmp that looks at one character too many is given one too few (vfs.c:114, *)
(* string.c:49-54).                                                              *)
LEMMA StrncmpLemma ==
    ASSUME NEW s \in Seq(Character), s # <<>>, NEW t \in Seq(Character)
    PROVE  ~strncmp(s, t, Len(s) - 1) <=> IsPrefixOf(s, t)
  <1> DEFINE n == Len(s)
             K == {k \in 1..n : \/ k = n
                                \/ Char(s, k) = Nul
                                \/ Char(s, k) # Char(t, k)}
             stop == Min(K)
  <1>1. n \in Nat /\ n > 0 /\ Len(t) \in Nat /\ n - 1 + 1 = n
    BY EmptySeq, LenProperties
  <1>2. \A k \in 1..n : Char(s, k) = s[k] /\ s[k] # Nul
    <2>1. \A k \in 1..n : s[k] \in Character
      BY ElementOfSeq
    <2> QED BY <1>1, <2>1, PathsAssumption DEF Char
  <1>3. \A k \in 1..n : Char(t, k) = IF k <= Len(t) THEN t[k] ELSE Nul
    BY DEF Char
  <1>4. strncmp(s, t, n - 1) <=> Char(s, stop) # Char(t, stop)
    BY <1>1 DEF strncmp
  <1>5. K \in SUBSET Nat /\ K # {}
    <2>1. n \in K
      BY <1>1
    <2> QED BY <1>1, <2>1
  <1>6. \A k \in 1..n : k \notin K => Char(s, k) = Char(t, k)
    OBVIOUS
  <1>7. \A k \in K : k \in 1..n /\ (k = n \/ Char(s, k) = Nul \/ Char(s, k) # Char(t, k))
    OBVIOUS
  <1> HIDE DEF K, n
  <1>8. stop \in K /\ \A k \in K : stop <= k
    BY <1>5, MinLemma
  <1>9. stop \in 1..n /\ stop \in Nat /\ (stop = n \/ Char(s, stop) # Char(t, stop))
    BY <1>1, <1>2, <1>7, <1>8
  <1> HIDE DEF stop
  <1>10. ASSUME NEW k \in 1..n, k < stop PROVE s[k] = Char(t, k)
    <2>1. k \notin K
      BY <1>1, <1>8, <1>9, <1>10
    <2> QED BY <1>2, <1>6, <2>1
  <1>11. ASSUME IsPrefixOf(s, t) PROVE ~strncmp(s, t, n - 1)
    <2>1. n <= Len(t) /\ s[stop] = t[stop]
      BY <1>9, <1>11 DEF IsPrefixOf, n
    <2>2. stop <= Len(t)
      BY <1>1, <1>9, <2>1
    <2>3. Char(s, stop) = s[stop] /\ Char(t, stop) = t[stop]
      BY <1>2, <1>3, <1>9, <2>2
    <2> QED BY <1>4, <2>1, <2>3
  <1>12. ASSUME ~strncmp(s, t, n - 1) PROVE IsPrefixOf(s, t)
    <2>1. stop = n /\ Char(s, n) = Char(t, n)
      BY <1>4, <1>9, <1>12
    <2>2. \A k \in 1..n : s[k] = Char(t, k)
      <3> SUFFICES ASSUME NEW k \in 1..n PROVE s[k] = Char(t, k)
        OBVIOUS
      <3>1. CASE k = n
        BY <1>2, <2>1, <3>1
      <3>2. CASE k # n
        <4>1. k < stop
          BY <1>1, <2>1, <3>2
        <4> QED BY <1>10, <4>1
      <3> QED BY <3>1, <3>2
    <2>3. \A k \in 1..n : k <= Len(t) /\ s[k] = t[k]
      BY <1>2, <1>3, <2>2
    <2>4. n <= Len(t)
      BY <1>1, <2>3
    <2> QED BY <2>3, <2>4 DEF IsPrefixOf, n
  <1> QED BY <1>11, <1>12 DEF n

(* A list of mount points that kmain has made. *)
MountList(mounts) ==
    /\ mounts \in Seq([path : Seq(Character), root : Mounted])
    /\ Len(mounts) <= Len(Boot)
    /\ \A m \in 1..Len(mounts) : mounts[m] = Boot[m]

(* Its parts have their types. *)
LEMMA MountTypes ==
    ASSUME NEW mounts, MountList(mounts), NEW m \in DOMAIN mounts
    PROVE  /\ m \in 1..Len(mounts) /\ m \in DOMAIN Boot /\ mounts[m] = Boot[m]
           /\ mounts[m].path \in Seq(Character) /\ mounts[m].path # <<>>
           /\ mounts[m].path[1] = Sep
           /\ mounts[m].root \in Mounted
  <1>1. /\ mounts \in Seq([path : Seq(Character), root : Mounted])
        /\ Boot \in Seq([path : Seq(Character), root : Mounted])
        /\ Len(mounts) <= Len(Boot)
    BY FilesAssumption DEF MountList
  <1>2. m \in 1..Len(mounts) /\ Len(mounts) \in Nat /\ Len(Boot) \in Nat
    BY <1>1, LenProperties
  <1>3. m \in 1..Len(Boot) /\ DOMAIN Boot = 1..Len(Boot)
    BY <1>1, <1>2, LenProperties
  <1>4. mounts[m] = Boot[m] /\ Boot[m] \in [path : Seq(Character), root : Mounted]
    BY <1>1, <1>2, <1>3, ElementOfSeq DEF MountList
  <1>5. Boot[m].path \in Seq(Character) /\ Boot[m].root \in Mounted
    BY <1>4
  <1> QED BY <1>2, <1>3, <1>4, <1>5, FilesAssumption

(* fs_closest_mp finds the longest mount point with which the path begins. *)
LEMMA ClosestLemma ==
    ASSUME NEW mounts, MountList(mounts), NEW path \in Seq(Character)
    PROVE  \/ /\ fs_closest_mp(mounts, path) = None
              /\ \A m \in DOMAIN mounts : ~IsPrefixOf(mounts[m].path, path)
           \/ \E b \in DOMAIN mounts :
                /\ fs_closest_mp(mounts, path) = mounts[b]
                /\ IsPrefixOf(mounts[b].path, path)
                /\ \A m \in DOMAIN mounts :
                    IsPrefixOf(mounts[m].path, path) => Len(mounts[m].path) <= Len(mounts[b].path)
  <1> DEFINE len(m) == Len(mounts[m].path)
             match == {m \in DOMAIN mounts :
                        len(m) > 0 /\ ~strncmp(mounts[m].path, path, len(m) - 1)}
             best == {m \in match :
                        \A k \in match : len(k) < len(m) \/ (len(k) = len(m) /\ m <= k)}
             b == CHOOSE m \in best : TRUE
  <1>1. fs_closest_mp(mounts, path) = IF match = {} THEN None ELSE mounts[b]
    BY DEF fs_closest_mp
  <1>2. \A m \in DOMAIN mounts : m \in Nat /\ len(m) \in Nat /\ len(m) > 0
    <2> SUFFICES ASSUME NEW m \in DOMAIN mounts PROVE m \in Nat /\ len(m) \in Nat /\ len(m) > 0
      OBVIOUS
    <2>1. m \in 1..Len(mounts) /\ mounts[m].path \in Seq(Character) /\ mounts[m].path # <<>>
      BY MountTypes
    <2>2. Len(mounts) \in Nat
      BY LenProperties DEF MountList
    <2> QED BY <2>1, <2>2, EmptySeq, LenProperties
  <1>3. \A m \in DOMAIN mounts : m \in match <=> IsPrefixOf(mounts[m].path, path)
    <2> SUFFICES ASSUME NEW m \in DOMAIN mounts
                 PROVE  m \in match <=> IsPrefixOf(mounts[m].path, path)
      OBVIOUS
    <2>1. mounts[m].path \in Seq(Character) /\ mounts[m].path # <<>>
      BY MountTypes
    <2>2. ~strncmp(mounts[m].path, path, len(m) - 1) <=> IsPrefixOf(mounts[m].path, path)
      BY <2>1, StrncmpLemma
    <2> QED BY <1>2, <2>2
  <1>4. match \subseteq DOMAIN mounts
    OBVIOUS
  <1>5. \A m \in best : m \in match /\ \A k \in match : len(k) < len(m) \/ (len(k) = len(m) /\ m <= k)
    OBVIOUS
  <1>6. \A m \in match :
            (\A k \in match : len(k) < len(m) \/ (len(k) = len(m) /\ m <= k)) => m \in best
    OBVIOUS
  <1>7. Len(path) \in Nat
    BY LenProperties
  <1> HIDE DEF match, best
  <1>8. CASE match = {}
    BY <1>1, <1>3, <1>8
  <1>9. CASE match # {}
    <2> DEFINE far == {Len(path) - len(m) : m \in match}
    <2>1. \A m \in match : Len(path) - len(m) \in Nat /\ len(m) \in Nat /\ m \in Nat
      BY <1>2, <1>3, <1>4, <1>7 DEF IsPrefixOf
    <2>2. far \in SUBSET Nat /\ far # {}
      BY <1>9, <2>1
    <2>3. PICK x \in far : \A y \in far : x <= y
      BY <2>2, LeastExists
    <2>4. PICK l \in match : x = Len(path) - len(l)
      BY <2>3
    <2>5. \A m \in match : len(m) <= len(l)
      <3> SUFFICES ASSUME NEW m \in match PROVE len(m) <= len(l)
        OBVIOUS
      <3>1. x <= Len(path) - len(m)
        BY <2>3
      <3> QED BY <1>7, <2>1, <2>4, <3>1
    <2> DEFINE longest == {m \in match : len(m) = len(l)}
    <2>6. longest \in SUBSET Nat /\ longest # {}
      BY <2>1
    <2>7. PICK a \in longest : \A k \in longest : a <= k
      BY <2>6, LeastExists
    <2>8. a \in best
      <3> SUFFICES ASSUME NEW k \in match PROVE len(k) < len(a) \/ (len(k) = len(a) /\ a <= k)
        BY <1>6, <2>7
      <3>1. len(k) <= len(l) /\ len(a) = len(l) /\ len(k) \in Nat /\ len(l) \in Nat
        BY <2>1, <2>5, <2>7
      <3>2. len(k) = len(l) => a <= k
        BY <2>7
      <3> QED BY <3>1, <3>2
    <2>9. b \in best
      BY <2>8
    <2> HIDE DEF b
    <2>10. b \in match /\ \A k \in match : len(k) <= len(b)
      BY <1>5, <2>1, <2>9
    <2>11. fs_closest_mp(mounts, path) = mounts[b]
      BY <1>1, <1>9
    <2> QED BY <1>3, <1>4, <2>10, <2>11
  <1> QED BY <1>8, <1>9

(* A part of a path that begins after its end is empty, and a part that begins *)
(* before its end is not.                                                      *)
LEMMA FromLemma ==
    ASSUME NEW s \in Seq(Character), NEW n \in Nat, n <= Len(s)
    PROVE  /\ From(s, n + 1) \in Seq(Character)
           /\ From(s, n + 1) = <<>> <=> n = Len(s)
  <1>1. Len(s) \in Nat
    BY LenProperties
  <1>2. \A k \in (n + 1)..Len(s) : k \in 1..Len(s)
    BY <1>1
  <1>3. \A k \in (n + 1)..Len(s) : s[k] \in Character
    BY <1>2, ElementOfSeq
  <1>4. /\ SubSeq(s, n + 1, Len(s)) \in Seq(Character)
        /\ Len(SubSeq(s, n + 1, Len(s))) = IF n + 1 <= Len(s) THEN Len(s) - (n + 1) + 1 ELSE 0
    BY <1>1, <1>3, SubSeqProperties
  <1>5. From(s, n + 1) = <<>> <=> Len(From(s, n + 1)) = 0
    BY <1>4, EmptySeq DEF From
  <1>6. Len(From(s, n + 1)) = 0 <=> n = Len(s)
    BY <1>1, <1>4 DEF From
  <1> QED BY <1>4, <1>5, <1>6 DEF From

(* pathtok ends the loop of fs_namef only at the end of the path. *)
LEMMA PathtokLemma ==
    ASSUME NEW p \in Seq(Character)
    PROVE  pathtok(p) = None <=> p = <<>>
  <1> DEFINE n == Len(p)
             A == {k \in 1..(n + 1) : Char(p, k) # Sep}
             start == Min(A)
             B == {k \in start..(n + 1) : Char(p, k) \in {Sep, Nul}}
             stop == Min(B)
  <1>1. pathtok(p) = IF p = <<>> THEN None ELSE SubSeq(p, start, stop - 1)
    BY DEF pathtok
  <1>2. n \in Nat
    BY LenProperties
  <1>3. Char(p, n + 1) = Nul
    BY <1>2 DEF Char
  <1>4. A \in SUBSET Nat /\ n + 1 \in A /\ \A k \in A : k \in 1..(n + 1)
    BY <1>2, <1>3 DEF Nul, Sep
  <1> HIDE DEF A
  <1>5. start \in 1..(n + 1)
    BY <1>4, MinLemma
  <1> HIDE DEF start
  <1>6. B \in SUBSET Nat /\ n + 1 \in B /\ \A k \in B : k \in start..(n + 1)
    BY <1>2, <1>3, <1>5
  <1> HIDE DEF B
  <1>7. stop \in start..(n + 1)
    BY <1>6, MinLemma
  <1> HIDE DEF stop
  <1>8. \A k \in start..(stop - 1) : p[k] \in Character
    <2>1. \A k \in start..(stop - 1) : k \in 1..Len(p)
      BY <1>2, <1>5, <1>7 DEF n
    <2> QED BY <2>1, ElementOfSeq
  <1>9. SubSeq(p, start, stop - 1) \in Seq(Character)
    BY <1>2, <1>5, <1>7, <1>8, SubSeqProperties
  <1> QED BY <1>1, <1>9, PathsAssumption

(* fs_namef finds the file of the mount point if the path ends there, and nothing else. *)
LEMMA NamedLemma ==
    ASSUME NEW mounts, MountList(mounts), NEW path \in Seq(Character), NEW b \in DOMAIN mounts,
           fs_closest_mp(mounts, path) = mounts[b], IsPrefixOf(mounts[b].path, path)
    PROVE  fs_namef(mounts, path) = IF mounts[b].path = path THEN mounts[b].root ELSE None
  <1> DEFINE n == Len(mounts[b].path)
             left == From(path, n + 1)
  <1>1. mounts[b].path \in Seq(Character)
    BY MountTypes
  <1>2. n \in Nat /\ n <= Len(path)
    BY <1>1, LenProperties DEF IsPrefixOf
  <1>3. left \in Seq(Character) /\ (left = <<>> <=> n = Len(path))
    BY <1>2, FromLemma
  <1>4. pathtok(left) = None <=> n = Len(path)
    BY <1>3, PathtokLemma
  <1>5. n = Len(path) <=> mounts[b].path = path
    BY <1>1, SeqEqual DEF IsPrefixOf
  <1>6. fs_namef(mounts, path) = IF pathtok(left) = None THEN mounts[b].root ELSE None
    BY DEF fs_namef, fs_finddir
  <1> QED BY <1>4, <1>5, <1>6

(* A lookup finds a file exactly where one is mounted. *)
LEMMA LookupLemma ==
    ASSUME NEW mounts, MountList(mounts), NEW path \in Seq(Character),
           fs_closest_mp(mounts, path) # None
    PROVE  /\ fs_closest_mp(mounts, path) \in Range(mounts)
           /\ fs_closest_mp(mounts, path).root \in Mounted
           /\ fs_namef(mounts, path) \in {fs_closest_mp(mounts, path).root, None}
           /\ fs_namef(mounts, path) = MountedAt(mounts, path)
           /\ Char(path, 1) = Sep
  <1>1. PICK b \in DOMAIN mounts :
            /\ fs_closest_mp(mounts, path) = mounts[b]
            /\ IsPrefixOf(mounts[b].path, path)
            /\ \A m \in DOMAIN mounts :
                IsPrefixOf(mounts[m].path, path) => Len(mounts[m].path) <= Len(mounts[b].path)
    BY ClosestLemma
  <1>2. /\ mounts[b].path \in Seq(Character) /\ mounts[b].path # <<>>
        /\ mounts[b].path[1] = Sep /\ mounts[b].root \in Mounted
    BY MountTypes
  <1>3. fs_namef(mounts, path) = IF mounts[b].path = path THEN mounts[b].root ELSE None
    BY <1>1, NamedLemma
  <1>4. Char(path, 1) = Sep
    <2>1. Len(mounts[b].path) \in Nat /\ Len(mounts[b].path) > 0 /\ Len(path) \in Nat
      BY <1>2, EmptySeq, LenProperties
    <2>2. 1 \in 1..Len(mounts[b].path) /\ 1 <= Len(path)
      BY <1>1, <2>1 DEF IsPrefixOf
    <2> QED BY <1>1, <1>2, <2>2 DEF IsPrefixOf, Char
  <1> DEFINE at == {mp \in Range(mounts) : mp.path = path}
  <1>5. MountedAt(mounts, path) = IF at = {} THEN None ELSE (CHOOSE mp \in at : TRUE).root
    BY DEF MountedAt
  <1>6. ASSUME NEW mp \in at PROVE mp = mounts[b] /\ mounts[b].path = path
    <2>1. PICK m \in DOMAIN mounts : mp = mounts[m]
      BY DEF Range
    <2>2. mounts[m].path = path
      BY <2>1
    <2>3. IsPrefixOf(mounts[m].path, path)
      BY <2>2, LenProperties DEF IsPrefixOf
    <2>4. Len(path) <= Len(mounts[b].path) /\ Len(mounts[b].path) <= Len(path)
      BY <1>1, <2>2, <2>3 DEF IsPrefixOf
    <2>5. Len(path) = Len(mounts[b].path)
      BY <1>2, <2>4, LenProperties
    <2>6. mounts[b].path = path
      BY <1>1, <1>2, <2>5, SeqEqual DEF IsPrefixOf
    <2>7. m = b
      BY <2>2, <2>6, MountTypes, FilesAssumption
    <2> QED BY <2>1, <2>6, <2>7
  <1>7. mounts[b].path = path => mounts[b] \in at
    BY DEF Range
  <1>8. fs_namef(mounts, path) = MountedAt(mounts, path)
    <2>1. CASE mounts[b].path = path
      <3>1. at # {}
        BY <1>7, <2>1
      <3>2. (CHOOSE mp \in at : TRUE) \in at
        BY <3>1
      <3> HIDE DEF at
      <3>3. (CHOOSE mp \in at : TRUE) = mounts[b]
        BY <1>6, <3>2
      <3> QED BY <1>3, <1>5, <2>1, <3>1, <3>3
    <2>2. CASE mounts[b].path # path
      <3>1. at = {}
        BY <1>6, <2>2
      <3> HIDE DEF at
      <3> QED BY <1>3, <1>5, <2>2, <3>1
    <2> QED BY <2>1, <2>2
  <1> QED BY <1>1, <1>2, <1>3, <1>4, <1>8 DEF Range


(* A path at which a file is mounted leads to that file. *)
LEMMA MountedFound ==
    ASSUME NEW mounts, MountList(mounts), NEW path \in Seq(Character),
           MountedAt(mounts, path) # None
    PROVE  fs_namef(mounts, path) = MountedAt(mounts, path)
  <1>1. PICK m \in DOMAIN mounts : mounts[m].path = path
    BY DEF MountedAt, Range
  <1>2. IsPrefixOf(mounts[m].path, path)
    BY <1>1, LenProperties DEF IsPrefixOf
  <1>3. fs_closest_mp(mounts, path) # None
    <2>1. PICK b \in DOMAIN mounts : fs_closest_mp(mounts, path) = mounts[b]
      BY <1>2, ClosestLemma
    <2>2. mounts[b] = Boot[b] /\ b \in DOMAIN Boot
      BY MountTypes
    <2>3. mounts[b] \in Range(Boot)
      BY <2>2 DEF Range
    <2> QED BY <2>1, <2>3, FilesAssumption
  <1> QED BY <1>3, LookupLemma

(* A path that begins with a slash has a mount point once the root is mounted. *)
LEMMA RootFound ==
    ASSUME NEW mounts, MountList(mounts), mounts # <<>>, NEW path \in Seq(Character),
           Char(path, 1) = Sep
    PROVE  fs_closest_mp(mounts, path) # None
  <1>1. Len(path) \in Nat /\ Len(path) >= 1 /\ path[1] = Sep
    <2>1. Len(path) \in Nat
      BY LenProperties
    <2>2. Sep # Nul
      BY DEF Sep, Nul
    <2> QED BY <2>1, <2>2 DEF Char
  <1>2. 1 \in DOMAIN mounts
    <2>1. mounts \in Seq([path : Seq(Character), root : Mounted])
      BY DEF MountList
    <2>2. Len(mounts) \in Nat \ {0} /\ DOMAIN mounts = 1..Len(mounts)
      BY <2>1, EmptySeq, LenProperties
    <2> QED BY <2>2
  <1>3. mounts[1].path = <<Sep>>
    BY <1>2, MountTypes, FilesAssumption
  <1>4. IsPrefixOf(mounts[1].path, path)
    BY <1>1, <1>3 DEF IsPrefixOf
  <1>5. PICK b \in DOMAIN mounts : fs_closest_mp(mounts, path) = mounts[b]
    BY <1>2, <1>4, ClosestLemma
  <1>6. mounts[b] \in Range(Boot)
    BY MountTypes DEF Range
  <1> QED BY <1>5, <1>6, FilesAssumption

(* The paths that TLC tries are sequences of characters. *)
LEMMA StringLemma ==
    ASSUME NEW path \in String
    PROVE  path \in Seq(Character)
  BY DEF String, SeqOf

-----------------------------------------------------------------------------
(* The inductive invariant *)

(* kmain mounts what is in Boot, all of it before the first process runs *)
MountOK ==
    /\ MountList(mountpoints)
    /\ call # Booting => Len(mountpoints) = Len(Boot)

(* Only a process that runs, or the child of the fork under way, has descriptors *)
TableOK ==
    \A p \in Proc :
        state[p] # "alive" /\ ~(call.op = "fork" /\ call.child = p) =>
            \A i \in Fd : fp[p][i] = None

(* The descriptor that the loop of fork or exit has reached is open *)
AtOpen == call.fd = NumFp \/ fp[call.p][call.fd] # None

(* The state of the loop under way *)
CallOK ==
    /\ call.op = "none" => call = Idle
    /\ call.op = "kmain" => call = Booting /\ \A p \in Proc : state[p] = "unused"
    /\ call.op = "fork" =>
        /\ call.p \in Proc /\ state[call.p] = "alive"
        /\ call.child \in Proc /\ state[call.child] = "unused"
        /\ \A i \in Fd : i >= call.fd => fp[call.child][i] = None
        /\ AtOpen
    /\ call.op = "exit" => call.p \in Proc /\ state[call.p] = "alive" /\ AtOpen

(* The files that kmain has mounted so far *)
Roots == {mountpoints[m].root : m \in 1..Len(mountpoints)}

(* A file at a mount point: it has a reference for each holder and for the mount point *)
MountedOK(f) ==
    /\ IsFiniteSet(Holders(f))
    /\ freed[f] = 0
    /\ f \in Roots => refs[f] >= Cardinality(Holders(f)) + 1

(* One end of a pipe: its two counts are the number of its holders *)
EndOK(f) ==
    /\ IsFiniteSet(Holders(f))
    /\ IF pipes[f[1]] = "open"
       THEN refs[f] = Cardinality(Holders(f)) /\ opens[f] = Cardinality(Holders(f))
       ELSE Holders(f) = {}
    /\ pipes[f[1]] = "unused" \/ Holders(f) # {} => freed[f] = 0

(* A pipe's data lives as long as one of the ends is open *)
DataOK(d) ==
    /\ pipes[d] = "unused" => freed[<<d, "data">>] = 0
    /\ pipes[d] = "open" =>
        (freed[<<d, "data">>] = 0 <=> opens[<<d, "r">>] # 0 \/ opens[<<d, "w">>] # 0)

Counts ==
    /\ \A f \in Mounted : MountedOK(f)
    /\ \A f \in Ends : EndOK(f)
    /\ \A d \in Pipe : DataOK(d)

IInv ==
    /\ TypeOK
    /\ MountOK
    /\ TableOK
    /\ CallOK
    /\ Counts

-----------------------------------------------------------------------------
(* Files and descriptors *)

(* The files at the mount points, the ends of pipes, what pipe() allocates and *)
(* the null pointer are told apart.                                            *)
LEMMA FileFacts ==
    /\ \A f \in Mounted : f \in File /\ f \in Object /\ f \notin Ends /\ f # None
    /\ \A f \in Ends : /\ f \in File /\ f \in Object /\ f \notin Mounted /\ f # None
                       /\ f[1] \in Pipe /\ f[2] \in {"r", "w"} /\ f = <<f[1], f[2]>>
    /\ \A d \in Pipe : /\ <<d, "r">> \in Ends /\ <<d, "w">> \in Ends
                       /\ <<d, "data">> \in Object /\ <<d, "data">> \notin File
    /\ \A f \in File : f \in Object /\ f # None
  <1>1. Ends \subseteq Allocated
    BY DEF Ends, Allocated
  <1>2. Mounted \cap Allocated = {} /\ None \notin Mounted /\ None \notin Allocated
    BY FilesAssumption
  <1>3. \A f \in Ends : f[1] \in Pipe /\ f[2] \in {"r", "w"} /\ f = <<f[1], f[2]>>
    BY DEF Ends
  <1>4. \A d \in Pipe : /\ <<d, "r">> \in Ends /\ <<d, "w">> \in Ends
                        /\ <<d, "data">> \in Allocated /\ <<d, "data">> \notin Ends
    BY DEF Ends, Allocated
  <1> QED BY <1>1, <1>2, <1>3, <1>4 DEF File, Object

(* The numbers of descriptors. *)
LEMMA FdFacts ==
    /\ NumFp \in Nat /\ NumFp > 1
    /\ \A i : i \in Fd <=> i \in Nat /\ i < NumFp
  BY FilesAssumption DEF Fd

(* The loops of fork and exit go to the next descriptor that is in use, or to the *)
(* end of the table, and pass over none (process.c:27-28, 89-90).                 *)
LEMMA NextUsedLemma ==
    ASSUME NEW p \in Proc, NEW i \in 0..NumFp
    PROVE  /\ NextUsed(p, i) \in i..NumFp
           /\ NextUsed(p, i) = NumFp \/ (NextUsed(p, i) \in Fd /\ fp[p][NextUsed(p, i)] # None)
           /\ \A j \in Fd : i <= j /\ j < NextUsed(p, i) => fp[p][j] = None
  <1> DEFINE S == {j \in i..NumFp : j \notin FreeFds(p)}
             n == Min(S)
  <1>1. S \in SUBSET Nat /\ NumFp \in S
    BY FdFacts DEF FreeFds
  <1>2. \A j \in S : j \in i..NumFp /\ (j \in Fd => fp[p][j] # None)
    BY DEF FreeFds
  <1>3. \A j \in Fd : i <= j /\ j \notin S => fp[p][j] = None
    BY FdFacts DEF FreeFds
  <1>4. n = NextUsed(p, i)
    BY DEF NextUsed
  <1> HIDE DEF S
  <1>5. n \in S /\ \A y \in S : n <= y
    BY <1>1, MinLemma
  <1> HIDE DEF n
  <1>6. n \in i..NumFp /\ (n = NumFp \/ (n \in Fd /\ fp[p][n] # None))
    BY <1>2, <1>5, FdFacts
  <1>7. \A j \in Fd : i <= j /\ j < n => fp[p][j] = None
    BY <1>3, <1>5, <1>6, FdFacts
  <1> QED BY <1>4, <1>6, <1>7

(* The file that descriptor i of p holds open. *)
Held(p, i) == IF IsOpen(p, i) THEN fp[p][i] ELSE None

(* The holders of a file, by what each descriptor holds. *)
LEMMA HoldersAre ==
    ASSUME NEW f, f # None
    PROVE  /\ Holders(f) = {x \in Proc \X Fd : Held(x[1], x[2]) = f}
           /\ Holders(f)' = {x \in Proc \X Fd : Held(x[1], x[2])' = f}
  BY DEF Holders, Held, IsOpen

(* A step that changes what no descriptor holds changes no holders. *)
LEMMA SameHolders ==
    ASSUME \A p \in Proc, i \in Fd : Held(p, i)' = Held(p, i)
    PROVE  \A f \in File : Holders(f)' = Holders(f)
  <1> SUFFICES ASSUME NEW f \in File PROVE Holders(f)' = Holders(f)
    OBVIOUS
  <1>1. \A x \in Proc \X Fd : x[1] \in Proc /\ x[2] \in Fd
    OBVIOUS
  <1>2. \A x \in Proc \X Fd : Held(x[1], x[2])' = Held(x[1], x[2])
    BY <1>1
  <1> QED BY <1>2, HoldersAre, FileFacts

(* A descriptor of f is opened. *)
LEMMA OneMore ==
    ASSUME NEW q \in Proc, NEW j \in Fd, NEW f \in File,
           Held(q, j) = None, Held(q, j)' = f,
           \A p \in Proc, i \in Fd : <<p, i>> # <<q, j>> => Held(p, i)' = Held(p, i)
    PROVE  /\ \A g \in File : g # f => Holders(g)' = Holders(g)
           /\ IsFiniteSet(Holders(f)) =>
                /\ IsFiniteSet(Holders(f)')
                /\ Cardinality(Holders(f)') = Cardinality(Holders(f)) + 1
  <1>1. \A x \in Proc \X Fd : /\ x[1] \in Proc /\ x[2] \in Fd /\ x = <<x[1], x[2]>>
    OBVIOUS
  <1>2. \A x \in Proc \X Fd : x # <<q, j>> => Held(x[1], x[2])' = Held(x[1], x[2])
    BY <1>1
  <1>3. <<q, j>> \in Proc \X Fd /\ <<q, j>>[1] = q /\ <<q, j>>[2] = j
    OBVIOUS
  <1>4. ASSUME NEW g \in File, g # f PROVE Holders(g)' = Holders(g)
    <2>1. g # None
      BY FileFacts
    <2>2. \A x \in Proc \X Fd : Held(x[1], x[2])' = g <=> Held(x[1], x[2]) = g
      BY <1>2, <1>3, <1>4, <2>1
    <2>3. /\ Holders(g) = {x \in Proc \X Fd : Held(x[1], x[2]) = g}
          /\ Holders(g)' = {x \in Proc \X Fd : Held(x[1], x[2])' = g}
      BY <2>1, HoldersAre
    <2> QED BY <2>2, <2>3
  <1>5. f # None
    BY FileFacts
  <1>6. <<q, j>> \notin Holders(f)
    BY <1>3, <1>5, HoldersAre
  <1>7. Holders(f)' = Holders(f) \cup {<<q, j>>}
    <2>1. \A x \in Proc \X Fd : Held(x[1], x[2])' = f <=> Held(x[1], x[2]) = f \/ x = <<q, j>>
      BY <1>2, <1>3
    <2> QED BY <1>3, <1>5, <2>1, HoldersAre
  <1>8. IsFiniteSet(Holders(f)) =>
            /\ IsFiniteSet(Holders(f)')
            /\ Cardinality(Holders(f)') = Cardinality(Holders(f)) + 1
    <2> SUFFICES ASSUME IsFiniteSet(Holders(f))
                 PROVE  /\ IsFiniteSet(Holders(f) \cup {<<q, j>>})
                        /\ Cardinality(Holders(f) \cup {<<q, j>>}) = Cardinality(Holders(f)) + 1
      BY <1>7
    <2> QED BY <1>6, FS_AddElement
  <1> QED BY <1>4, <1>8

(* A descriptor of f is closed. *)
LEMMA OneLess ==
    ASSUME NEW q \in Proc, NEW j \in Fd, NEW f \in File,
           Held(q, j) = f, Held(q, j)' = None,
           \A p \in Proc, i \in Fd : <<p, i>> # <<q, j>> => Held(p, i)' = Held(p, i)
    PROVE  /\ \A g \in File : g # f => Holders(g)' = Holders(g)
           /\ Holders(f) # {}
           /\ IsFiniteSet(Holders(f)) =>
                /\ IsFiniteSet(Holders(f)')
                /\ Cardinality(Holders(f)') = Cardinality(Holders(f)) - 1
  <1>1. \A x \in Proc \X Fd : /\ x[1] \in Proc /\ x[2] \in Fd /\ x = <<x[1], x[2]>>
    OBVIOUS
  <1>2. \A x \in Proc \X Fd : x # <<q, j>> => Held(x[1], x[2])' = Held(x[1], x[2])
    BY <1>1
  <1>3. <<q, j>> \in Proc \X Fd /\ <<q, j>>[1] = q /\ <<q, j>>[2] = j
    OBVIOUS
  <1>4. ASSUME NEW g \in File, g # f PROVE Holders(g)' = Holders(g)
    <2>1. g # None
      BY FileFacts
    <2>2. \A x \in Proc \X Fd : Held(x[1], x[2])' = g <=> Held(x[1], x[2]) = g
      BY <1>2, <1>3, <1>4, <2>1
    <2>3. /\ Holders(g) = {x \in Proc \X Fd : Held(x[1], x[2]) = g}
          /\ Holders(g)' = {x \in Proc \X Fd : Held(x[1], x[2])' = g}
      BY <2>1, HoldersAre
    <2> QED BY <2>2, <2>3
  <1>5. f # None
    BY FileFacts
  <1>6. <<q, j>> \in Holders(f)
    BY <1>3, <1>5, HoldersAre
  <1>7. Holders(f)' = Holders(f) \ {<<q, j>>}
    <2>1. \A x \in Proc \X Fd : Held(x[1], x[2])' = f <=> Held(x[1], x[2]) = f /\ x # <<q, j>>
      BY <1>2, <1>3, <1>5
    <2> QED BY <1>3, <1>5, <2>1, HoldersAre
  <1>8. IsFiniteSet(Holders(f)) =>
            /\ IsFiniteSet(Holders(f)')
            /\ Cardinality(Holders(f)') = Cardinality(Holders(f)) - 1
    <2> SUFFICES ASSUME IsFiniteSet(Holders(f))
                 PROVE  /\ IsFiniteSet(Holders(f) \ {<<q, j>>})
                        /\ Cardinality(Holders(f) \ {<<q, j>>}) = Cardinality(Holders(f)) - 1
      BY <1>7
    <2> QED BY <1>6, FS_RemoveElement
  <1> QED BY <1>4, <1>6, <1>8

-----------------------------------------------------------------------------
(* The counts, by what a step does to them *)

(* The number of holders is a number, and 0 when there are none. *)
LEMMA CardFacts ==
    ASSUME NEW S, IsFiniteSet(S)
    PROVE  Cardinality(S) \in Nat /\ (Cardinality(S) = 0 <=> S = {})
  BY FS_CardinalityType, FS_EmptySet

(* A step that changes no count, but for one more reference to a mounted file: *)
(* what a lookup that fails leaves behind (vfs.c:145-157).                     *)
LEMMA CountsKept ==
    ASSUME TypeOK, Counts, NEW r \in Mounted,
           \A f \in File : Holders(f)' = Holders(f),
           refs' = refs \/ refs' = [refs EXCEPT ![r] = @ + 1],
           UNCHANGED <<mountpoints, opens, pipes, freed>>
    PROVE  Counts'
  <1>1. refs \in [File -> Nat]
    BY DEF TypeOK
  <1>2. \A f \in Mounted : refs'[f] >= refs[f] /\ refs[f] \in Nat /\ refs'[f] \in Nat
    BY <1>1, FileFacts
  <1>3. \A f \in Ends : refs'[f] = refs[f]
    BY <1>1, FileFacts
  <1>4. ASSUME NEW f \in Mounted PROVE MountedOK(f)'
    <2>1. MountedOK(f) /\ Holders(f)' = Holders(f)
      BY FileFacts DEF Counts
    <2>2. Cardinality(Holders(f)) \in Nat
      BY <2>1, CardFacts DEF MountedOK
    <2> QED BY <1>2, <2>1, <2>2 DEF MountedOK, Roots
  <1>5. ASSUME NEW f \in Ends PROVE EndOK(f)'
    <2>1. EndOK(f) /\ Holders(f)' = Holders(f)
      BY FileFacts DEF Counts
    <2> QED BY <1>3, <2>1 DEF EndOK
  <1>6. ASSUME NEW d \in Pipe PROVE DataOK(d)'
    BY DEF Counts, DataOK
  <1> QED BY <1>4, <1>5, <1>6 DEF Counts

(* A step that takes a reference for a descriptor it opens, and tells the pipe. *)
LEMMA CountsMore ==
    ASSUME TypeOK, Counts, NEW f \in File,
           f \in Ends => pipes[f[1]] = "open" /\ Holders(f) # {},
           \A g \in File : g # f => Holders(g)' = Holders(g),
           IsFiniteSet(Holders(f)) =>
               /\ IsFiniteSet(Holders(f)')
               /\ Cardinality(Holders(f)') = Cardinality(Holders(f)) + 1,
           fs_get(f), pipe_open(f), UNCHANGED <<mountpoints, pipes, freed>>
    PROVE  Counts'
  <1>1. refs \in [File -> Nat] /\ opens \in [Ends -> Nat]
    BY DEF TypeOK
  <1>2. /\ refs'[f] = refs[f] + 1 /\ refs[f] \in Nat
        /\ \A g \in File : g # f => refs'[g] = refs[g]
    BY <1>1 DEF fs_get
  <1>3. /\ \A g \in Ends : g # f => opens'[g] = opens[g]
        /\ f \in Ends => opens'[f] = opens[f] + 1 /\ opens[f] \in Nat
    BY <1>1 DEF pipe_open
  <1>4. ASSUME NEW g \in Mounted PROVE MountedOK(g)'
    <2>1. MountedOK(g) /\ g \in File
      BY FileFacts DEF Counts
    <2>2. Cardinality(Holders(g)) \in Nat
      BY <2>1, CardFacts DEF MountedOK
    <2>3. CASE g = f
      BY <1>2, <2>1, <2>2, <2>3 DEF MountedOK, Roots
    <2>4. CASE g # f
      <3>1. Holders(g)' = Holders(g) /\ refs'[g] = refs[g]
        BY <1>2, <2>1, <2>4
      <3> QED BY <2>1, <3>1 DEF MountedOK, Roots
    <2> QED BY <2>3, <2>4
  <1>5. ASSUME NEW g \in Ends PROVE EndOK(g)'
    <2>1. EndOK(g) /\ g \in File
      BY FileFacts DEF Counts
    <2>2. CASE g = f
      <3>1. /\ IsFiniteSet(Holders(g)) /\ pipes[g[1]] = "open" /\ freed[g] = 0
            /\ refs[g] = Cardinality(Holders(g)) /\ opens[g] = Cardinality(Holders(g))
        BY <1>5, <2>1, <2>2 DEF EndOK
      <3>2. /\ IsFiniteSet(Holders(g)') /\ pipes'[g[1]] = "open" /\ freed'[g] = 0
            /\ refs'[g] = Cardinality(Holders(g)') /\ opens'[g] = Cardinality(Holders(g)')
        BY <1>2, <1>3, <1>5, <2>2, <3>1
      <3> QED BY <3>2 DEF EndOK
    <2>3. CASE g # f
      <3>1. Holders(g)' = Holders(g) /\ refs'[g] = refs[g] /\ opens'[g] = opens[g]
        BY <1>2, <1>3, <2>1, <2>3
      <3> QED BY <2>1, <3>1 DEF EndOK
    <2> QED BY <2>2, <2>3
  <1>6. ASSUME NEW d \in Pipe PROVE DataOK(d)'
    <2>1. DataOK(d) /\ <<d, "r">> \in Ends /\ <<d, "w">> \in Ends
      BY FileFacts DEF Counts
    <2>2. ASSUME NEW e \in {"r", "w"}, pipes[d] = "open"
          PROVE  \/ opens'[<<d, e>>] = opens[<<d, e>>]
                 \/ opens[<<d, e>>] # 0 /\ opens'[<<d, e>>] # 0
      <3>1. CASE <<d, e>> = f
        <4>1. EndOK(f) /\ f \in Ends /\ f[1] = d
          BY <2>1, <3>1 DEF Counts
        <4>2. opens[f] = Cardinality(Holders(f)) /\ Holders(f) # {} /\ IsFiniteSet(Holders(f))
          BY <2>2, <4>1 DEF EndOK
        <4>3. opens[f] # 0
          BY <4>2, CardFacts
        <4> QED BY <1>3, <3>1, <4>1, <4>3
      <3>2. CASE <<d, e>> # f
        BY <1>3, <2>1, <3>2
      <3> QED BY <3>1, <3>2
    <2> QED BY <2>1, <2>2 DEF DataOK
  <1> QED BY <1>4, <1>5, <1>6 DEF Counts

(* A step that closes a descriptor: fs_close, in which pipe_close may free the *)
(* pipe, and fs_put (vfs.c:13-18, 40-46, pipe.c:36-54).                        *)
LEMMA CountsLess ==
    ASSUME TypeOK, Counts, NEW f \in File,
           f \in Mounted => f \in Roots,
           Holders(f) # {},
           \A g \in File : g # f => Holders(g)' = Holders(g),
           IsFiniteSet(Holders(f)) =>
               /\ IsFiniteSet(Holders(f)')
               /\ Cardinality(Holders(f)') = Cardinality(Holders(f)) - 1,
           Release(f), UNCHANGED <<mountpoints, pipes>>
    PROVE  /\ Counts'
           /\ refs' \in [File -> Nat] /\ opens' \in [Ends -> Nat] /\ freed' \in [Object -> Nat]
  <1>1. refs \in [File -> Nat] /\ opens \in [Ends -> Nat] /\ freed \in [Object -> Nat]
    BY DEF TypeOK
  <1>2. /\ refs'[f] = refs[f] - 1 /\ refs[f] \in Nat
        /\ \A g \in File : g # f => refs'[g] = refs[g]
    BY <1>1 DEF Release
  <1>3. /\ \A g \in Ends : g # f => opens'[g] = opens[g]
        /\ f \in Ends => opens'[f] = opens[f] - 1 /\ opens[f] \in Nat
    BY <1>1 DEF Release
  <1>4. ASSUME NEW o \in Object
        PROVE  /\ freed[o] \in Nat /\ freed'[o] \in Nat
               /\ (o # f \/ (refs[f] # 1 /\ ~LastClose(f))) /\ (o # <<f[1], "data">> \/ ~LastClose(f)) =>
                    freed'[o] = freed[o]
               /\ o = <<f[1], "data">> /\ o # f /\ LastClose(f) => freed'[o] = freed[o] + 1
    BY <1>1 DEF Release
  <1>5. IsFiniteSet(Holders(f))
    BY DEF Counts, File, MountedOK, EndOK
  <1>6. /\ Cardinality(Holders(f)) \in Nat /\ Cardinality(Holders(f)) > 0
        /\ IsFiniteSet(Holders(f)') /\ Cardinality(Holders(f)') = Cardinality(Holders(f)) - 1
        /\ Cardinality(Holders(f)') \in Nat
        /\ (Cardinality(Holders(f)') = 0 <=> Holders(f)' = {})
    BY <1>5, CardFacts
  <1>7. ASSUME f \in Ends
        PROVE  /\ pipes[f[1]] = "open" /\ freed[f] = 0
               /\ refs[f] = Cardinality(Holders(f)) /\ opens[f] = Cardinality(Holders(f))
    BY <1>7 DEF Counts, EndOK
  <1>8. ASSUME f \in Mounted
        PROVE  freed[f] = 0 /\ refs[f] >= Cardinality(Holders(f)) + 1 /\ ~LastClose(f)
    <2>1. MountedOK(f) /\ f \notin Ends
      BY <1>8, FileFacts DEF Counts
    <2> QED BY <1>8, <2>1 DEF MountedOK, Roots, LastClose
  <1>9. refs[f] > 0 /\ (f \in Ends => opens[f] > 0)
    BY <1>2, <1>6, <1>7, <1>8 DEF File
  <1>10. ASSUME NEW g \in Mounted PROVE MountedOK(g)'
    <2>1. MountedOK(g) /\ g \in File /\ g \in Object
      BY FileFacts DEF Counts
    <2>2. freed'[g] = 0
      <3>1. g # <<f[1], "data">> \/ ~LastClose(f)
        <4>1. CASE f \in Ends
          BY <2>1, <4>1, FileFacts
        <4>2. CASE f \notin Ends
          BY <4>2 DEF LastClose
        <4> QED BY <4>1, <4>2
      <3>2. g # f \/ (refs[f] # 1 /\ ~LastClose(f))
        BY <1>2, <1>6, <1>8
      <3> QED BY <1>4, <2>1, <3>1, <3>2 DEF MountedOK
    <2>3. CASE g = f
      BY <1>2, <1>6, <1>8, <2>2, <2>3 DEF MountedOK, Roots
    <2>4. CASE g # f
      <3>1. Holders(g)' = Holders(g) /\ refs'[g] = refs[g]
        BY <1>2, <2>1, <2>4
      <3> QED BY <2>1, <2>2, <3>1 DEF MountedOK, Roots
    <2> QED BY <2>3, <2>4
  <1>11. ASSUME f \in Ends
         PROVE  LastClose(f) <=> opens'[<<f[1], "r">>] = 0 /\ opens'[<<f[1], "w">>] = 0
    BY <1>11 DEF LastClose, Release
  <1>12. ASSUME NEW g \in Ends PROVE EndOK(g)'
    <2>1. EndOK(g) /\ g \in File /\ g \in Object
      BY FileFacts DEF Counts
    <2>2. CASE g = f
      <3>1. /\ IsFiniteSet(Holders(g)') /\ pipes'[g[1]] = "open"
            /\ refs'[g] = Cardinality(Holders(g)') /\ opens'[g] = Cardinality(Holders(g)')
        BY <1>2, <1>3, <1>6, <1>7, <1>12, <2>2
      <3>2. ASSUME Holders(g)' # {} PROVE freed'[g] = 0
        <4>1. refs[f] # 1 /\ opens'[f] # 0
          BY <1>2, <1>6, <1>7, <1>12, <2>2, <3>1, <3>2
        <4>2. f = <<f[1], "r">> \/ f = <<f[1], "w">>
          BY <1>12, <2>2, FileFacts
        <4>3. ~LastClose(f)
          BY <1>11, <1>12, <2>2, <4>1, <4>2
        <4> QED BY <1>4, <1>7, <1>12, <2>1, <2>2, <4>1, <4>3
      <3> QED BY <3>1, <3>2 DEF EndOK
    <2>3. CASE g # f
      <3>1. Holders(g)' = Holders(g) /\ refs'[g] = refs[g] /\ opens'[g] = opens[g]
        BY <1>2, <1>3, <2>1, <2>3
      <3>2. g # <<f[1], "data">> \/ ~LastClose(f)
        <4>1. CASE f \in Ends
          BY <2>1, <4>1, FileFacts
        <4>2. CASE f \notin Ends
          BY <4>2 DEF LastClose
        <4> QED BY <4>1, <4>2
      <3>3. freed'[g] = freed[g]
        BY <1>4, <2>1, <2>3, <3>2
      <3> QED BY <2>1, <3>1, <3>3 DEF EndOK
    <2> QED BY <2>2, <2>3
  <1>13. ASSUME NEW d \in Pipe PROVE DataOK(d)'
    <2>1. /\ DataOK(d) /\ <<d, "r">> \in Ends /\ <<d, "w">> \in Ends
          /\ <<d, "data">> \in Object /\ <<d, "data">> # f
      BY FileFacts DEF Counts
    <2>2. CASE f \in Ends /\ f[1] = d
      <3>1. f = <<d, "r">> \/ f = <<d, "w">>
        BY <2>2, FileFacts
      <3>2. pipes[d] = "open" /\ freed[<<d, "data">>] = 0
        BY <1>7, <1>9, <2>1, <2>2, <3>1 DEF DataOK
      <3>3. LastClose(f) => freed'[<<d, "data">>] = 1
        BY <1>4, <2>1, <2>2, <3>2
      <3>4. ~LastClose(f) => freed'[<<d, "data">>] = 0
        BY <1>4, <2>1, <2>2, <3>2
      <3> QED BY <1>11, <2>2, <3>2, <3>3, <3>4 DEF DataOK
    <2>3. CASE ~(f \in Ends /\ f[1] = d)
      <3>1. <<d, "r">> # f /\ <<d, "w">> # f
        BY <2>1, <2>3
      <3>2. <<d, "data">> # <<f[1], "data">> \/ ~LastClose(f)
        BY <2>3 DEF LastClose
      <3>3. freed'[<<d, "data">>] = freed[<<d, "data">>]
        BY <1>4, <2>1, <3>2
      <3> QED BY <1>3, <2>1, <3>1, <3>3 DEF DataOK
    <2> QED BY <2>2, <2>3
  <1>14. refs' \in [File -> Nat] /\ opens' \in [Ends -> Nat]
    <2>1. refs[f] - 1 \in Nat /\ (f \in Ends => opens[f] - 1 \in Nat)
      BY <1>2, <1>3, <1>9
    <2> QED BY <1>1, <2>1 DEF Release
  <1>15. freed' \in [Object -> Nat]
    BY <1>1 DEF Release
  <1> QED BY <1>10, <1>12, <1>13, <1>14, <1>15 DEF Counts

-----------------------------------------------------------------------------
(* What the actions do to the descriptors *)

(* The table changes at one descriptor. *)
LEMMA SlotChanged ==
    ASSUME TypeOK, NEW q \in Proc, NEW j \in Fd, NEW f \in File \cup {None},
           fp' = [fp EXCEPT ![q][j] = f]
    PROVE  /\ fp' \in [Proc -> [Fd -> File \cup {None}]]
           /\ \A p \in Proc, i \in Fd : <<p, i>> # <<q, j>> => fp'[p][i] = fp[p][i]
           /\ fp'[q][j] = f
  <1>1. fp \in [Proc -> [Fd -> File \cup {None}]]
    BY DEF TypeOK
  <1> QED BY <1>1

(* A file is put into a descriptor that was free. *)
LEMMA OpenedSlot ==
    ASSUME NEW q \in Proc, NEW j \in Fd, NEW f \in File, fp[q][j] = None, fp'[q][j] = f,
           \A p \in Proc, i \in Fd : <<p, i>> # <<q, j>> => fp'[p][i] = fp[p][i],
           call.op # "exit", call'.op # "exit"
    PROVE  /\ \A g \in File : g # f => Holders(g)' = Holders(g)
           /\ IsFiniteSet(Holders(f)) =>
                /\ IsFiniteSet(Holders(f)')
                /\ Cardinality(Holders(f)') = Cardinality(Holders(f)) + 1
  <1>1. Held(q, j) = None /\ Held(q, j)' = f
    BY FileFacts DEF Held, IsOpen
  <1>2. \A p \in Proc, i \in Fd : <<p, i>> # <<q, j>> => Held(p, i)' = Held(p, i)
    BY DEF Held, IsOpen
  <1> QED BY <1>1, <1>2, OneMore

(* The table is left alone, and no loop of exit begins or ends. *)
LEMMA SameTable ==
    ASSUME fp' = fp, call.op # "exit", call'.op # "exit"
    PROVE  \A f \in File : Holders(f)' = Holders(f)
  <1>1. \A p \in Proc, i \in Fd : Held(p, i)' = Held(p, i)
    BY DEF Held, IsOpen
  <1> QED BY <1>1, SameHolders

(* After kmain all files of Boot are mounted. *)
LEMMA AllMounted ==
    ASSUME MountOK, call # Booting
    PROVE  mountpoints = Boot /\ Roots = Mounted
  <1>1. /\ mountpoints \in Seq([path : Seq(Character), root : Mounted])
        /\ Boot \in Seq([path : Seq(Character), root : Mounted])
        /\ Len(mountpoints) = Len(Boot)
        /\ \A m \in 1..Len(mountpoints) : mountpoints[m] = Boot[m]
    BY FilesAssumption DEF MountOK, MountList
  <1>2. mountpoints = Boot
    BY <1>1, SeqEqual
  <1>3. DOMAIN Boot = 1..Len(Boot)
    BY <1>1, LenProperties
  <1> QED BY <1>2, <1>3 DEF Roots, Mounted

(* A loop of fork or exit, or no call at all, is not kmain. *)
LEMMA NotBooting ==
    ASSUME call = Idle \/ call.op # "kmain"
    PROVE  call # Booting /\ (call = Idle => call.op = "none")
  BY DEF Booting, Idle

(* There is a free descriptor, and the first of them is one. *)
LEMMA FirstFree ==
    ASSUME NEW p \in Proc, FreeFds(p) # {}
    PROVE  Min(FreeFds(p)) \in Fd /\ fp[p][Min(FreeFds(p))] = None
  <1>1. FreeFds(p) \in SUBSET Nat /\ \A i \in FreeFds(p) : i \in Fd /\ fp[p][i] = None
    BY FdFacts DEF FreeFds
  <1> QED BY <1>1, MinLemma

-----------------------------------------------------------------------------
(* Each action keeps the invariant *)

(* fs_mount *)
LEMMA MountStep ==
    ASSUME IInv, fs_mount
    PROVE  IInv'
  <1> DEFINE n == Len(mountpoints)
             mp == Boot[n + 1]
  <1>1. /\ TypeOK /\ MountOK /\ TableOK /\ CallOK /\ Counts
    BY DEF IInv
  <1>2. /\ call = Booting /\ n < Len(Boot) /\ refs' = [refs EXCEPT ![mp.root] = @ + 1]
        /\ mountpoints' = Append(mountpoints, mp)
        /\ UNCHANGED <<state, fp, opens, pipes, freed, call>>
    BY DEF fs_mount, fs_get
  <1>3. /\ mountpoints \in Seq([path : Seq(Character), root : Mounted])
        /\ Boot \in Seq([path : Seq(Character), root : Mounted])
        /\ \A m \in 1..n : mountpoints[m] = Boot[m]
    BY <1>1, FilesAssumption DEF MountOK, MountList
  <1>4. n \in Nat /\ Len(Boot) \in Nat /\ n + 1 \in 1..Len(Boot)
    BY <1>2, <1>3, LenProperties
  <1>5. mp \in [path : Seq(Character), root : Mounted]
    BY <1>3, <1>4, ElementOfSeq
  <1>6. /\ mountpoints' \in Seq([path : Seq(Character), root : Mounted])
        /\ Len(mountpoints') = n + 1
        /\ \A m \in 1..n : mountpoints'[m] = mountpoints[m]
        /\ mountpoints'[n + 1] = mp
    BY <1>2, <1>3, <1>5, AppendProperties
  <1>7. \A m \in 1..(n + 1) : m \in 1..n \/ m = n + 1
    BY <1>4
  <1>8. \A m \in 1..Len(mountpoints') : mountpoints'[m] = Boot[m]
    BY <1>3, <1>6, <1>7
  <1>9. MountOK'
    BY <1>2, <1>4, <1>6, <1>8 DEF MountOK, MountList
  <1>10. Roots' \subseteq Roots \cup {mp.root}
    BY <1>6, <1>7 DEF Roots
  <1>11. mp.root \in Mounted /\ mp.root \in File
    BY <1>5, FileFacts
  <1> HIDE DEF mp, n
  <1>12. refs \in [File -> Nat]
    BY <1>1 DEF TypeOK
  <1>13. TypeOK'
    <2>1. refs' \in [File -> Nat]
      BY <1>2, <1>11, <1>12
    <2>2. \A m \in DOMAIN mountpoints' : mountpoints'[m] = Boot[m]
      <3>1. DOMAIN mountpoints' = 1..Len(mountpoints')
        BY <1>6, LenProperties
      <3> QED BY <1>8, <3>1
    <2> QED BY <1>1, <1>2, <2>1, <2>2 DEF TypeOK
  <1>14. TableOK' /\ CallOK'
    BY <1>1, <1>2 DEF TableOK, CallOK, AtOpen
  <1>15. \A f \in File : Holders(f)' = Holders(f)
    BY <1>2, SameTable DEF Booting, Idle
  <1>16. \A f \in File : Holders(f) = {}
    <2>1. \A p \in Proc, i \in Fd : fp[p][i] = None
      BY <1>1, <1>2 DEF TableOK, CallOK, Booting, Idle
    <2> QED BY <2>1 DEF Holders, IsOpen
  <1>17. ASSUME NEW f \in Mounted PROVE MountedOK(f)'
    <2>1. MountedOK(f) /\ f \in File
      BY <1>1, FileFacts DEF Counts
    <2>2. Holders(f)' = {} /\ Holders(f) = {} /\ Cardinality({}) = 0
      BY <1>15, <1>16, <2>1, FS_EmptySet
    <2>3. refs[f] \in Nat /\ (f \in Roots => refs[f] >= 1)
      BY <1>12, <2>1, <2>2 DEF MountedOK
    <2>4. f \in Roots' => refs'[f] >= 1
      BY <1>2, <1>10, <1>11, <1>12, <2>1, <2>3
    <2> QED BY <1>2, <2>1, <2>2, <2>4 DEF MountedOK
  <1>18. ASSUME NEW f \in Ends PROVE EndOK(f)'
    <2>1. EndOK(f) /\ Holders(f)' = Holders(f) /\ refs'[f] = refs[f]
      BY <1>1, <1>2, <1>11, <1>12, <1>15, FileFacts DEF Counts
    <2> QED BY <1>2, <2>1 DEF EndOK
  <1>19. ASSUME NEW d \in Pipe PROVE DataOK(d)'
    BY <1>1, <1>2 DEF Counts, DataOK
  <1>20. Counts'
    BY <1>17, <1>18, <1>19 DEF Counts
  <1> QED BY <1>9, <1>13, <1>14, <1>20 DEF IInv

(* A step that puts a file at a mount point into a free descriptor of a process: *)
(* what Kmain and Open have in common.                                           *)
LEMMA OpenStep ==
    ASSUME IInv, NEW q \in Proc, NEW j \in Fd, NEW f \in Mounted,
           fp[q][j] = None, fp' = [fp EXCEPT ![q][j] = f], fs_get(f),
           call.op # "exit", call.op # "fork", call' = Idle, state'[q] = "alive",
           state' \in [Proc -> {"unused", "alive", "zombie"}],
           \A p \in Proc : p # q => state'[p] = state[p],
           Len(mountpoints) = Len(Boot),
           UNCHANGED <<mountpoints, opens, pipes, freed>>
    PROVE  IInv'
  <1>1. /\ TypeOK /\ MountOK /\ TableOK /\ CallOK /\ Counts
    BY DEF IInv
  <1>2. f \in File /\ f \notin Ends /\ f # None
    BY FileFacts
  <1>3. call'.op = "none" /\ call'.op # "exit"
    BY DEF Idle
  <1>4. /\ fp' \in [Proc -> [Fd -> File \cup {None}]]
        /\ \A p \in Proc, i \in Fd : <<p, i>> # <<q, j>> => fp'[p][i] = fp[p][i]
        /\ fp'[q][j] = f
    <2>1. f \in File \cup {None}
      BY <1>2
    <2> QED BY <1>1, <2>1, SlotChanged
  <1>5. /\ \A g \in File : g # f => Holders(g)' = Holders(g)
        /\ IsFiniteSet(Holders(f)) =>
            /\ IsFiniteSet(Holders(f)')
            /\ Cardinality(Holders(f)') = Cardinality(Holders(f)) + 1
    BY <1>2, <1>3, <1>4, OpenedSlot
  <1>6. pipe_open(f)
    BY <1>2 DEF pipe_open
  <1>7. Counts'
    BY <1>1, <1>2, <1>5, <1>6, CountsMore
  <1>8. TypeOK'
    <2>1. refs' \in [File -> Nat]
      BY <1>1, <1>2 DEF TypeOK, fs_get
    <2>2. call' \in [op : {"none", "fork", "exit", "halted", "kmain"}, p : Proc \cup {None},
                     child : Proc \cup {None}, fd : 0..NumFp]
      BY FdFacts DEF Idle
    <2> QED BY <1>1, <1>4, <2>1, <2>2 DEF TypeOK
  <1>9. MountOK'
    BY <1>1 DEF MountOK, MountList
  <1>10. TableOK'
    <2> SUFFICES ASSUME NEW p \in Proc, state'[p] # "alive", NEW i \in Fd PROVE fp'[p][i] = None
      BY DEF TableOK
    <2>1. p # q
      OBVIOUS
    <2>2. fp[p][i] = None
      BY <1>1, <2>1 DEF TableOK
    <2> QED BY <1>4, <2>1, <2>2
  <1>11. CallOK'
    BY <1>3 DEF CallOK
  <1> QED BY <1>1, <1>7, <1>8, <1>9, <1>10, <1>11 DEF IInv

(* open of a path at which a file is mounted *)
LEMMA OpenKeeps ==
    ASSUME IInv, NEW p \in Proc, NEW path \in Path, Open(p, path)
    PROVE  IInv'
  <1> DEFINE f == Named(path)
             j == Min(FreeFds(p))
  <1>1. /\ state[p] = "alive" /\ call = Idle /\ FreeFds(p) # {} /\ Closest(path) # None /\ f # None
        /\ fs_get(f) /\ fp' = [fp EXCEPT ![p][j] = f]
        /\ UNCHANGED <<mountpoints, state, opens, pipes, freed, call>>
    BY DEF Open, Calling
  <1>2. path \in Seq(Character) /\ MountList(mountpoints)
    BY FilesAssumption DEF IInv, MountOK
  <1>3. f \in Mounted
    BY <1>1, <1>2, LookupLemma DEF Named, Closest
  <1>4. j \in Fd /\ fp[p][j] = None
    BY <1>1, FirstFree
  <1> HIDE DEF f, j
  <1>5. call.op = "none" /\ Len(mountpoints) = Len(Boot)
    BY <1>1, NotBooting DEF IInv, MountOK
  <1>6. state \in [Proc -> {"unused", "alive", "zombie"}]
    BY DEF IInv, TypeOK
  <1> QED BY <1>1, <1>3, <1>4, <1>5, <1>6, OpenStep

(* The end of kmain *)
LEMMA KmainKeeps ==
    ASSUME IInv, Kmain
    PROVE  IInv'
  <1> DEFINE f == fs_namef(mountpoints, DebugPath)
  <1>1. /\ call = Booting /\ Len(mountpoints) = Len(Boot) /\ fs_get(f)
        /\ fp' = [fp EXCEPT ![InitProc][1] = f] /\ state' = [state EXCEPT ![InitProc] = "alive"]
        /\ call' = Idle /\ UNCHANGED <<mountpoints, opens, pipes, freed>>
    BY DEF Kmain
  <1>2. call.op = "kmain"
    BY <1>1 DEF Booting, Idle
  <1>3. /\ DebugPath \in Seq(Character) /\ MountList(mountpoints) /\ InitProc \in Proc
        /\ DebugFile \in Mounted /\ MountedAt(Boot, DebugPath) = DebugFile
    BY FilesAssumption DEF IInv, MountOK
  <1>4. mountpoints = Boot
    <2>1. /\ mountpoints \in Seq([path : Seq(Character), root : Mounted])
          /\ Boot \in Seq([path : Seq(Character), root : Mounted])
          /\ \A m \in 1..Len(mountpoints) : mountpoints[m] = Boot[m]
      BY <1>3, FilesAssumption DEF MountList
    <2> QED BY <1>1, <2>1, SeqEqual
  <1>5. f = DebugFile
    BY <1>3, <1>4, FileFacts, MountedFound
  <1>6. 1 \in Fd
    BY FdFacts
  <1>7. fp[InitProc][1] = None
    BY <1>2, <1>3, <1>6 DEF IInv, TableOK, CallOK
  <1>8. state \in [Proc -> {"unused", "alive", "zombie"}]
    BY DEF IInv, TypeOK
  <1>9. /\ state' \in [Proc -> {"unused", "alive", "zombie"}] /\ state'[InitProc] = "alive"
        /\ \A p \in Proc : p # InitProc => state'[p] = state[p]
    BY <1>1, <1>3, <1>8
  <1> QED BY <1>1, <1>2, <1>3, <1>5, <1>6, <1>7, <1>9, OpenStep

(* A path that goes on below a mount point *)
LEMMA OpenFailsKeeps ==
    ASSUME IInv, NEW p \in Proc, NEW path \in Path, OpenFails(p, path)
    PROVE  IInv'
  <1> DEFINE r == Closest(path).root
  <1>1. /\ TypeOK /\ MountOK /\ TableOK /\ CallOK /\ Counts
    BY DEF IInv
  <1>2. /\ call = Idle /\ Closest(path) # None /\ refs' = [refs EXCEPT ![r] = @ + 1]
        /\ UNCHANGED <<mountpoints, state, fp, opens, pipes, freed, call>>
    BY DEF OpenFails, Calling, fs_get
  <1>3. path \in Seq(Character) /\ MountList(mountpoints)
    BY <1>1, FilesAssumption DEF MountOK
  <1>4. r \in Mounted /\ r \in File
    BY <1>2, <1>3, LookupLemma, FileFacts DEF Closest
  <1> HIDE DEF r
  <1>5. \A f \in File : Holders(f)' = Holders(f)
    BY <1>2, NotBooting, SameTable
  <1>6. Counts'
    BY <1>1, <1>2, <1>4, <1>5, CountsKept
  <1>7. refs' \in [File -> Nat]
    BY <1>1, <1>2, <1>4 DEF TypeOK
  <1> QED BY <1>1, <1>2, <1>6, <1>7 DEF IInv, TypeOK, MountOK, MountList, TableOK, CallOK, AtOpen

(* A step that only moves the call on, and not into or out of a loop of exit. *)
LEMMA CountsUnchanged ==
    ASSUME TypeOK, Counts, \A f \in File : Holders(f)' = Holders(f),
           UNCHANGED <<mountpoints, refs, opens, pipes, freed>>
    PROVE  Counts'
  <1>1. DebugFile \in Mounted
    BY FilesAssumption
  <1> QED BY <1>1, CountsKept

(* The null pointer in fs_namef *)
LEMMA OpenHaltsKeeps ==
    ASSUME IInv, NEW p \in Proc, NEW path \in Path, OpenHalts(p, path)
    PROVE  IInv'
  <1>1. /\ TypeOK /\ MountOK /\ TableOK /\ CallOK /\ Counts
    BY DEF IInv
  <1>2. /\ call = Idle /\ call' = [Idle EXCEPT !.op = "halted"]
        /\ UNCHANGED <<mountpoints, state, fp, refs, opens, pipes, freed>>
    BY DEF OpenHalts, Calling
  <1>3. call.op = "none" /\ call'.op = "halted"
    BY <1>2 DEF Idle
  <1>4. \A f \in File : Holders(f)' = Holders(f)
    BY <1>2, <1>3, SameTable
  <1>5. Counts'
    BY <1>1, <1>2, <1>4, CountsUnchanged
  <1>6. TypeOK'
    <2>1. call' \in [op : {"none", "fork", "exit", "halted", "kmain"}, p : Proc \cup {None},
                     child : Proc \cup {None}, fd : 0..NumFp]
      BY <1>2, FdFacts DEF Idle
    <2> QED BY <1>1, <1>2, <2>1 DEF TypeOK
  <1>7. MountOK'
    <2>1. Len(mountpoints) = Len(Boot)
      BY <1>1, <1>2, NotBooting DEF MountOK
    <2> QED BY <1>1, <1>2, <2>1 DEF MountOK, MountList
  <1>8. TableOK' /\ CallOK'
    BY <1>1, <1>2, <1>3 DEF TableOK, CallOK
  <1> QED BY <1>5, <1>6, <1>7, <1>8 DEF IInv

(* A descriptor that is open names a file, whose pipe has been made. *)
LEMMA HeldFile ==
    ASSUME TypeOK, Counts, NEW p \in Proc, NEW i \in Fd, IsOpen(p, i)
    PROVE  /\ fp[p][i] \in File /\ Held(p, i) = fp[p][i]
           /\ Holders(fp[p][i]) # {}
           /\ fp[p][i] \in Ends => pipes[fp[p][i][1]] = "open"
  <1>1. fp[p][i] \in File /\ Held(p, i) = fp[p][i]
    BY DEF TypeOK, IsOpen, Held
  <1>2. <<p, i>> \in Holders(fp[p][i])
    BY DEF Holders
  <1>3. fp[p][i] \in Ends => pipes[fp[p][i][1]] = "open"
    BY <1>2 DEF Counts, EndOK
  <1> QED BY <1>1, <1>2, <1>3

(* close *)
LEMMA CloseKeeps ==
    ASSUME IInv, NEW p \in Proc, NEW i \in Fd, Close(p, i)
    PROVE  IInv'
  <1>0. PICK f : f = fp[p][i]
    OBVIOUS
  <1>1. /\ TypeOK /\ MountOK /\ TableOK /\ CallOK /\ Counts
    BY DEF IInv
  <1>2. /\ state[p] = "alive" /\ call = Idle /\ f # None /\ Release(f)
        /\ fp' = [fp EXCEPT ![p][i] = None]
        /\ UNCHANGED <<mountpoints, state, pipes, call>>
    BY <1>0 DEF Close, Calling
  <1>3. call.op = "none" /\ call # Booting
    BY <1>2, NotBooting
  <1>4. IsOpen(p, i)
    BY <1>0, <1>2, <1>3 DEF IsOpen
  <1>5. f \in File /\ Held(p, i) = f
    BY <1>0, <1>1, <1>4, HeldFile
  <1>6. /\ fp' \in [Proc -> [Fd -> File \cup {None}]]
        /\ \A q \in Proc, j \in Fd : <<q, j>> # <<p, i>> => fp'[q][j] = fp[q][j]
        /\ fp'[p][i] = None
    BY <1>1, <1>2, SlotChanged
  <1>7. Held(p, i)' = None
    BY <1>6 DEF Held, IsOpen
  <1>8. \A q \in Proc, j \in Fd : <<q, j>> # <<p, i>> => Held(q, j)' = Held(q, j)
    BY <1>2, <1>6 DEF Held, IsOpen
  <1>9. /\ \A g \in File : g # f => Holders(g)' = Holders(g)
        /\ Holders(f) # {}
        /\ IsFiniteSet(Holders(f)) =>
            /\ IsFiniteSet(Holders(f)')
            /\ Cardinality(Holders(f)') = Cardinality(Holders(f)) - 1
    BY <1>5, <1>7, <1>8, OneLess
  <1>10. f \in Mounted => f \in Roots
    BY <1>1, <1>3, AllMounted
  <1>11. /\ Counts'
         /\ refs' \in [File -> Nat] /\ opens' \in [Ends -> Nat] /\ freed' \in [Object -> Nat]
    BY <1>1, <1>2, <1>5, <1>9, <1>10, CountsLess
  <1>12. TypeOK'
    BY <1>1, <1>2, <1>6, <1>11 DEF TypeOK
  <1>13. TableOK'
    <2> SUFFICES ASSUME NEW q \in Proc, state[q] # "alive", NEW j \in Fd PROVE fp'[q][j] = None
      BY <1>2, <1>3 DEF TableOK
    <2>1. fp[q][j] = None /\ q # p
      BY <1>1, <1>2, <1>3 DEF TableOK
    <2> QED BY <1>6, <2>1
  <1>14. MountOK' /\ CallOK'
    BY <1>1, <1>2, <1>3 DEF MountOK, MountList, CallOK
  <1> QED BY <1>11, <1>12, <1>13, <1>14 DEF IInv

(* pipe finds two descriptors *)
LEMMA TwoFree ==
    ASSUME NEW p \in Proc, Cardinality(FreeFds(p)) >= 2
    PROVE  LET w == Min(FreeFds(p))
               r == Min(FreeFds(p) \ {w})
           IN  /\ w \in Fd /\ fp[p][w] = None
               /\ r \in Fd /\ fp[p][r] = None /\ r # w
  <1> DEFINE S == FreeFds(p)
             w == Min(S)
             R == S \ {w}
             r == Min(R)
  <1>1. S \in SUBSET Nat /\ S \subseteq Fd /\ \A i \in S : i \in Fd /\ fp[p][i] = None
    BY FdFacts DEF FreeFds
  <1>2. IsFiniteSet(S)
    <2>1. IsFiniteSet(Fd)
      BY FdFacts, FS_Interval DEF Fd
    <2> QED BY <1>1, <2>1, FS_Subset
  <1>3. S # {}
    BY FS_EmptySet
  <1> HIDE DEF S
  <1>4. w \in S
    BY <1>1, <1>3, MinLemma
  <1> HIDE DEF w
  <1>5. Cardinality(R) = Cardinality(S) - 1 /\ IsFiniteSet(R) /\ Cardinality(S) \in Nat
    BY <1>2, <1>4, FS_RemoveElement, FS_CardinalityType
  <1>6. Cardinality(S) >= 2
    BY DEF S
  <1>7. R # {} /\ R \in SUBSET Nat /\ \A i \in R : i \in S /\ i # w
    BY <1>1, <1>5, <1>6, FS_EmptySet
  <1> HIDE DEF R
  <1>8. r \in R
    BY <1>7, MinLemma
  <1> HIDE DEF r
  <1>9. /\ w \in Fd /\ fp[p][w] = None
        /\ r \in Fd /\ fp[p][r] = None /\ r # w
    BY <1>1, <1>4, <1>7, <1>8
  <1> QED BY <1>9 DEF r, R, w, S

(* pipe *)
LEMMA PipeCallKeeps ==
    ASSUME IInv, NEW p \in Proc, NEW d \in Pipe, PipeCall(p, d)
    PROVE  IInv'
  <1>0. PICK w, r, fw, fr : /\ w = Min(FreeFds(p)) /\ r = Min(FreeFds(p) \ {w})
                            /\ fw = <<d, "w">> /\ fr = <<d, "r">>
    OBVIOUS
  <1>1. /\ TypeOK /\ MountOK /\ TableOK /\ CallOK /\ Counts
    BY DEF IInv
  <1>2. /\ state[p] = "alive" /\ call = Idle /\ pipes[d] = "unused"
        /\ Cardinality(FreeFds(p)) >= 2
        /\ fp' = [fp EXCEPT ![p][w] = fw, ![p][r] = fr]
        /\ refs' = [refs EXCEPT ![fw] = 1, ![fr] = 1]
        /\ opens' = [opens EXCEPT ![fw] = 1, ![fr] = 1]
        /\ pipes' = [pipes EXCEPT ![d] = "open"]
        /\ UNCHANGED <<mountpoints, state, freed, call>>
    BY <1>0 DEF PipeCall, Calling
  <1>3. call.op = "none" /\ call # Booting
    BY <1>2, NotBooting
  <1>4. w \in Fd /\ fp[p][w] = None /\ r \in Fd /\ fp[p][r] = None /\ r # w
    BY <1>0, <1>2, TwoFree
  <1>5. /\ fw \in Ends /\ fr \in Ends /\ fw # fr /\ fw \in File /\ fr \in File
        /\ fw[1] = d /\ fr[1] = d /\ fw # None /\ fr # None
        /\ <<d, "data">> \in Object
    BY <1>0, FileFacts
  <1>6. \A f \in Ends : f[1] = d => f = fw \/ f = fr
    BY <1>0, FileFacts
  <1>7. \A e \in Pipe : e # d => /\ <<e, "r">> # fw /\ <<e, "r">> # fr
                                 /\ <<e, "w">> # fw /\ <<e, "w">> # fr
    BY <1>0
  <1>8. /\ fp \in [Proc -> [Fd -> File \cup {None}]] /\ refs \in [File -> Nat]
        /\ opens \in [Ends -> Nat] /\ pipes \in [Pipe -> {"unused", "open", "failed"}]
    BY <1>1 DEF TypeOK
  <1>9. /\ fp' \in [Proc -> [Fd -> File \cup {None}]]
        /\ fp'[p][w] = fw /\ fp'[p][r] = fr
        /\ \A q \in Proc, j \in Fd :
            <<q, j>> # <<p, w>> /\ <<q, j>> # <<p, r>> => fp'[q][j] = fp[q][j]
    BY <1>2, <1>4, <1>5, <1>8
  <1>10. /\ refs' \in [File -> Nat] /\ refs'[fw] = 1 /\ refs'[fr] = 1
         /\ \A f \in File : f # fw /\ f # fr => refs'[f] = refs[f]
    BY <1>2, <1>5, <1>8
  <1>11. /\ opens' \in [Ends -> Nat] /\ opens'[fw] = 1 /\ opens'[fr] = 1
         /\ \A f \in Ends : f # fw /\ f # fr => opens'[f] = opens[f]
    BY <1>2, <1>5, <1>8
  <1>12. /\ pipes' \in [Pipe -> {"unused", "open", "failed"}] /\ pipes'[d] = "open"
         /\ \A e \in Pipe : e # d => pipes'[e] = pipes[e]
    BY <1>2, <1>8
  <1>13. /\ Held(p, w) = None /\ Held(p, r) = None /\ Held(p, w)' = fw /\ Held(p, r)' = fr
    BY <1>2, <1>3, <1>4, <1>5, <1>9 DEF Held, IsOpen
  <1>14. \A q \in Proc, j \in Fd :
            <<q, j>> # <<p, w>> /\ <<q, j>> # <<p, r>> => Held(q, j)' = Held(q, j)
    BY <1>2, <1>9 DEF Held, IsOpen
  <1>15. Holders(fw) = {} /\ Holders(fr) = {} /\ freed[fw] = 0 /\ freed[fr] = 0
    BY <1>1, <1>2, <1>5 DEF Counts, EndOK
  <1>16. \A x \in Proc \X Fd : x[1] \in Proc /\ x[2] \in Fd /\ x = <<x[1], x[2]>>
    OBVIOUS
  <1>17. \A x \in Proc \X Fd : x # <<p, w>> /\ x # <<p, r>> =>
            Held(x[1], x[2])' = Held(x[1], x[2])
    BY <1>14, <1>16
  <1>18. /\ <<p, w>> \in Proc \X Fd /\ <<p, r>> \in Proc \X Fd /\ <<p, w>> # <<p, r>>
         /\ <<p, w>>[1] = p /\ <<p, w>>[2] = w /\ <<p, r>>[1] = p /\ <<p, r>>[2] = r
    BY <1>4
  <1>19. \A f \in File : /\ Holders(f) = {x \in Proc \X Fd : Held(x[1], x[2]) = f}
                         /\ Holders(f)' = {x \in Proc \X Fd : Held(x[1], x[2])' = f}
    BY FileFacts, HoldersAre
  <1>20. ASSUME NEW f \in File, f # fw, f # fr PROVE Holders(f)' = Holders(f)
    <2>1. f # None
      BY FileFacts
    <2>2. \A x \in Proc \X Fd : Held(x[1], x[2])' = f <=> Held(x[1], x[2]) = f
      BY <1>13, <1>17, <1>18, <1>20, <2>1
    <2> QED BY <1>19, <2>2
  <1>21. Holders(fw)' = {<<p, w>>}
    <2>1. \A x \in Proc \X Fd : Held(x[1], x[2]) # fw
      BY <1>5, <1>15, <1>19
    <2>2. \A x \in Proc \X Fd : Held(x[1], x[2])' = fw <=> x = <<p, w>>
      BY <1>5, <1>13, <1>17, <1>18, <2>1
    <2> QED BY <1>5, <1>18, <1>19, <2>2
  <1>22. Holders(fr)' = {<<p, r>>}
    <2>1. \A x \in Proc \X Fd : Held(x[1], x[2]) # fr
      BY <1>5, <1>15, <1>19
    <2>2. \A x \in Proc \X Fd : Held(x[1], x[2])' = fr <=> x = <<p, r>>
      BY <1>5, <1>13, <1>17, <1>18, <2>1
    <2> QED BY <1>5, <1>18, <1>19, <2>2
  <1>23. \A x : IsFiniteSet({x}) /\ Cardinality({x}) = 1
    BY FS_Singleton
  <1>24. ASSUME NEW f \in Mounted PROVE MountedOK(f)'
    <2>1. MountedOK(f) /\ f \in File /\ f # fw /\ f # fr
      BY <1>1, <1>5, FileFacts DEF Counts
    <2>2. Holders(f)' = Holders(f) /\ refs'[f] = refs[f]
      BY <1>10, <1>20, <2>1
    <2> QED BY <1>2, <2>1, <2>2 DEF MountedOK, Roots
  <1>25. ASSUME NEW f \in Ends PROVE EndOK(f)'
    <2>1. EndOK(f) /\ f \in File /\ f[1] \in Pipe
      BY <1>1, FileFacts DEF Counts
    <2>2. CASE f = fw
      <3>1. IsFiniteSet(Holders(f)') /\ Cardinality(Holders(f)') = 1
        BY <1>21, <1>23, <2>2
      <3>2. /\ pipes'[f[1]] = "open" /\ refs'[f] = 1 /\ opens'[f] = 1 /\ freed'[f] = 0
        BY <1>2, <1>5, <1>10, <1>11, <1>12, <1>15, <2>2
      <3> QED BY <3>1, <3>2 DEF EndOK
    <2>3. CASE f = fr
      <3>1. IsFiniteSet(Holders(f)') /\ Cardinality(Holders(f)') = 1
        BY <1>22, <1>23, <2>3
      <3>2. /\ pipes'[f[1]] = "open" /\ refs'[f] = 1 /\ opens'[f] = 1 /\ freed'[f] = 0
        BY <1>2, <1>5, <1>10, <1>11, <1>12, <1>15, <2>3
      <3> QED BY <3>1, <3>2 DEF EndOK
    <2>4. CASE f # fw /\ f # fr
      <3>1. /\ Holders(f)' = Holders(f) /\ refs'[f] = refs[f] /\ opens'[f] = opens[f]
            /\ pipes'[f[1]] = pipes[f[1]]
        BY <1>6, <1>10, <1>11, <1>12, <1>20, <2>1, <2>4
      <3> QED BY <1>2, <2>1, <3>1 DEF EndOK
    <2> QED BY <2>2, <2>3, <2>4
  <1>26. ASSUME NEW e \in Pipe PROVE DataOK(e)'
    <2>1. DataOK(e) /\ <<e, "r">> \in Ends /\ <<e, "w">> \in Ends
      BY <1>1, FileFacts DEF Counts
    <2>2. CASE e = d
      BY <1>2, <1>11, <1>12, <2>1, <2>2, <1>0 DEF DataOK
    <2>3. CASE e # d
      <3>1. /\ opens'[<<e, "r">>] = opens[<<e, "r">>] /\ opens'[<<e, "w">>] = opens[<<e, "w">>]
            /\ pipes'[e] = pipes[e]
        BY <1>7, <1>11, <1>12, <2>1, <2>3
      <3> QED BY <1>2, <2>1, <3>1 DEF DataOK
    <2> QED BY <2>2, <2>3
  <1>27. Counts'
    BY <1>24, <1>25, <1>26 DEF Counts
  <1>28. TypeOK'
    BY <1>1, <1>2, <1>9, <1>10, <1>11, <1>12 DEF TypeOK
  <1>29. TableOK'
    <2> SUFFICES ASSUME NEW q \in Proc, state[q] # "alive", NEW j \in Fd PROVE fp'[q][j] = None
      BY <1>2, <1>3 DEF TableOK
    <2>1. fp[q][j] = None /\ q # p
      BY <1>1, <1>2, <1>3 DEF TableOK
    <2> QED BY <1>9, <2>1
  <1>30. MountOK' /\ CallOK'
    BY <1>1, <1>2, <1>3 DEF MountOK, MountList, CallOK
  <1> QED BY <1>27, <1>28, <1>29, <1>30 DEF IInv

(* pipe with fewer than two free descriptors *)
LEMMA PipeCallFailsKeeps ==
    ASSUME IInv, NEW p \in Proc, NEW d \in Pipe, PipeCallFails(p, d)
    PROVE  IInv'
  <1> DEFINE fw == <<d, "w">>
             fr == <<d, "r">>
             one == FreeFds(p) # {}
  <1>1. /\ TypeOK /\ MountOK /\ TableOK /\ CallOK /\ Counts
    BY DEF IInv
  <1>2. /\ call = Idle /\ pipes[d] = "unused"
        /\ freed' = [freed EXCEPT ![fr] = 1, ![fw] = IF one THEN 2 ELSE 1]
        /\ opens' = [opens EXCEPT ![fw] = IF one THEN 1 ELSE 0]
        /\ pipes' = [pipes EXCEPT ![d] = "failed"]
        /\ UNCHANGED <<mountpoints, state, fp, refs, call>>
    BY DEF PipeCallFails, Calling
  <1> HIDE DEF one
  <1>3. call.op = "none" /\ call # Booting
    BY <1>2, NotBooting
  <1>4. /\ fw \in Ends /\ fr \in Ends /\ fw \in Object /\ fr \in Object
        /\ fw \in File /\ fr \in File /\ fw[1] = d /\ fr[1] = d
        /\ \A f \in Ends : f[1] = d => f = fw \/ f = fr
        /\ \A f \in Ends : f[1] # d => f # fw /\ f # fr
        /\ \A e \in Pipe : <<e, "data">> \notin File
    BY FileFacts
  <1>5. /\ freed \in [Object -> Nat] /\ opens \in [Ends -> Nat]
        /\ pipes \in [Pipe -> {"unused", "open", "failed"}]
    BY <1>1 DEF TypeOK
  <1>6. /\ freed' \in [Object -> Nat]
        /\ \A o \in Object : o # fw /\ o # fr => freed'[o] = freed[o]
    BY <1>2, <1>4, <1>5
  <1>7. /\ opens' \in [Ends -> Nat] /\ \A f \in Ends : f # fw => opens'[f] = opens[f]
    BY <1>2, <1>4, <1>5
  <1>8. /\ pipes' \in [Pipe -> {"unused", "open", "failed"}] /\ pipes'[d] = "failed"
        /\ \A e \in Pipe : e # d => pipes'[e] = pipes[e]
    BY <1>2, <1>5
  <1>9. \A f \in File : Holders(f)' = Holders(f)
    BY <1>2, <1>3, SameTable
  <1> HIDE DEF fw, fr
  <1>10. ASSUME NEW f \in Mounted PROVE MountedOK(f)'
    <2>1. MountedOK(f) /\ f \in File /\ f \in Object /\ f # fw /\ f # fr
      BY <1>1, <1>4, FileFacts DEF Counts
    <2> QED BY <1>2, <1>6, <1>9, <2>1 DEF MountedOK, Roots
  <1>11. ASSUME NEW f \in Ends PROVE EndOK(f)'
    <2>1. EndOK(f) /\ f \in File /\ f \in Object /\ f[1] \in Pipe /\ Holders(f)' = Holders(f)
      BY <1>1, <1>9, FileFacts DEF Counts
    <2>2. CASE f[1] = d
      <3>1. Holders(f) = {} /\ IsFiniteSet(Holders(f))
        BY <1>2, <2>1, <2>2 DEF EndOK
      <3>2. pipes'[f[1]] = "failed"
        BY <1>8, <2>2
      <3> QED BY <2>1, <3>1, <3>2 DEF EndOK
    <2>3. CASE f[1] # d
      <3>1. f # fw /\ f # fr
        BY <1>4, <2>3
      <3>2. freed'[f] = freed[f] /\ opens'[f] = opens[f] /\ pipes'[f[1]] = pipes[f[1]]
        BY <1>6, <1>7, <1>8, <2>1, <2>3, <3>1
      <3> QED BY <1>2, <2>1, <3>2 DEF EndOK
    <2> QED BY <2>2, <2>3
  <1>12. ASSUME NEW e \in Pipe PROVE DataOK(e)'
    <2>1. /\ DataOK(e) /\ <<e, "r">> \in Ends /\ <<e, "w">> \in Ends /\ <<e, "data">> \in Object
          /\ <<e, "data">> # fw /\ <<e, "data">> # fr
      BY <1>1, <1>4, FileFacts DEF Counts
    <2>2. freed'[<<e, "data">>] = freed[<<e, "data">>]
      BY <1>6, <2>1
    <2>3. CASE e = d
      BY <1>8, <2>3 DEF DataOK
    <2>4. CASE e # d
      <3>1. <<e, "r">> # fw /\ <<e, "w">> # fw
        BY <2>4 DEF fw
      <3> QED BY <1>7, <1>8, <2>1, <2>2, <2>4, <3>1 DEF DataOK
    <2> QED BY <2>3, <2>4
  <1>13. Counts'
    BY <1>10, <1>11, <1>12 DEF Counts
  <1>14. TypeOK'
    BY <1>1, <1>2, <1>6, <1>7, <1>8 DEF TypeOK
  <1>15. MountOK' /\ TableOK' /\ CallOK'
    BY <1>1, <1>2, <1>3 DEF MountOK, MountList, TableOK, CallOK
  <1> QED BY <1>13, <1>14, <1>15 DEF IInv

(* fork, up to its first open descriptor *)
LEMMA ForkKeeps ==
    ASSUME IInv, NEW p \in Proc, NEW c \in Proc, Fork(p, c)
    PROVE  IInv'
  <1>0. PICK n : n = NextUsed(p, 0)
    OBVIOUS
  <1>1. /\ TypeOK /\ MountOK /\ TableOK /\ CallOK /\ Counts
    BY DEF IInv
  <1>2. /\ state[p] = "alive" /\ call = Idle /\ state[c] = "unused"
        /\ call' = [op |-> "fork", p |-> p, child |-> c, fd |-> n]
        /\ UNCHANGED <<mountpoints, state, fp, refs, opens, pipes, freed>>
    BY <1>0 DEF Fork, Calling
  <1>3. call.op = "none" /\ call # Booting
    BY <1>2, NotBooting
  <1>4. call'.op = "fork" /\ call'.p = p /\ call'.child = c /\ call'.fd = n
    BY <1>2
  <1>5. n \in 0..NumFp /\ (n = NumFp \/ (n \in Fd /\ fp[p][n] # None))
    BY <1>0, FdFacts, NextUsedLemma
  <1>6. \A f \in File : Holders(f)' = Holders(f)
    BY <1>2, <1>3, <1>4, SameTable
  <1>7. Counts'
    BY <1>1, <1>2, <1>6, CountsUnchanged
  <1>8. TypeOK'
    <2>1. call' \in [op : {"none", "fork", "exit", "halted", "kmain"}, p : Proc \cup {None},
                     child : Proc \cup {None}, fd : 0..NumFp]
      BY <1>2, <1>5
    <2> QED BY <1>1, <1>2, <2>1 DEF TypeOK
  <1>9. MountOK'
    BY <1>1, <1>2, <1>3 DEF MountOK, MountList
  <1>10. \A q \in Proc : state[q] # "alive" => \A i \in Fd : fp[q][i] = None
    BY <1>1, <1>3 DEF TableOK
  <1>11. TableOK' /\ CallOK'
    BY <1>2, <1>4, <1>5, <1>10 DEF TableOK, CallOK, AtOpen
  <1> QED BY <1>7, <1>8, <1>9, <1>11 DEF IInv

(* One descriptor of the loop of fork *)
LEMMA ForkSlotKeeps ==
    ASSUME IInv, ForkSlot
    PROVE  IInv'
  <1>0. PICK p, c, i, f, n : /\ p = call.p /\ c = call.child /\ i = call.fd
                             /\ f = fp[call.p][call.fd] /\ n = NextUsed(call.p, call.fd + 1)
    OBVIOUS
  <1>1. /\ TypeOK /\ MountOK /\ TableOK /\ CallOK /\ Counts
    BY DEF IInv
  <1>2. /\ call.op = "fork" /\ i \in Fd /\ call' = [call EXCEPT !.fd = n]
        /\ fs_get(f) /\ pipe_open(f) /\ fp' = [fp EXCEPT ![c][i] = f]
        /\ UNCHANGED <<mountpoints, state, pipes, freed>>
    BY <1>0 DEF ForkSlot
  <1>3. /\ p \in Proc /\ state[p] = "alive" /\ c \in Proc /\ state[c] = "unused" /\ p # c
        /\ \A j \in Fd : j >= i => fp[c][j] = None
        /\ i = NumFp \/ fp[p][i] # None
    BY <1>0, <1>1, <1>2 DEF CallOK, AtOpen
  <1>4. i \in Nat /\ i < NumFp /\ i >= i /\ i + 1 \in 0..NumFp /\ NumFp \in Nat
    BY <1>2, FdFacts
  <1>5. f = fp[p][i] /\ f # None /\ fp[c][i] = None
    BY <1>0, <1>2, <1>3, <1>4
  <1>6. IsOpen(p, i)
    BY <1>2, <1>5 DEF IsOpen
  <1>7. f \in File /\ Holders(f) # {} /\ (f \in Ends => pipes[f[1]] = "open")
    BY <1>1, <1>2, <1>3, <1>5, <1>6, HeldFile
  <1>8. call \in [op : {"none", "fork", "exit", "halted", "kmain"}, p : Proc \cup {None},
                  child : Proc \cup {None}, fd : 0..NumFp]
    BY <1>1 DEF TypeOK
  <1>9. call'.op = "fork" /\ call'.p = p /\ call'.child = c /\ call'.fd = n
    BY <1>0, <1>2, <1>8
  <1>10. /\ n \in (i + 1)..NumFp /\ (n = NumFp \/ (n \in Fd /\ fp[p][n] # None))
    BY <1>0, <1>3, <1>4, NextUsedLemma
  <1>11. n \in 0..NumFp /\ n > i
    BY <1>4, <1>10
  <1>12. /\ fp' \in [Proc -> [Fd -> File \cup {None}]]
         /\ \A q \in Proc, j \in Fd : <<q, j>> # <<c, i>> => fp'[q][j] = fp[q][j]
         /\ fp'[c][i] = f
    <2>1. f \in File \cup {None}
      BY <1>7
    <2> QED BY <1>1, <1>2, <1>3, <2>1, SlotChanged
  <1>13. /\ \A g \in File : g # f => Holders(g)' = Holders(g)
         /\ IsFiniteSet(Holders(f)) =>
             /\ IsFiniteSet(Holders(f)')
             /\ Cardinality(Holders(f)') = Cardinality(Holders(f)) + 1
    BY <1>2, <1>3, <1>5, <1>7, <1>9, <1>12, OpenedSlot
  <1>14. Counts'
    BY <1>1, <1>2, <1>7, <1>13, CountsMore
  <1>15. TypeOK'
    <2>1. refs' \in [File -> Nat]
      BY <1>1, <1>2, <1>7 DEF TypeOK, fs_get
    <2>2. opens' \in [Ends -> Nat]
      BY <1>1, <1>2, <1>7 DEF TypeOK, pipe_open
    <2>3. call' \in [op : {"none", "fork", "exit", "halted", "kmain"}, p : Proc \cup {None},
                     child : Proc \cup {None}, fd : 0..NumFp]
      BY <1>2, <1>8, <1>11
    <2> QED BY <1>1, <1>2, <1>12, <2>1, <2>2, <2>3 DEF TypeOK
  <1>16. MountOK'
    <2>1. call # Booting
      BY <1>2, NotBooting
    <2> QED BY <1>1, <1>2, <2>1 DEF MountOK, MountList
  <1>17. TableOK'
    <2> SUFFICES ASSUME NEW q \in Proc, state[q] # "alive", q # c, NEW j \in Fd
                 PROVE  fp'[q][j] = None
      BY <1>2, <1>9 DEF TableOK
    <2>1. fp[q][j] = None
      BY <1>0, <1>1 DEF TableOK
    <2> QED BY <1>12, <2>1
  <1>18. CallOK'
    <2>1. \A j \in Fd : j >= n => fp'[c][j] = None
      <3> SUFFICES ASSUME NEW j \in Fd, j >= n PROVE fp'[c][j] = None
        OBVIOUS
      <3>1. j > i /\ j >= i /\ j # i
        BY <1>4, <1>11, FdFacts
      <3> QED BY <1>3, <1>12, <3>1
    <2>2. n = NumFp \/ fp'[p][n] # None
      BY <1>3, <1>10, <1>12
    <2> QED BY <1>2, <1>3, <1>9, <2>1, <2>2 DEF CallOK, AtOpen
  <1> QED BY <1>14, <1>15, <1>16, <1>17, <1>18 DEF IInv

(* The end of fork *)
LEMMA ForkReturnKeeps ==
    ASSUME IInv, ForkReturn
    PROVE  IInv'
  <1>0. PICK c : c = call.child
    OBVIOUS
  <1>1. /\ TypeOK /\ MountOK /\ TableOK /\ CallOK /\ Counts
    BY DEF IInv
  <1>2. /\ call.op = "fork" /\ state' = [state EXCEPT ![c] = "alive"] /\ call' = Idle
        /\ UNCHANGED <<mountpoints, fp, refs, opens, pipes, freed>>
    BY <1>0 DEF ForkReturn
  <1>3. c \in Proc /\ call'.op = "none" /\ call # Booting
    BY <1>0, <1>1, <1>2, NotBooting DEF CallOK, Idle
  <1>4. \A f \in File : Holders(f)' = Holders(f)
    BY <1>2, <1>3, SameTable
  <1>5. Counts'
    BY <1>1, <1>2, <1>4, CountsUnchanged
  <1>6. state \in [Proc -> {"unused", "alive", "zombie"}]
    BY <1>1 DEF TypeOK
  <1>7. /\ state' \in [Proc -> {"unused", "alive", "zombie"}]
        /\ state'[c] = "alive" /\ \A q \in Proc : q # c => state'[q] = state[q]
    BY <1>2, <1>3, <1>6
  <1>8. TypeOK'
    <2>1. call' \in [op : {"none", "fork", "exit", "halted", "kmain"}, p : Proc \cup {None},
                     child : Proc \cup {None}, fd : 0..NumFp]
      BY <1>2, FdFacts DEF Idle
    <2> QED BY <1>1, <1>2, <1>7, <2>1 DEF TypeOK
  <1>9. MountOK'
    BY <1>1, <1>2, <1>3 DEF MountOK, MountList
  <1>10. TableOK'
    <2> SUFFICES ASSUME NEW q \in Proc, state'[q] # "alive", NEW j \in Fd PROVE fp[q][j] = None
      BY <1>2 DEF TableOK
    <2>1. q # c /\ state[q] # "alive"
      BY <1>7
    <2> QED BY <1>0, <1>1, <2>1 DEF TableOK
  <1>11. CallOK'
    BY <1>2, <1>3 DEF CallOK
  <1> QED BY <1>5, <1>8, <1>9, <1>10, <1>11 DEF IInv

(* exit, up to its first open descriptor *)
LEMMA ExitKeeps ==
    ASSUME IInv, NEW p \in Proc, Exit(p)
    PROVE  IInv'
  <1>0. PICK n : n = NextUsed(p, 0)
    OBVIOUS
  <1>1. /\ TypeOK /\ MountOK /\ TableOK /\ CallOK /\ Counts
    BY DEF IInv
  <1>2. /\ state[p] = "alive" /\ call = Idle
        /\ call' = [op |-> "exit", p |-> p, child |-> None, fd |-> n]
        /\ UNCHANGED <<mountpoints, state, fp, refs, opens, pipes, freed>>
    BY <1>0 DEF Exit, Calling
  <1>3. call.op = "none" /\ call # Booting
    BY <1>2, NotBooting
  <1>4. call'.op = "exit" /\ call'.p = p /\ call'.fd = n
    BY <1>2
  <1>5. /\ n \in 0..NumFp /\ (n = NumFp \/ (n \in Fd /\ fp[p][n] # None))
        /\ \A j \in Fd : 0 <= j /\ j < n => fp[p][j] = None
    BY <1>0, FdFacts, NextUsedLemma
  <1>6. \A q \in Proc, j \in Fd : Held(q, j)' = Held(q, j)
    <2> SUFFICES ASSUME NEW q \in Proc, NEW j \in Fd PROVE Held(q, j)' = Held(q, j)
      OBVIOUS
    <2>1. q = p /\ j < n => fp[q][j] = None
      BY <1>5, FdFacts
    <2> QED BY <1>2, <1>3, <1>4, <2>1 DEF Held, IsOpen
  <1>7. \A f \in File : Holders(f)' = Holders(f)
    BY <1>6, SameHolders
  <1>8. Counts'
    BY <1>1, <1>2, <1>7, CountsUnchanged
  <1>9. TypeOK'
    <2>1. call' \in [op : {"none", "fork", "exit", "halted", "kmain"}, p : Proc \cup {None},
                     child : Proc \cup {None}, fd : 0..NumFp]
      BY <1>2, <1>5
    <2> QED BY <1>1, <1>2, <2>1 DEF TypeOK
  <1>10. MountOK'
    BY <1>1, <1>2, <1>3 DEF MountOK, MountList
  <1>11. TableOK' /\ CallOK'
    BY <1>1, <1>2, <1>3, <1>4, <1>5 DEF TableOK, CallOK, AtOpen
  <1> QED BY <1>8, <1>9, <1>10, <1>11 DEF IInv

(* One descriptor of the loop of exit *)
LEMMA ExitSlotKeeps ==
    ASSUME IInv, ExitSlot
    PROVE  IInv'
  <1>0. PICK p, i, f, n : /\ p = call.p /\ i = call.fd /\ f = fp[call.p][call.fd]
                          /\ n = NextUsed(call.p, call.fd + 1)
    OBVIOUS
  <1>1. /\ TypeOK /\ MountOK /\ TableOK /\ CallOK /\ Counts
    BY DEF IInv
  <1>2. /\ call.op = "exit" /\ i \in Fd /\ call' = [call EXCEPT !.fd = n] /\ Release(f)
        /\ UNCHANGED <<mountpoints, state, fp, pipes>>
    BY <1>0 DEF ExitSlot
  <1>3. p \in Proc /\ state[p] = "alive" /\ (i = NumFp \/ fp[p][i] # None)
    BY <1>0, <1>1, <1>2 DEF CallOK, AtOpen
  <1>4. i \in Nat /\ i < NumFp /\ i + 1 \in 0..NumFp /\ NumFp \in Nat
    BY <1>2, FdFacts
  <1>5. f = fp[p][i] /\ f # None
    BY <1>0, <1>3, <1>4
  <1>6. IsOpen(p, i)
    BY <1>0, <1>4, <1>5 DEF IsOpen
  <1>7. f \in File /\ Held(p, i) = f
    BY <1>1, <1>2, <1>3, <1>5, <1>6, HeldFile
  <1>8. call \in [op : {"none", "fork", "exit", "halted", "kmain"}, p : Proc \cup {None},
                  child : Proc \cup {None}, fd : 0..NumFp]
    BY <1>1 DEF TypeOK
  <1>9. call'.op = "exit" /\ call'.p = p /\ call'.fd = n /\ call'.child = call.child
    BY <1>0, <1>2, <1>8
  <1>10. /\ n \in (i + 1)..NumFp /\ (n = NumFp \/ (n \in Fd /\ fp[p][n] # None))
         /\ \A j \in Fd : i + 1 <= j /\ j < n => fp[p][j] = None
    BY <1>0, <1>3, <1>4, NextUsedLemma
  <1>11. n \in 0..NumFp /\ n > i
    BY <1>4, <1>10
  <1>12. Held(p, i)' = None
    BY <1>9, <1>11 DEF Held, IsOpen
  <1>13. \A q \in Proc, j \in Fd : <<q, j>> # <<p, i>> => Held(q, j)' = Held(q, j)
    <2> SUFFICES ASSUME NEW q \in Proc, NEW j \in Fd, <<q, j>> # <<p, i>>
                 PROVE  Held(q, j)' = Held(q, j)
      OBVIOUS
    <2>1. CASE q # p
      BY <1>0, <1>2, <1>9, <2>1 DEF Held, IsOpen
    <2>2. CASE q = p /\ j < i
      <3>1. j < n
        BY <1>4, <1>11, <2>2, FdFacts
      <3> QED BY <1>0, <1>2, <1>9, <2>2, <3>1 DEF Held, IsOpen
    <2>3. CASE q = p /\ j > i
      <3>1. j < n => fp[p][j] = None
        BY <1>4, <1>10, <2>3, FdFacts
      <3>2. ~(j < i)
        BY <1>4, <2>3, FdFacts
      <3> QED BY <1>0, <1>2, <1>9, <2>3, <3>1, <3>2 DEF Held, IsOpen
    <2>4. q # p \/ j < i \/ j > i
      BY <1>4, FdFacts
    <2> QED BY <2>1, <2>2, <2>3, <2>4
  <1>14. /\ \A g \in File : g # f => Holders(g)' = Holders(g)
         /\ Holders(f) # {}
         /\ IsFiniteSet(Holders(f)) =>
             /\ IsFiniteSet(Holders(f)')
             /\ Cardinality(Holders(f)') = Cardinality(Holders(f)) - 1
    BY <1>2, <1>3, <1>7, <1>12, <1>13, OneLess
  <1>15. call # Booting
    BY <1>2, NotBooting
  <1>16. f \in Mounted => f \in Roots
    BY <1>1, <1>15, AllMounted
  <1>17. /\ Counts'
         /\ refs' \in [File -> Nat] /\ opens' \in [Ends -> Nat] /\ freed' \in [Object -> Nat]
    BY <1>1, <1>2, <1>7, <1>14, <1>16, CountsLess
  <1>18. TypeOK'
    <2>1. call' \in [op : {"none", "fork", "exit", "halted", "kmain"}, p : Proc \cup {None},
                     child : Proc \cup {None}, fd : 0..NumFp]
      BY <1>2, <1>8, <1>11
    <2> QED BY <1>1, <1>2, <1>17, <2>1 DEF TypeOK
  <1>19. MountOK'
    BY <1>1, <1>2, <1>15 DEF MountOK, MountList
  <1>20. TableOK' /\ CallOK'
    BY <1>1, <1>2, <1>3, <1>9, <1>10 DEF TableOK, CallOK, AtOpen
  <1> QED BY <1>17, <1>18, <1>19, <1>20 DEF IInv

(* The end of exit *)
LEMMA ExitReturnKeeps ==
    ASSUME IInv, ExitReturn
    PROVE  IInv'
  <1>0. PICK p : p = call.p
    OBVIOUS
  <1>1. /\ TypeOK /\ MountOK /\ TableOK /\ CallOK /\ Counts
    BY DEF IInv
  <1>2. /\ call.op = "exit" /\ call.fd = NumFp /\ state' = [state EXCEPT ![p] = "zombie"]
        /\ fp' = [fp EXCEPT ![p] = [i \in Fd |-> None]] /\ call' = Idle
        /\ UNCHANGED <<mountpoints, refs, opens, pipes, freed>>
    BY <1>0 DEF ExitReturn
  <1>3. p \in Proc /\ call'.op = "none" /\ call # Booting
    BY <1>0, <1>1, <1>2, NotBooting DEF CallOK, Idle
  <1>4. /\ state \in [Proc -> {"unused", "alive", "zombie"}]
        /\ fp \in [Proc -> [Fd -> File \cup {None}]]
    BY <1>1 DEF TypeOK
  <1>5. /\ state' \in [Proc -> {"unused", "alive", "zombie"}]
        /\ \A q \in Proc : q # p => state'[q] = state[q]
    BY <1>2, <1>3, <1>4
  <1>6. /\ fp' \in [Proc -> [Fd -> File \cup {None}]]
        /\ \A q \in Proc : q # p => fp'[q] = fp[q]
        /\ \A j \in Fd : fp'[p][j] = None
    BY <1>2, <1>3, <1>4
  <1>7. \A q \in Proc, j \in Fd : Held(q, j)' = Held(q, j)
    <2> SUFFICES ASSUME NEW q \in Proc, NEW j \in Fd PROVE Held(q, j)' = Held(q, j)
      OBVIOUS
    <2>1. CASE q = p
      <3>1. j < call.fd /\ call.p = q
        BY <1>0, <1>2, <2>1, FdFacts
      <3> QED BY <1>2, <1>6, <2>1, <3>1 DEF Held, IsOpen
    <2>2. CASE q # p
      BY <1>0, <1>3, <1>6, <2>2 DEF Held, IsOpen
    <2> QED BY <2>1, <2>2
  <1>8. \A f \in File : Holders(f)' = Holders(f)
    BY <1>7, SameHolders
  <1>9. Counts'
    BY <1>1, <1>2, <1>8, CountsUnchanged
  <1>10. TypeOK'
    <2>1. call' \in [op : {"none", "fork", "exit", "halted", "kmain"}, p : Proc \cup {None},
                     child : Proc \cup {None}, fd : 0..NumFp]
      BY <1>2, FdFacts DEF Idle
    <2> QED BY <1>1, <1>2, <1>5, <1>6, <2>1 DEF TypeOK
  <1>11. MountOK'
    BY <1>1, <1>2, <1>3 DEF MountOK, MountList
  <1>12. TableOK'
    <2> SUFFICES ASSUME NEW q \in Proc, state'[q] # "alive", NEW j \in Fd PROVE fp'[q][j] = None
      BY DEF TableOK
    <2>1. CASE q = p
      BY <1>6, <2>1
    <2>2. CASE q # p
      BY <1>1, <1>2, <1>5, <1>6, <2>2 DEF TableOK
    <2> QED BY <2>1, <2>2
  <1>13. CallOK'
    BY <1>2, <1>3 DEF CallOK
  <1> QED BY <1>9, <1>10, <1>11, <1>12, <1>13 DEF IInv

-----------------------------------------------------------------------------
(* The theorems *)

(* The state in which kmain begins to mount satisfies the invariant. *)
LEMMA InitInvariant ==
    ASSUME Init
    PROVE  IInv
  <1>1. /\ mountpoints = <<>> /\ call = Booting
        /\ state = [p \in Proc |-> "unused"]
        /\ fp = [p \in Proc |-> [i \in Fd |-> None]]
        /\ refs = [f \in File |-> IF f = DebugFile THEN 1 ELSE 0]
        /\ opens = [f \in Ends |-> 0]
        /\ pipes = [d \in Pipe |-> "unused"]
        /\ freed = [o \in Object |-> 0]
    BY DEF Init
  <1>2. call.op = "kmain" /\ call.op # "none" /\ call.op # "fork" /\ call.op # "exit"
    BY <1>1 DEF Booting, Idle
  <1>3. TypeOK
    <2>1. call \in [op : {"none", "fork", "exit", "halted", "kmain"}, p : Proc \cup {None},
                    child : Proc \cup {None}, fd : 0..NumFp]
      BY <1>1, FdFacts DEF Booting, Idle
    <2>2. DOMAIN mountpoints = {}
      BY <1>1
    <2> QED BY <1>1, <2>1, <2>2 DEF TypeOK
  <1>4. MountOK
    <2>1. /\ mountpoints \in Seq([path : Seq(Character), root : Mounted])
          /\ Len(mountpoints) = 0
      BY <1>1, EmptySeq
    <2>2. Len(Boot) \in Nat
      BY FilesAssumption, LenProperties
    <2> QED BY <1>1, <2>1, <2>2 DEF MountOK, MountList
  <1>5. TableOK
    BY <1>1 DEF TableOK
  <1>6. CallOK
    BY <1>1, <1>2 DEF CallOK
  <1>7. \A f : Holders(f) = {}
    BY <1>1 DEF Holders, IsOpen
  <1>8. ASSUME NEW f \in Mounted PROVE MountedOK(f)
    <2>1. freed[f] = 0
      BY <1>1, FileFacts
    <2>2. Roots = {}
      <3>1. Len(mountpoints) = 0
        BY <1>1, EmptySeq
      <3> QED BY <3>1 DEF Roots
    <2> QED BY <1>7, <2>1, <2>2, FS_EmptySet DEF MountedOK
  <1>9. ASSUME NEW f \in Ends PROVE EndOK(f)
    <2>1. freed[f] = 0 /\ pipes[f[1]] = "unused"
      BY <1>1, FileFacts
    <2> QED BY <1>7, <2>1, FS_EmptySet DEF EndOK
  <1>10. ASSUME NEW d \in Pipe PROVE DataOK(d)
    BY <1>1, FileFacts DEF DataOK
  <1> QED BY <1>3, <1>4, <1>5, <1>6, <1>8, <1>9, <1>10 DEF IInv, Counts

(* Every step keeps the invariant. *)
LEMMA NextInvariant ==
    ASSUME IInv, [Next]_vars
    PROVE  IInv'
  <1>1. CASE UNCHANGED vars
    <2>1. UNCHANGED <<mountpoints, state, fp, refs, opens, pipes, freed, call>>
      BY <1>1 DEF vars
    <2>2. \A f : Holders(f)' = Holders(f)
      BY <2>1 DEF Holders, IsOpen
    <2>3. TypeOK' /\ MountOK' /\ TableOK' /\ CallOK'
      BY <2>1 DEF IInv, TypeOK, MountOK, MountList, TableOK, CallOK, AtOpen
    <2>4. Counts'
      BY <2>1, <2>2, CountsUnchanged DEF IInv
    <2> QED BY <2>3, <2>4 DEF IInv
  <1>2. CASE Next
    <2>1. ASSUME NEW p \in Proc, NEW path \in Path,
                 Open(p, path) \/ OpenFails(p, path) \/ OpenHalts(p, path)
          PROVE  IInv'
      BY <2>1, OpenKeeps, OpenFailsKeeps, OpenHaltsKeeps
    <2>2. ASSUME NEW p \in Proc, NEW i \in Fd, Close(p, i) PROVE IInv'
      BY <2>2, CloseKeeps
    <2>3. ASSUME NEW p \in Proc, NEW d \in Pipe, PipeCall(p, d) \/ PipeCallFails(p, d) PROVE IInv'
      BY <2>3, PipeCallKeeps, PipeCallFailsKeeps
    <2>4. ASSUME NEW p \in Proc, NEW c \in Proc, Fork(p, c) PROVE IInv'
      BY <2>4, ForkKeeps
    <2>5. ASSUME NEW p \in Proc, Exit(p) PROVE IInv'
      BY <2>5, ExitKeeps
    <2>6. CASE fs_mount \/ Kmain
      BY <2>6, MountStep, KmainKeeps
    <2>7. CASE ForkSlot \/ ForkReturn \/ ExitSlot \/ ExitReturn
      BY <2>7, ForkSlotKeeps, ForkReturnKeeps, ExitSlotKeeps, ExitReturnKeeps
    <2> QED BY <1>2, <2>1, <2>2, <2>3, <2>4, <2>5, <2>6, <2>7 DEF Next
  <1> QED BY <1>1, <1>2

(* The invariant holds in every reachable state. *)
THEOREM Invariant == Spec => []IInv
  <1>1. Init => IInv
    BY InitInvariant
  <1>2. IInv /\ [Next]_vars => IInv'
    BY NextInvariant
  <1> QED BY <1>1, <1>2, PTL DEF Spec

(* The tables and the counts keep their types: in particular no reference count *)
(* and no count of a pipe's readers or writers goes below 0.                    *)
THEOREM TypeCorrect == Spec => []TypeOK
  <1>1. IInv => TypeOK
    BY DEF IInv
  <1> QED BY <1>1, Invariant, PTL

(* However processes fork, open, close and exit, a file has a reference for each *)
(* of its open descriptors, and the end of a pipe has no others.                 *)
THEOREM ReferencesCounted == Spec => []RefsCount
  <1>1. ASSUME IInv PROVE RefsCount
    <2>1. MountOK /\ Counts
      BY <1>1 DEF IInv
    <2>2. ASSUME NEW mp \in Range(mountpoints)
          PROVE  refs[mp.root] >= Cardinality(Holders(mp.root)) + 1
      <3>1. PICK m \in DOMAIN mountpoints : mp = mountpoints[m]
        BY <2>2 DEF Range
      <3>2. mp.root \in Mounted /\ m \in 1..Len(mountpoints)
        BY <2>1, <3>1, MountTypes DEF MountOK
      <3>3. mp.root \in Roots
        BY <3>1, <3>2 DEF Roots
      <3> QED BY <2>1, <3>2, <3>3 DEF Counts, MountedOK
    <2>3. ASSUME NEW f \in Ends, pipes[f[1]] = "open" PROVE refs[f] = Cardinality(Holders(f))
      BY <2>1, <2>3 DEF Counts, EndOK
    <2> QED BY <2>2, <2>3 DEF RefsCount
  <1> QED BY <1>1, Invariant, PTL

(* No open descriptor names freed memory, and no mounted file is freed. *)
THEOREM NeverDangling == Spec => []NoDangling
  <1>1. ASSUME IInv PROVE NoDangling
    <2>1. TypeOK /\ Counts
      BY <1>1 DEF IInv
    <2>2. \A m \in Mounted : freed[m] = 0
      BY <2>1 DEF Counts, MountedOK
    <2>3. ASSUME NEW p \in Proc, NEW i \in Fd, IsOpen(p, i)
          PROVE  /\ freed[fp[p][i]] = 0
                 /\ fp[p][i] \in Ends => freed[<<fp[p][i][1], "data">>] = 0
      <3>1. PICK f : f = fp[p][i]
        OBVIOUS
      <3>2. f \in File /\ Holders(f) # {} /\ (f \in Ends => pipes[f[1]] = "open")
        BY <2>1, <2>3, <3>1, HeldFile
      <3>3. CASE f \in Mounted
        BY <2>2, <3>1, <3>3, FileFacts
      <3>4. CASE f \in Ends
        <4>1. /\ freed[f] = 0 /\ IsFiniteSet(Holders(f)) /\ opens[f] = Cardinality(Holders(f))
          BY <2>1, <3>2, <3>4 DEF Counts, EndOK
        <4>2. opens[f] # 0
          BY <3>2, <4>1, CardFacts
        <4>3. f[1] \in Pipe /\ (f = <<f[1], "r">> \/ f = <<f[1], "w">>)
          BY <3>4, FileFacts
        <4>4. DataOK(f[1]) /\ pipes[f[1]] = "open"
          BY <2>1, <3>2, <3>4, <4>3 DEF Counts
        <4>5. freed[<<f[1], "data">>] = 0
          BY <4>2, <4>3, <4>4 DEF DataOK
        <4> QED BY <3>1, <4>1, <4>5
      <3> QED BY <3>2, <3>3, <3>4 DEF File
    <2> QED BY <2>2, <2>3 DEF NoDangling
  <1> QED BY <1>1, Invariant, PTL

(* readers and writers count the descriptors of each end, and the pipe's data lives *)
(* exactly until the last of them is closed.                                        *)
THEOREM PipesCounted == Spec => []PipeCounts
  <1>1. ASSUME IInv PROVE PipeCounts
    <2> SUFFICES ASSUME NEW d \in Pipe, pipes[d] = "open"
                 PROVE  /\ \A e \in {"r", "w"} : opens[<<d, e>>] = Cardinality(Holders(<<d, e>>))
                        /\ (freed[<<d, "data">>] = 0) <=> (\E e \in {"r", "w"} : opens[<<d, e>>] # 0)
      BY DEF PipeCounts
    <2>1. Counts
      BY <1>1 DEF IInv
    <2>2. ASSUME NEW e \in {"r", "w"} PROVE opens[<<d, e>>] = Cardinality(Holders(<<d, e>>))
      <3>1. EndOK(<<d, e>>) /\ <<d, e>>[1] = d
        BY <2>1, FileFacts DEF Counts
      <3> QED BY <3>1 DEF EndOK
    <2>3. DataOK(d)
      BY <2>1 DEF Counts
    <2> QED BY <2>2, <2>3 DEF DataOK
  <1> QED BY <1>1, Invariant, PTL

(* For every list of mount points that kmain makes, and paths of every length, a path *)
(* leads to a file exactly when one is mounted at it, and then to that one.           *)
THEOREM LookupsExact == Spec => []LookupExact
  <1>1. ASSUME MountOK PROVE LookupExact
    <2> SUFFICES ASSUME NEW path \in String
                 PROVE  IF Closest(path) = None
                        THEN Char(path, 1) # Sep \/ mountpoints = <<>>
                        ELSE Char(path, 1) = Sep /\ Named(path) = MountedAt(mountpoints, path)
      BY DEF LookupExact
    <2>1. MountList(mountpoints)
      BY <1>1 DEF MountOK
    <2>2. path \in Seq(Character)
      BY StringLemma
    <2>3. CASE Closest(path) # None
      BY <2>1, <2>2, <2>3, LookupLemma DEF Closest, Named
    <2>4. CASE Closest(path) = None /\ mountpoints # <<>>
      <3>1. Char(path, 1) # Sep
        BY <2>1, <2>2, <2>4, RootFound DEF Closest
      <3> QED BY <2>4, <3>1
    <2> QED BY <2>3, <2>4
  <1>2. IInv => MountOK
    BY DEF IInv
  <1> QED BY <1>1, <1>2, Invariant, PTL
=============================================================================
