------------------------------- MODULE Paths -------------------------------
(***************************************************************************)
(* How a path becomes a file: fs_closest_mp, pathtok and fs_namef          *)
(* (fs/vfs.c) on a list of mount points, and the kernel's own strncmp      *)
(* (mem/string.c).  A string is a sequence of characters; the 0 that ends  *)
(* it is what lies past its end.                                           *)
(***************************************************************************)
EXTENDS Naturals, Sequences, FiniteSetsExt, SequencesExt

CONSTANTS
    Character,   \* the characters of the paths that are looked up
    MaxPath,     \* bound: their length
    None         \* the null pointer

Sep == "/"
Nul == "0"

ASSUME PathsAssumption ==
    /\ Nul \notin Character
    /\ MaxPath \in Nat
    /\ None \notin Seq(Character)

String == SeqOf(Character, MaxPath)

Char(s, i) == IF i <= Len(s) THEN s[i] ELSE Nul
From(s, i) == SubSeq(s, i, Len(s))

(* Mutant: a strncmp that is done when n characters are equal, as in a C library *)
strncmp_Standard(s1, s2, n) ==
    \E i \in 1..n : /\ \A j \in 1..(i - 1) : Char(s1, j) = Char(s2, j) /\ Char(s1, j) # Nul
                    /\ Char(s1, i) # Char(s2, i)

(* The kernel's strncmp is not 0: its loop stops after n characters, but the *)
(* difference it returns is that of the characters which come next           *)
strncmp(s1, s2, n) ==
    LET stop == Min({k \in 1..(n + 1) : \/ k = n + 1
                                        \/ Char(s1, k) = Nul
                                        \/ Char(s1, k) # Char(s2, k)})
    IN  Char(s1, stop) # Char(s2, stop)

(* The mount point that fs_closest_mp keeps: the first of the longest that match *)
fs_closest_mp(mounts, path) ==
    LET len(m) == Len(mounts[m].path)
        match == {m \in DOMAIN mounts :
                    len(m) > 0 /\ ~strncmp(mounts[m].path, path, len(m) - 1)}
        best == {m \in match : \A k \in match : len(k) < len(m) \/ (len(k) = len(m) /\ m <= k)}
    IN  IF match = {} THEN None ELSE mounts[CHOOSE m \in best : TRUE]

(* pathtok finds a name in what is left of the path, even an empty one *)
pathtok(p) ==
    LET start == Min({k \in 1..(Len(p) + 1) : Char(p, k) # Sep})
        stop  == Min({k \in start..(Len(p) + 1) : Char(p, k) \in {Sep, Nul}})
    IN  IF p = <<>> THEN None ELSE SubSeq(p, start, stop - 1)

(* No driver has a readdir, so fs_readdir has no entry to give *)
fs_finddir(dir, name) == None

(* fs_namef, of a path that has a mount point.  Its loop ends with the first *)
(* name, which fs_finddir does not find.                                     *)
fs_namef(mounts, path) ==
    LET mp == fs_closest_mp(mounts, path)
        name == pathtok(From(path, Len(mp.path) + 1))
    IN  IF name = None THEN mp.root ELSE fs_finddir(mp.root, name)

(* What a lookup should find: the file that was mounted at the path *)
MountedAt(mounts, path) ==
    LET at == {mp \in Range(mounts) : mp.path = path}
    IN  IF at = {} THEN None ELSE (CHOOSE mp \in at : TRUE).root
=============================================================================
