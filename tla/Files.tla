------------------------------- MODULE Files -------------------------------
(***************************************************************************)
(* Open files: the descriptor tables of the processes, the reference       *)
(* counts of fs_get and fs_put (fs/vfs.c), the life of a pipe              *)
(* (fs/pipe.c), and the system calls that touch them: open, close and pipe *)
(* (syscall/sys_fs.c), and the part of fork and exit that copies or        *)
(* releases the descriptors (proc/process.c).                              *)
(*                                                                         *)
(* The kernel is not preempted and none of these calls yields, so on a     *)
(* machine with one CPU a call runs to its end; the loops of fork and exit *)
(* are one step per descriptor.  Memory is never reused: freed counts the  *)
(* calls of kfree on each object, which makes a second one visible.        *)
(***************************************************************************)
EXTENDS Paths, FiniteSets

CONSTANTS
    Proc,       \* process slots
    InitProc,   \* the process that kmain creates
    Boot,       \* what kmain and ata_fs_init mount, in order: paths and files
    Path,       \* the paths that programs open
    DebugPath,  \* the one that kmain opens for init
    DebugFile,  \* debug_file
    Pipe,       \* slots for struct pipe_data
    NumFp,      \* PROC_NUMFP
    MaxRefs     \* bound: failed lookups stop at this many references

(* The files at the mount points, of drivers that have no open or close *)
Mounted == {Boot[m].root : m \in DOMAIN Boot}

Fd   == 0..(NumFp - 1)
Ends == Pipe \X {"r", "w"}              \* the two file_t of a pipe
File == Mounted \cup Ends

(* What kcalloc returns to pipe() *)
Allocated == Pipe \X {"r", "w", "data", "buffer"}

Object == Mounted \cup Allocated

(* kmain mounts the root first, and no two files at one path *)
ASSUME FilesAssumption ==
    /\ InitProc \in Proc
    /\ Boot \in Seq([path : Seq(Character), root : Mounted])
    /\ Boot # <<>> /\ Boot[1].path = <<Sep>>
    /\ \A m \in DOMAIN Boot : Boot[m].path # <<>> /\ Boot[m].path[1] = Sep
    /\ \A m, k \in DOMAIN Boot : Boot[m].path = Boot[k].path => m = k
    /\ Path \cup {DebugPath} \subseteq Seq(Character)
    /\ DebugFile \in Mounted /\ MountedAt(Boot, DebugPath) = DebugFile
    /\ Mounted \cap Allocated = {}
    /\ None \notin Range(Boot) \cup Mounted \cup Allocated
    /\ NumFp \in Nat \ {0, 1}
    /\ MaxRefs \in Nat

VARIABLES
    mountpoints,
    state,    \* of each process: "unused", "alive" or "zombie"
    fp,       \* process_t.fp[].file
    refs,     \* file_t.refs
    opens,    \* readers and writers of struct pipe_data, by the end they count
    pipes,    \* of each pipe: "unused", "open", or "failed" if the call failed
    freed,    \* history: how often kfree was called on an object
    call      \* the loop under way: its kind, process, child and next descriptor

vars == <<mountpoints, state, fp, refs, opens, pipes, freed, call>>

Idle == [op |-> "none", p |-> None, child |-> None, fd |-> 0]

Booting == [Idle EXCEPT !.op = "kmain"]

(* kmain before its first fs_mount: debug_file is made with one reference *)
Init ==
    /\ mountpoints = <<>>
    /\ state = [p \in Proc |-> "unused"]
    /\ fp = [p \in Proc |-> [i \in Fd |-> None]]
    /\ refs = [f \in File |-> IF f = DebugFile THEN 1 ELSE 0]
    /\ opens = [f \in Ends |-> 0]
    /\ pipes = [d \in Pipe |-> "unused"]
    /\ freed = [o \in Object |-> 0]
    /\ call = Booting

Calling(p) == state[p] = "alive" /\ call = Idle

FreeFds(p) == {i \in Fd : fp[p][i] = None}

(* The loops of fork and exit do nothing for a descriptor that is not open *)
NextUsed(p, i) == Min({j \in i..NumFp : j \notin FreeFds(p)})

-----------------------------------------------------------------------------
(* The counts *)

fs_get(f) == refs' = [refs EXCEPT ![f] = @ + 1]

(* fs_open: only pipes have an open function *)
pipe_open(f) ==
    opens' = IF f \in Ends THEN [opens EXCEPT ![f] = @ + 1] ELSE opens

(* Mutant: the pipe is freed when one of its ends is closed *)
LastClose_Either(f) ==
    /\ f \in Ends
    /\ LET left == [opens EXCEPT ![f] = @ - 1]
       IN  left[<<f[1], "r">>] = 0 \/ left[<<f[1], "w">>] = 0

(* pipe_close has closed the last descriptor of both ends *)
LastClose(f) ==
    /\ f \in Ends
    /\ LET left == [opens EXCEPT ![f] = @ - 1]
       IN  left[<<f[1], "r">>] = 0 /\ left[<<f[1], "w">>] = 0

(* Mutant: fs_close is not called *)
Release_NoClose(f) ==
    /\ refs' = [refs EXCEPT ![f] = @ - 1]
    /\ freed' = [freed EXCEPT ![f] = @ + (IF refs[f] = 1 THEN 1 ELSE 0)]
    /\ UNCHANGED opens

(* fs_close(f), in which pipe_close may free the pipe and f, and fs_put(f) *)
Release(f) ==
    /\ opens' = IF f \in Ends THEN [opens EXCEPT ![f] = @ - 1] ELSE opens
    /\ refs' = [refs EXCEPT ![f] = @ - 1]
    /\ freed' = [o \in Object |->
                    freed[o] + (IF LastClose(f) /\ o \in {f, <<f[1], "data">>} THEN 1 ELSE 0)
                             + (IF refs[f] = 1 /\ o = f THEN 1 ELSE 0)]

-----------------------------------------------------------------------------
(* kmain *)

fs_mount ==
    LET mp == Boot[Len(mountpoints) + 1] IN
    /\ call = Booting
    /\ Len(mountpoints) < Len(Boot)
    /\ fs_get(mp.root)
    /\ mountpoints' = Append(mountpoints, mp)
    /\ UNCHANGED <<state, fp, opens, pipes, freed, call>>

(* The first process, with /dev/debug as its descriptor 1 *)
Kmain ==
    LET f == fs_namef(mountpoints, DebugPath) IN
    /\ call = Booting
    /\ Len(mountpoints) = Len(Boot)
    /\ fs_get(f)
    /\ fp' = [fp EXCEPT ![InitProc][1] = f]
    /\ state' = [state EXCEPT ![InitProc] = "alive"]
    /\ call' = Idle
    /\ UNCHANGED <<mountpoints, opens, pipes, freed>>

-----------------------------------------------------------------------------
(* System calls *)

Closest(path) == fs_closest_mp(mountpoints, path)
Named(path) == fs_namef(mountpoints, path)

(* open of a path at which a file is mounted *)
Open(p, path) ==
    LET f == Named(path) IN
    /\ Calling(p)
    /\ FreeFds(p) # {}
    /\ Closest(path) # None
    /\ f # None
    /\ fs_get(f)
    /\ fp' = [fp EXCEPT ![p][Min(FreeFds(p))] = f]
    /\ UNCHANGED <<mountpoints, state, opens, pipes, freed, call>>

(***************************************************************************)
(* open of a path that goes on below a mount point: fs_namef has taken a   *)
(* reference to the file there, finds no such entry and returns without    *)
(* giving the reference back.                                              *)
(***************************************************************************)
OpenFails(p, path) ==
    LET mp == Closest(path) IN
    /\ Calling(p)
    /\ FreeFds(p) # {}
    /\ mp # None
    /\ refs[mp.root] < MaxRefs
    /\ Named(path) = None
    /\ fs_get(mp.root)
    /\ UNCHANGED <<mountpoints, state, fp, opens, pipes, freed, call>>

(* open of a path with no mount point: fs_namef uses the null pointer, and   *)
(* the page fault that this raises is never left.  Bound: only while there   *)
(* is one process.                                                           *)
OpenHalts(p, path) ==
    /\ Calling(p)
    /\ \A q \in Proc \ {p} : state[q] = "unused"
    /\ FreeFds(p) # {}
    /\ Closest(path) = None
    /\ call' = [Idle EXCEPT !.op = "halted"]
    /\ UNCHANGED <<mountpoints, state, fp, refs, opens, pipes, freed>>

(* Mutant: the descriptor stays in the table *)
Close_KeepFd(p, i) ==
    /\ Calling(p)
    /\ fp[p][i] # None
    /\ Release(fp[p][i])
    /\ UNCHANGED <<mountpoints, state, fp, pipes, call>>

Close(p, i) ==
    /\ Calling(p)
    /\ fp[p][i] # None
    /\ Release(fp[p][i])
    /\ fp' = [fp EXCEPT ![p][i] = None]
    /\ UNCHANGED <<mountpoints, state, pipes, call>>

(* pipe: the writer goes to the first free descriptor, the reader to the second *)
PipeCall(p, d) ==
    /\ Calling(p)
    /\ pipes[d] = "unused"
    /\ Cardinality(FreeFds(p)) >= 2
    /\ LET w == Min(FreeFds(p))
           r == Min(FreeFds(p) \ {w})
       IN  fp' = [fp EXCEPT ![p][w] = <<d, "w">>, ![p][r] = <<d, "r">>]
    /\ refs' = [refs EXCEPT ![<<d, "w">>] = 1, ![<<d, "r">>] = 1]
    /\ opens' = [opens EXCEPT ![<<d, "w">>] = 1, ![<<d, "r">>] = 1]
    /\ pipes' = [pipes EXCEPT ![d] = "open"]
    /\ UNCHANGED <<mountpoints, state, freed, call>>

(***************************************************************************)
(* pipe with fewer than two free descriptors: both files are freed, and    *)
(* the writer once more by fs_put if it had been given a descriptor.       *)
(***************************************************************************)
PipeCallFails(p, d) ==
    LET one == FreeFds(p) # {} IN
    /\ Calling(p)
    /\ pipes[d] = "unused"
    /\ Cardinality(FreeFds(p)) < 2
    /\ freed' = [freed EXCEPT ![<<d, "r">>] = 1, ![<<d, "w">>] = IF one THEN 2 ELSE 1]
    /\ opens' = [opens EXCEPT ![<<d, "w">>] = IF one THEN 1 ELSE 0]
    /\ pipes' = [pipes EXCEPT ![d] = "failed"]
    /\ UNCHANGED <<mountpoints, state, fp, refs, call>>

(* fork, process_spawn: the loop over the parent's descriptors *)
Fork(p, c) ==
    /\ Calling(p)
    /\ state[c] = "unused"
    /\ call' = [op |-> "fork", p |-> p, child |-> c, fd |-> NextUsed(p, 0)]
    /\ UNCHANGED <<mountpoints, state, fp, refs, opens, pipes, freed>>

(* Mutant: the child's descriptor takes no reference *)
ForkSlot_NoGet ==
    LET f == fp[call.p][call.fd] IN
    /\ call.op = "fork" /\ call.fd \in Fd
    /\ call' = [call EXCEPT !.fd = NextUsed(call.p, @ + 1)]
    /\ pipe_open(f)
    /\ fp' = [fp EXCEPT ![call.child][call.fd] = f]
    /\ UNCHANGED <<mountpoints, state, refs, pipes, freed>>

ForkSlot ==
    LET f == fp[call.p][call.fd] IN
    /\ call.op = "fork" /\ call.fd \in Fd
    /\ call' = [call EXCEPT !.fd = NextUsed(call.p, @ + 1)]
    /\ fs_get(f)
    /\ pipe_open(f)
    /\ fp' = [fp EXCEPT ![call.child][call.fd] = f]
    /\ UNCHANGED <<mountpoints, state, pipes, freed>>

ForkReturn ==
    /\ call.op = "fork" /\ call.fd = NumFp
    /\ state' = [state EXCEPT ![call.child] = "alive"]
    /\ call' = Idle
    /\ UNCHANGED <<mountpoints, fp, refs, opens, pipes, freed>>

(* exit, process_exit: the loop that closes what is open; fp is not cleared *)
Exit(p) ==
    /\ Calling(p)
    /\ call' = [op |-> "exit", p |-> p, child |-> None, fd |-> NextUsed(p, 0)]
    /\ UNCHANGED <<mountpoints, state, fp, refs, opens, pipes, freed>>

ExitSlot ==
    /\ call.op = "exit" /\ call.fd \in Fd
    /\ call' = [call EXCEPT !.fd = NextUsed(call.p, @ + 1)]
    /\ Release(fp[call.p][call.fd])
    /\ UNCHANGED <<mountpoints, state, fp, pipes>>

(* Nothing reads the table of a ZOMBIE again; it goes with the process *)
ExitReturn ==
    /\ call.op = "exit" /\ call.fd = NumFp
    /\ state' = [state EXCEPT ![call.p] = "zombie"]
    /\ fp' = [fp EXCEPT ![call.p] = [i \in Fd |-> None]]
    /\ call' = Idle
    /\ UNCHANGED <<mountpoints, refs, opens, pipes, freed>>

Next ==
    \/ \E p \in Proc :
        \/ \E path \in Path : Open(p, path) \/ OpenFails(p, path) \/ OpenHalts(p, path)
        \/ \E i \in Fd : Close(p, i)
        \/ \E d \in Pipe : PipeCall(p, d) \/ PipeCallFails(p, d)
        \/ \E c \in Proc : Fork(p, c)
        \/ Exit(p)
    \/ fs_mount \/ Kmain
    \/ ForkSlot \/ ForkReturn \/ ExitSlot \/ ExitReturn

Spec == Init /\ [][Next]_vars

-----------------------------------------------------------------------------
(* Type invariant of the tables and the counts. *)
TypeOK ==
    /\ \A m \in DOMAIN mountpoints : mountpoints[m] = Boot[m]
    /\ state \in [Proc -> {"unused", "alive", "zombie"}]
    /\ fp \in [Proc -> [Fd -> File \cup {None}]]
    /\ refs \in [File -> Nat]
    /\ opens \in [Ends -> Nat]
    /\ pipes \in [Pipe -> {"unused", "open", "failed"}]
    /\ freed \in [Object -> Nat]
    /\ call \in [op : {"none", "fork", "exit", "halted", "kmain"}, p : Proc \cup {None},
                 child : Proc \cup {None}, fd : 0..NumFp]

(* Descriptor i of p is open: exit leaves the pointer behind when it closes *)
IsOpen(p, i) ==
    /\ fp[p][i] # None
    /\ ~(call.op = "exit" /\ call.p = p /\ i < call.fd)

Holders(f) == {x \in Proc \X Fd : fp[x[1]][x[2]] = f /\ IsOpen(x[1], x[2])}

(***************************************************************************)
(* A file has at least one reference for each descriptor that is open, in  *)
(* all processes together, and a pipe end has no other: fork, close and    *)
(* exit keep refs and the tables in step (process.c:27-36, 89-96,          *)
(* sys_fs.c:34-36).  Lookups that fail may leave more behind on a mounted  *)
(* file, which also has the reference of its mount point.                  *)
(***************************************************************************)
RefsCount ==
    /\ \A mp \in Range(mountpoints) : refs[mp.root] >= Cardinality(Holders(mp.root)) + 1
    /\ \A f \in Ends : pipes[f[1]] = "open" => refs[f] = Cardinality(Holders(f))

(***************************************************************************)
(* No open descriptor names freed memory, neither a freed file nor the end *)
(* of a pipe that was freed under it by the other end's last close         *)
(* (pipe.c:45-50), and no file at a mount point is ever freed.             *)
(***************************************************************************)
NoDangling ==
    /\ \A p \in Proc, i \in Fd :
        IsOpen(p, i) =>
            /\ freed[fp[p][i]] = 0
            /\ fp[p][i] \in Ends => freed[<<fp[p][i][1], "data">>] = 0
    /\ \A m \in Mounted : freed[m] = 0

(***************************************************************************)
(* readers and writers count the descriptors of each end in all processes, *)
(* so the pipe's data lives exactly until the last of them is closed,      *)
(* whatever the order of forks, closes and exits (pipe.c:23-54).           *)
(***************************************************************************)
PipeCounts ==
    \A d \in Pipe :
        pipes[d] = "open" =>
            /\ \A e \in {"r", "w"} : opens[<<d, e>>] = Cardinality(Holders(<<d, e>>))
            /\ (freed[<<d, "data">>] = 0) <=> (\E e \in {"r", "w"} : opens[<<d, e>>] # 0)

(***************************************************************************)
(* While kmain mounts, and so ever after, a path leads to a file exactly   *)
(* when a file is mounted at it, and then to that one, whatever other      *)
(* mount point begins alike: the off-by-one of fs_closest_mp (vfs.c:114)   *)
(* and that of strncmp (string.c:53) cancel.  A path that does not begin   *)
(* with a slash has no mount point at all.                                 *)
(***************************************************************************)
LookupExact ==
    call = Booting =>
        \A path \in String :
            IF Closest(path) = None
            THEN Char(path, 1) # Sep \/ mountpoints = <<>>
            ELSE Char(path, 1) = Sep /\ Named(path) = MountedAt(mountpoints, path)

(***************************************************************************)
(* What pipe.c:47 announces at the last close: "Freeing pipe".  All that   *)
(* pipe() allocated is then given back, each part once.                    *)
(***************************************************************************)
PipeFreed ==
    \A d \in Pipe :
        freed[<<d, "data">>] > 0 =>
            \A part \in {"r", "w", "data", "buffer"} : freed[<<d, part>>] = 1
=============================================================================
