----------------------------- MODULE MCMemory ------------------------------
(* Memory with few frames and a small program, for TLC *)
EXTENDS Memory, TLC

(* A code segment with a page of zeros, and a data segment that starts inside a page and *)
(* ends before that place in the next                                                    *)
SmallImage ==
    <<[start |-> 2, file |-> 3, end |-> 5, offset |-> 0],
      [start |-> 7, file |-> 8, end |-> 9, offset |-> 1]>>

Bytes(start, end) == [start |-> start, end |-> end]
Area(start, end, free) == [start |-> start, end |-> end, free |-> free]

(* Low memory that ends inside a page, a hole, and the rest in two areas *)
SmallMap == <<Area(0, 5, TRUE), Area(5, 8, FALSE), Area(8, 86, TRUE), Area(86, 88, FALSE)>>

(* A loader of version 1, with the init program where it may be *)
Loader1(start, end) ==
    [version |-> 1, flags |-> {MmapFlag, ModsFlag, LoaderFlag}, mods |-> 1, tags |-> <<>>,
     areas |-> SmallMap, kernel |-> Bytes(10, 14), module |-> Bytes(start, end),
     info |-> Bytes(18, 19), map |-> Bytes(20, 21)]

(* It lies across the ends of pages *)
Usual == Loader1(15, 17)

(* One of version 2, whose tag for the module nobody reads *)
Loader2(tags) ==
    [Usual EXCEPT !.version = 2, !.flags = {}, !.tags = tags, !.info = Bytes(18, 21)]

(* The program where the table for it is soon handed out, and one that is overwritten *)
High == Loader1(67, 69)
Over == Loader1(31, 33)

SmallLoaders ==
    {Loader1(start, start + len) : start \in {4, 14, 15, 22, 23, 83}, len \in 1..5}
        \cup {High, Over} \cup {[Usual EXCEPT !.info = Bytes(start, 74)] : start \in {70, 71}}
        \cup {Loader2(<<"cmdline", "module", "mmap", "acpi">>), Loader2(<<"mmap", "loader">>)}
        \cup {[Usual EXCEPT !.flags = {MmapFlag, CmdlineFlag}], [Usual EXCEPT !.mods = 0]}

RunSmall == {Usual, High, Loader2(<<"mmap", "loader">>)}

(* Processes other than init are interchangeable *)
Interchangeable == Permutations(Proc \ {InitProc})
=============================================================================
