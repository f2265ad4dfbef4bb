------------------------------ MODULE MCFiles ------------------------------
(* Files with few processes, descriptors and pipes, for TLC *)
EXTENDS Files, TLC

CONSTANTS root, debug, sda, sdb

(* What kmain and ata_fs_init mount, the directory /dev and two drives left out *)
Debug == <<"/", "g">>
Mounts == <<[path |-> <<"/">>, root |-> root],
            [path |-> Debug, root |-> debug],
            [path |-> <<"/", "s", "a">>, root |-> sda],
            [path |-> <<"/", "s", "b">>, root |-> sdb]>>
Characters == {"/", "g", "s", "a", "b"}

(* A file, what is not below it, a relative path *)
Opened == {Debug, <<"/", "g", "/", "a">>, <<"g">>}

(* Processes other than init are interchangeable, and so are pipes *)
Interchangeable == Permutations(Proc \ {InitProc}) \cup Permutations(Pipe)
=============================================================================
