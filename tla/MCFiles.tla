------------------------------ MODULE MCFiles ------------------------------
(* Small instances of Files for TLC. *)
EXTENDS Files

Dev(name) == Path(TRUE, TRUE, <<"", name>>)

(* /dev/kmsg, /dev/zero, /dev/tty0; the mount point itself; a file that     *)
(* devfs does not have; a path outside; and one that is not absolute.      *)
SomePaths ==
    {Dev("kmsg"), Dev("zero"), Dev("tty0"), Path(TRUE, TRUE, <<"">>), Dev("none"),
     Path(TRUE, FALSE, <<"", "bin">>), Path(FALSE, FALSE, <<"dev", "zero">>)}

(* A behaviour is followed until devfs gives out a number still in use. *)
Unaliased == ~aliased

Symmetry == Permutations(Tasks)
=============================================================================
