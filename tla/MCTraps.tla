------------------------------ MODULE MCTraps ------------------------------
(* Both targets with two user tasks, for TLC. *)
EXTENDS Traps

Both == {"riscv64", "arm64"}
=============================================================================
