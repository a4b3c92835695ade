---- MODULE MCWorkspace ----
(* Two addresses, and contents that reach every outcome of a compilation:    *)
(* a definition, a use of it, one that does not build, one that cannot parse. *)
EXTENDS Workspace

MCContents ==
    { [defines |-> {"s"}, uses |-> {},    fault |-> "none"],
      [defines |-> {},    uses |-> {"s"}, fault |-> "build"],
      [defines |-> {"t"}, uses |-> {},    fault |-> "syntax"] }
====
