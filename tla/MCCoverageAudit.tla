-------------------------- MODULE MCCoverageAudit --------------------------
(***************************************************************************)
(* An instance of CoverageAudit for TLC: a matmul kernel, the same activity*)
(* reported again, a memory copy whose id is already taken, an untimed     *)
(* kernel, one without provenance and one in a scope it does not belong to.*)
(***************************************************************************)
EXTENDS CoverageAudit, TLC

CONSTANTS one, two

Event(id, ident, class, ns) ==
    [id |-> id, ident |-> ident, class |-> class, ns |-> ns]

Matmul == Event(1, "matmul", "covered", 1)
SameIdentity == Event(2, "matmul", "covered", 1)
Untimed == Event(3, "norm", "covered", 0)
Copy == Event(3, "copy", "excluded", 1)
Triton == Event(5, "triton", "fallback", 1)
Foreign == Event(6, "foreign", "misfiled", 1)

MCAuditors == {one, two}
MCEvents == {Matmul, SameIdentity, Untimed, Copy, Triton, Foreign}
MCManifests ==
    {[events |-> {Matmul, Copy}, sound |-> TRUE],
     [events |-> {Untimed}, sound |-> TRUE],
     [events |-> {Matmul}, sound |-> FALSE]}

Symmetry == Permutations(MCAuditors)
=============================================================================
