------------------------ MODULE MC_SpfModuleRegistry ------------------------
(* The registry alone: one module id, three revision numbers, two          *)
(* libraries that can own a revision, and descriptors both valid and       *)
(* missing a mandatory field.                                               *)
EXTENDS SpfModuleRegistry

MC_Mids == {16}
MC_Revs == 1..3
MC_LibNames == {<<"a">>, <<"b">>}
MC_Majors == {1}

\* A well-formed capi descriptor of module 16 at every revision, a decoder
\* without fmt_id1, one with an unknown interface type and one
\* without tag.
MC_AmdbInputs ==
  {[mid |-> 16, rev |-> r, itype |-> "capi", mtype |-> "generic",
    tag |-> TRUE, fmt1 |-> FALSE, fmt2 |-> FALSE, qact |-> None,
    named |-> TRUE] : r \in MC_Revs}
  \cup
  {[mid |-> 16, rev |-> 1, itype |-> "capi", mtype |-> "decoder",
    tag |-> TRUE, fmt1 |-> FALSE, fmt2 |-> FALSE, qact |-> None,
    named |-> TRUE],
   [mid |-> 16, rev |-> 1, itype |-> "appi", mtype |-> "generic",
    tag |-> TRUE, fmt1 |-> FALSE, fmt2 |-> FALSE, qact |-> None,
    named |-> TRUE],
   [mid |-> 16, rev |-> 2, itype |-> "capi", mtype |-> "generic",
    tag |-> FALSE, fmt1 |-> FALSE, fmt2 |-> FALSE, qact |-> None,
    named |-> TRUE]}
=============================================================================
