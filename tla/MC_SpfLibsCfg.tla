--------------------------- MODULE MC_SpfLibsCfg ---------------------------
(* Whole runs of the parser over up to three declarations drawn from a    *)
(* pool that exercises every branch of parse_each_json, under every        *)
(* combination of GEN_SHARED_LIBS, USES_NON_MOBILE, USES_AUDIO_IN_ISLAND   *)
(* and of the one flag the declarations test.                              *)
EXTENDS SpfLibsCfg

MC_Mids == {16}
MC_Revs == 1..2
MC_Majors == {1}
MC_Flags == {"x"}
MC_LibNames == {<<"a">>, <<"b">>}

A == <<"a">>
B == <<"b">>

Lit(v) == [lit |-> TRUE, val |-> v, entries |-> <<>>]
NoIsland == [present |-> FALSE, lit |-> TRUE, val |-> None, entries |-> <<>>]
Mod(rev) ==
  [mid |-> 16, rev |-> rev, itype |-> "capi", mtype |-> "generic",
   tag |-> TRUE, fmt1 |-> FALSE, fmt2 |-> FALSE, qact |-> None, named |-> TRUE]
Lib(name, build, amdb, major) ==
  [name |-> name, build |-> build, amdb |-> amdb, major |-> major,
   minor |-> major, depends |-> <<>>, security |-> None, pkg |-> None,
   island |-> NoIsland, private |-> FALSE, test |-> FALSE]

\* "b" is shared when flag x is set, else static; it has no AMDB info.
BShared == [lit |-> FALSE, val |-> "STATIC_BUILD_STRIP",
            entries |-> <<<<<<"x", "mixed">>, "SHARED_BUILD_STRIP">>>>]

Pool ==
  { \* a loadable shared module, revision 1
    Lib(A, Lit("SHARED_BUILD_STRIP"), <<Mod(1)>>, 1),
    \* the same library again, now in island: an inconsistent redeclaration
    [Lib(A, Lit("SHARED_BUILD_STRIP"), <<>>, 1) EXCEPT
       !.island = [present |-> TRUE, lit |-> TRUE, val |-> "True",
                   entries |-> <<>>]],
    \* a supporting library, shared or static by flag x
    Lib(B, BShared, <<>>, 1),
    \* the same without versions: a KeyError when it resolves shared
    Lib(B, BShared, <<>>, Absent),
    \* a static library in island by flag x, with security info
    [Lib(B, Lit("STATIC_BUILD_STRIP_ONLY"), <<>>, 1) EXCEPT
       !.island = [present |-> TRUE, lit |-> FALSE, val |-> "False",
                   entries |-> <<<<<<"x", "lower">>, "True">>>>],
       !.security = "sec", !.pkg = "pkg"],
    \* a static revision 2 of module 16
    Lib(B, Lit("STATIC_BUILD_NO_STRIP"), <<Mod(2)>>, 1),
    \* a virtual stub of module 16 at revision 2, without tag
    Lib(B, Lit("STATIC_BUILD_VIRTUAL_STUB"),
        <<[Mod(2) EXCEPT !.tag = FALSE, !.itype = "capi"]>>, 1),
    \* a shared revision 2 of module 16, not named
    Lib(B, Lit("SHARED_BUILD_NO_STRIP"), <<[Mod(2) EXCEPT !.named = FALSE]>>, 1) }

DeclSeqs == UNION {[1..n -> Pool] : n \in 0..3}

MC_Inputs ==
  {<<[status |-> "ok", libs |-> ls]>> : ls \in DeclSeqs}
  \cup {<<[status |-> "unopenable", libs |-> <<>>],
          [status |-> "ok", libs |-> <<Lib(A, Lit("SHARED_BUILD_STRIP"), <<>>, 1)>>]>>,
        <<[status |-> "malformed", libs |-> <<>>]>>}

MC_EnvChoices ==
  [flags: {{}, {<<"x", "upper">>}, {<<"x", "mixed">>}}, gen_shared: BOOLEAN,
   non_mobile: BOOLEAN, island: BOOLEAN, emit: {TRUE}]
  \cup {[flags |-> {}, gen_shared |-> FALSE, non_mobile |-> FALSE,
         island |-> FALSE, emit |-> FALSE]}

\* The amdb_info records the declarations below carry.
MC_AmdbInputs ==
  {Mod(r) : r \in Revs}
  \cup {[Mod(2) EXCEPT !.tag = FALSE], [Mod(2) EXCEPT !.named = FALSE]}

-----------------------------------------------------------------------------
(* Inputs that show where the code and the spec part.                      *)
C == <<"c">>
GenShared == {[flags |-> {}, gen_shared |-> TRUE, non_mobile |-> FALSE,
               island |-> FALSE, emit |-> TRUE]}

\* Revisions 3, 1 and 2 of module 16 from three shared libraries, in every order.
MC_LibNames_Three == {A, B, C}
MC_Revs_Three == 1..3
RevDecls == <<Lib(A, Lit("SHARED_BUILD_STRIP"), <<Mod(3)>>, 1),
              Lib(B, Lit("SHARED_BUILD_STRIP"), <<Mod(1)>>, 1),
              Lib(C, Lit("SHARED_BUILD_STRIP"), <<Mod(2)>>, 1)>>
Orders == {p \in [1..3 -> 1..3] : \A i \in 1..3 : \E j \in 1..3 : p[j] = i}
MC_Inputs_Orders ==
  {<<[status |-> "ok", libs |-> [i \in 1..3 |-> RevDecls[p[i]]]]>> : p \in Orders}

\* The same module library declared twice, in one file or in two.
Twice == Lib(A, Lit("SHARED_BUILD_STRIP"), <<Mod(1)>>, 1)
MC_Inputs_Twice ==
  {<<[status |-> "ok", libs |-> <<Twice, Twice>>]>>,
   <<[status |-> "ok", libs |-> <<Twice>>], [status |-> "ok", libs |-> <<Twice>>]>>}

\* A static library whose island map has no DEFAULT, with and without x set.
NoDefaultIsland ==
  [Lib(B, Lit("STATIC_BUILD_STRIP"), <<>>, 1) EXCEPT
     !.island = [present |-> TRUE, lit |-> FALSE, val |-> None,
                 entries |-> <<<<<<"x", "lower">>, "True">>>>]]
MC_Inputs_NoDefault == {<<[status |-> "ok", libs |-> <<NoDefaultIsland>>]>>}
MC_EnvChoices_Flag ==
  [flags: {{}, {<<"x", "upper">>}}, gen_shared: BOOLEAN, non_mobile: {FALSE},
   island: BOOLEAN, emit: {TRUE}]

\* Shared libraries whose USES_ keys coincide: a_strip built without strip
\* and a built with strip both give USES_A_STRIP_SO; a and A give the same key.
AStrip == <<"a", "_strip">>
UpperA == <<"A">>
MC_LibNames_Clash == {A, B, AStrip, UpperA}
ClashDecls == {Lib(AStrip, Lit("SHARED_BUILD_NO_STRIP"), <<>>, 1),
               [Lib(A, Lit("SHARED_BUILD_STRIP"), <<>>, 1) EXCEPT !.depends = <<B>>],
               Lib(UpperA, Lit("SHARED_BUILD_STRIP"), <<>>, 1)}
MC_Inputs_Clash ==
  {<<[status |-> "ok", libs |-> <<d1, d2>>]>> : d1, d2 \in ClashDecls}
=============================================================================
