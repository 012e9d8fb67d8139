---------------------------- MODULE MCRecordMerge ----------------------------
(***************************************************************************)
(* Small instances of RecordMerge: a deadline field and a plain one.        *)
(***************************************************************************)
EXTENDS RecordMerge, TLC

CONSTANTS due, plain, u1, u2

MCField    == {due, plain}
MCDueOnly  == {due}

MCPayloads ==
  [fields : {{due}, {due, plain}}, status : {None}]
    \cup [fields : {{plain}}, status : {"changed"}]

\* Every operation writes the same single field.
MCOneField == [fields : {{due}}, status : {None}]

\* Every operation writes a value of its own, or two of them the same value.
MCDistinct == [o \in Op |-> o]
MCShared   == [o \in Op |-> IF o = u2 THEN u1 ELSE o]

ReqSymmetry == Permutations(Req)
Symmetry    == ReqSymmetry \cup Permutations(Update)
=============================================================================
