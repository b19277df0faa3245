---------------------------- MODULE MCApplyPatch ----------------------------
(***************************************************************************)
(* Patches of one to three hunks and of one or two files, made for one     *)
(* version of the files and applied to the same or to another one.         *)
(***************************************************************************)
EXTENDS ApplyPatch

CONSTANTS a, b   \* the paths

Files(contentA, contentB) == a :> contentA @@ b :> contentB @@ Stray :> Absent

(* Lines that repeat, so that a block stands in more than one place; a file *)
(* that ends in a blank line; one that was moved down by a line; and lines  *)
(* that read as headers when they are removed.                              *)
PlainBases == {Files(<<"x", "y", "x", "y", "">>, Absent), Files(<<"n", "x", "y">>, <<"y">>)}

MCBases == {Files(<<"x", "y", "x", "y", "">>, Absent), Files(<<"x", "y", "x", "y">>, <<"-- x">>),
            Files(<<"n", "x", "y", "-- x">>, <<"y">>)}

(* The last of them also with a file with CRLF.                             *)
PlainEnds == {<<version, {}>> : version \in PlainBases}
MCEnds == {<<version, {}>> : version \in MCBases}
            \cup {<<Files(<<"n", "x", "y", "-- x">>, <<"y">>), {b}>>}

Edit(at, before_, cut, adds, after) ==
  [at |-> at, before |-> before_, cut |-> cut, adds |-> adds, after |-> after]

Edits == {e \in [at : 1..4, before : 0..2, cut : 0..2, adds : {<<>>, <<"n">>, <<"n", "x">>},
                 after : 0..1] : e.cut + Len(e.adds) > 0}

SmallEdits == {Edit(at, before_, 1, adds, after) :
                 at \in 1..4, before_ \in 0..1, adds \in {<<>>, <<"n">>}, after \in 0..1}

TinyEdits == {e \in SmallEdits : e.before = 0}

Apart(edits) == \A i \in 1..(Len(edits) - 1) : edits[i].at + OldLen(edits[i]) =< edits[i + 1].at

SectionsA == {Modify(a, <<e>>) : e \in {f \in SmallEdits : f.before = f.after}} \cup {Delete(a)}
SectionsB == {Create(b, <<"n", "x">>), Create(b, <<"n">>), Delete(b),
              Modify(b, <<Edit(1, 0, 1, <<"n">>, 0)>>)}

MCPlans ==
  {<<Modify(a, <<e>>)>> : e \in Edits}
    \cup {<<Modify(a, edits)>> : edits \in {es \in TupleOf(SmallEdits, 2) : Apart(es)}}
    \cup {<<Modify(a, edits)>> : edits \in {es \in TupleOf(TinyEdits, 3) : Apart(es)}}
    \cup {<<s, t>> : s \in SectionsA, t \in SectionsB}
    \cup {<<t, s>> : s \in SectionsA, t \in SectionsB}
    \cup {<<Modify(a, <<Edit(1, 0, 1, <<"n">>, 0), Edit(2, 0, 1, <<"++ n">>, after)>>)>> :
             after \in 0..1}
    \cup {<<Modify(a, <<Edit(1, before_, 1, <<"++ n">>, 0)>>)>> : before_ \in 0..1}
=============================================================================
