----------------------------- MODULE UnifiedDiff -----------------------------
(***************************************************************************)
(* What a standard unified diff is: the patches its author had in mind,    *)
(* the files they mean to leave behind, and the lines `diff -u` or         *)
(* `git diff` writes for them.                                             *)
(***************************************************************************)
EXTENDS Integers, SequencesExt

CONSTANTS Names,       \* the paths
          Texts,       \* what a line may say that begins neither with "-- " nor with "++ "
          Minuses,     \* and one that begins with "-- ": removed, it reads as a header
          Pluses,      \* and one that begins with "++ ": added, it reads as a header
          Absent,      \* in place of the lines of a file that is not there
          DevNull,
          Stray,       \* the path of what is no header, or of one with a time stamp
          HeaderText   \* what a --- or +++ line says after its first character

AllTexts == Texts \cup Minuses \cup Pluses

ASSUME DiffAssumption == /\ DevNull \notin Names /\ HeaderText \notin AllTexts
                         /\ Stray \in Names
                         /\ Texts \cap (Minuses \cup Pluses) = {}
                         /\ Absent \notin Seq(AllTexts \cup {HeaderText})

(* A patch is a sequence of sections, one per file.  An edit keeps `before` *)
(* lines from line `at` on, cuts `cut` lines, puts `adds` in their place    *)
(* and keeps `after` more lines.                                            *)
Modify(p, edits)   == [does |-> "modify", path |-> p, edits |-> edits]
Create(p, content) == [does |-> "create", path |-> p, content |-> content]
Delete(p)          == [does |-> "delete", path |-> p]

(* Which are: every section that modifies a file edits it somewhere.        *)
AnyEdit == [at : Nat \ {0}, before : Nat, cut : Nat, adds : Seq(AllTexts), after : Nat]

AnySection == [does : {"modify"}, path : Names, edits : Seq(AnyEdit) \ {<<>>}]
                \cup [does : {"create"}, path : Names, content : Seq(AllTexts)]
                \cup [does : {"delete"}, path : Names]

OldLen(e) == e.before + e.cut + e.after
NewLen(e) == e.before + Len(e.adds) + e.after

(* The lines from i on, n of them.                                          *)
Lines(content, i, n) == SubSeq(content, i, i + n - 1)

(* The first n lines, other lines in place of the next `cut`, and the rest. *)
Splice(content, n, cut, adds) ==
  SubSeq(content, 1, n) \o adds \o SubSeq(content, n + cut + 1, Len(content))

Edited(content, edits) ==
  FoldRight(LAMBDA e, c : Splice(c, e.at + e.before - 1, e.cut, e.adds), edits, content)

(* What a patch makes of the files it was written for.                      *)
SectionResult(base, section) ==
  [base EXCEPT ![section.path] =
     CASE section.does = "modify" -> Edited(@, section.edits)
       [] section.does = "create" -> section.content
       [] section.does = "delete" -> Absent]

Intended(base, plan) == FoldLeft(SectionResult, base, plan)

(* The lines a section takes from its file, and those it gives to it.       *)
CutLines(base, section) ==
  CASE section.does = "modify" ->
         FlattenSeq([k \in DOMAIN section.edits |->
           LET e == section.edits[k] IN Lines(base[section.path], e.at + e.before, e.cut)])
    [] section.does = "create" -> <<>>
    [] section.does = "delete" -> base[section.path]

AddedLines(section) ==
  CASE section.does = "modify" ->
         FlattenSeq([k \in DOMAIN section.edits |-> section.edits[k].adds])
    [] section.does = "create" -> section.content
    [] section.does = "delete" -> <<>>

(* A patch for these files: of every file at most one section.              *)
WrittenFor(base, plan) ==
  /\ \A i, j \in DOMAIN plan : i # j => plan[i].path # plan[j].path
  /\ \A i \in DOMAIN plan :
       LET content == base[plan[i].path]
       IN  CASE plan[i].does = "create" -> content = Absent
             [] plan[i].does = "delete" -> content \notin {Absent, <<>>}
             [] plan[i].does = "modify" ->
                  /\ content # Absent
                  /\ \A k \in DOMAIN plan[i].edits :
                       LET e == plan[i].edits[k]
                       IN  e.at + OldLen(e) - 1 =< Len(content)

-----------------------------------------------------------------------------
(* A line with its - or + or blank before it, as a reader sees it.          *)
Says(kind, texts) ==
  [i \in DOMAIN texts |->
     IF kind = "del" /\ texts[i] \in Minuses
       THEN [kind |-> "old", path |-> Stray, text |-> texts[i]]
     ELSE IF kind = "add" /\ texts[i] \in Pluses
       THEN [kind |-> "new", path |-> Stray, text |-> texts[i]]
     ELSE [kind |-> kind, text |-> texts[i]]]
Header(kind, p)   == <<[kind |-> kind, path |-> p, text |-> HeaderText]>>

(* The +start,count of a hunk header, without ",count" when it is 1.        *)
At(start, count) == <<[kind |-> "at", start |-> start, counted |-> count # 1]>>

(* Where the new lines of the i-th edit begin: an empty range is said to    *)
(* begin at the line before it.                                             *)
NewStart(edits, i) ==
  edits[i].at - (IF NewLen(edits[i]) = 0 THEN 1 ELSE 0)
    + FoldLeft(LAMBDA n, e : n + NewLen(e) - OldLen(e), 0, SubSeq(edits, 1, i - 1))

Hunk(content, edits, i) ==
  LET e == edits[i]
  IN  At(NewStart(edits, i), NewLen(e))
        \o Says("ctx", Lines(content, e.at, e.before))
        \o Says("del", Lines(content, e.at + e.before, e.cut))
        \o Says("add", e.adds)
        \o Says("ctx", Lines(content, e.at + e.before + e.cut, e.after))

SectionLines(base, section) ==
  LET p == section.path
  IN  CASE section.does = "modify" ->
             Header("old", p) \o Header("new", p)
               \o FlattenSeq([i \in DOMAIN section.edits |-> Hunk(base[p], section.edits, i)])
        [] section.does = "create" ->
             Header("old", DevNull) \o Header("new", p)
               \o At(1, Len(section.content)) \o Says("add", section.content)
        [] section.does = "delete" ->
             Header("old", p) \o Header("new", DevNull)
               \o At(0, 0) \o Says("del", base[p])

(* git puts a line of its own before every file.                            *)
Unified(base, plan, git) ==
  FlattenSeq([i \in DOMAIN plan |->
                (IF git THEN <<[kind |-> "git"]>> ELSE <<>>) \o SectionLines(base, plan[i])])

(* `diff -u` writes a tab and a time after every path.                      *)
Stamped(lines) ==
  [i \in DOMAIN lines |->
     IF lines[i].kind \in {"old", "new"} THEN [lines[i] EXCEPT !.path = Stray] ELSE lines[i]]

(* Which are these.                                                         *)
AnyLine ==
  [kind : {"git"}]
    \cup [kind : {"old", "new"}, path : Names \cup {DevNull}, text : AllTexts \cup {HeaderText}]
    \cup {l \in [kind : {"at"}, start : Nat, counted : BOOLEAN] : l.counted \/ l.start > 0}
    \cup [kind : {"ctx", "del", "add"}, text : AllTexts]
=============================================================================
