------------------------------ MODULE ApplyPatch ------------------------------
(***************************************************************************)
(* The tool apply_patch (omega-core/src/tool_loop.rs): it reads a diff     *)
(* line by line, collects the hunks of one file and applies them, file     *)
(* after file.  A file is the sequence of its lines, each with its end of  *)
(* line, all of them LF or all of them CRLF; paths are inside the          *)
(* workspace.                                                              *)
(***************************************************************************)
EXTENDS UnifiedDiff, FiniteSetsExt

CONSTANTS Blank,   \* the empty line
          Reach,   \* how far back a hunk is searched for: 50
          Bases,   \* the files a patch may be made for, or meet
          Ends,    \* with those of them that have CRLF: pairs of a base and some paths
          Plans    \* the patches

(* The hunks that have lines in the new file begin at one of its lines.     *)
ASSUME PatchAssumption ==
  /\ Blank \in Texts /\ Reach \in Nat
  /\ \A version \in Bases : /\ version \in [Names -> {Absent} \cup Seq(AllTexts)]
                             /\ version[Stray] = Absent
  /\ \A met \in Ends : /\ met[1] \in Bases
                      /\ met[2] \subseteq {p \in Names : met[1][p] # Absent}
  /\ Plans \subseteq Seq(AnySection)
  /\ \A patch \in Plans : \A i \in DOMAIN patch :
       /\ patch[i].path # Stray
       /\ patch[i].does = "modify" =>
            \A k \in DOMAIN patch[i].edits :
              LET start == NewStart(patch[i].edits, k)
              IN  start \in Nat /\ (NewLen(patch[i].edits[k]) > 0 => start > 0)

VARIABLES files,             \* the files of the workspace
          crlf,              \* those whose lines end with CRLF
          diff, pos,         \* the argument, and the line that is read next
          mode,              \* where apply_patch is
          oldPath, newPath,  \* of the section in hand
          hunks,             \* those collected, or still to be applied
          copy,              \* the lines of the file that is being patched
          report,            \* the files named in the answer
          result,            \* an ioError is an error of the file system, not of the diff
          plan, base,        \* history: what the diff was made of, and for
          before, dos        \* history: the files then, and those with CRLF

argument == <<diff, plan, base, before, dos>>
vars == <<files, crlf, diff, pos, mode, oldPath, newPath, hunks, copy, report, result,
          plan, base, before, dos>>

(* Not cut short, as what a model writes may be.                            *)
Whole == \E git \in BOOLEAN : diff = Unified(base, plan, git)

Modes == {"header", "new", "skip", "delete", "hunks", "hunk", "create", "read",
          "patch", "done"}

Content == Seq(AllTexts \cup {HeaderText})
AnyHunk == [start : Nat \ {0}, lines : Seq(AnyLine)]

TypeOK == /\ files \in [Names -> {Absent} \cup Content]
          /\ crlf \subseteq dos /\ dos \subseteq Names
          /\ diff \in Seq(AnyLine)
          /\ pos \in 1..(Len(diff) + 1)
          /\ mode \in Modes
          /\ {oldPath, newPath} \subseteq Names \cup {DevNull}
          /\ hunks \in Seq(AnyHunk)
          /\ copy \in Content
          /\ report \subseteq Names
          /\ result \in {"none", "ok", "error", "ioError"}
          /\ mode \in {"header", "new", "skip", "delete"} => hunks = <<>>

Init == /\ base \in Bases
        /\ \E met \in Ends : before = met[1] /\ dos = met[2]
        /\ plan \in {p \in Plans : WrittenFor(base, p)}
        /\ \E git \in BOOLEAN : \/ diff \in Prefixes(Unified(base, plan, git))
                               \/ diff = Stamped(Unified(base, plan, git))
        /\ files = before /\ crlf = dos
        /\ pos = 1 /\ mode = "header"
        /\ oldPath = DevNull /\ newPath = DevNull
        /\ hunks = <<>> /\ copy = <<>>
        /\ report = {} /\ result = "none"

-----------------------------------------------------------------------------
AtEnd == pos > Len(diff)
Kind == IF AtEnd THEN "end" ELSE diff[pos].kind
Goto(from, to) == mode = from /\ mode' = to

Return(answer) == mode' = "done" /\ result' = answer

(* An error says what is wrong, and nothing of the files that are changed.  *)
Fails(error) == /\ Return(error)
                /\ report' = {}
                /\ UNCHANGED <<pos, oldPath, newPath, hunks, copy>>
Fail == Fails("error") /\ UNCHANGED <<files, crlf>>

(************************ finding the next file *****************************)
NextHeader == SelectInSubSeq(diff, pos, Len(diff), LAMBDA l : l.kind = "old")

FindHeader ==
  /\ NextHeader # 0
  /\ Goto("header", "new")
  /\ oldPath' = diff[NextHeader].path
  /\ pos' = NextHeader + 1
  /\ UNCHANGED <<files, crlf, newPath, hunks, copy, report, result>>

NoMoreHeaders ==
  /\ mode = "header"
  /\ NextHeader = 0
  /\ Return(IF report = {} THEN "error" ELSE "ok")
  /\ UNCHANGED <<files, crlf, pos, oldPath, newPath, hunks, copy, report>>

ReadNewPath ==
  /\ Kind = "new"
  /\ Goto("new", "skip")
  /\ newPath' = diff[pos].path
  /\ pos' = pos + 1
  /\ UNCHANGED <<files, crlf, oldPath, hunks, copy, report, result>>

NoNewPath == mode = "new" /\ Kind # "new" /\ Fail

SkipToHunk ==
  /\ Goto("skip", IF newPath = DevNull THEN "delete" ELSE "hunks")
  /\ LET next == SelectInSubSeq(diff, pos, Len(diff), LAMBDA l : l.kind = "at")
     IN  pos' = IF next = 0 THEN Len(diff) + 1 ELSE next
  /\ UNCHANGED <<files, crlf, oldPath, newPath, hunks, copy, report, result>>

(************************* collecting its hunks *****************************)
(* nth(1) of the header's words is "+start,count", which is no number when  *)
(* it has a count: the hunk is then said to start at line 1.                *)
ParsedStart(header) == IF header.counted THEN 1 ELSE header.start

BeginHunk ==
  /\ Kind = "at"
  /\ Goto("hunks", "hunk")
  /\ hunks' = Append(hunks, [start |-> ParsedStart(diff[pos]), lines |-> <<>>])
  /\ pos' = pos + 1
  /\ UNCHANGED <<files, crlf, oldPath, newPath, copy, report, result>>

HunkLine ==
  /\ mode = "hunk"
  /\ Kind \notin {"at", "git", "end"}
  /\ hunks' = [hunks EXCEPT ![Len(hunks)].lines = Append(@, diff[pos])]
  /\ pos' = pos + 1
  /\ UNCHANGED <<files, crlf, mode, oldPath, newPath, copy, report, result>>

(* A bug the checks must notice: the end of the diff is consumed as well.   *)
EndHunkPastEnd ==
  /\ Kind \in {"at", "git", "end"}
  /\ Goto("hunk", "hunks")
  /\ pos' = pos + 1
  /\ UNCHANGED <<files, crlf, oldPath, newPath, hunks, copy, report, result>>

(* The line that ends a hunk is consumed with it.                           *)
EndHunk ==
  /\ Kind \in {"at", "git", "end"}
  /\ Goto("hunk", "hunks")
  /\ pos' = IF Kind = "end" THEN pos ELSE pos + 1
  /\ UNCHANGED <<files, crlf, oldPath, newPath, hunks, copy, report, result>>

(* A bug the checks must notice: the line is looked at and not consumed.    *)
SkipLineInPlace ==
  /\ mode = "hunks"
  /\ Kind \notin {"at", "git", "old", "end"}
  /\ UNCHANGED <<files, crlf, pos, mode, oldPath, newPath, hunks, copy, report, result>>

SkipLine ==
  /\ mode = "hunks"
  /\ Kind \notin {"at", "git", "old", "end"}
  /\ pos' = pos + 1
  /\ UNCHANGED <<files, crlf, mode, oldPath, newPath, hunks, copy, report, result>>

AllCollected ==
  /\ Kind \in {"git", "old", "end"}
  /\ Goto("hunks", IF oldPath = DevNull THEN "create" ELSE "read")
  /\ UNCHANGED <<files, crlf, pos, oldPath, newPath, hunks, copy, report, result>>

(*************************** changing the file ******************************)
Removes(l) == l.kind \in {"del", "old"}   \* it begins with -
Adds(l)    == l.kind \in {"add", "new"}   \* it begins with +
Keeps(l)   == l.kind = "ctx"
TextsOf(lines, Test(_)) ==
  FlattenSeq([i \in DOMAIN lines |-> IF Test(lines[i]) THEN <<lines[i].text>> ELSE <<>>])

Report(p) == report' = report \cup {p}

DeleteFile ==
  /\ Goto("delete", "header")
  /\ oldPath # DevNull
  /\ files' = [files EXCEPT ![oldPath] = Absent]
  /\ crlf' = crlf \ {oldPath}
  /\ IF files[oldPath] # Absent THEN Report(oldPath) ELSE UNCHANGED report
  /\ UNCHANGED <<pos, oldPath, newPath, hunks, copy, result>>

(* With LF; and so is a file that is patched, as lines() takes CRLF away.   *)
WriteFile(content) == /\ files' = [files EXCEPT ![newPath] = content]
                      /\ crlf' = crlf \ {newPath}

AllAdded == FlattenSeq([i \in DOMAIN hunks |-> TextsOf(hunks[i].lines, Adds)])

CreateFile ==
  /\ Goto("create", "header")
  /\ WriteFile(AllAdded)
  /\ Report(newPath)
  /\ hunks' = <<>>
  /\ UNCHANGED <<pos, oldPath, newPath, copy, result>>

(* sort_by start, descending, is stable.                                    *)
BottomUp ==
  LET above(i, j) == \/ hunks[i].start > hunks[j].start
                     \/ (hunks[i].start = hunks[j].start /\ i < j)
  IN  {order \in [DOMAIN hunks -> DOMAIN hunks] :
         \A i, j \in DOMAIN hunks : i < j => above(order[i], order[j])}

ReadFile ==
  /\ Goto("read", "patch")
  /\ files[newPath] # Absent
  /\ copy' = files[newPath]
  /\ \E order \in BottomUp : hunks' = [i \in DOMAIN hunks |-> hunks[order[i]]]
  /\ UNCHANGED <<files, crlf, pos, oldPath, newPath, report, result>>

NoFile == mode = "read" /\ files[newPath] = Absent /\ Fail

(************************* applying one hunk ********************************)
FirstChange(lines) == SelectInSeq(lines, LAMBDA l : Removes(l) \/ Adds(l))
CtxBefore(lines) == IF FirstChange(lines) = 0
                      THEN TextsOf(lines, Keeps)
                      ELSE TextsOf(SubSeq(lines, 1, FirstChange(lines)), Keeps)
CtxAfter(lines) == SubSeq(TextsOf(lines, Keeps), Len(CtxBefore(lines)) + 1,
                          Len(TextsOf(lines, Keeps)))
Removals(lines)  == TextsOf(lines, Removes)
Additions(lines) == TextsOf(lines, Adds)

(* What the file must say after its first n lines.                          *)
StandsAt(block, n) == /\ n + Len(block) =< Len(copy)
                      /\ Lines(copy, n + 1, Len(block)) = block

(* A bug the checks must notice: the context after the change is not read.  *)
AnchorsBeforeOnly(hunk) ==
  LET from  == Min({hunk.start - 1, Len(copy)})
      block == CtxBefore(hunk.lines) \o Removals(hunk.lines)
      found == {n \in (from - Min({from, Reach}))..from : StandsAt(block, n)}
  IN  IF CtxBefore(hunk.lines) = <<>> THEN {hunk.start - 1}
      ELSE IF found = {} THEN {} ELSE {Max(found)}

(* A bug the checks must notice: lines are counted from 0 in the header.    *)
AnchorsOneOff(hunk) ==
  LET from  == Min({hunk.start, Len(copy)})
      block == CtxBefore(hunk.lines) \o Removals(hunk.lines) \o CtxAfter(hunk.lines)
      found == {n \in (from - Min({from, Reach}))..from : StandsAt(block, n)}
  IN  IF CtxBefore(hunk.lines) = <<>> THEN {hunk.start}
      ELSE IF found = {} THEN {} ELSE {Max(found)}

(* How many lines stand before the hunk: with context the first place at or *)
(* before the stated line where the whole block stands, looking back no     *)
(* further than Reach; without, the stated line.                            *)
Anchors(hunk) ==
  LET from  == Min({hunk.start - 1, Len(copy)})
      block == CtxBefore(hunk.lines) \o Removals(hunk.lines) \o CtxAfter(hunk.lines)
      found == {n \in (from - Min({from, Reach}))..from : StandsAt(block, n)}
  IN  IF CtxBefore(hunk.lines) = <<>> THEN {hunk.start - 1}
      ELSE IF found = {} THEN {} ELSE {Max(found)}

(* A bug the checks must notice: what is removed is not looked at.          *)
PlacesUnverified(hunk) ==
  {n \in {anchor + Len(CtxBefore(hunk.lines)) : anchor \in Anchors(hunk)} :
     n + Len(Removals(hunk.lines)) =< Len(copy)}

(* The lines of the file before the ones to remove, which must be there.    *)
Places(hunk) ==
  {n \in {anchor + Len(CtxBefore(hunk.lines)) : anchor \in Anchors(hunk)} :
     StandsAt(Removals(hunk.lines), n)}

(* A bug the checks must notice: the file is written after every hunk.      *)
PatchHunkWrites ==
  /\ mode = "patch"
  /\ hunks # <<>>
  /\ \E n \in Places(Head(hunks)) :
       copy' = Splice(copy, n, Len(Removals(Head(hunks).lines)), Additions(Head(hunks).lines))
  /\ WriteFile(copy')
  /\ hunks' = Tail(hunks)
  /\ UNCHANGED <<pos, mode, oldPath, newPath, report, result>>

PatchHunk ==
  /\ mode = "patch"
  /\ hunks # <<>>
  /\ \E n \in Places(Head(hunks)) :
       copy' = Splice(copy, n, Len(Removals(Head(hunks).lines)), Additions(Head(hunks).lines))
  /\ hunks' = Tail(hunks)
  /\ UNCHANGED <<files, crlf, pos, mode, oldPath, newPath, report, result>>

HunkMisfits ==
  /\ mode = "patch"
  /\ hunks # <<>>
  /\ Places(Head(hunks)) = {}
  /\ Fail

(* The lines are joined with ends of line between them, and one is added    *)
(* unless the text ends with one: of two or more lines a blank one at the   *)
(* end is lost, and of a file that had lines a blank one remains.           *)
Joined(lines, original) ==
  IF lines = <<>> THEN (IF original = <<>> THEN <<>> ELSE <<Blank>>)
  ELSE IF Len(lines) > 1 /\ Last(lines) = Blank THEN Front(lines) ELSE lines

WriteBack ==
  /\ hunks = <<>>
  /\ Goto("patch", "header")
  /\ WriteFile(Joined(copy, files[newPath]))
  /\ Report(newPath)
  /\ copy' = <<>>
  /\ UNCHANGED <<pos, oldPath, newPath, hunks, result>>

(*************************** the file system fails **************************)
ReadyToWrite == mode = "create" \/ (mode = "patch" /\ hunks = <<>>)

(* The file cannot be deleted, or read as UTF-8, or opened to be written.   *)
IoFails ==
  /\ \/ mode = "delete" /\ files[oldPath] # Absent
     \/ mode = "read" /\ files[newPath] # Absent
     \/ ReadyToWrite
  /\ Fails("ioError")
  /\ UNCHANGED <<files, crlf>>

(* It is truncated before it is written, and the writing does not end.      *)
WriteFails ==
  /\ ReadyToWrite
  /\ LET content == IF mode = "create" THEN AllAdded ELSE Joined(copy, files[newPath])
     IN  \E n \in 0..Len(content) : WriteFile(Lines(content, 1, n))
  /\ Fails("ioError")

-----------------------------------------------------------------------------
Step == \/ FindHeader \/ NoMoreHeaders \/ ReadNewPath \/ NoNewPath \/ SkipToHunk
        \/ BeginHunk \/ HunkLine \/ EndHunk \/ SkipLine \/ AllCollected
        \/ DeleteFile \/ CreateFile \/ ReadFile \/ NoFile
        \/ PatchHunk \/ HunkMisfits \/ WriteBack

Next == (Step \/ IoFails \/ WriteFails) /\ UNCHANGED argument

Spec == Init /\ [][Next]_vars /\ WF_vars(Next)

-----------------------------------------------------------------------------
Count(content, text) ==
  IF content = Absent THEN 0 ELSE Cardinality({i \in DOMAIN content : content[i] = text})

(* Whatever version of the file the patch meets, and whatever was made of   *)
(* its hunks: no line of text is lost that the diff does not remove from    *)
(* this file, and none turns up that the diff does not add to it, unless    *)
(* the file could not be written.                                           *)
LinesAccountedFor ==
  result # "ioError" => \A i \in DOMAIN plan : plan[i].does = "modify" =>
    LET p == plan[i].path
    IN  \A text \in AllTexts \ {Blank} :
          Count(files[p], text) - Count(before[p], text)
            \in -Count(CutLines(base, plan[i]), text)..Count(AddedLines(plan[i]), text)

(* Equal, but for one blank line at the end.                                *)
Same(c, d) ==
  \/ c = d
  \/ /\ Absent \notin {c, d}
     /\ c = Append(d, Blank) \/ d = Append(c, Blank)

(* A file is changed only where it says all the hunk says, context and      *)
(* removed lines: a patch made for another version of it does no harm.      *)
ChangedWhereItStands ==
  Whole /\ result # "ioError" => \A i \in DOMAIN plan :
    LET p == plan[i].path
    IN  /\ plan[i].does = "modify" /\ Len(plan[i].edits) = 1
        /\ plan[i].edits[1].before > 0
        /\ ~Same(files[p], before[p])
        => LET e == plan[i].edits[1]
           IN  \E n \in 0..(Len(before[p]) - OldLen(e)) :
                 /\ Lines(before[p], n + 1, OldLen(e)) = Lines(base[p], e.at, OldLen(e))
                 /\ Same(files[p], Splice(before[p], n + e.before, e.cut, e.adds))

(* When the answer is ok it names every file that has changed.  An error    *)
(* names none; but the file whose hunk does not fit is as it was, also when *)
(* hunks before it did.                                                     *)
NoUnsaidChange ==
  /\ result = "ok" => \A p \in Names : files[p] # before[p] => p \in report
  /\ result = "error" /\ hunks # <<>> => files[newPath] = before[newPath]

(* The call went as the diff's author wished.                               *)
AsIntended == /\ result = "ok"
              /\ \A p \in Names : Same(files[p], Intended(base, plan)[p])
              /\ crlf = {p \in dos : files[p] # Absent}

(* The code reads where an edit is to go, and sees it: it is the only one   *)
(* of its file and its header has no count, or it is at line 1.  And it     *)
(* does not take a line of a deleted file for the next header.              *)
Understood(section) ==
  /\ section.does = "modify" => /\ Len(section.edits) = 1
                                /\ section.edits[1].at = 1 \/ NewLen(section.edits[1]) = 1
  /\ section.does = "delete" => base[section.path] \in Seq(Texts \cup Pluses)

(* For the files it was made for, if those it modifies have LF, such a      *)
(* patch of several files is applied as intended.  The diff of no file is   *)
(* refused.                                                                 *)
UnderstoodDiffApplies ==
  /\ result \in {"ok", "error"} /\ base = before /\ Whole /\ plan # <<>>
  /\ \A i \in DOMAIN plan : /\ Understood(plan[i])
                            /\ plan[i].does = "modify" => plan[i].path \notin dos
  /\ Len(plan) > 1 => diff[1].kind = "git"
  => AsIntended

(* Every line is read once: apply_patch returns.                            *)
PatchReturns == <>(mode = "done")

(* "Accepts a standard unified diff string": made for these files, it is    *)
(* applied.                                                                 *)
StandardDiffApplies == result \in {"ok", "error"} /\ base = before /\ Whole => AsIntended
=============================================================================
