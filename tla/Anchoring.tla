------------------------------ MODULE Anchoring ------------------------------
(***************************************************************************)
(* Where a finding goes: the diff git wrote is read (core/diff/hunks.ts),  *)
(* and the code a reviewer or an analyzer quotes is looked for in it, in   *)
(* the file, in the other files, and once more after a light model was     *)
(* asked which lines were meant (core/anchor/anchor.ts, match.ts,          *)
(* relocate.ts).  A place that is not certain is no place: the finding is  *)
(* then one of its file.                                                   *)
(*                                                                         *)
(* A line of code is one normalized text.  An edit of a file is a sequence *)
(* of lines with what was done to each; the file before and after, and the *)
(* diff, follow from it.                                                   *)
(***************************************************************************)
EXTENDS Integers, FiniteSets, SequencesExt

CONSTANTS
  Texts,      \* what a line may say
  Blank,      \* the text of an empty line
  Long,       \* texts of MIN_PARTIAL_QUOTE_CHARS or more
  PartOf,     \* pairs of texts: the first is a part of the second
  Edits,      \* what may have been done to the finding's file
  Others,     \* and to another file of the change
  Quotes,     \* what may be quoted: sequences of texts
  Relocations     \* what the light model may answer: quotes, or <<>> for none

VARIABLES
  search,     \* where the search is: given, own, file, other, ask, again, reread, done
  edit,       \* of either file
  bare,       \* git's output: blank context without its space, no newline at the end
  finding,    \* its quote, whether its file is in the diff, whether a model may be asked
  sought,      \* what is looked for: the quote, or the model's answer
  anchor      \* NoAnchor before it is decided

ASSUME AnchorAssumption ==
  /\ Edits \subseteq Seq([did : {"same", "context", "add", "delete"}, text : Texts])
  /\ Others \subseteq Seq([did : {"same", "context", "add", "delete"}, text : Texts])
  /\ Quotes \subseteq Seq(Texts) /\ Relocations \subseteq Seq(Texts)

anchorVars == <<search, edit, bare, finding, sought, anchor>>

NoAnchor == [method |-> "none", file |-> "own", range |-> <<>>, inDiff |-> FALSE]
FileLevel == [NoAnchor EXCEPT !.method = "file_level"]

------------------------------------------------------------------------------
(* Parts of a sequence *)

CountTo(S, n) == Cardinality({i \in S : i <= n})

\* The elements of a sequence at some of its indexes, in its order.
Chosen(seq, I) == [k \in 1..Cardinality(I) |-> seq[CHOOSE i \in I : CountTo(I, i) = k]]

------------------------------------------------------------------------------
(* git: the new version of a file, and the diff that leads to it *)

\* What was done to a line: same and context are unchanged, one is not shown.
OldLines(e) == {i \in DOMAIN e : e[i].did # "add"}
NewLines(e) == {i \in DOMAIN e : e[i].did # "delete"}
After(e) == Chosen(e, NewLines(e))

Shown(e, i) == i \in DOMAIN e /\ e[i].did # "same"
EndOf(e, i) == CHOOSE j \in i..Len(e) : ~Shown(e, j + 1) /\ \A k \in i..j : Shown(e, k)

\* A side of a hunk.  A count of zero is said to be after the line before it.
Side(S, i, j) ==
  LET before == CountTo(S, i - 1)
      count == CountTo(S, j) - before
  IN [start |-> IF count = 0 THEN before ELSE before + 1, count |-> count]
Header(e, i) ==
  [mark |-> "@", old |-> Side(OldLines(e), i, EndOf(e, i)), new |-> Side(NewLines(e), i, EndOf(e, i))]

Mark == [add |-> "+", delete |-> "-", context |-> " "]
RawLine(l) ==
  [mark |-> IF bare /\ l.did = "context" /\ l.text = Blank THEN "" ELSE Mark[l.did],
   text |-> l.text]

\* What git writes at a line: a hunk's header, the line, that no newline follows.
Written(e, i) ==
  (IF Shown(e, i) /\ ~Shown(e, i - 1) THEN <<Header(e, i)>> ELSE <<>>)
    \o (IF Shown(e, i) THEN <<RawLine(e[i])>> ELSE <<>>)
    \o (IF bare /\ Shown(e, i) /\ i = Len(e) THEN <<[mark |-> "\\"]>> ELSE <<>>)

Diff(e) == FlattenSeq([i \in DOMAIN e |-> Written(e, i)])

------------------------------------------------------------------------------
(* Reading it: by the counts of the header, not by how a line begins *)

Reading(hunks, old, new) == [hunks |-> hunks, old |-> old, new |-> new]

\* parseHunks: a line outside a hunk either opens one or is passed over.
Outside(r, raw) ==
  IF raw.mark # "@" THEN r
  ELSE Reading(Append(r.hunks, [start |-> raw.new.start, count |-> raw.new.count, lines |-> <<>>]),
               [left |-> raw.old.count, line |-> raw.old.start],
               [left |-> raw.new.count, line |-> raw.new.start])

Passed(side) == [left |-> side.left - 1, line |-> side.line + 1]
Extended(r, line) ==
  [r.hunks EXCEPT ![Len(r.hunks)].lines = Append(@, line)]
NewLine(kind, r, raw) == [kind |-> kind, text |-> raw.text, line |-> r.new.line]

\* readHunkBody, of one line.
ReadLine(r, raw) ==
  CASE r.old.left = 0 /\ r.new.left = 0 -> Outside(r, raw)
    [] raw.mark = "\\" -> r
    [] raw.mark = "+" /\ r.new.left > 0 ->
         Reading(Extended(r, NewLine("add", r, raw)), r.old, Passed(r.new))
    [] raw.mark = "-" /\ r.old.left > 0 ->
         Reading(Extended(r, [kind |-> "delete", text |-> raw.text, line |-> r.old.line]),
                 Passed(r.old), r.new)
    [] raw.mark \in {" ", ""} /\ r.old.left > 0 /\ r.new.left > 0 ->
         Reading(Extended(r, NewLine("context", r, raw)), Passed(r.old), Passed(r.new))
    [] OTHER -> Outside([r EXCEPT !.old.left = 0, !.new.left = 0], raw)

NoSide == [left |-> 0, line |-> 0]

\* parseHunks, over all lines.
ReadAll(r, lines) ==
  LET upTo[n \in 0..Len(lines)] == IF n = 0 THEN r ELSE ReadLine(upTo[n - 1], lines[n])
  IN upTo[Len(lines)]

Hunks(e) == ReadAll(Reading(<<>>, NoSide, NoSide), Diff(e)).hunks

------------------------------------------------------------------------------
(* Matching *)

\* nonBlank, of what newSideLines, a file and a quote hold.
Group(hunk) ==
  Chosen(hunk.lines, {k \in DOMAIN hunk.lines : hunk.lines[k].kind # "delete" /\ hunk.lines[k].text # Blank})
Groups(e) == {Group(h) : h \in Range(Hunks(e))}
Filled(content, first, last) == {n \in first..last : content[n].text # Blank}
Whole(content) ==
  Chosen([n \in DOMAIN content |-> [kind |-> "context", text |-> content[n].text, line |-> n]],
         Filled(content, 1, Len(content)))
Target(quote) == Chosen(quote, {k \in DOMAIN quote : quote[k] # Blank})

\* A line is the text, or includes it.
Fits(line, text, partly) == line = text \/ (partly /\ <<text, line>> \in PartOf)

\* consecutiveMatches
Matches(lines, target, partly) ==
  {[range |-> <<lines[i].line, lines[i + Len(target) - 1].line>>,
    added |-> \E k \in i..(i + Len(target) - 1) : lines[k].kind = "add"] :
     i \in {n \in DOMAIN lines :
              /\ n + Len(target) - 1 <= Len(lines)
              /\ \A k \in DOMAIN target : Fits(lines[n + k - 1].text, target[k], partly)}}

Across(groups, target, partly) == UNION {Matches(g, target, partly) : g \in groups}

\* Whole lines first; part of a line only where it is long and fits one.
FindMatches(groups, target) ==
  LET exact == Across(groups, target, FALSE)
      partial == Across(groups, target, TRUE)
  IN IF exact # {} \/ Len(target) > 1 THEN exact
     ELSE IF target[1] \in Long /\ \E m \in partial : partial = {m} THEN partial ELSE {}

\* pick: what the change added wins; several of the best are none.
Best(matches) ==
  IF \E m \in matches : m.added THEN {m \in matches : m.added} ELSE matches

Found(groups, quote) ==
  IF Target(quote) = <<>> THEN {} ELSE Best(FindMatches(groups, Target(quote)))

ExactMatches(e, quote) ==
  IF Target(quote) = <<>> THEN {} ELSE Across(Groups(e), Target(quote), FALSE)

\* changedLines, touches: what an analyzer found on lines the change touches.
Touches(e, range) ==
  \E h \in Range(Hunks(e)) :
    h.count > 0 /\ range[1] <= h.start + h.count - 1 /\ range[2] >= h.start

\* One line too many.
IsNearHunks(e, range) ==
  \E h \in Range(Hunks(e)) : h.start <= range[1] /\ range[2] <= h.start + h.count

IsWithinHunks(e, range) ==
  \E h \in Range(Hunks(e)) : h.start <= range[1] /\ range[2] <= h.start + h.count - 1

------------------------------------------------------------------------------
At(method, file, range, inDiff) ==
  [method |-> method, file |-> file, range |-> range, inDiff |-> inDiff]

Settled(a) == search' = "done" /\ anchor' = a
Goes(s) == search' = s /\ UNCHANGED anchor

NoFinding == [quote |-> <<>>, inDiff |-> FALSE, asks |-> FALSE]

AnchorInit ==
  /\ search = "given"
  /\ edit = [own |-> <<>>, other |-> <<>>] /\ bare = FALSE
  /\ finding = NoFinding /\ sought = <<>>
  /\ anchor = NoAnchor

Looks(f) == search' = "own" /\ finding' = f /\ sought' = f.quote /\ UNCHANGED anchor

\* A reviewer's finding, of its bundle's files or of another file; a model is
\* asked for those of the bundle only (execute.ts:238-248).
Reported ==
  /\ search = "given"
  /\ edit' \in [own : Edits, other : Others] /\ bare' \in BOOLEAN
  /\ \E q \in Quotes, kind \in {<<TRUE, TRUE>>, <<TRUE, FALSE>>, <<FALSE, FALSE>>} :
       Looks([quote |-> q, inDiff |-> kind[1], asks |-> kind[2]])

\* An analyzer's finding, on lines the diff shows: its quote is those lines, as
\* the file has them; its line numbers are not trusted further.
Imported ==
  /\ search = "given"
  /\ edit' \in [own : Edits, other : Others] /\ bare' \in BOOLEAN
  /\ LET content == After(edit'.own)
     IN \E range \in (DOMAIN content) \X (DOMAIN content) :
          LET quote == [k \in 1..(range[2] + 1 - range[1]) |-> content[range[1] + k - 1].text]
          IN /\ range[1] <= range[2]
             /\ Touches(edit'.own, range)
             /\ \E k \in DOMAIN quote : quote[k] # Blank
             /\ Looks([quote |-> quote, inDiff |-> TRUE, asks |-> FALSE])

\* locateInFile in the hunks, of the quote and of the model's answer.
InHunks(at, method, next) ==
  /\ search = at
  /\ \E matches \in {Found(Groups(edit.own), sought)} :
       \/ matches = {} /\ Goes(next)
       \/ \E m \in matches :
            Settled(IF matches = {m} THEN At(method, "own", m.range, TRUE) ELSE FileLevel)
  /\ UNCHANGED <<edit, bare, finding, sought>>

OwnHunks == finding.inDiff /\ InHunks("own", "hunk", "file")

\* The finding is on a file the change does not touch.
NotOwn ==
  /\ search = "own" /\ ~finding.inDiff /\ Goes("other")
  /\ UNCHANGED <<edit, bare, finding, sought>>

\* locateInFile in the file, which may be unreadable.
InFile(at, method, next) ==
  /\ search = at
  /\ \/ \E matches \in {Found({Whole(After(edit.own))}, sought)} :
          \/ matches = {} /\ next
          \/ \E m \in matches :
               Settled(IF matches = {m} THEN At(method, "own", m.range, IsWithinHunks(edit.own, m.range))
                       ELSE FileLevel)
     \/ next
  /\ UNCHANGED <<edit, bare, finding, sought>>

OwnFile == InFile("file", "file", Goes("other"))

\* An exact quote that is in one place of the other files; a model names wrong files.
OtherFiles ==
  /\ search = "other"
  /\ \E places \in {UNION {{<<f, m.range>> : m \in ExactMatches(edit[f], finding.quote)} :
                           f \in IF finding.inDiff THEN {"other"} ELSE {"own", "other"}}} :
       \/ \E p \in places : places = {p} /\ Settled(At("cross_file", p[1], p[2], TRUE))
       \/ /\ \A p \in places : places # {p}
          /\ IF finding.inDiff /\ finding.asks THEN Goes("ask") ELSE Settled(FileLevel)
  /\ UNCHANGED <<edit, bare, finding, sought>>

\* The light model answers with a quote, with none, or fails.
AskModel ==
  /\ search = "ask"
  /\ \E a \in Relocations :
       IF a = <<>> THEN Settled(FileLevel) /\ UNCHANGED sought
       ELSE sought' = a /\ Goes("again")
  /\ UNCHANGED <<edit, bare, finding>>

RelocatedHunks == InHunks("again", "relocated", "reread")

RelocatedFile == InFile("reread", "relocated", Settled(FileLevel))

AnchorNext ==
  \/ Reported \/ Imported
  \/ OwnHunks \/ NotOwn \/ OwnFile \/ OtherFiles \/ AskModel \/ RelocatedHunks \/ RelocatedFile
AnchorSpec == AnchorInit /\ [][AnchorNext]_anchorVars

------------------------------------------------------------------------------
(* What the two versions say, whatever the diff looks like *)

\* The lines of a range are those quoted, or hold them; blank lines aside.
Reads(content, range, quote, partly) ==
  LET there == Chosen(content, Filled(content, range[1], range[2]))
  IN /\ Len(there) = Len(Target(quote))
     /\ \A k \in DOMAIN there : Fits(there[k].text, Target(quote)[k], partly)

\* The tight ranges: neither end is blank.
Ranges(content) ==
  {r \in (DOMAIN content) \X (DOMAIN content) :
     r[1] <= r[2] /\ content[r[1]].text # Blank /\ content[r[2]].text # Blank}
Places(content, quote) == {r \in Ranges(content) : Reads(content, r, quote, FALSE)}

\* The lines of the new version that the diff shows, and those it added, blank
\* ones aside: an added blank line is no match's (match.ts:89-112).
LineOf(e, i) == CountTo(NewLines(e), i)
ShownLines(e) == {LineOf(e, i) : i \in {k \in NewLines(e) : Shown(e, k)}}
AddedLines(e) == {LineOf(e, i) : i \in {k \in DOMAIN e : e[k].did = "add" /\ e[k].text # Blank}}

Shows(e, range) == range[1]..range[2] \subseteq ShownLines(e)
Adds(e, range) == (range[1]..range[2]) \cap AddedLines(e) # {}

\* The places the diff shows that are as good as any: those it added to, if any.
BestShown(e, quote) ==
  LET shown == {r \in Places(After(e), quote) : Shows(e, r)}
      added == {r \in shown : Adds(e, r)}
  IN IF added # {} THEN added ELSE shown

\* What is said to be at some lines is at those lines of the file as it is, is
\* shown by the diff where that is said, and is nowhere else in the diff that is
\* as good: "a wrong line is worse than a file-level comment" (match.ts:16-19).
\* And what is in one place only is not given up (anchor.ts:54-77).
AnchoredTruly ==
  /\ anchor.range # <<>> =>
       LET e == edit[anchor.file]
       IN /\ anchor.range \in Ranges(After(e))
          /\ Reads(After(e), anchor.range, sought, TRUE)
          /\ anchor.inDiff <=> Shows(e, anchor.range)
          /\ anchor.inDiff => BestShown(e, sought) \subseteq {anchor.range}
          /\ ~anchor.inDiff => Places(After(e), sought) \subseteq {anchor.range}
  /\ search = "done" /\ finding.inDiff =>
       \A r \in BestShown(edit.own, finding.quote) :
         BestShown(edit.own, finding.quote) = {r} => anchor.method = "hunk" /\ anchor.range = r
=============================================================================
