----------------------------- MODULE ChunkPlan -----------------------------
(***************************************************************************)
(* From a Confluence body to the chunks of a page (ingestion/domain:       *)
(* normalization.py, tokenization.py, chunking.py).                        *)
(*                                                                         *)
(* A text is a sequence of words; a word has a size in tokens and is cut   *)
(* only where it is longer than a window, so a word here is a run of size  *)
(* tokens of word id from token from on.  A hash is what it is the hash of.*)
(* The count of a text is the sum of its words', which the code's counters *)
(* are only about: the whitespace one is when no word is cut, and a BPE    *)
(* count of joined texts may differ from the sum by the tokens of a seam.  *)
(***************************************************************************)
EXTENDS Integers, Sequences, FiniteSets, SequencesExt

CONSTANTS
  ParentTarget, ParentMax,            \* ChunkConfig, in tokens
  ChildTarget, ChildMin, ChildMax,
  Overlap                             \* int(child_target * child_overlap_ratio)

ASSUME ChunkConfigAssumption ==
  /\ {ParentTarget, ParentMax, ChildTarget, ChildMin, ChildMax} \subseteq Nat \ {0}
  /\ ParentTarget <= ParentMax
  /\ Overlap \in Nat /\ Overlap < ChildTarget
  /\ ChildTarget + ChildMin <= ChildMax + 1

WordIds == STRING \cup {"Attachments"}
Word == [id: WordIds, from: Nat, size: Nat \ {0}]
Text == Seq(Word)

WordTokens(word) == {<<word.id, word.from + k>> : k \in 0..word.size - 1}
Tokens(text)     == UNION {WordTokens(text[i]) : i \in DOMAIN text}

(* The items of a set, in the order of a sequence. *)
Among(seq, S) == FlattenSeq([i \in DOMAIN seq |-> IF seq[i] \in S THEN <<seq[i]>> ELSE <<>>])

-----------------------------------------------------------------------------
(* tokenization.py                                                         *)

Count(text) == FoldLeft(LAMBDA n, word : n + word.size, 0, text)

(* _hard_split_word, for a word too long for a window.                     *)
Pieces(word, max) ==
  LET n == (word.size + max - 1) \div max IN
  [k \in 1..n |-> [id |-> word.id, from |-> word.from + (k - 1) * max,
                   size |-> IF k < n THEN max ELSE word.size - (n - 1) * max]]

Atomize(text, max) ==
  FlattenSeq([i \in DOMAIN text |->
                IF text[i].size <= max THEN <<text[i]>> ELSE Pieces(text[i], max)])

(* _overlap_tail, and what is left once a window has been trimmed from the *)
(* front: the longest end of a window within a limit.                      *)
LongestTail(text, limit) ==
  LET fits == {i \in 1..Len(text) + 1 : Count(SubSeq(text, i, Len(text))) <= limit}
  IN SubSeq(text, Min(fits), Len(text))

NextWindow(max, overlap, w, atom) ==
  IF w.cur # <<>> /\ Count(Append(w.cur, atom)) > max
  THEN [done |-> Append(w.done, w.cur),
        cur  |-> LongestTail(Append(LongestTail(w.cur, overlap), atom), max)]
  ELSE [w EXCEPT !.cur = Append(@, atom)]

Split(text, max, overlap) ==
  LET last == FoldLeft(LAMBDA w, atom : NextWindow(max, overlap, w, atom),
                       [done |-> <<>>, cur |-> <<>>], Atomize(text, max))
  IN CASE text = <<>> -> <<>>
       [] text # <<>> /\ Count(text) <= max -> <<text>>
       [] OTHER -> Append(last.done, last.cur)

-----------------------------------------------------------------------------
(* normalization.py.  A body is what html.parser makes of it: a tag opened,*)
(* a tag closed, text, a CDATA section (the body of a code macro, as a     *)
(* rule), or a declaration it raises on; "macro" is any macro without a    *)
(* kind of its own.                                                        *)

HeadingTags == [h1 |-> 1, h2 |-> 2, h3 |-> 3, h4 |-> 4, h5 |-> 5, h6 |-> 6]
Headings    == DOMAIN HeadingTags
MacroTags   == {"code", "panel", "macro"}

Event ==
  [event: {"open", "close"}, tag: STRING] \cup [event: {"data", "cdata"}, text: Text]
    \cup [event: {"broken"}]

Block(kind, level, text) == [kind |-> kind, level |-> level, text |-> text]

(* _flush: a heading's text becomes a heading only at its closing tag.     *)
Flush(s, level) ==
  IF s.buf = <<>> THEN s
  ELSE [blocks |-> Append(s.blocks, Block(s.kind, level, s.buf)), buf |-> <<>>,
        kind |-> "paragraph"]

HandleStart(s, tag) ==
  CASE tag \in Headings -> [Flush(s, 0) EXCEPT !.kind = "heading"]
    [] tag \in {"list", "table", "code", "panel"} -> [Flush(s, 0) EXCEPT !.kind = tag]
    [] OTHER -> s

HandleEnd(s, tag) ==
  CASE tag \in Headings -> [Flush(s, HeadingTags[tag]) EXCEPT !.kind = "paragraph"]
    [] tag \in {"list", "table"} \cup MacroTags -> [Flush(s, 0) EXCEPT !.kind = "paragraph"]
    [] tag = "p" -> Flush(s, 0)
    [] OTHER -> s

(* A CDATA section goes to unknown_decl, which _StorageParser leaves as it *)
(* is: its text is dropped, though code blocks are to be kept              *)
(* (normalization.py:5).                                                   *)
HandleEvent(s, e) ==
  CASE e.event = "open"  -> HandleStart(s, e.tag)
    [] e.event = "close" -> HandleEnd(s, e.tag)
    [] e.event = "data"  -> [s EXCEPT !.buf = @ \o e.text]
    [] OTHER -> s

Parsed(body) ==
  Flush(FoldLeft(HandleEvent, [blocks |-> <<>>, buf |-> <<>>, kind |-> "paragraph"], body), 0).blocks

(* The lenient fallback: the tags stripped, one paragraph.                 *)
Stripped(body) ==
  LET text == FlattenSeq([i \in DOMAIN body |->
                            IF body[i].event = "data" THEN body[i].text ELSE <<>>])
  IN IF text = <<>> THEN <<>> ELSE <<Block("paragraph", 0, text)>>

NormalizeBody(body) ==
  IF \E i \in DOMAIN body : body[i].event = "broken" THEN Stripped(body) ELSE Parsed(body)

IsHeading(b) == b.kind = "heading" /\ b.level > 0

(* _attach_heading_paths: the headings still open at block i.              *)
HeadingPath(blocks, i) ==
  LET Open(j) == /\ IsHeading(blocks[j])
                 /\ \A k \in j + 1..i :
                      IsHeading(blocks[k]) => blocks[k].level > blocks[j].level
      open == Among([j \in 1..i |-> j], {j \in 1..i : Open(j)})
  IN [n \in DOMAIN open |-> blocks[open[n]].text]

WithHeadingPaths(blocks) ==
  [i \in DOMAIN blocks |->
     [kind |-> blocks[i].kind, level |-> blocks[i].level, text |-> blocks[i].text,
      path |-> HeadingPath(blocks, i)]]

ContentHash(blocks) ==
  [i \in DOMAIN blocks |-> <<blocks[i].kind, blocks[i].level, blocks[i].text>>]

(* ">".join(path): what every key takes of a heading path, and two paths   *)
(* may have one, if a heading has a ">" in it (here, a word of its own).   *)
Greater == [id |-> ">", from |-> 0, size |-> 1]
Joined(path) ==
  FlattenSeq([n \in DOMAIN path |-> IF n = 1 THEN path[n] ELSE <<Greater>> \o path[n]])

(* The section that begins at block i: at a heading, or at a first block   *)
(* that is none.  Sections of one joined path are numbered.                *)
SectionAt_Unnumbered(blocks, i) ==
  LET ends  == {j \in i + 1..Len(blocks) : IsHeading(blocks[j])} \cup {Len(blocks) + 1}
      first == IF IsHeading(blocks[i]) THEN i + 1 ELSE i
  IN [path    |-> blocks[i].path,
      level   |-> IF IsHeading(blocks[i]) THEN blocks[i].level ELSE 0,
      ordinal |-> 0,
      units   |-> [n \in 1..Min(ends) - first |-> blocks[first + n - 1].text]]
SectionAt(blocks, i) ==
  LET ends  == {j \in i + 1..Len(blocks) : IsHeading(blocks[j])} \cup {Len(blocks) + 1}
      first == IF IsHeading(blocks[i]) THEN i + 1 ELSE i
      twins == {j \in 1..i - 1 : IsHeading(blocks[j]) /\ Joined(blocks[j].path) = Joined(blocks[i].path)}
  IN [path    |-> blocks[i].path,
      level   |-> IF IsHeading(blocks[i]) THEN blocks[i].level ELSE 0,
      ordinal |-> Cardinality(twins),
      units   |-> [n \in 1..Min(ends) - first |-> blocks[first + n - 1].text]]

BuildSections(blocks) ==
  LET starts == Among([i \in DOMAIN blocks |-> i],
                      {i \in DOMAIN blocks : i = 1 \/ IsHeading(blocks[i])})
  IN [n \in DOMAIN starts |-> SectionAt(blocks, starts[n])]

-----------------------------------------------------------------------------
(* chunking.py                                                             *)

SectionUnits(section) ==
  IF section.units = <<>> /\ section.path # <<>> THEN <<Last(section.path)>> ELSE section.units

Packed(cur) == IF cur = <<>> THEN <<>> ELSE <<cur>>

PackUnit_Forgets(p, unit) ==
  CASE Count(unit) > ParentMax ->
         [groups |-> p.groups \o Split(unit, ParentTarget, 0), cur |-> <<>>]
    [] Count(unit) <= ParentMax /\ p.cur # <<>> /\ Count(p.cur \o unit) > ParentTarget ->
         [groups |-> Append(p.groups, p.cur), cur |-> unit]
    [] OTHER -> [p EXCEPT !.cur = @ \o unit]
PackUnit(p, unit) ==
  CASE Count(unit) > ParentMax ->
         [groups |-> p.groups \o Packed(p.cur) \o Split(unit, ParentTarget, 0), cur |-> <<>>]
    [] Count(unit) <= ParentMax /\ p.cur # <<>> /\ Count(p.cur \o unit) > ParentTarget ->
         [groups |-> Append(p.groups, p.cur), cur |-> unit]
    [] OTHER -> [p EXCEPT !.cur = @ \o unit]

PackParents(units) ==
  LET p == FoldLeft(PackUnit, [groups |-> <<>>, cur |-> <<>>], units) IN p.groups \o Packed(p.cur)

(* _split_children: windows with overlap; a short last one is joined to    *)
(* the one before.                                                         *)
Short_Any(window) == TRUE
Short(window) == Count(window) < ChildMin

JoinShort(windows) ==
  LET n == Len(windows)
  IN IF n >= 2 /\ Short(Last(windows))
     THEN Append(SubSeq(windows, 1, n - 2), windows[n - 1] \o windows[n])
     ELSE windows

SplitChildren(parent) ==
  IF Count(parent) <= ChildMax THEN <<parent>> ELSE JoinShort(Split(parent, ChildTarget, Overlap))

(* The parents of a section, each with its children; a child's ordinal     *)
(* runs over the section.                                                  *)
WithChildren(key, parents, cut) ==
  LET before(p) == Len(FlattenSeq(SubSeq(cut, 1, p - 1)))
  IN [p \in DOMAIN parents |->
        [section |-> key, n |-> p, text |-> parents[p],
         children |-> [c \in DOMAIN cut[p] |->
                         [section |-> key, parent |-> p, ordinal |-> before(p) + c,
                          text |-> cut[p][c]]]]]

PlanParents(key, parents) ==
  WithChildren(key, parents, [p \in DOMAIN parents |-> SplitChildren(parents[p])])

PlanSection(section) ==
  PlanParents([path |-> section.path, level |-> section.level, ordinal |-> section.ordinal],
              PackParents(SectionUnits(section)))

PlanChunks(blocks) ==
  LET sections == BuildSections(blocks)
  IN FlattenSeq([s \in DOMAIN sections |-> PlanSection(sections[s])])

PlannedChildren(plan) == FlattenSeq([p \in DOMAIN plan |-> plan[p].children])

(* section_stable_key, of the page.                                        *)
SectionKey(section) ==
  [path |-> Joined(section.path), level |-> section.level, ordinal |-> section.ordinal]

PositionalKey(c) == [section |-> SectionKey(c.section), parent |-> c.parent, ordinal |-> c.ordinal]
ContentKey(c)    == c.text
StableKey(c)     == <<PositionalKey(c), ContentKey(c)>>
=============================================================================
