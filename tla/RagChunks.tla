----------------------------- MODULE RagChunks -----------------------------
(***************************************************************************)
(* How "RAG against the machine" cuts a file into chunks (chunker.py).     *)
(*                                                                         *)
(* A text is a sequence of characters of which only this is kept: "n" is a *)
(* newline, " " a blank, "d" at the start of a line the first character of *)
(* a top-level function or class of a Python file, "e" something that is   *)
(* not Python, and "x" any other character.  Positions count from 0, as    *)
(* in the code.                                                            *)
(***************************************************************************)
EXTENDS Integers, Sequences, SequencesExt, FiniteSetsExt

Text == Seq({"x", "d", "e", "n", " "})

Blank(t) == \A i \in DOMAIN t : t[i] \in {"n", " "}

\* t[start:end] of Python: positions beyond the end are cut off
Slice(t, start, end) == SubSeq(t, start + 1, IF end > Len(t) THEN Len(t) ELSE end)

Chunk(t, start) == [text |-> t, start |-> start, end |-> start + Len(t)]

Filled(chunks) == FlattenSeq([i \in DOMAIN chunks |-> IF Blank(chunks[i].text) THEN <<>> ELSE <<chunks[i]>>])

\* The parts of t between separators of the given width that start at the places of cuts
Parts(t, cuts, width) ==
  LET from(i) == Max({0} \cup {c + width - 1 : c \in {d \in cuts : d < i}})
      ends == cuts \cup {Len(t) + 1}
  IN  FlattenSeq([i \in 1 .. Len(t) + 1 |->
        IF i \in ends THEN <<Chunk(Slice(t, from(i), i - 1), from(i))>> ELSE <<>>])

\* text.split('\n')
Lines(t) == Parts(t, {i \in DOMAIN t : t[i] = "n"}, 1)

\* content.split('\n\n'): of a run of newlines, every second one starts a separator
Paragraphs(t) ==
  LET Run(i) == Max({0} \cup {j \in 1 .. i : t[j] # "n"})
      Cut(i) == i < Len(t) /\ t[i] = "n" /\ t[i + 1] = "n" /\ (i - Run(i)) % 2 = 1
  IN  Parts(t, {i \in DOMAIN t : Cut(i)}, 2)

HardSplit(t, base, size) ==
  LET blocks == (Len(t) + size - 1) \div size
      from(j) == (j - 1) * size
  IN  Filled([j \in 1 .. blocks |-> Chunk(Slice(t, from(j), from(j) + size), base + from(j))])

-----------------------------------------------------------------------------

\* Mutant: a flush does not move the position
AddLine_NotMoved(s, line, size) ==
  IF Len(line) > size
  THEN [out |-> (IF Blank(s.cur) THEN s.out ELSE Append(s.out, Chunk(s.cur, s.off)))
                  \o HardSplit(line, s.off, size),
        cur |-> IF Blank(s.cur) THEN s.cur ELSE <<>>,
        off |-> s.off + Len(line) + 1]
  ELSE IF s.cur # <<>> /\ Len(s.cur) + Len(line) + 1 > size
  THEN [out |-> Append(s.out, Chunk(s.cur, s.off)), cur |-> line, off |-> s.off]
  ELSE [s EXCEPT !.cur = IF @ = <<>> THEN line ELSE @ \o <<"n">> \o line]

(* Lines are collected in cur, which starts at off, until one more would be
   too many.  A blank cur is not flushed before a long line, and an empty one
   takes the next line without counting the newline in between. *)
AddLine(s, line, size) ==
  LET flush == ~Blank(s.cur)
      at == IF flush THEN s.off + Len(s.cur) + 1 ELSE s.off
      done == Append(s.out, Chunk(s.cur, s.off))
  IN  IF Len(line) > size
      THEN [out |-> (IF flush THEN done ELSE s.out) \o HardSplit(line, at, size),
            cur |-> IF flush THEN <<>> ELSE s.cur,
            off |-> at + Len(line) + 1]
      ELSE IF s.cur # <<>> /\ Len(s.cur) + Len(line) + 1 > size
      THEN [out |-> done, cur |-> line, off |-> s.off + Len(s.cur) + 1]
      ELSE [s EXCEPT !.cur = IF @ = <<>> THEN line ELSE @ \o <<"n">> \o line]

\* The chunks cut so far and what is left in cur
Flushed(s) == IF Blank(s.cur) THEN s.out ELSE Append(s.out, Chunk(s.cur, s.off))

OrHardSplit(chunks, t, base, size) ==
  IF chunks = <<>> THEN HardSplit(t, base, size) ELSE chunks

SplitBySize(t, base, size) ==
  LET lines == Lines(t)
      read[i \in 0 .. Len(lines)] ==
        IF i = 0 THEN [out |-> <<>>, cur |-> <<>>, off |-> base]
                 ELSE AddLine(read[i - 1], lines[i].text, size)
  IN  OrHardSplit(Flushed(read[Len(lines)]), t, base, size)

EnforceMaxSize(chunks, size) ==
  FlattenSeq([i \in DOMAIN chunks |->
    IF Len(chunks[i].text) <= size THEN <<chunks[i]>>
    ELSE HardSplit(chunks[i].text, chunks[i].start, size)])

\* Paragraphs are joined again by one empty line, whatever stood between them
AddParagraph(s, p, size) ==
  LET done == Append(s.out, Chunk(s.cur, s.start))
  IN  IF Len(p.text) > size
      THEN [out |-> (IF s.cur = <<>> THEN s.out ELSE done) \o SplitBySize(p.text, p.start, size),
            cur |-> <<>>, start |-> p.end + 2]
      ELSE IF s.cur = <<>> THEN [s EXCEPT !.cur = p.text, !.start = p.start]
      ELSE IF Len(s.cur) + Len(p.text) + 2 > size
      THEN [out |-> done, cur |-> p.text, start |-> p.start]
      ELSE [s EXCEPT !.cur = @ \o <<"n", "n">> \o p.text]

Closed(s) == IF s.cur = <<>> THEN s.out ELSE Append(s.out, Chunk(s.cur, s.start))

ChunkTextFile(t, size) ==
  LET paragraphs == Filled(Paragraphs(t))
      read[i \in 0 .. Len(paragraphs)] ==
        IF i = 0 THEN [out |-> <<>>, cur |-> <<>>, start |-> 0]
                 ELSE AddParagraph(read[i - 1], paragraphs[i], size)
  IN  EnforceMaxSize(Closed(read[Len(paragraphs)]), size)

\* ast.parse, and the lines where its top-level functions and classes start
Parses(t) == \A i \in DOMAIN t : t[i] # "e"
Definitions(t) == {i \in DOMAIN t : t[i] = "d" /\ (i = 1 \/ t[i - 1] = "n")}

\* The text from one definition to the next
Blocks(t) == Filled(Parts(t, Definitions(t), 0))

SplitBlocks(blocks, size) ==
  FlattenSeq([j \in DOMAIN blocks |->
    IF Len(blocks[j].text) <= size THEN <<blocks[j]>>
    ELSE SplitBySize(blocks[j].text, blocks[j].start, size)])

\* A file that does not parse, or has no block, is cut like any other text.
GetFileChunks(kind, t, size) ==
  IF kind = "py" /\ Parses(t) /\ Blocks(t) # <<>>
  THEN EnforceMaxSize(SplitBlocks(Blocks(t), size), size)
  ELSE ChunkTextFile(t, size)

-----------------------------------------------------------------------------
(* What a cut of a text should be. *)

\* The characters of the text that are not white space
Ink(t) == FlattenSeq([i \in DOMAIN t |-> IF t[i] \in {"n", " "} THEN <<>> ELSE <<t[i]>>])

\* No ink is lost, repeated or moved
KeepsInk(chunks, t) == FlattenSeq([i \in DOMAIN chunks |-> Ink(chunks[i].text)]) = Ink(t)

\* Every chunk is the text between its positions
Exact(chunks, t) == \A i \in DOMAIN chunks : Slice(t, chunks[i].start, chunks[i].end) = chunks[i].text

(* A text whose paragraphs are apart by one empty line and which starts with
   ink; in a Python file, one without empty lines. *)
Regular(kind, t) ==
  /\ t = <<>> \/ ~Blank(<<t[1]>>)
  /\ \A i \in DOMAIN t : t[i] # " "
  /\ \A i \in 1 .. Len(t) - 1 : t[i] = "n" /\ t[i + 1] = "n" =>
        kind # "py" /\ i + 2 <= Len(t) /\ t[i + 2] # "n"
=============================================================================
