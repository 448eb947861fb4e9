-------------------------------- MODULE Rag --------------------------------
(***************************************************************************)
(* The commands of "RAG against the machine": index, search, answer,       *)
(* search_dataset, answer_dataset and evaluate.  They are processes of     *)
(* their own which share nothing but files: index writes four of them one  *)
(* after the other, and may be killed between two writes; the others may   *)
(* read them at any time; and the indexed files may change between any two *)
(* commands.                                                               *)
(*                                                                         *)
(* The scores of BM25 are any; a question no word of which is indexed      *)
(* scores 0.  The answer of the language model is its prompt.              *)
(***************************************************************************)
EXTENDS RagChunks, FiniteSets, TLC

CONSTANTS Files,       \* the files of the repository, in the order of the walk
          Kind,          \* of each: "py", "text", or "skipped" for a folder or extension left out
          Trees,         \* the repositories there may be at first
          Indexables,    \* more of them, for which a run is one command only
          Edits,         \* what a file may be replaced by; None is a deletion
          Sizes,         \* values of --max_chunk_size
          Ks, Limits,    \* values of --k and --limit; None is no limit
          Marks,         \* what a text may score for a question
          MaxSources, MaxContext,   \* of the prompt
          Questions,     \* the dataset: id (None if it has none), known, sources expected
          MaxEdits, MaxKills, MaxRuns,   \* bounds of the model: changes, kills, commands
          None

ASSUME SizesPositive == Sizes \subseteq Nat \ {0}

\* The walk gives every file once
ASSUME FilesAssumption == Files \in Seq(ToSet(Files)) /\ IsInjective(Files)

\* A file that is there holds a text
Repository(tr) ==
  /\ DOMAIN tr = ToSet(Files)
  /\ \A f \in ToSet(Files) : tr[f] = None \/ tr[f] \in Text

ASSUME TreesAssumption ==
  /\ \A tr \in Trees \cup Indexables : Repository(tr)
  /\ \A t \in Edits : t = None \/ t \in Text

\* Options are numbers or not given, and a prompt has room for something
ASSUME OptionsAssumption ==
  /\ Ks \subseteq Int /\ Marks \subseteq Int /\ Limits \subseteq Int \cup {None} /\ None \notin Int
  /\ MaxSources \in Nat \ {0} /\ MaxContext \in Nat \ {0}

\* A question of the dataset expects some sources, which are pieces of files
ASSUME QuestionsAssumption ==
  /\ Questions \in Seq(ToSet(Questions))
  /\ \A q \in ToSet(Questions) :
       IsFiniteSet(q.sources) /\ \A g \in q.sources : g.start \in Int /\ g.end \in Int

ASSUME BoundsAssumption == MaxEdits \in Nat /\ MaxKills \in Nat /\ MaxRuns \in Nat \ {0}

Stored == <<"bm25", "meta", "texts", "manifest">>

VARIABLES tree,    \* file -> text, or None
          disk,    \* name of Stored -> its content, "absent" or "broken" while it is written
          ix,      \* the index command; tree and size are history, of its start
          rd,      \* the command that reads, with the index it has loaded
          results, \* the file of search_dataset; of and all are history: the index and all it found
          answers, \* the file of answer_dataset; of and tree are history
          shown,   \* what search and answer print
          report,  \* what evaluate prints
          last,    \* history: the chunks of the last complete save, None while one is under way
          edits, kills, runs

vars == <<tree, disk, ix, rd, results, answers, shown, report, last, edits, kills, runs>>

NoFile == [state |-> "absent"]
Half == [state |-> "broken"]
File(v) == [state |-> "whole", value |-> v]
Whole(f) == f.state = "whole"

Quiet == [pc |-> "idle"]

Init ==
  /\ tree \in Trees \cup Indexables
  /\ disk = [n \in ToSet(Stored) |-> NoFile]
  /\ ix = Quiet /\ rd = Quiet
  /\ results = NoFile /\ answers = NoFile
  /\ shown = None /\ report = None /\ last = None
  /\ edits = 0 /\ kills = 0
  /\ runs = IF tree \in Trees THEN 0 ELSE MaxRuns - 1

-----------------------------------------------------------------------------
(* index *)

Indexed(f) == Kind[f] # "skipped" /\ tree[f] # None /\ ~Blank(tree[f])

\* BM25Index.build: the chunks of all files, each with its file
Build(size) ==
  LET Of(f, chunks) == [i \in DOMAIN chunks |-> [file |-> f, text |-> chunks[i].text,
                                                  start |-> chunks[i].start, end |-> chunks[i].end]]
  IN  FlattenSeq([j \in DOMAIN Files |->
        LET f == Files[j]
        IN  IF Indexed(f) THEN Of(f, Filled(GetFileChunks(Kind[f], tree[f], size))) ELSE <<>>])

Meta(chunks) == [i \in DOMAIN chunks |->
                   [file |-> chunks[i].file, start |-> chunks[i].start, end |-> chunks[i].end]]
Texts(chunks) == [i \in DOMAIN chunks |-> chunks[i].text]

Contents(chunks) ==
  [n \in ToSet(Stored) |->
    CASE n = "bm25" -> Texts(chunks) [] n = "meta" -> Meta(chunks)
      [] n = "texts" -> Texts(chunks) [] n = "manifest" -> Len(chunks)]

\* One more command, on a terminal where the output of the one before is gone
Run ==
  /\ runs < MaxRuns /\ runs' = runs + 1
  /\ shown' = None /\ report' = None

Index(size) ==
  /\ Run
  /\ ix = Quiet
  /\ \E c \in {Build(size)} : ix' = [pc |-> "saving", chunks |-> c, at |-> 1, tree |-> tree, size |-> size]
  /\ UNCHANGED <<tree, disk, rd, results, answers, last, edits, kills>>

\* Mutant: texts that are already stored are kept
Truncate_KeepsTexts ==
  /\ ix.pc = "saving"
  /\ IF Stored[ix.at] = "texts" /\ Whole(disk.texts)
     THEN ix' = [ix EXCEPT !.at = @ + 1] /\ disk' = disk
     ELSE /\ disk' = [disk EXCEPT ![Stored[ix.at]] = Half]
          /\ ix' = [ix EXCEPT !.pc = "writing"]
  /\ last' = None
  /\ UNCHANGED <<tree, rd, results, answers, shown, report, edits, kills, runs>>

\* open(..., 'w') empties the file
Truncate ==
  /\ ix.pc = "saving"
  /\ disk' = [disk EXCEPT ![Stored[ix.at]] = Half]
  /\ ix' = [ix EXCEPT !.pc = "writing"]
  /\ last' = None
  /\ UNCHANGED <<tree, rd, results, answers, shown, report, edits, kills, runs>>

Dump ==
  /\ ix.pc = "writing"
  /\ LET n == Stored[ix.at] IN disk' = [disk EXCEPT ![n] = File(Contents(ix.chunks)[n])]
  /\ IF ix.at < Len(Stored)
     THEN /\ ix' = [ix EXCEPT !.pc = "saving", !.at = @ + 1]
          /\ last' = last
     ELSE /\ ix' = Quiet
          /\ last' = ix.chunks
  /\ UNCHANGED <<tree, rd, results, answers, shown, report, edits, kills, runs>>

Kill ==
  /\ kills < MaxKills /\ kills' = kills + 1
  /\ ix # Quiet /\ ix' = Quiet
  /\ UNCHANGED <<tree, disk, rd, results, answers, shown, report, last, edits, runs>>

\* _write_json empties the file of a run before it writes it anew
KillWriting ==
  /\ kills < MaxKills /\ kills' = kills + 1
  /\ rd.pc = "loaded" /\ rd.cmd # "answer"
  /\ rd.cmd = "answer_dataset" => Whole(results)
  /\ rd' = Quiet
  /\ IF rd.cmd = "search_dataset" THEN results' = Half /\ answers' = answers
                                  ELSE answers' = Half /\ results' = results
  /\ UNCHANGED <<tree, disk, ix, shown, report, last, edits, runs>>

Edit(f, t) ==
  /\ edits < MaxEdits /\ edits' = edits + 1
  /\ tree[f] # t /\ tree' = [tree EXCEPT ![f] = t]
  /\ UNCHANGED <<disk, ix, rd, results, answers, shown, report, last, kills, runs>>

-----------------------------------------------------------------------------
(* The commands that read an index.  They end with a message and status 1,
   or with the traceback of an exception nobody catches; both leave no trace. *)

Stop == rd' = Quiet /\ UNCHANGED <<tree, disk, ix, results, answers, shown, report, last, edits, kills, runs>>

\* What a command takes: answer_dataset has no --k, answer no --limit
Commands == {"answer", "search_dataset", "answer_dataset"}
Takes(cmd, k, limit) ==
  /\ cmd = "answer" => limit = None
  /\ cmd = "answer_dataset" => k = Max(Ks)

Refused(k, limit) == k <= 0 \/ (limit # None /\ limit <= 0)

\* _validate_k, and --limit (looked at after the files were read: no difference)
Start(cmd, k, limit) ==
  /\ Run
  /\ rd = Quiet
  /\ Takes(cmd, k, limit) /\ ~Refused(k, limit)
  /\ rd' = [pc |-> "bm25", cmd |-> cmd, k |-> k, limit |-> limit, bm25 |-> <<>>, meta |-> <<>>, texts |-> <<>>]
  /\ UNCHANGED <<tree, disk, ix, results, answers, last, edits, kills>>

LoadNext == [bm25 |-> "meta", meta |-> "texts", texts |-> "loaded"]

\* BM25Index.load opens one file after the other
Load ==
  /\ rd.pc \in DOMAIN LoadNext
  /\ Whole(disk[rd.pc])
  /\ LET read == [rd EXCEPT ![rd.pc] = disk[rd.pc].value, !.pc = LoadNext[rd.pc]]
     IN  IF rd.pc = "texts" /\ Len(read.texts) < Len(read.meta)
         THEN rd' = Quiet
         ELSE rd' = read
  /\ UNCHANGED <<tree, disk, ix, results, answers, shown, report, last, edits, kills, runs>>

LoadFails ==
  /\ rd.pc \in DOMAIN LoadNext
  /\ ~Whole(disk[rd.pc])
  /\ Stop

\* instance.chunks of a loaded index
Loaded == [i \in DOMAIN rd.meta |-> [file |-> rd.meta[i].file, text |-> rd.texts[i],
                                     start |-> rd.meta[i].start, end |-> rd.meta[i].end]]

Dedupe(s) == FlattenSeq([i \in DOMAIN s |-> IF \E j \in 1 .. i - 1 : s[j] = s[i] THEN <<>> ELSE <<s[i]>>])

\* The elements of s which are in S
Within(s, S) == FlattenSeq([i \in DOMAIN s |-> IF s[i] \in S THEN <<s[i]>> ELSE <<>>])

Limited(s, limit) == IF limit = None \/ limit > Len(s) THEN s ELSE SubSeq(s, 1, limit)

\* sorted by score, the largest first, and first come first on a tie
Better(scores, i, j) == scores[i] > scores[j] \/ (scores[i] = scores[j] /\ i < j)
Ranked(scores) ==
  [r \in DOMAIN scores |->
    CHOOSE i \in DOMAIN scores : Cardinality({j \in DOMAIN scores : Better(scores, j, i)}) = r - 1]

\* The numbers of the k best, of which those without a score are passed over
Hits(scores, k) == Within(Limited(Ranked(scores), k), {i \in DOMAIN scores : scores[i] > 0})

Found(meta, hits) == Dedupe([i \in DOMAIN hits |-> meta[hits[i]]])

\* get_scores: anything for a question that has a word of the index, else 0
Scores == [DOMAIN rd.bm25 -> Marks]
ScoresOf(q, scores) == IF q.known THEN scores ELSE [i \in DOMAIN scores |-> 0]

\* MinimalSearchResults
Result(q, sources) == [id |-> q.id, sources |-> sources]

(* self.chunks[idx]: the index of BM25 may be of another save than the chunks,
   and the number it returns beyond their end. *)
InRange(scores) == rd.meta = <<>> \/ \A i \in ToSet(Hits(scores, rd.k)) : i \in DOMAIN rd.meta

\* BM25Index.search
Search(scores) == IF rd.meta = <<>> THEN <<>> ELSE Found(rd.meta, Hits(scores, rd.k))

SearchDataset ==
  /\ rd.pc = "loaded" /\ rd.cmd = "search_dataset"
  /\ \E scores \in Scores :
       LET qs == Limited(Questions, rd.limit)
           sc(i) == ScoresOf(qs[i], scores)
       IN  /\ \A i \in DOMAIN qs : InRange(sc(i))
           /\ results' = File([k |-> rd.k, of |-> Loaded,
                               all |-> Found(rd.meta, Within(Hits(scores, Len(scores)), DOMAIN rd.meta)),
                               list |-> [i \in DOMAIN qs |-> Result(qs[i], Search(sc(i)))]])
  /\ rd' = Quiet
  /\ UNCHANGED <<tree, disk, ix, answers, shown, report, last, edits, kills, runs>>

SearchFails ==
  /\ rd.pc = "loaded"
  /\ \E scores \in Scores : ~InRange(scores)
  /\ Stop

-----------------------------------------------------------------------------
(* answer_dataset *)

\* Mutant: the end of a source is taken as its last character
AddSource_Inclusive(s, src) ==
  LET t == tree[src.file]
      snippet == Slice(t, src.start, src.end + 1)
  IN  IF s.room <= 0 \/ t = None \/ Blank(snippet) THEN s
      ELSE LET part == Slice(snippet, 0, s.room)
           IN  [parts |-> Append(s.parts, part), room |-> s.room - Len(part)]

(* _build_prompt: the text now at the positions of the first sources, as long
   as there is room.  A file that is gone is passed over. *)
AddSource(s, src) ==
  LET t == tree[src.file]
      snippet == Slice(t, src.start, src.end)
  IN  IF s.room <= 0 \/ t = None \/ Blank(snippet) THEN s
      ELSE LET part == Slice(snippet, 0, s.room)
           IN  [parts |-> Append(s.parts, part), room |-> s.room - Len(part)]

Prompt(sources) ==
  LET from == Limited(sources, MaxSources)
      read[i \in 0 .. Len(from)] ==
        IF i = 0 THEN [parts |-> <<>>, room |-> MaxContext] ELSE AddSource(read[i - 1], from[i])
  IN  read[Len(from)].parts

\* MinimalAnswer
Answered(r) == [id |-> r.id, sources |-> r.sources, prompt |-> Prompt(r.sources)]

AnswerDataset ==
  /\ rd.pc = "loaded" /\ rd.cmd = "answer_dataset"
  /\ Whole(results)
  /\ LET rs == Limited(results.value.list, rd.limit)
     IN  answers' = File([k |-> results.value.k, of |-> results.value.of, tree |-> tree,
                          list |-> [i \in DOMAIN rs |-> Answered(rs[i])]])
  /\ rd' = Quiet
  /\ UNCHANGED <<tree, disk, ix, results, shown, report, last, edits, kills, runs>>

\* No results file, or a model that cannot be loaded
AnswerFails ==
  /\ rd.pc = "loaded" /\ rd.cmd = "answer_dataset"
  /\ Stop

\* search and answer: the sources of one question, and the prompt made of them
Answer ==
  /\ rd.pc = "loaded" /\ rd.cmd = "answer"
  /\ \E scores \in Scores :
       /\ InRange(scores)
       /\ \E found \in {Search(scores)} : shown' = [sources |-> found, prompt |-> Prompt(found)]
  /\ rd' = Quiet
  /\ UNCHANGED <<tree, disk, ix, results, answers, report, last, edits, kills, runs>>

-----------------------------------------------------------------------------
(* evaluate *)

Least(a, b) == IF a < b THEN a ELSE b
Most(a, b) == IF a > b THEN a ELSE b

\* _iou of two sources is at least 0.05
Overlaps(r, g) ==
  LET common == Least(r.end, g.end) - Most(r.start, g.start)
      all == (r.end - r.start) + (g.end - g.start) - common
  IN  common > 0 /\ all > 0 /\ 20 * common >= all

SourceFound(retrieved, g, k) ==
  \E i \in 1 .. Least(k, Len(retrieved)) : retrieved[i].file = g.file /\ Overlaps(retrieved[i], g)

(* gt_lookup: the last question of an identifier.  A question without one gets
   a new identifier whenever the dataset is read, which no result has. *)
Expected(id) ==
  LET at == {i \in DOMAIN Questions : Questions[i].id = id}
  IN  IF id = None \/ at = {} THEN {} ELSE Questions[Max(at)].sources

\* _compute_recall_at_k: of every evaluable result, how many of its expected sources were found
Recall(list, k) ==
  LET evaluable == {i \in DOMAIN list : Expected(list[i].id) # {}}
  IN  [i \in evaluable |-> Cardinality({g \in Expected(list[i].id) : SourceFound(list[i].sources, g, k)})]

Evaluate ==
  /\ runs < MaxRuns /\ runs' = runs + 1
  /\ rd = Quiet
  /\ Whole(results)
  /\ report' = [of |-> results.value, recall |-> [k \in {1, 3, 5, 10} |-> Recall(results.value.list, k)]]
  /\ shown' = None
  /\ UNCHANGED <<tree, disk, ix, rd, results, answers, last, edits, kills>>

Next ==
  \/ \E size \in Sizes : Index(size)
  \/ Truncate \/ Dump \/ Kill \/ KillWriting
  \/ \E f \in ToSet(Files), t \in Edits : Kind[f] # "skipped" /\ Edit(f, t)
  \/ \E cmd \in Commands, k \in Ks, limit \in Limits : Start(cmd, k, limit)
  \/ Load \/ LoadFails \/ SearchDataset \/ SearchFails \/ Answer \/ AnswerDataset \/ AnswerFails
  \/ Evaluate

Spec == Init /\ [][Next]_vars

-----------------------------------------------------------------------------
(* The types: what is stored is never half a structure, a loaded index has a
   text for every chunk, and no command keeps a value it was refused. *)
TypeOK ==
  /\ Repository(tree)
  /\ DOMAIN disk = ToSet(Stored) /\ \A n \in DOMAIN disk : disk[n].state \in {"absent", "broken", "whole"}
  /\ ix # Quiet => ix.pc \in {"saving", "writing"} /\ ix.at \in DOMAIN Stored
  /\ rd # Quiet => /\ rd.cmd \in Commands /\ rd.k > 0 /\ (rd.limit = None \/ rd.limit > 0)
                   /\ rd.pc = "loaded" => Len(rd.texts) >= Len(rd.meta)
  /\ edits \in 0 .. MaxEdits /\ kills \in 0 .. MaxKills /\ runs \in 0 .. MaxRuns

Built == ix # Quiet /\ ix.pc = "saving" /\ ix.at = 1

\* The chunks of one file in an index
ChunksOf(chunks, f) == FlattenSeq([i \in DOMAIN chunks |-> IF chunks[i].file = f THEN <<chunks[i]>> ELSE <<>>])

(* Whatever the text, its paragraphs, definitions and --max_chunk_size: the
   chunks of a file hold all of its characters once and in order, white space
   aside, and none is larger than the size (chunker.py). *)
NothingLost ==
  Built =>
    /\ \A f \in ToSet(Files) : Kind[f] # "skipped" /\ ix.tree[f] # None =>
         KeepsInk(ChunksOf(ix.chunks, f), ix.tree[f])
    /\ \A i \in DOMAIN ix.chunks : Len(ix.chunks[i].text) \in 1 .. ix.size

(* Though positions may drift from the text, those of two chunks of one file
   never overlap nor change places (current_offset of chunker.py). *)
PositionsApart ==
  Built =>
    \A i, j \in DOMAIN ix.chunks :
      i < j /\ ix.chunks[i].file = ix.chunks[j].file => ix.chunks[i].end <= ix.chunks[j].start

(* The positions of a chunk are those of its text, in files whose empty lines
   are as chunker.py expects them. *)
PositionsExact ==
  Built =>
    \A f \in ToSet(Files) : ix.tree[f] # None /\ Regular(Kind[f], ix.tree[f]) =>
      Exact(ChunksOf(ix.chunks, f), ix.tree[f])

(* A chunk is a piece of its file, for every text: nothing is lost, no two
   chunks overlap, and in texts with regular empty lines positions are exact. *)
ChunksSound == NothingLost /\ PositionsApart /\ PositionsExact

(* An index command that ends leaves an index which is whole and all its own,
   whatever an earlier one that was killed had left (BM25Index.save). *)
RebuildRepairs == last # None => disk = [n \in ToSet(Stored) |-> File(Contents(last)[n])]

(* A search never gives a chunk twice, nor more than --k, and asking for fewer
   gives the first of the same: removing repetitions after the cut loses
   nothing (BM25Index.search). *)
RankingPrefix ==
  Whole(results) =>
    LET r == results.value
    IN  \A i \in DOMAIN r.list :
          LET sources == r.list[i].sources
          IN  /\ Len(sources) <= r.k /\ IsInjective(sources)
              /\ IsPrefix(sources, r.all)
              /\ Questions[i].known => Len(sources) = Least(r.k, Len(r.all))

(* Recall@k never falls as k grows, and counts every expected source which
   was retrieved at its very place (_compute_recall_at_k). *)
RecallSound ==
  report # None =>
    \A i \in DOMAIN report.recall[1] :
      /\ \A k, l \in {1, 3, 5, 10} : k <= l => report.recall[k][i] <= report.recall[l][i]
      /\ \A k \in {1, 3, 5, 10} :
           LET s == report.of.list[i].sources
               top == {s[j] : j \in 1 .. Least(k, Len(s))}
           IN  report.recall[k][i] >= Cardinality(Expected(report.of.list[i].id) \cap top)

Prompts == (IF shown = None THEN {} ELSE {shown.prompt})
             \cup (IF Whole(answers) THEN {answers.value.list[i].prompt : i \in DOMAIN answers.value.list} ELSE {})

(* No prompt has more text or more sources than it is allowed, whatever the
   files have become (_build_prompt). *)
ContextFits ==
  \A p \in Prompts : Len(FlattenSeq(p)) <= MaxContext /\ Len(p) <= MaxSources

(* What the model is given as context are beginnings of the chunks that were
   found, in their order, as long as the positions are those of the files. *)
ContextGrounded ==
  Whole(answers) =>
    LET a == answers.value
        exact == \A f \in ToSet(Files) : LET c == ChunksOf(a.of, f) IN
                   c # <<>> => a.tree[f] # None /\ Exact(c, a.tree[f])
        TextAt(src) == CHOOSE t \in {a.of[i].text : i \in {j \in DOMAIN a.of : Meta(a.of)[j] = src}} : TRUE
    IN  exact => \A i \in DOMAIN a.list :
          LET r == a.list[i]
          IN  /\ Len(r.prompt) <= Len(r.sources)
              /\ \A j \in DOMAIN r.prompt : IsPrefix(r.prompt[j], TextAt(r.sources[j]))
              /\ r.sources # <<>> => r.prompt # <<>>

(* From the ranking to the report and the prompt, every command works on what
   an index gave it, while files and index change underneath. *)
ResultsSound == TypeOK /\ RankingPrefix /\ RecallSound /\ ContextFits /\ ContextGrounded
=============================================================================
