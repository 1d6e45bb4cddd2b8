-------------------------------- MODULE Lcov ---------------------------------
(***************************************************************************)
(* lcov.info files: reading and writing them (lcov.ts), what one covers    *)
(* that another does not (lcov-diff.ts), and the report that Istanbul      *)
(* shows of one (lcov-to-html.ts).                                         *)
(*                                                                         *)
(* A text is a sequence of lines <<kind, field, ...>>; a file of it is a   *)
(* record [path, lines, branches, functions, fnData].                      *)
(***************************************************************************)
EXTENDS Integers, Sequences, FiniteSets, SequencesExt

Each(s, Op(_)) == [i \in DOMAIN s |-> Op(s[i])]

(* The elements at the places in S: SelectSeq, as one can reason about it. *)
Picked(s, S) == FlattenSeq([i \in DOMAIN s |-> IF i \in S THEN <<s[i]>> ELSE <<>>])

Hit(counts) == {i \in DOMAIN counts : counts[i].count > 0}

NoFile == [path |-> "", lines |-> <<>>, branches |-> <<>>, functions |-> <<>>, fnData |-> <<>>]

(* parseLcov: a line belongs to the file that SF opened.                   *)
ReadLine(acc, line) ==
  LET add(field, x) == [acc EXCEPT !.current[field] = Append(@, x)]
  IN CASE line[1] = "SF" -> [acc EXCEPT !.current = [NoFile EXCEPT !.path = line[2]]]
       [] line[1] = "DA" -> add("lines", [line |-> line[2], count |-> line[3]])
       [] line[1] = "BRDA" -> add("branches", [line |-> line[2], block |-> line[3], expr |-> line[4],
                                               count |-> line[5]])
       [] line[1] = "FN" -> add("functions", [line |-> line[2], name |-> line[3]])
       [] line[1] = "FNDA" -> add("fnData", [name |-> line[3], count |-> line[2]])
       [] line[1] = "end_of_record" -> IF acc.current.path = "" THEN acc
                                       ELSE [files |-> Append(acc.files, acc.current), current |-> NoFile]
       [] OTHER -> acc   \* the totals, which are derived

ParseLcov(text) ==
  LET read[k \in 0..Len(text)] == IF k = 0 THEN [files |-> <<>>, current |-> NoFile]
                                  ELSE ReadLine(read[k - 1], text[k])
  IN read[Len(text)].files

(* formatLcov.                                                             *)
FileLines(file) ==
  <<<<"TN">>, <<"SF", file.path>>>>
  \o Each(file.functions, LAMBDA f : <<"FN", f.line, f.name>>)
  \o <<<<"FNF", Len(file.functions)>>, <<"FNH", Cardinality(Hit(file.fnData))>>>>
  \o Each(file.fnData, LAMBDA f : <<"FNDA", f.count, f.name>>)
  \o Each(file.lines, LAMBDA l : <<"DA", l.line, l.count>>)
  \o <<<<"LF", Len(file.lines)>>, <<"LH", Cardinality(Hit(file.lines))>>>>
  \o Each(file.branches, LAMBDA b : <<"BRDA", b.line, b.block, b.expr, b.count>>)
  \o <<<<"BRF", Len(file.branches)>>, <<"BRH", Cardinality(Hit(file.branches))>>, <<"end_of_record">>>>

FormatLcov(files) == FlattenSeq(Each(files, FileLines))

-----------------------------------------------------------------------------
(* A Map filled from a sequence, at the key of the places in S: the last   *)
(* of equal keys stays.                                                    *)
LastCount(counts, S) == IF S = {} THEN 0 ELSE counts[Max(S)].count

(* Mutant of Unique: what was covered more often counts as new.            *)
MoreOften(count, base) == IF count > base THEN count ELSE 0

(* What only the new file covers keeps its count.                          *)
Unique(count, base) == IF count > 0 /\ base = 0 THEN count ELSE 0

LineOf(counts, l) == {i \in DOMAIN counts : counts[i].line = l.line}
BranchOf(counts, b) == {i \in DOMAIN counts : counts[i].line = b.line /\ counts[i].block = b.block
                                              /\ counts[i].expr = b.expr}
NameOf(counts, f) == {i \in DOMAIN counts : counts[i].name = f.name}

DiffFile(base, new) ==
  [new EXCEPT
     !.lines = Each(@, LAMBDA l :
        [l EXCEPT !.count = Unique(@, LastCount(base.lines, LineOf(base.lines, l)))]),
     !.branches = Each(@, LAMBDA b :
        [b EXCEPT !.count = Unique(@, LastCount(base.branches, BranchOf(base.branches, b)))]),
     !.fnData = Each(@, LAMBDA f :
        [f EXCEPT !.count = Unique(@, LastCount(base.fnData, NameOf(base.fnData, f)))])]

Novel(f) == Hit(f.lines) \cup Hit(f.branches) \cup Hit(f.fnData) # {}

(* lcov-diff: files with nothing new are left out.                         *)
Diff(baseFiles, newFiles) ==
  LET same(path) == {i \in DOMAIN baseFiles : baseFiles[i].path = path}
      base(path) == IF same(path) = {} THEN NoFile ELSE baseFiles[Max(same(path))]
      diffs == Each(newFiles, LAMBDA f : DiffFile(base(f.path), f))
  IN Picked(diffs, {i \in DOMAIN diffs : Novel(diffs[i])})

(* toIstanbulCoverage: counts of statements, of branches by line and       *)
(* block, and of functions by the name they have.                          *)
ToIstanbul(file) ==
  LET group(i) == <<file.branches[i].line, file.branches[i].block>>
      counts == Each(file.branches, LAMBDA b : b.count)
  IN [path |-> file.path,
      s |-> Each(file.lines, LAMBDA l : l.count),
      b |-> [g \in {group(i) : i \in DOMAIN counts} |->
               Picked(counts, {i \in DOMAIN counts : group(i) = g})],
      f |-> Each(file.functions, LAMBDA f : LastCount(file.fnData, NameOf(file.fnData, f)))]

=============================================================================
