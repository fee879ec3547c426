------------------------------- MODULE PaperRules -------------------------------
(***************************************************************************)
(* The pure functions of paper generation (paper_generation/domain): the      *)
(* expansion of a blueprint section into slots, the ranking of candidates,     *)
(* and the eight validation rules.                                            *)
(*                                                                         *)
(* A section is [label, type, marks, count, difficulty, bloom]; the last two    *)
(* are sequences of <<level, percentage>> in the order of the dictionary's keys, *)
(* which for a column of type JSONB is by length, then by name.                *)
(***************************************************************************)
EXTENDS Integers, Sequences, FiniteSets, SequencesExt

Copies(x, n) == [i \in 1 .. n |-> x]

\* Percentages to counts, at least one per level, padded and trimmed to count.
Spread(mix, count, filler) ==
  LET share(i) == (count * mix[i][2]) \div 100
      run(i)   == Copies(mix[i][1], IF share(i) < 1 THEN 1 ELSE share(i))
  IN SubSeq(FlattenSeq([i \in DOMAIN mix |-> run(i)]) \o Copies(filler, count), 1, count)

Slots(section) ==
  LET difficulties == Spread(section.difficulty, section.count, "MEDIUM")
      blooms       == Spread(section.bloom, section.count, "none")
  IN [i \in 1 .. section.count |-> [difficulty |-> difficulties[i], bloom |-> blooms[i]]]

-----------------------------------------------------------------------------
(* Ranking.                                                                  *)

Weigh(points, matches) == IF matches THEN points ELSE 0

\* In hundredths.  Search results carry no usage_count: the balance is even.
Score(q, type, slot, weak) ==
  Weigh(25, q.type = type) + Weigh(25, q.difficulty = slot.difficulty)
    + Weigh(20, q.topic \in weak) + 15
    + Weigh(15, slot.bloom \in {"none", q.bloom})

\* Candidates that may come out first: ties are shuffled.
Best(candidates, type, slot, weak) ==
  {q \in candidates :
     \A other \in candidates : Score(q, type, slot, weak) >= Score(other, type, slot, weak)}

-----------------------------------------------------------------------------
(* Validation.  chosen[s] is the sequence of the questions of section s.       *)

\* The places of the questions of a paper.
Places(chosen) == UNION {{s} \X DOMAIN chosen[s] : s \in DOMAIN chosen}

At(chosen, place) == chosen[place[1]][place[2]]

MarksOf(picked) == FoldLeft(LAMBDA total, q : total + q.marks, 0, picked)

PaperMarks(chosen) == FoldLeft(LAMBDA total, picked : total + MarksOf(picked), 0, chosen)

\* paper_total or the blueprint's total
RecordedTotal(design, chosen) == IF PaperMarks(chosen) = 0 THEN design.total ELSE PaperMarks(chosen)

\* Rules look a section up by its label: the last one of that label counts.
Rule(design, s) ==
  LET same == {t \in DOMAIN design.sections : design.sections[t].label = design.sections[s].label}
  IN design.sections[CHOOSE t \in same : \A u \in same : u <= t]

\* round(n / total * 100, 1), in tenths
Percent(n, total) == (2000 * n + total) \div (2 * total)

Apart(a, b) == IF a < b THEN b - a ELSE a - b

Balanced(mix, levels, tolerance) ==
  \A i \in DOMAIN mix :
    LET n == Cardinality({j \in DOMAIN levels : levels[j] = mix[i][1]})
    IN Apart(IF levels = <<>> THEN 0 ELSE Percent(n, Len(levels)), 10 * mix[i][2]) <= 10 * tolerance

TotalMarksMatch(design, chosen) == RecordedTotal(design, chosen) = design.total

SectionMarksMatch(design, chosen) ==
  \A s \in DOMAIN chosen : MarksOf(chosen[s]) = Rule(design, s).marks

\* A section without questions is passed over.
DifficultyBalance(design, chosen) ==
  \A s \in DOMAIN chosen :
    chosen[s] # <<>> =>
      Balanced(Rule(design, s).difficulty,
               [i \in DOMAIN chosen[s] |-> chosen[s][i].difficulty], 10)

BloomCoverage(design, chosen) ==
  \A s \in DOMAIN chosen :
    Balanced(Rule(design, s).bloom, [i \in DOMAIN chosen[s] |-> chosen[s][i].bloom], 15)

Named(q) == <<q.type, q.id>>

Names(chosen) == {Named(At(chosen, place)) : place \in Places(chosen)}

NoDuplicateQuestions(chosen) == Cardinality(Names(chosen)) = Cardinality(Places(chosen))

ChapterCoverage(chosen, chapters) ==
  chapters \subseteq {At(chosen, place).chapter : place \in Places(chosen)}

QuestionAvailabilityNoted(design, chosen) == TRUE       \* mutant: always available

QuestionAvailability(design, chosen) ==
  \A s \in DOMAIN chosen : Len(chosen[s]) >= design.sections[s].count

\* duration_minutes is at least 5 since the blueprint was created.
RuleResults(design, chosen, chapters) ==
  [TOTAL_MARKS_MATCH      |-> TotalMarksMatch(design, chosen),
   DURATION_VALID         |-> TRUE,
   SECTION_MARKS_MATCH    |-> SectionMarksMatch(design, chosen),
   DIFFICULTY_BALANCE     |-> DifficultyBalance(design, chosen),
   BLOOM_COVERAGE         |-> BloomCoverage(design, chosen),
   NO_DUPLICATE_QUESTIONS |-> NoDuplicateQuestions(chosen),
   CHAPTER_COVERAGE       |-> ChapterCoverage(chosen, chapters),
   QUESTION_AVAILABILITY  |-> QuestionAvailability(design, chosen)]

AllPassed(results) == \A code \in DOMAIN results : results[code]

=============================================================================
