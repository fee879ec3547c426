---------------------------- MODULE PaperGeneration ----------------------------
(***************************************************************************)
(* Blueprints, exam configurations and the generation of papers               *)
(* (modules/blueprint, modules/paper_generation), with the question bank they  *)
(* draw from.                                                                 *)
(*                                                                         *)
(* A paper is assembled slot by slot, with a search of the bank for each: the   *)
(* bank may change between two slots.  The paper, its sections, questions,      *)
(* validations and first version are committed together at the end.           *)
(***************************************************************************)
EXTENDS QuestionBank, PaperRules

CONSTANTS
  Desks,       \* requests that may be in flight on blueprints and papers
  Designs,     \* the blueprints that may be created: total and sections
  Chapters,    \* the current_chapters that a configuration may have
  Students,
  WeakTopics,  \* the weak topics a caller may pass
  MaxDesigns,  \* bound: blueprints
  MaxConfigs,  \* bound: exam configurations
  MaxTurns,    \* bound: changes of a status of a blueprint or configuration
  MaxPapers    \* bound: papers

TotalOf(sections) == FoldLeft(LAMBDA total, s : total + s.marks, 0, sections)

\* What the schemas of a blueprint ask for; the difficulties come back from the
\* JSONB column in its order.
ASSUME PaperAssumption ==
  /\ \A d \in Designs :
       /\ d.sections \in Seq(Range(d.sections)) \ {<<>>} /\ TotalOf(d.sections) = d.total
       /\ \A s \in Range(d.sections) :
            /\ s.marks > 0 /\ s.count \in Nat \ {0}
            /\ [i \in DOMAIN s.difficulty |-> s.difficulty[i][1]] = <<"EASY", "HARD", "MEDIUM">>
            /\ s.difficulty[1][2] + s.difficulty[2][2] + s.difficulty[3][2] = 100
  /\ Chapters \subseteq SUBSET Nat /\ WeakTopics \subseteq SUBSET Nat
  /\ {MaxDesigns, MaxConfigs, MaxTurns, MaxPapers} \subseteq Nat

Shared == "shared"      \* student_id is None
ASSUME SharedAssumption == Shared \notin Students

\* _BLUEPRINT_TRANSITIONS, _EXAM_CONFIG_TRANSITIONS
Turns == [DRAFT |-> {"ACTIVE", "ARCHIVED"}, ACTIVE |-> {"ARCHIVED"}, ARCHIVED |-> {}]

PaperTransitions ==
  [GENERATED       |-> {"UNDER_REVIEW"},
   UNDER_REVIEW    |-> {"APPROVED", "GENERATED"},
   APPROVED        |-> {"PUBLISHED"},
   PUBLISHED       |-> {},
   NEEDS_ATTENTION |-> {"UNDER_REVIEW"}]

VARIABLES
  blueprints,  \* blueprints with their sections
  configs,     \* exam_configurations
  papers,      \* papers with sections, questions, validations and versions
  desk,        \* the requests on them
  turns        \* how many changes of a status were asked for

paperVars == <<blueprints, configs, papers, desk, turns>>
vars == <<bankVars, paperVars>>

Free == [step   |-> "idle",
         at     |-> 0,           \* the row the request is about
         status |-> "",          \* the status asked for
         todo   |-> <<>>,        \* the students still to get a paper
         weak   |-> {},
         chosen |-> <<>>,        \* questions picked, by section, up to the present one
         slot   |-> 1,
         steady |-> TRUE]        \* history: no change of the bank since it began

Init ==
  /\ BankInit
  /\ blueprints = <<>> /\ configs = <<>> /\ papers = <<>>
  /\ desk = [d \in Desks |-> Free]
  /\ turns = 0

-----------------------------------------------------------------------------
(* Blueprints and configurations.                                            *)

CreateBlueprint ==
  /\ Len(blueprints) < MaxDesigns
  /\ \E design \in Designs :
       blueprints' = Append(blueprints, [design |-> design, status |-> "DRAFT"])
  /\ UNCHANGED <<bankVars, configs, papers, desk, turns>>

Asked(rows, kind, d) ==
  /\ desk[d].step = "idle"
  /\ turns < MaxTurns
  /\ turns' = turns + 1
  /\ \E n \in DOMAIN rows : \E status \in Turns[rows[n].status] :
       desk' = [desk EXCEPT ![d] = [Free EXCEPT !.step = kind, !.at = n, !.status = status]]
  /\ UNCHANGED <<bankVars, blueprints, configs, papers>>

\* change_blueprint_status: the transition is checked on the copy that is loaded.
LoadBlueprint(d) == Asked(blueprints, "blueprint", d)

StoreBlueprint(d) ==
  /\ desk[d].step = "blueprint"
  /\ blueprints' = [blueprints EXCEPT ![desk[d].at].status = desk[d].status]
  /\ desk' = [desk EXCEPT ![d] = Free]
  /\ UNCHANGED <<bankVars, configs, papers, turns>>

ConfigsAsked == Len(configs) + Cardinality({d \in Desks : desk[d].step = "config"})

\* create_exam_config: the blueprint is ACTIVE when it is looked at.
LoadForConfigUnchecked(d) ==            \* mutant: any blueprint will do
  /\ desk[d].step = "idle"
  /\ ConfigsAsked < MaxConfigs
  /\ \E n \in DOMAIN blueprints :
       desk' = [desk EXCEPT ![d] = [Free EXCEPT !.step = "config", !.at = n]]
  /\ UNCHANGED <<bankVars, blueprints, configs, papers, turns>>

LoadForConfig(d) ==
  /\ desk[d].step = "idle"
  /\ ConfigsAsked < MaxConfigs
  /\ \E n \in DOMAIN blueprints :
       /\ blueprints[n].status = "ACTIVE"
       /\ desk' = [desk EXCEPT ![d] = [Free EXCEPT !.step = "config", !.at = n]]
  /\ UNCHANGED <<bankVars, blueprints, configs, papers, turns>>

StoreConfig(d) ==
  /\ desk[d].step = "config"
  /\ \E chapters \in Chapters :
       configs' = Append(configs, [blueprint |-> desk[d].at, chapters |-> chapters,
                                   status |-> "DRAFT"])
  /\ desk' = [desk EXCEPT ![d] = Free]
  /\ UNCHANGED <<bankVars, blueprints, papers, turns>>

LoadConfig(d) == Asked(configs, "config status", d)

StoreConfigStatus(d) ==
  /\ desk[d].step = "config status"
  /\ configs' = [configs EXCEPT ![desk[d].at].status = desk[d].status]
  /\ desk' = [desk EXCEPT ![d] = Free]
  /\ UNCHANGED <<bankVars, blueprints, papers, turns>>

-----------------------------------------------------------------------------
(* Generation.                                                               *)

Design(d) == blueprints[configs[desk[d].at].blueprint].design

PapersAsked == FoldFunctionOnSet(LAMBDA r, n : n + Len(r.todo), 0, desk, Desks)

\* One shared paper, or one for each student of the request.  No status of the
\* configuration or of the blueprint is asked for.
Generate(d) ==
  /\ desk[d].step = "idle"
  /\ \E n \in DOMAIN configs, weak \in WeakTopics,
        todo \in {<<Shared>>} \cup {SetToSeq(ss) : ss \in SUBSET Students \ {{}}} :
       /\ Len(papers) + Len(todo) + PapersAsked <= MaxPapers
       /\ weak # {} => Len(todo) = 1 /\ todo # <<Shared>>
       /\ desk' = [desk EXCEPT ![d] = [Free EXCEPT !.step = "slot", !.at = n, !.weak = weak,
                                                   !.todo = todo, !.chosen = << <<>> >>]]
  /\ UNCHANGED <<bankVars, blueprints, configs, papers, turns>>

CandidatesById(page, type, picked) ==   \* mutant: ids of other types are left out too
  {q \in page : q.type = type /\ \A name \in picked : name[2] # q.id}

\* Of the page, the questions of the type that are not in the paper.
Candidates(page, type, picked) == {q \in page : q.type = type /\ Named(q) \notin picked}

\* The request after a slot: at the next one, the next section, or the end.
AfterSlot(d, chosen) ==
  LET s    == Len(chosen)
      last == s = Len(Design(d).sections)
      over == desk[d].slot = Design(d).sections[s].count
  IN [desk[d] EXCEPT !.chosen = IF over /\ ~last THEN Append(chosen, <<>>) ELSE chosen,
                     !.slot   = IF over THEN 1 ELSE @ + 1,
                     !.step   = IF over /\ last THEN "write" ELSE @]

\* One slot: a search, the ranking, the pick.  A slot without a candidate stays
\* empty.  The chapters of the blueprint and of the configuration are not part
\* of the search.
FillSlot(d) ==
  /\ desk[d].step = "slot"
  /\ LET chosen  == desk[d].chosen
         section == Design(d).sections[Len(chosen)]
         slot    == Slots(section)[desk[d].slot]
     IN \E page \in FirstPages(Matching(questions, slot.difficulty, slot.bloom)) :
          LET found == Candidates(page, section.type, Names(chosen))
          IN \/ /\ found = {}
                /\ desk' = [desk EXCEPT ![d] = AfterSlot(d, chosen)]
             \/ \E q \in Best(found, section.type, slot, desk[d].weak) :
                  LET picked == [chosen EXCEPT ![Len(chosen)] = Append(@, q)]
                  IN desk' = [desk EXCEPT ![d] = AfterSlot(d, picked)]
  /\ UNCHANGED <<bankVars, blueprints, configs, papers, turns>>

\* The rows of the paper, the rules, the status, the first version; one commit.
\* The request goes on with its next student.
WritePaper(d) ==
  /\ desk[d].step = "write"
  /\ LET chosen  == desk[d].chosen
         results == RuleResults(Design(d), chosen, configs[desk[d].at].chapters)
         status  == IF AllPassed(results) THEN "GENERATED" ELSE "NEEDS_ATTENTION"
     IN papers' = Append(papers,
          [config |-> desk[d].at, student |-> desk[d].todo[1], status |-> status,
           total |-> RecordedTotal(Design(d), chosen), chosen |-> chosen, rules |-> results,
           versions |-> <<[version_no |-> 1, is_current |-> TRUE, status |-> status]>>])
  /\ desk' = [desk EXCEPT ![d] =
                IF Len(@.todo) = 1 THEN Free
                ELSE [Free EXCEPT !.step = "slot", !.at = desk[d].at, !.chosen = << <<>> >>,
                                  !.todo = Tail(desk[d].todo)]]
  /\ UNCHANGED <<bankVars, blueprints, configs, turns>>

\* approve_paper: from UNDER_REVIEW, which no operation gives a paper.
Approve ==
  /\ \E n \in DOMAIN papers :
       papers' = IF "APPROVED" \in PaperTransitions[papers[n].status] /\ AllPassed(papers[n].rules)
                 THEN [papers EXCEPT ![n].status = "APPROVED"]
                 ELSE papers
  /\ UNCHANGED <<bankVars, blueprints, configs, desk, turns>>

\* The server ends: the requests under way leave what they committed.
Crash ==
  /\ desk' = [d \in Desks |-> Free]
  /\ clerk' = [c \in Clerks |-> AtRest]
  /\ UNCHANGED <<questions, versions, bankOps, blueprints, configs, papers, turns>>

\* A step of the bank; generation that is under way no longer sees one bank.
BankStep ==
  /\ BankNext
  /\ desk' = IF questions' = questions THEN desk
             ELSE [d \in Desks |-> [desk[d] EXCEPT !.steady = desk[d].step = "idle"]]
  /\ UNCHANGED <<blueprints, configs, papers, turns>>

Next ==
  \/ BankStep \/ CreateBlueprint \/ Approve \/ Crash
  \/ \E d \in Desks :
       \/ LoadBlueprint(d) \/ StoreBlueprint(d) \/ LoadForConfig(d) \/ StoreConfig(d)
       \/ LoadConfig(d) \/ StoreConfigStatus(d)
       \/ Generate(d) \/ FillSlot(d) \/ WritePaper(d)

Spec == Init /\ [][Next]_vars

-----------------------------------------------------------------------------
(* Properties.                                                               *)

DesignOf(paper) == blueprints[configs[paper.config].blueprint].design

\* A paper that is not marked NEEDS_ATTENTION is one a student can sit: it has the
\* total of its blueprint, each section has exactly the questions of its blueprint,
\* all of its type, and its marks, none appears twice in the paper, and each current
\* chapter is asked about.  The questions are picked one search at a time while the
\* bank changes.  The rule for marks knows a section by its label, so of sections
\* that share one only the last is sure to have its own marks (run_all_validations,
\* all_passed, assemble_paper).
GeneratedIsComplete ==
  \A paper \in Range(papers) :
    paper.status # "NEEDS_ATTENTION" =>
      LET sections == DesignOf(paper).sections
          chosen   == paper.chosen
      IN /\ paper.total = DesignOf(paper).total
         /\ Len(chosen) = Len(sections)
         /\ \A s \in DOMAIN sections :
              /\ Len(chosen[s]) = sections[s].count
              /\ \A k \in DOMAIN chosen[s] : chosen[s][k].type = sections[s].type
              /\ (\A t \in DOMAIN sections : sections[t].label = sections[s].label => t <= s)
                   => MarksOf(chosen[s]) = sections[s].marks
         /\ \A a, b \in Places(chosen) : Named(At(chosen, a)) = Named(At(chosen, b)) => a = b
         /\ \A c \in configs[paper.config].chapters :
              \E a \in Places(chosen) : At(chosen, a).chapter = c

\* How many slots of sections of a type have a difficulty.
Demand(sections, type, level) ==
  LET slots(s) == {k \in 1 .. sections[s].count : Slots(sections[s])[k].difficulty = level}
  IN Cardinality(UNION {{s} \X slots(s) : s \in {t \in DOMAIN sections : sections[t].type = type}})

\* Enough questions are enough: if the bank stood still, the blueprint asks for
\* no bloom level, and for the type and difficulty of each slot the ACTIVE questions
\* of the difficulty fit one page and those of the type are as many as such slots,
\* then no slot stays empty, though each pick is made without regard to the later
\* slots (assemble_paper, _build_fetcher).
EnoughIsFilled ==
  \A d \in Desks :
    LET sections == Design(d).sections
        supply(type, level) == {q \in Matching(questions, level, "none") : q.type = type}
    IN /\ desk[d].step = "write" /\ desk[d].steady
       /\ \A s \in DOMAIN sections :
            /\ sections[s].bloom = <<>>
            /\ \A k \in 1 .. sections[s].count :
                 LET level == Slots(sections[s])[k].difficulty
                 IN /\ Cardinality(Matching(questions, level, "none")) <= PageSize
                    /\ Demand(sections, sections[s].type, level)
                         <= Cardinality(supply(sections[s].type, level))
       => \A s \in DOMAIN sections : Len(desk[d].chosen[s]) = sections[s].count

\* A configuration belongs to a blueprint that has been activated, whatever
\* changes of status interleave with its creation (create_exam_config).
ConfigsActivated ==
  \A n \in DOMAIN configs : blueprints[configs[n].blueprint].status # "DRAFT"

\* "Expand the section into individual difficulty slots based on
\* difficulty_distribution_json" (constraint_engine.py:7): a paper has no question
\* of a difficulty of which the blueprint wants 0 %.  Each difficulty gets at
\* least one slot, before the list is trimmed.
DistributionRespected ==
  \A paper \in Range(papers) : \A s \in DOMAIN paper.chosen :
    LET mix == DesignOf(paper).sections[s].difficulty
    IN \A q \in Range(paper.chosen[s]) : \A i \in DOMAIN mix :
         mix[i][2] = 0 => q.difficulty # mix[i][1]

=============================================================================
