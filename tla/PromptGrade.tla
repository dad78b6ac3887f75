---------------------------- MODULE PromptGrade ----------------------------
(***************************************************************************)
(* The grade of the prompt that is generated for one entry of the plan     *)
(* (prompt_generator.py, prompt_grader.py).  An entry counts only by what  *)
(* the grader's patterns find in the prompt made of it: a section that the *)
(* entry leaves empty is filled with stock text, which is graded too.      *)
(***************************************************************************)
EXTENDS Integers

\* Distinct counts, capped where the grader stops telling them apart.
Entry == [paths : 0 .. 2,       \* files named in the entry
          lines : 0 .. 2,       \* line numbers named; each counts as a file too
          vague : BOOLEAN,      \* the word file, module or class
          criteria : 0 .. 4,    \* lines that say must, should, ensure, verify, check
          specific : 0 .. 4,    \* criteria with verify, ensure, test, check, confirm
          checked : BOOLEAN,    \* the title says assert, verify or check
          edges : 0 .. 6,       \* edge cases inferred from its words
          parts : 0 .. 5,       \* integration keywords
          code : 0 .. 2]        \* code blocks

\* _extract_acceptance_criteria and the stock criteria.
Boxes(e) == IF e.criteria = 0 THEN 3 ELSE e.criteria
\* _infer_edge_cases and the stock edge cases.
Bullets(e) == IF e.edges = 0 THEN 3 ELSE e.edges

FilesSpecific(e) ==
  LET found == e.paths + e.lines
  IN  CASE found >= 2 /\ e.lines >= 2 -> 20
        [] found >= 2 /\ e.lines = 1 -> 15
        [] found = 1 /\ e.lines = 1 -> 12
        [] found >= 1 /\ e.lines = 0 -> 10
        [] OTHER -> IF e.vague THEN 5 ELSE 0

\* The heading itself says "acceptance".
AcceptanceClear(e) ==
  CASE Boxes(e) >= 4 -> IF e.specific >= 3 THEN 20 ELSE 15
    [] Boxes(e) \in {2, 3} -> 12
    [] OTHER -> 10

\* The stub of a test is always there; its name is made of the title.
TestsSpecified(e) == IF e.checked THEN 20 ELSE 15

EdgeCases(e) == IF Bullets(e) >= 3 THEN 15 ELSE 10

IntegrationPoints(e) ==
  CASE e.parts >= 5 -> 10
    [] e.parts \in {3, 4} -> 7
    [] e.parts \in {1, 2} -> 4
    [] OTHER -> 0

\* The stub alone is a snippet.
ExamplesProvided(e) ==
  CASE e.code >= 2 -> 15
    [] e.code = 1 -> 10
    [] OTHER -> 5

\* grade_prompt
Score(e) ==
  FilesSpecific(e) + AcceptanceClear(e) + TestsSpecified(e) + EdgeCases(e)
    + IntegrationPoints(e) + ExamplesProvided(e)

\* get_grade_letter
Letter(score) ==
  CASE score >= 90 -> "A"
    [] score \in 70 .. 89 -> "B"
    [] score \in 50 .. 69 -> "C"
    [] OTHER -> "F"
=============================================================================
