----------------------------- MODULE MCFixPlan -----------------------------
(***************************************************************************)
(* Finite instances of FixPlan.                                            *)
(***************************************************************************)
EXTENDS FixPlan, TLC

CONSTANTS a, b, s1, s2, x, y, z

Heading(form, num, key, mark, subs) ==
  [form |-> form, num |-> num, key |-> key, wording |-> 1, mark |-> mark, subs |-> subs]
Section == Heading("section", 0, NoKey, "none", "none")

\* ## HIGH PRIORITY / ### 5. x
Numbered == <<Section, Heading("numbered", 5, x, "none", "open")>>
OnePlan == [p \in Project |-> Numbered]
Added == {Heading("numbered", 6, y, "none", "none")}

\* A plan of README 4.1: ### 2. x / #### After the first: / #### PF-1: z, whose task is number 2 of the
\* counter, as the label has drawn 1
Mixed == <<Section, Heading("numbered", 2, x, "none", "none"),
           Heading("label", 0, y, "none", "none"), Heading("id", 0, z, "none", "none")>>
MixedPlan == [p \in Project |-> Mixed]

\* Users who leave headings in place, those of them who save what they have read
\* some time ago, and users who move headings about and save at any time.
Careful == {"reword", "tick", "append"}
Late == {"reword", "append", "stale"}
Careless == {"insert", "append", "remove", "heedless"}
AllHabits == {Careful, Late, Careless}

\* Plans of README 4.1: two projects of one task each.
TwoPlans == [p \in Project |->
  <<Section, Heading("numbered", 5, IF p = a THEN x ELSE y, "none", "none")>>]
=============================================================================
