-------------------------- MODULE MCPromptLearning --------------------------
EXTENDS PromptLearning

MCAnswers ==
  {[content |-> "right", finish |-> "stop"],
   [content |-> "right", finish |-> "length"]}

Symmetry == Permutations(Reviewers) \cup Permutations(Developers)
=============================================================================
