SPECIFICATION FairSpec
CONSTANTS
  N = 2
  MaxGiven = 2
INVARIANTS
  EachIngredientOnce
  SmokersServeInput
PROPERTIES
  IngredientsTaken
  EndsOrStuck
CHECK_DEADLOCK FALSE
