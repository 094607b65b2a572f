SPECIFICATION Spec
CONSTANTS
  AllowForbiddenOpts = FALSE
  RemoveArgc = FALSE
  StackLimit = 100
  ShiftHack = FALSE
  PostBuildPRE = TRUE
  Fuel = 200
  Programs <- MCPrograms
  Arguments <- MCArguments
  Outcomes <- MCOutcomes
INVARIANTS
    SameBehaviour
    GraphInOrder
    NoLonger
    LocalsFound
PROPERTY
    EventuallyEmitted
CHECK_DEADLOCK FALSE
