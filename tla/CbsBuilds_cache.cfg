SPECIFICATION FairSpec
CONSTANTS
  lib = lib
  main = main
  f = f
  g = g
  Targets = {lib, main}
  Sources <- MCSources
  Dependencies <- MCDependencies
  Files = {f, g}
  Texts <- MCTexts
  Initial <- MCInitial
  Missing = Missing
  Unreadable = Unreadable
  Contexts = {debug}
  Kinds = {"rust_library", "rust_binary"}
  Extras <- MCExtras
  Workspaces <- MCWorkspaces
  InitialRules <- MCInitialRules
  Invocations = {i1, i2}
  Plan = Plan
  None = None
  Partial = Partial
  Whole = Whole
  EditsAnyTime = FALSE
  MaxEvents = 4
INVARIANTS PlanOutlivesCrash ContentAddressed
PROPERTIES HitHasSameInputs InvocationsEnd
CHECK_DEADLOCK FALSE
