SPECIFICATION Spec
CONSTANTS
  h1 = h1
  h2 = h2
  main = main
  f1 = f1
  f2 = f2
  Handlers <- MCOneHandler
  Main = main
  Forms <- MCForms
  DefaultForm = f1
  Emptied = f2
  Hiddens <- MCHiddens
  DefaultHidden = 5
  MaxId = 1
  DiskMayFail = FALSE
CHECK_DEADLOCK FALSE
PROPERTY
  FormKeepsOtherFields
