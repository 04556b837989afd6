SPECIFICATION Spec
CONSTANTS
  Fields <- MCFields
  Tree <- MCTree
  MenuItems <- MCMenu
  MaxHistory = 2
  PopupRows = 2
  MaxText = 1
  Histories <- MCHistories
  Letters = {"a", "b", "*"}
INVARIANTS SurvivesExit DialogIsSound
PROPERTY FixedStays
CHECK_DEADLOCK FALSE
