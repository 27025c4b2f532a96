SPECIFICATION SessionSpec
CONSTANTS
  Rows = 2
  MaxChanges = 1
  Folders = {folder}
  NoFolder = NoFolder
  Placements = {placed}
  NoPlacement = NoPlacement
  Implausible = Implausible
  MaxStarts = 2
INVARIANTS
  SettingsAreWhole
  DestinationIsWhole
  OutcomeIsHonest
  ExitIsOrderly
PROPERTIES
  ReplacesOnlyAgreed
