CONSTANTS
  NoVersion = NoVersion
  PkgVersion = PkgVersion
  NotBuilt = NotBuilt
  Torn = Torn
  Profile = {"debug"}
  Core = {"m3"}
  Foreign <- SomeForeign
  Amount <- SomeAmount
  MaxEdits = 1
  MaxCommits = 2
SPECIFICATION Spec
INVARIANTS TypeOK CleanRepairsVersions ExampleIsCurrent
PROPERTIES TestPassedIsCurrent BlessedIsWhole SessionKnowsItsFirmware
CONSTRAINT Apart
