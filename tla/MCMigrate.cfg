SPECIFICATION MigrateSpec
CONSTANTS
  Missing = Missing
  Malformed = Malformed
  NotText = NotText
  NotArchive = NotArchive
  NotJson = NotJson
  Unreadable = Unreadable
  MaxListed = 2
  MaxDepth = 2
  MaxDirectories = 6
  MaxMembers = 3
  MaxDifferences = 2
  MaxRuns = 2
  MaxName = 16
  Hidden = {".git"}
  ProjectName = "p"
  Fold <- MCFold
  Originals <- MCOriginals
  Found <- MCFound
  Order <- MCOrder
  CatalogLists <- MCCatalogLists
  Withs <- MCWiths
  Migrator <- MCMigrator
  Translators <- MCTranslators
  Answers <- MCAnswers
  Translations <- MCTranslations
  OldOutputs <- MCOldOutputs
  NewOutputs <- MCNewOutputs
  Usual <- MCUsual
INVARIANTS
  ManifestAgrees
PROPERTIES
  ClaimsAnswered
  NothingIsLost
  MovedOnlyWhenProved
  ReportIsTrue
CHECK_DEADLOCK FALSE
