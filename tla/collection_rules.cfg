SPECIFICATION Spec
CONSTANTS
  plain = plain
  ruled = ruled
  foreign = foreign
  Manifest <- MCManifest
  Schema <- MCSchema
  Target <- MCTarget
  None = None
  Answers = {"Available", "Unavailable"}
  Concurrency = 2
  MaxDownloads = 2
PROPERTY
  RulesDecide
CHECK_DEADLOCK FALSE
