SPECIFICATION Spec
CONSTANTS
  Env <- MCEnv
  Dirs <- MCDirs
  Compiled <- MCCompiled
  PgConfig = 16
  Locale <- MCLocale
  NumberOf <- MCNumberOf
  Extension <- MCExtension
  TooLong <- MCTooLong
  ServerFiles <- MCServerFiles
  UserFiles <- MCUserFiles
  MaxValue = 4
  MaxPath = 3
  MaxFile = 3
  MaxCommand = 5
INVARIANTS UnitsAsDocumented PathsExpanded  SettingsClassified LineObeyed
CHECK_DEADLOCK FALSE
