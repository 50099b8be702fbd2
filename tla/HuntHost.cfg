SPECIFICATION Spec
SYMMETRY SessionSymmetry
CONSTANTS
  Scheme <- MCScheme
  DataPaths <- MCDataPaths
  Patterns = {"p", "r"}
  Objects <- MCObjects
  Convertible = {"a"}
  PageReadable = TRUE
  Profiles = {"m", "n"}
  Keys = {"k"}
  ParameterValues = {1}
  Sessions = {s1, s2, s3}
  TemporaryFolders = {"t1", "t2"}
  GivenFolders = {"w"}
  DebugModes = {TRUE, FALSE}
  MaximumExited = 1
  Limits = {0, 1}
  Schemes = {"", "python", "docker", "other"}
  Interfaces = {"python", "docker"}
  DefaultScheme = "python"
  Arguments = 2
  Changing = {"a"}
  Exited0 <- MCExited0
  WorkFolder = "t1"
  MaxWorking = 2
  MaxStatements = 2
  MaxVersions = 2
INVARIANTS PrivateFolderStays LentFolderStays NothingElseIsLeft SomeRacerWins AnswersAreDue SurroundingsRestored
CHECK_DEADLOCK FALSE
