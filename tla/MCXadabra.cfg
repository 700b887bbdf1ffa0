SPECIFICATION XadabraSpec
CHECK_DEADLOCK FALSE
CONSTANTS
  Scripts <- MCScripts
  Overrides <- MCOverrides
  Environments <- MCEnvironments
  Answers <- Values
  Paths <- MCPaths
  keyabra = keyabra
  binabra = binabra
  Packages <- MCPackages
  Contents = {v1, v2}
  Tags = {t1}
  MaxCommits = 3
SYMMETRY Sources
INVARIANTS
  PreviewIsRun
  SecretsStayHidden
  PackedIsWhole
  AnnouncedIsPublished
  TagsAreOnMain
