SPECIFICATION Spec
CONSTANTS
  blank = blank
  sound = sound
  unparsed = unparsed
  Paths <- MCPaths
  Projects <- MCProjects
  LoadableProjects <- MCLoadable
  Untitled = blank
  Missing = Missing
  Torn = Torn
  NoPath = NoPath
  MaxRecentProjects = 2
  MaxUses = 5
INVARIANTS RecentsAreLastUsed WindowFitsItsFile
