CONSTANTS
  Types <- MCTypes
  Width <- MCWidth
  Worlds <- MCWorlds
  Killed <- MCKilled
  MaxKills = 2
SPECIFICATION ToolsSpec
INVARIANTS ScanIsClosure GuardsMatchThunks ArgumentsArrive MakefileLast
PROPERTIES RunEnds
