SPECIFICATION RendererSpec
CONSTANTS
  Columns <- MCColumns
  Outputs = {1, 2}
  Bounds <- MCBounds
  Pets = {p1, p2}
  Pictures <- MCPictures
  Nobody = 0
INVARIANTS
  NoGhosts
