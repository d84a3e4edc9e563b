SPECIFICATION Spec
CONSTANTS
  Viewports <- Sizes
  Moves <- Displacements
INVARIANT WithinViewport
