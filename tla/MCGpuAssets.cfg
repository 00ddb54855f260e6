SPECIFICATION Spec
CONSTANTS
  tex = tex
  prog = prog
  vs = vs
  ps = ps
  MaxHandles <- MCMax
  MaxCommands = 3
  Blocks = {1, 2, 3}
  TextureKeys = {tex}
  ProgramKeys = {prog}
  Shaders <- MCShaders
INVARIANTS
  UseFindsResource
  ResourcesExact
  TempExact
CHECK_DEADLOCK FALSE
