SPECIFICATION Spec
CONSTANTS
  Program = {terminal, widget}
  Title = {game}
  NoFile = NoFile
  Half = Half
  MaxQuits = 1
  MaxWaits = 1
INVARIANT WholeArt
