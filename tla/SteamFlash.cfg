SPECIFICATION Spec
CONSTANTS
  Pid = {p1, p2}
  App = {runtime, game}
  Tools = {runtime}
  NonGames = {}
  Installed = {runtime, game}
  Nothing = Nothing
  MaxChanges = 3
INVARIANT NoFlash
