SPECIFICATION SpecOfPart
CONSTANTS
  Poster = {p1, p2}
  Poller = poller
  Fetcher = {poller, f1, f2}
  MaxPhotos = 2
  MaxFailures = 1
  Account = {me, ann}
  Me = me
  Removable = {ann}
  Renderers = {socket}
  MaxChanges = 1
  Pid = {1, 2}
  App = {game, runtime, proton}
  Tools = {runtime}
  NonGames = {proton}
  Installed = {runtime, proton}
  Nothing = Nothing
  MaxStarts = 3
INVARIANTS ListedIsServed NeverOlder
PROPERTIES Converges ShowsTheRoom FollowsTheGame
