CONSTANTS
  c1 = c1
  c2 = c2
  c3 = c3
  c4 = c4
  c5 = c5
  c6 = c6
  ws = ws
  ipc = ipc
  photos = photos
  files = files
  ghost = ghost
  Calls = {c1, c2, c3, c4, c5, c6}
  Channels = {ws, ipc}
  Plugins = {photos, files, ghost}
  Registered = {photos, files}
  Local = {files}
  Serial = {files}
  ChannelOf <- MixedChannelOf
  PluginOf <- MixedPluginOf
  Dispatches = {c6}
  MaxInflight = 3
  MaxPerChannel = 2
  MaxPerPlugin = 3
  NoCall = NoCall
  NoCache = NoCache
SYMMETRY MixedSymmetry
SPECIFICATION Spec
INVARIANTS
  Inv
  NoChannelStarved
  SerialInOrder
  DisownedNotTrusted
CHECK_DEADLOCK FALSE
