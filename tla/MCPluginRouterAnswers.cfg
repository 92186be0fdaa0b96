CONSTANTS
  c1 = c1
  c2 = c2
  c3 = c3
  c4 = c4
  c5 = c5
  c6 = c6
  ws = ws
  ipc = ipc
  photos = photos
  files = files
  ghost = ghost
  Calls = {c1, c2, c3, c4}
  Channels = {ws, ipc}
  Plugins = {photos, files, ghost}
  Registered = {photos, files}
  Local = {files}
  Serial = {photos}
  ChannelOf <- QueuedChannelOf
  PluginOf <- QueuedPluginOf
  Dispatches = {}
  MaxInflight = 3
  MaxPerChannel = 2
  MaxPerPlugin = 2
  NoCall = NoCall
  NoCache = NoCache
SPECIFICATION FairSpec
PROPERTIES
  EveryCallAnswered
CHECK_DEADLOCK FALSE
