\* Two projects and a solution; sources and references are edited at any time.
SPECIFICATION WatchSpec
CONSTANTS
  sln = sln  lib = lib  app = app
  Configs = {sln, lib, app}
  Root = sln
  Solutions = {sln}
  Layouts <- TwoProjects
  MaxClock = 3
INVARIANTS WaitsAreOver UpstreamStatusKnown EditsNotLost ConfigsCurrent
CHECK_DEADLOCK FALSE
