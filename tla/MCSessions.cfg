SPECIFICATION SessionsSpec
CONSTANTS
  Channels = {"appimage", "dmg", "portable", "setup"}
  Ops = {"update", "relaunch", "uninstall"}
  Folders0 = {"own"}
  MaxTries = 2
  ScriptDies = TRUE
  Players = {1, 2}
  Host = 1
  Seats = {0, 1, 2}
  MaxVer = 2
  MaxChanges = 3
  Rooms = {1, 2}
  Handoff = {1}
  MaxClicks = 5
  MaxConns = 3
  HostedRooms = {1}
  GuestRooms = {2, 3, 4}
  Address <- MCAddress
  Ports = {7777, 7778}
  MaxRooms = 3
  Hosts = {"h", "f"}
  Near = {"h"}
  Announcers = {"n"}
  Mute = {"m"}
  MaxProbes = 3
  MaxOpens = 3
INVARIANTS
  SessionsTypeOK
  LauncherSurvives
  HostHoldsAll
  PortIsTheRunners
PROPERTIES
  ComesBack
  PlayOpens
  SeatsArePrepared
  LookUpSettles
CHECK_DEADLOCK FALSE
