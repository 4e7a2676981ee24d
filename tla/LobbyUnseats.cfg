SPECIFICATION LobbySessionSpec
CONSTANTS
 Rooms={1,2}
 Handoff={1}
 MaxClicks=5
 MaxConns=3



CHECK_DEADLOCK FALSE
PROPERTY
  NeverUnseats
