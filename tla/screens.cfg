SPECIFICATION ScreensLiveSpec
CONSTANTS
  MaxListeners = 2
CHECK_DEADLOCK FALSE
PROPERTIES ScreenCatchesUp NewTicketRings
