CONSTANTS
  Clients = {Ann, Bob}
  Peer = Peer
  PeerContacts = {Ann}
  Statuses <- MCStatuses
  Cookies = {1}
  OwnCookie = 2
  NoCookie = 3
  MaxCalls = 3
SPECIFICATION Spec
INVARIANTS TypeOK TextsAreHeard PresenceIsTold OffersArePending
PROPERTIES NetworkFallsQuiet
CHECK_DEADLOCK FALSE
