\* Pairing over Bluetooth with lost commands and unasked notifications.
SPECIFICATION PairingSpec
CONSTANTS
  MaxSpontaneous = 2
  MaxEvents = 2
INVARIANT PairingInv
PROPERTY PairingEnds
CHECK_DEADLOCK FALSE
