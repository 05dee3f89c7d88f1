SPECIFICATION FairSpec
CONSTANTS
  Confirm = 2
  Conditions = {"healthy", "nearing", "excluded", "below"}
  Faults = {"crash", "blip", "lost"}
  MaxFaults = 3
INVARIANTS
  TypeOK
PROPERTIES
  LevelsAreConfirmed
  BadStatePaged
