SPECIFICATION Spec
CONSTANTS
  MaxIds = 7
  MaxEdits = 2
  StoredDefaults <- MCStored
  Names <- MCNames
  Picked = {"reviewer"}
CHECK_DEADLOCK FALSE
INVARIANTS DraftCanBeWalked
