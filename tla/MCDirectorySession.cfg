SPECIFICATION Spec
CONSTANTS
  NoDir = NoDir
  NoShare = NoShare
  Dirs = {home, media}
  Home = home
  MountDirs = {media}
  MountParent = home
  Shares = {r1, r2}
  MaxScans = 2
  MaxChanges = 1
  MaxHistory = 2
INVARIANTS SettledListingIsCurrent ScreenTellsTheTruth NoWayBackIntoUnmounted
PROPERTIES RecoveryKeepsPlace
SYMMETRY SharesAreAlike
VIEW WhatMatters
