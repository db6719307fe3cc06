SPECIFICATION FairSpec
CONSTANTS
  Letters = {"a"}
  MaxText = 5
  MaxWords = 6
  ConfigFiles <- MCFiles
  Paths = {"p", "q"}
  Playables = {"p"}
  Listing <- MCListing
  Absolute = {"/d"}
  Valued <- MCValued
  Switches <- MCSwitches
  Bare = Bare
  Half = 8
  Long = 32
  Least = 2
  VideoBuffer = 7
  AudioBuffer = 6
INVARIANTS TypeOK ServedAsWritten SplitsAsRead
PROPERTY StartupEnds
