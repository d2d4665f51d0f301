SPECIFICATION FairSpec
CONSTANTS
  p1 = p1
  p2 = p2
  Procs <- Two
  Commands <- TwoCommands
  After <- TwoAfter
  Word <- Strings
  Disk <- TwoDisk
  Directories <- TwoDirectories
  Writable <- TwoWritable
INVARIANTS DriverTypeOK LinkReady NoSharing TempsRemoved
PROPERTIES Delivers Terminates
