SPECIFICATION Spec
CONSTANTS
  p1 = p1
  p2 = p2
  Procs <- Two
  Commands <- RetryCommands
  After <- RetryAfter
  Word <- Strings
  Disk <- RetryDisk
  Directories <- RetryDirectories
  Writable <- RetryDirectories
INVARIANT LinkReady
