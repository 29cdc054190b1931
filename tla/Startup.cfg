\* A program that succeeds or fails, and kills by SIGKILL and SIGTERM.
SPECIFICATION FairSpec
CONSTANTS
  Codes <- MCCodes
  Signals <- MCSignals
  HostFiles <- MCHostFiles
INVARIANTS TypeOK ReadyBeforeRun HostEntriesStay NothingInherited HostUntouched StatusPassedOn
PROPERTIES StartUpEnds EndTogether
