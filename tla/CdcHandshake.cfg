CONSTANTS
  Data = {zero, d1, d2, d3}
  Zero = zero
  NoMail = nomail
SPECIFICATION CdcFairSpec
INVARIANT DataStable
PROPERTIES ImplementsMailbox BusyEnds
