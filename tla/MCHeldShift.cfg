SPECIFICATION Spec
CONSTANTS
  FirstYear = 2015
  LastYear = 2033
  Day = 24
  MaxCalls = 2
  MaxLabels = 4
  Rules <- MCRules
  Made <- MCMade
  Offered <- MCOffered
  Lengths <- MCLengths
  Horizon <- MCHorizon
  Series <- MCSeries
  Askings <- MCAskings
  Requests <- MCRequests
  Offices <- MCOffices
  Hours <- MCHours
  Frequencies <- MCFrequencies
  Targets <- MCFrequencies
  Moments <- MCMoments
PROPERTY ShiftStepsAlong
CHECK_DEADLOCK FALSE
