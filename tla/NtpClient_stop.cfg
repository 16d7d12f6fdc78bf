SPECIFICATION NtpSpec
CONSTANTS
  NtpCallers = {c1}
  NtpDaemons = {d1, d2}
  NtpServers = {s1, s2}
  NumSamples = 2
  NtpRetries = 1
  Selections = 1
  OffsetBits = 3
  Magnitudes = {3}
  NtpCalls = 3
INVARIANTS
  StopIsAnswered
CHECK_DEADLOCK FALSE
