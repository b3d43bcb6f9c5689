\* One caller scans twice; the file fails to parse once.
CONSTANTS
  c1 = c1
  f1 = f1
  k1 = k1
  ScanCallers = {c1}
  Transcripts = {f1}
  Keys = {k1}
  KeyOf <- OneKey
  MaxLines = 2
  MaxCalls = 2
  MaxScanFaults = 1
  WaitRetryLimit = 2
SPECIFICATION ScanSpec
INVARIANT ParseErrorStaysLocal
CHECK_DEADLOCK FALSE
