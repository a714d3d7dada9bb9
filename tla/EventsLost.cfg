SPECIFICATION Spec
CONSTANTS
  s1 = s1
  s2 = s2
  s3 = s3
  s4 = s4
  acme = acme
  other = other
  Scans = {s1, s2, s3, s4}
  Orgs = {acme, other}
  Workers = {w1, w2}
  OrgOf <- MCOrgOf
  Csv <- MCCsv
  NoTable = NoTable
  Torn = Torn
  MaxRequests = 2
INVARIANT EveryRowPublished
