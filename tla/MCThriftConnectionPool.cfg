\* Three borrowers, two hosts; both limits are met: three connections in all,
\* two to a host, so that idle ones to one host keep the other from its second.
CONSTANTS
  Borrowers = {b1, b2, b3}
  Hosts = {h1, h2}
  Clients = {c1, c2, c3}
  mMaxConn = 3
  mMaxConnPerHost = 2
  NULL = NULL
SPECIFICATION Spec
INVARIANTS Accounting WaitsInNeed
PROPERTY GetReturns
