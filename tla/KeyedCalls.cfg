\* Three calls over keys of each service, two purposes and two bodies, under
\* fairness.
CONSTANTS
  kr = kr  kl = kl  km = km  kc = kc
  Call = {c1, c2, c3}
  Key = {kr, kl, km, kc}
  create = create  upload = upload
  Purpose = {create, upload}
  Body = {b1, b2}
  Service <- MCService
  Offered <- MCOffered
  Upload = {upload}
  None = None
SPECIFICATION FairSpec
CHECK_DEADLOCK FALSE
INVARIANTS
  OneEffect AnswersHold
PROPERTIES
  CallsEnd
